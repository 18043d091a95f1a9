------------------------ MODULE MCRetailDeliveryLive ------------------------
(***************************************************************************)
(* A small instance of RetailDeliveryLive for TLC: two workers, one        *)
(* resource, one settlement, one build.                                    *)
(***************************************************************************)
EXTENDS RetailDeliveryLive, TLC

CONSTANTS w1, w2, r1, r2, none, t1, now

MCBody == {"first"}
MCBinding == [b \in Build |-> [r \in Request |-> none]]
MCRendering == [b \in Build |-> [u \in Uri |-> "first"]]
=============================================================================
