-------------------------- MODULE MCRetailDelivery --------------------------
(***************************************************************************)
(* Small instances of RetailDelivery for TLC.                              *)
(***************************************************************************)
EXTENDS RetailDelivery, TLC

CONSTANTS w1, w2, r1, r2, none, t1, old, new

MCBody == {"first", "second"}

\* Two builds with one source registry whose code renders differently; the
\* second one cannot render r2 within the size limit.
MCSameBinding == [b \in Build |-> [r \in Request |-> none]]
MCTwoRenderings ==
    [b \in Build |-> [u \in Uri |->
        IF b = old THEN "first"
        ELSE IF u[1] = r1 THEN "second" ELSE Oversized]]
=============================================================================
