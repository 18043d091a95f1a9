-------------------------- MODULE MCRetailService --------------------------
(***************************************************************************)
(* A small instance of RetailService for TLC. Two processes that may be    *)
(* started with different registries are otherwise interchangeable.        *)
(***************************************************************************)
EXTENDS RetailService, TLC

CONSTANTS w1, w2, r1, s1, b1, b2, t1, old, new

MCBucketOf == [r \in Request |-> s1]

\* A redeploy with a changed registry binds the request differently.
MCSourceBinding == [b \in Build |-> [r \in Request |-> IF b = new THEN b2 ELSE b1]]
MCRendering == [b \in Build |-> [u \in Request \X Binding |-> "body"]]
MCBody == {"body"}
MCWorkers == Permutations(Worker)
=============================================================================
