------------------------ MODULE MCContextAccounting ------------------------
(***************************************************************************)
(* Small instances of ContextAccounting for TLC. Threads are symmetric.    *)
(***************************************************************************)
EXTENDS ContextAccounting, TLC

CONSTANTS c1, c2, c3

Threads == Permutations(Caller)
=============================================================================
