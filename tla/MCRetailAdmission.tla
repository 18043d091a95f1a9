------------------------- MODULE MCRetailAdmission -------------------------
(***************************************************************************)
(* Small instances of RetailAdmission for TLC.                             *)
(***************************************************************************)
EXTENDS RetailAdmission, TLC

CONSTANTS w1, w2, r1, r2, r3, s1, s2, b1, b2, old, new

\* r1 and r2 share a subject and type; r3 is another subject's.
MCBucketOf == [r \in Request |-> IF r = r3 THEN s2 ELSE s1]

\* A redeploy with a changed registry binds the State Ping r1 differently.
MCSourceBinding == [b \in Build |-> [r \in Request |->
                       IF r = r1 /\ b = new THEN b2 ELSE b1]]

\* The processes are alike.
MCProcesses == Permutations(Worker)
=============================================================================
