---------------------- MODULE ContextAccountingProofs ----------------------
(***************************************************************************)
(* Proofs about ContextAccounting for any number of threads, any quota,    *)
(* funds, cost and budget, and any number of restarts.                     *)
(***************************************************************************)
EXTENDS ContextAccounting, FiniteSetTheorems, TLAPS

\* Moving a thread keeps pc and job well-typed.
LEMMA MoveType ==
    ASSUME TypeOK, NEW c \in Caller, NEW s \in Step, NEW v \in Nat,
           Proceed(c, s) \/ Keep(c, s, v) \/ Finish(c) \/ Unbilled(c)
    PROVE  pc' \in [Caller -> Step] /\ job' \in [Caller -> Job]
<1>1. NoJob \in Job
  BY DEF NoJob, Job
<1>2. job[c] \in Job
  BY DEF TypeOK
<1>3. [job[c] EXCEPT !.read = v] \in Job
  BY <1>2 DEF Job
<1>4. "idle" \in Step /\ "balance" \in Step
  BY DEF Step
<1>5. pc' \in [Caller -> Step]
  BY <1>4 DEF Proceed, Keep, Finish, Unbilled, Goto, TypeOK
<1>6. CASE Proceed(c, s)
  BY <1>5, <1>6 DEF Proceed, TypeOK
<1>7. CASE Keep(c, s, v)
  BY <1>3, <1>5, <1>7 DEF Keep, TypeOK
<1>8. CASE Finish(c)
  BY <1>1, <1>5, <1>8 DEF Finish, TypeOK
<1>9. CASE Unbilled(c)
  <2>1. [job[c] EXCEPT !.kind = "unbilled"] \in Job
    BY <1>2 DEF Job
  <2> QED
    BY <1>5, <1>9, <2>1 DEF Unbilled, TypeOK
<1> QED
  BY <1>6, <1>7, <1>8, <1>9

\* The initial state is well-typed.
LEMMA TypeInit == Init => TypeOK
<1> SUFFICES ASSUME Init PROVE TypeOK
  OBVIOUS
<1>1. NoJob \in Job
  BY DEF NoJob, Job
<1> QED
  BY <1>1, AccountingAssumption DEF Init, TypeOK, Step, Account

\* No action of a thread, nor a restart, leaves the types.
LEMMA TypeStep == TypeOK /\ [Next]_vars => TypeOK'
<1> SUFFICES ASSUME TypeOK, [Next]_vars PROVE TypeOK'
  OBVIOUS
<1> USE AccountingAssumption
<1> DEFINE Moved == pc' \in [Caller -> Step] /\ job' \in [Caller -> Job]
<1>0. ASSUME NEW c \in Caller
      PROVE  job[c].read \in Nat /\ job[c].size \in Nat
  <2>1. job[c] \in Job
    BY DEF TypeOK
  <2> QED
    BY <2>1 DEF Job
<1>1. ASSUME NEW c \in Caller,
             NEW kind \in {"context", "count"}, NEW size \in Nat,
             Receive(c, kind, size)
      PROVE  TypeOK'
  <2>1. [kind |-> kind, size |-> size, read |-> 0] \in Job
    BY DEF Job
  <2> QED
    BY <1>1, <2>1 DEF Receive, Goto, TypeOK, Step, usage, meter, dues, purse,
       budget
<1>2. ASSUME NEW c \in Caller,
             CheckQuota(c) \/ RateLimited(c) \/ Stop(c) \/ Veto(c)
      PROVE  TypeOK'
  <2>1. Moved
    BY <1>2, MoveType DEF CheckQuota, RateLimited, Stop, Veto, Step
  <2> QED
    BY <1>2, <2>1 DEF CheckQuota, RateLimited, Stop, Veto, TypeOK, usage,
       meter, dues, purse, budget
<1>3. ASSUME NEW c \in Caller, Track(c) PROVE TypeOK'
  <2>1. Moved
    BY <1>3, MoveType DEF Track, Step
  <2> QED
    BY <1>3, <2>1 DEF Track, TypeOK, meter, dues, purse, budget
<1>4. ASSUME NEW c \in Caller, DumpUsage(c) PROVE TypeOK'
  <2>1. Moved
    BY <1>4, MoveType DEF DumpUsage, Step, TypeOK
  <2>2. sharing' \subseteq Caller
    BY <1>4 DEF DumpUsage, TypeOK
  <2> QED
    BY <1>4, <2>1, <2>2 DEF DumpUsage, TypeOK, meter, dues, purse, budget
<1>5. ASSUME NEW c \in Caller, WriteUsage(c) PROVE TypeOK'
  <2>1. Moved
    BY <1>5, MoveType DEF WriteUsage, Step
  <2>2. usageFile' \in Nat
    BY <1>0, <1>5 DEF WriteUsage, Saved, Dumped, TypeOK
  <2> QED
    BY <1>5, <2>1, <2>2 DEF WriteUsage, TypeOK, meter, dues, purse, budget
<1>6. ASSUME NEW c \in Caller, Meter(c) PROVE TypeOK'
  <2>1. calls' \in Nat /\ made' \in Nat /\ callsFile' \in Nat
    BY <1>6 DEF Meter, TypeOK
  <2>2. Moved
    BY <1>6, <2>1, MoveType DEF Meter, Step
  <2> QED
    BY <1>6, <2>1, <2>2 DEF Meter, TypeOK, usage, dues, purse, budget
<1>7. ASSUME NEW c \in Caller, Summary(c) PROVE TypeOK'
  <2>1. [kind |-> "summary", size |-> 0, read |-> calls] \in Job
    BY DEF Job, TypeOK
  <2> QED
    BY <1>7, <2>1 DEF Summary, Goto, TypeOK, Step, usage, meter, dues, purse,
       budget
<1>8. ASSUME NEW c \in Caller, Sync(c) PROVE TypeOK'
  <2>1. Moved
    BY <1>8, MoveType DEF Sync, Step
  <2>2. billed' \in Nat /\ billedFile' \in Nat
    BY <1>0, <1>8 DEF Sync, Saved, Beyond, TypeOK
  <2> QED
    BY <1>8, <2>1, <2>2 DEF Sync, TypeOK, usage, meter, purse, budget
<1>9. ASSUME NEW c \in Caller, ReadBudget(c) PROVE TypeOK'
  <2>1. Moved
    BY <1>9, MoveType DEF ReadBudget, Step, TypeOK
  <2> QED
    BY <1>9, <2>1 DEF ReadBudget, TypeOK, usage, meter, dues, purse, budget
<1>10. ASSUME NEW c \in Caller, SpendBudget(c) PROVE TypeOK'
  <2>1. Moved
    BY <1>10, MoveType DEF SpendBudget, Step
  <2>2. consumed' \in Nat /\ admitted' \in Nat
    BY <1>0, <1>10 DEF SpendBudget, Least, Beyond, TypeOK
  <2> QED
    BY <1>10, <2>1, <2>2 DEF SpendBudget, TypeOK, usage, meter, dues, purse
<1>11. ASSUME NEW c \in Caller, CheckBalance(c) PROVE TypeOK'
  <2>1. ledger.balance \in Nat /\ ledgerFile' \in Account
    BY <1>11 DEF CheckBalance, Saved, TypeOK, Account
  <2>2. Moved
    BY <1>11, <2>1, MoveType DEF CheckBalance, Step
  <2> QED
    BY <1>11, <2>1, <2>2 DEF CheckBalance, TypeOK, usage, meter, dues, budget
<1>12. ASSUME NEW c \in Caller, Debit(c) PROVE TypeOK'
  <2>1. ledger' \in Account
    BY <1>12 DEF Debit, Beyond, TypeOK, Account
  <2>2. ledgerFile' \in Account
    BY <1>12, <2>1 DEF Debit, Saved, TypeOK
  <2>3. Moved
    BY <1>12, MoveType DEF Debit, Step
  <2> QED
    BY <1>12, <2>1, <2>2, <2>3 DEF Debit, TypeOK, usage, meter, dues, budget
<1>13. ASSUME NEW c \in Caller, OpenAccount(c) \/ ShowBalance(c)
       PROVE  TypeOK'
  <2>1. ledgerFile' \in Account
    BY <1>13 DEF OpenAccount, ShowBalance, Saved, TypeOK
  <2>2. CASE OpenAccount(c)
    <3>1. Moved
      BY <2>2, MoveType DEF OpenAccount, Step
    <3> QED
      BY <2>1, <2>2, <3>1 DEF OpenAccount, TypeOK, usage, meter, dues, budget
  <2>3. CASE ShowBalance(c)
    BY <2>1, <2>3 DEF ShowBalance, TypeOK, usage, meter, dues, budget
  <2> QED
    BY <1>13, <2>2, <2>3
<1>14. ASSUME NEW c \in Caller, CountProof(c) \/ BindWallet(c)
       PROVE  TypeOK'
  BY <1>14 DEF CountProof, BindWallet, Saved, TypeOK, usage, meter, dues,
     purse, budget
<1>15. CASE Restart
  <2>1. NoJob \in Job /\ "idle" \in Step
    BY DEF NoJob, Job, Step
  <2> QED
    BY <1>15, <2>1 DEF Restart, TypeOK
<1>16. CASE UNCHANGED vars
  BY <1>16 DEF vars, TypeOK, usage, meter, dues, purse, budget
<1> QED
  BY <1>1, <1>2, <1>3, <1>4, <1>5, <1>6, <1>7, <1>8, <1>9, <1>10, <1>11,
     <1>12, <1>13, <1>14, <1>15, <1>16 DEF Next, Serve

\* Every reachable state is well-typed.
THEOREM TypeCorrect == Spec => []TypeOK
  BY TypeInit, TypeStep, PTL DEF Spec
-----------------------------------------------------------------------------
\* The threads at a step, and how many there are after one of them moves.
At(s) == {c \in Caller : pc[c] = s}

\* The threads at a step can be counted.
LEMMA AtFinite ==
    ASSUME NEW s
    PROVE  /\ IsFiniteSet(At(s)) /\ Cardinality(At(s)) \in Nat
           /\ Cardinality(At(s)) <= Cardinality(Caller)
           /\ Cardinality(Caller) \in Nat
  BY AccountingAssumption, FS_Subset, FS_CardinalityType DEF At

\* There is a thread, and their number is a number.
LEMMA SomeCaller == Cardinality(Caller) \in Nat /\ Cardinality(Caller) >= 1
  BY AccountingAssumption, FS_CardinalityType, FS_EmptySet

\* A thread that arrives at a step is one more there.
LEMMA Enter ==
    ASSUME NEW s, NEW c \in Caller, pc[c] # s,
           pc \in [Caller -> Step], pc' = [pc EXCEPT ![c] = s]
    PROVE  /\ Cardinality(At(s)') = Cardinality(At(s)) + 1
           /\ Cardinality(At(s)') <= Cardinality(Caller)
<1>1. At(s)' = At(s) \cup {c} /\ c \notin At(s)
  BY DEF At
<1>2. Cardinality(At(s) \cup {c}) = Cardinality(At(s)) + 1
  BY <1>1, AtFinite, FS_AddElement
<1>3. Cardinality(At(s) \cup {c}) <= Cardinality(Caller)
  BY AccountingAssumption, FS_Subset DEF At
<1> QED
  BY <1>1, <1>2, <1>3

\* A thread that leaves a step is one less there.
LEMMA Leave ==
    ASSUME NEW s, NEW t, NEW c \in Caller, pc[c] = s, t # s,
           pc \in [Caller -> Step], pc' = [pc EXCEPT ![c] = t]
    PROVE  Cardinality(At(s)') = Cardinality(At(s)) - 1
<1>1. At(s)' = At(s) \ {c} /\ c \in At(s)
  BY DEF At
<1> QED
  BY <1>1, AtFinite, FS_RemoveElement

\* A thread that moves between other steps changes nothing there.
LEMMA Elsewhere ==
    ASSUME NEW s, NEW t, NEW c \in Caller, pc[c] # s, t # s,
           pc \in [Caller -> Step], pc' = [pc EXCEPT ![c] = t]
    PROVE  At(s)' = At(s)
  BY DEF At
-----------------------------------------------------------------------------
\* The quota invariant counts the threads past the comparison, and bounds
\* what a save under way or a restart may bring back.
Most == Quota + Cardinality(Caller) - 1
QuotaInv ==
    /\ total + Cardinality(At("track")) <= Most
    /\ usageFile <= Most
    /\ \A c \in Caller : pc[c] = "write" => job[c].read <= Most

\* Threads are only added to those past the comparison by CheckQuota.
LEMMA QuotaStep == TypeOK /\ QuotaInv /\ [Next]_vars => QuotaInv'
<1> SUFFICES ASSUME TypeOK, QuotaInv, [Next]_vars PROVE QuotaInv'
  OBVIOUS
<1> USE AccountingAssumption, SomeCaller
<1>0. pc \in [Caller -> Step] /\ total \in Nat /\ usageFile \in Nat
      /\ Most \in Nat /\ Cardinality(At("track")) \in Nat
      /\ total <= Most
  BY AtFinite DEF TypeOK, QuotaInv, Most
<1> DEFINE Reads == \A c \in Caller : pc[c] = "write" => job[c].read <= Most
<1>1. ASSUME NEW c \in Caller,
             NEW kind \in {"context", "count"}, NEW size \in Nat,
             Receive(c, kind, size)
      PROVE  QuotaInv'
  <2>1. At("track")' = At("track")
    BY <1>0, <1>1, Elsewhere DEF Receive, Goto
  <2> QED
    BY <1>0, <1>1, <2>1 DEF Receive, Goto, QuotaInv, Most, usage, TypeOK
<1>2. ASSUME NEW c \in Caller, CheckQuota(c) PROVE QuotaInv'
  <2>1. UNCHANGED <<total, usageFile>> /\ Reads'
    BY <1>0, <1>2 DEF CheckQuota, Proceed, Finish, Goto, QuotaInv, usage,
       TypeOK
  <2>2. CASE total < Quota
    <3>1. pc[c] = "quota" /\ pc' = [pc EXCEPT ![c] = "track"]
      BY <1>2, <2>2 DEF CheckQuota, Proceed, Goto
    <3>2. Cardinality(At("track")') <= Cardinality(Caller)
          /\ Cardinality(At("track")') = Cardinality(At("track")) + 1
      BY <1>0, <3>1, Enter
    <3> QED
      BY <1>0, <2>1, <2>2, <3>2 DEF QuotaInv, Most
  <2>3. CASE ~(total < Quota)
    <3>1. At("track")' = At("track")
      BY <1>0, <1>2, <2>3, Elsewhere DEF CheckQuota, Finish, Goto
    <3> QED
      BY <2>1, <3>1 DEF QuotaInv, Most
  <2> QED
    BY <2>2, <2>3
<1>3. ASSUME NEW c \in Caller, RateLimited(c) \/ Track(c) PROVE QuotaInv'
  <2>1. /\ pc[c] = "track"
        /\ \/ pc' = [pc EXCEPT ![c] = "idle"]
           \/ pc' = [pc EXCEPT ![c] = "dump"]
    BY <1>3 DEF RateLimited, Track, Proceed, Finish, Goto
  <2>2. Cardinality(At("track")') = Cardinality(At("track")) - 1
    <3>0. pc[c] = "track" /\ pc \in [Caller -> Step]
      BY <1>0, <2>1
    <3>1. CASE pc' = [pc EXCEPT ![c] = "idle"]
      <4>1. "idle" # "track"
        OBVIOUS
      <4> QED
        BY <3>0, <3>1, <4>1, Leave
    <3>2. CASE pc' = [pc EXCEPT ![c] = "dump"]
      <4>1. "dump" # "track"
        OBVIOUS
      <4> QED
        BY <3>0, <3>2, <4>1, Leave
    <3> QED
      BY <2>1, <3>1, <3>2
  <2>3. usageFile' = usageFile /\ total' \in {total, total + 1} /\ Reads'
    BY <1>0, <1>3 DEF RateLimited, Track, Proceed, Finish, Goto, QuotaInv,
       usage, TypeOK
  <2> QED
    BY <1>0, <2>2, <2>3 DEF QuotaInv, Most
<1>4. ASSUME NEW c \in Caller, DumpUsage(c) PROVE QuotaInv'
  <2>1. At("track")' = At("track")
    BY <1>0, <1>4, Elsewhere DEF DumpUsage, Keep, Goto
  <2> QED
    BY <1>0, <1>4, <2>1 DEF DumpUsage, Keep, Goto, QuotaInv, Most, TypeOK
<1>5. ASSUME NEW c \in Caller, WriteUsage(c) PROVE QuotaInv'
  <2>1. At("track")' = At("track")
    BY <1>0, <1>5, Elsewhere DEF WriteUsage, Proceed, Finish, Goto
  <2>2. usageFile' <= Most
    BY <1>0, <1>5 DEF WriteUsage, Saved, Dumped, QuotaInv
  <2>3. Reads'
    BY <1>0, <1>5 DEF WriteUsage, Proceed, Finish, Goto, QuotaInv, TypeOK
  <2> QED
    BY <1>0, <1>5, <2>1, <2>2, <2>3 DEF WriteUsage, QuotaInv, Most
<1>6. ASSUME NEW c \in Caller,
             \/ Meter(c) \/ Summary(c) \/ Sync(c) \/ Stop(c) \/ Veto(c)
             \/ ReadBudget(c) \/ SpendBudget(c) \/ OpenAccount(c)
             \/ CheckBalance(c) \/ Debit(c)
      PROVE  QuotaInv'
  <2>1. PICK s \in Step \ {"track", "write"} : pc' = [pc EXCEPT ![c] = s]
    BY <1>6 DEF Meter, Summary, Sync, Stop, Veto, ReadBudget, SpendBudget,
       OpenAccount, CheckBalance, Debit, Proceed, Keep, Finish, Unbilled,
       Goto, Step
  <2>2. pc[c] \notin {"track", "write"}
    BY <1>6 DEF Meter, Summary, Sync, Stop, Veto, ReadBudget, SpendBudget,
       OpenAccount, CheckBalance, Debit
  <2>3. At("track")' = At("track")
    BY <1>0, <2>1, <2>2, Elsewhere
  <2>4. UNCHANGED usage /\ \A d \in Caller \ {c} : job'[d] = job[d]
    BY <1>6 DEF Meter, Summary, Sync, Stop, Veto, ReadBudget, SpendBudget,
       OpenAccount, CheckBalance, Debit, Proceed, Keep, Finish, Unbilled,
       TypeOK
  <2> QED
    BY <1>0, <2>1, <2>3, <2>4 DEF QuotaInv, Most, usage
<1>7. CASE Restart
  <2>1. At("track")' = {}
    BY <1>7 DEF Restart, At
  <2>2. Cardinality(At("track")') = 0
    BY <2>1, FS_EmptySet
  <2>3. total' <= Most /\ usageFile' <= Most /\ Reads'
    BY <1>7 DEF Restart, QuotaInv
  <2>4. total' \in Nat
    BY <1>0, <1>7 DEF Restart
  <2> QED
    BY <1>0, <2>2, <2>3, <2>4 DEF QuotaInv, Most
<1>8. ASSUME NEW c \in Caller,
             ShowBalance(c) \/ CountProof(c) \/ BindWallet(c)
      PROVE  QuotaInv'
  <2>1. At("track")' = At("track")
    BY <1>8 DEF At, ShowBalance, CountProof, BindWallet
  <2> QED
    BY <1>8, <2>1 DEF ShowBalance, CountProof, BindWallet, usage, QuotaInv,
       Most
<1>9. CASE UNCHANGED vars
  <2>1. At("track")' = At("track")
    BY <1>9 DEF At, vars
  <2> QED
    BY <1>9, <2>1 DEF vars, usage, QuotaInv, Most
<1> QED
  BY <1>1, <1>2, <1>3, <1>4, <1>5, <1>6, <1>7, <1>8, <1>9
     DEF Next, Serve

\* No thread is past the comparison at the start.
LEMMA QuotaInit == Init => QuotaInv
<1> SUFFICES ASSUME Init PROVE QuotaInv
  OBVIOUS
<1>1. At("track") = {}
  BY DEF Init, At
<1>2. Cardinality(At("track")) = 0
  BY <1>1, FS_EmptySet
<1>3. \A c \in Caller : pc[c] # "write"
  BY DEF Init
<1>4. total = 0 /\ usageFile = 0 /\ Quota \in Nat
  BY AccountingAssumption DEF Init
<1> QED
  BY <1>2, <1>3, <1>4, SomeCaller DEF QuotaInv, Most

\* The quota of a key is overrun by less than the number of threads.
THEOREM QuotaOverrun == Spec => []QuotaOverrunBounded
<1>1. TypeOK /\ QuotaInv => QuotaOverrunBounded
  BY AtFinite, SomeCaller, AccountingAssumption
     DEF TypeOK, QuotaInv, QuotaOverrunBounded, Most
<1> QED
  BY <1>1, QuotaInit, QuotaStep, TypeCorrect, PTL DEF Spec
-----------------------------------------------------------------------------
\* No count anywhere, in memory, on disk or on its way to the account, is
\* more than the calls that were metered.
MeterInv ==
    /\ calls <= made /\ callsFile <= made
    /\ \A c \in Caller : pc[c] = "sync" => job[c].read <= made
    /\ NeverOverbilled

\* What is beyond the free allowance grows with the count.
LEMMA BeyondGrows ==
    ASSUME NEW a \in Nat, NEW b \in Nat, NEW n \in Nat, a <= b
    PROVE  /\ Beyond(a, n) <= Beyond(b, n)
           /\ Beyond(a, n) \in Nat /\ Beyond(b, n) \in Nat
  BY DEF Beyond

\* The counts follow the calls metered: only Meter raises both.
LEMMA MeterStep == TypeOK /\ MeterInv /\ [Next]_vars => MeterInv'
<1> SUFFICES ASSUME TypeOK, MeterInv, [Next]_vars PROVE MeterInv'
  OBVIOUS
<1> USE AccountingAssumption
<1> DEFINE Reads == \A c \in Caller : pc[c] = "sync" => job[c].read <= made
<1>0. /\ pc \in [Caller -> Step] /\ job \in [Caller -> Job]
      /\ calls \in Nat /\ made \in Nat /\ callsFile \in Nat
      /\ billed \in Nat /\ billedFile \in Nat /\ Free \in Nat
      /\ \A c \in Caller : job[c] \in Job
  BY DEF TypeOK
<1>1. ASSUME NEW c \in Caller, Meter(c) PROVE MeterInv'
  <2>1. calls' <= made' /\ callsFile' <= made' /\ made' \in Nat /\ made <= made'
    BY <1>0, <1>1 DEF Meter, MeterInv
  <2>2. NeverOverbilled'
    <3>0. made \in Nat /\ made' \in Nat /\ Free \in Nat /\ made <= made'
      BY <1>0, <2>1
    <3>1. Beyond(made, Free) <= Beyond(made', Free)
          /\ Beyond(made, Free) \in Nat /\ Beyond(made', Free) \in Nat
      BY <3>0, BeyondGrows
    <3> QED
      BY <1>0, <1>1, <3>1 DEF Meter, MeterInv, NeverOverbilled, dues
  <2>3. ASSUME NEW d \in Caller, pc'[d] = "sync" PROVE job'[d].read <= made'
    <3>1. CASE d = c
      <4>1. job'[c].read = calls'
        BY <1>0, <1>1, <2>3, <3>1 DEF Meter, Proceed, Keep, Goto, Job
      <4> QED
        BY <2>1, <3>1, <4>1
    <3>2. CASE d # c
      <4>1. pc[d] = "sync" /\ job'[d] = job[d] /\ job[d].read \in Nat
        BY <1>0, <1>1, <2>3, <3>2 DEF Meter, Proceed, Keep, Goto, Job
      <4> QED
        BY <1>0, <2>1, <4>1 DEF MeterInv
    <3> QED
      BY <3>1, <3>2
  <2> QED
    BY <2>1, <2>2, <2>3 DEF MeterInv
<1>2. ASSUME NEW c \in Caller, Summary(c) PROVE MeterInv'
  <2>1. Reads'
    BY <1>0, <1>2 DEF Summary, Goto, MeterInv, meter
  <2> QED
    BY <1>2, <2>1 DEF Summary, MeterInv, NeverOverbilled, meter, dues
<1>3. ASSUME NEW c \in Caller, Sync(c) PROVE MeterInv'
  <2>1. Reads'
    BY <1>0, <1>3 DEF Sync, Proceed, Finish, Goto, MeterInv, meter
  <2>2. job[c].read \in Nat /\ job[c].read <= made
    BY <1>0, <1>3 DEF Sync, MeterInv, Job
  <2>3. billed' <= Beyond(made, Free)
    BY <1>0, <1>3, <2>2, BeyondGrows DEF Sync
  <2>4. billedFile' <= Beyond(made, Free)
    BY <1>3, <2>3 DEF Sync, Saved, MeterInv, NeverOverbilled
  <2> QED
    BY <1>3, <2>1, <2>3, <2>4 DEF Sync, MeterInv, NeverOverbilled, meter
<1>4. ASSUME UNCHANGED <<meter, dues>>, NEW c \in Caller,
             \E s \in Step \ {"sync"} : pc' = [pc EXCEPT ![c] = s],
             \A d \in Caller \ {c} : job'[d] = job[d]
      PROVE  MeterInv'
  BY <1>0, <1>4 DEF MeterInv, NeverOverbilled, meter, dues
<1>5. ASSUME NEW c \in Caller,
             NEW kind \in {"context", "count"}, NEW size \in Nat,
             Receive(c, kind, size)
      PROVE  MeterInv'
  BY <1>0, <1>4, <1>5 DEF Receive, Goto, Step
<1>6. ASSUME NEW c \in Caller,
             \/ CheckQuota(c) \/ RateLimited(c) \/ Track(c) \/ DumpUsage(c)
             \/ WriteUsage(c) \/ Stop(c) \/ Veto(c) \/ ReadBudget(c)
             \/ SpendBudget(c) \/ OpenAccount(c) \/ CheckBalance(c) \/ Debit(c)
      PROVE  MeterInv'
  <2>1. UNCHANGED <<meter, dues>>
    BY <1>6 DEF CheckQuota, RateLimited, Track, DumpUsage, WriteUsage, Stop,
       Veto, ReadBudget, SpendBudget, OpenAccount, CheckBalance, Debit
  <2>2. \E s \in Step \ {"sync"} : pc' = [pc EXCEPT ![c] = s]
    BY <1>6 DEF CheckQuota, RateLimited, Track, DumpUsage, WriteUsage, Stop,
       Veto, ReadBudget, SpendBudget, OpenAccount, CheckBalance, Debit,
       Proceed, Keep, Finish, Unbilled, Goto, Step
  <2>3. \A d \in Caller \ {c} : job'[d] = job[d]
    BY <1>0, <1>6 DEF CheckQuota, RateLimited, Track, DumpUsage, WriteUsage,
       Stop, Veto, ReadBudget, SpendBudget, OpenAccount, CheckBalance, Debit,
       Proceed, Keep, Finish, Unbilled
  <2> QED
    BY <1>4, <2>1, <2>2, <2>3
<1>7. CASE Restart
  BY <1>0, <1>7 DEF Restart, MeterInv, NeverOverbilled
<1>8. CASE UNCHANGED vars
  BY <1>8 DEF vars, meter, dues, MeterInv, NeverOverbilled
<1>9. ASSUME NEW c \in Caller,
             ShowBalance(c) \/ CountProof(c) \/ BindWallet(c)
      PROVE  MeterInv'
  BY <1>9 DEF ShowBalance, CountProof, BindWallet, Saved, meter, dues,
     MeterInv, NeverOverbilled
<1> QED
  BY <1>1, <1>2, <1>3, <1>5, <1>6, <1>7, <1>8, <1>9, AccountingAssumption
     DEF Next, Serve

\* Nobody is billed for a decision that was not metered beyond the free ones.
THEOREM Overbilling == Spec => []NeverOverbilled
<1>1. Init => MeterInv
  BY AccountingAssumption DEF Init, MeterInv, NeverOverbilled, Beyond
<1>2. MeterInv => NeverOverbilled
  BY DEF MeterInv
<1> QED
  BY <1>1, <1>2, MeterStep, TypeCorrect, PTL DEF Spec
-----------------------------------------------------------------------------
\* What no ledger reaches.
Bound == Funds + Cardinality(Caller) * Cost

\* The debits of the history and those still to come, of the threads past the
\* comparison, stay below the bound together.
LedgerInv ==
    /\ LedgerAddsUp
    /\ (ledger.debits + Cardinality(At("debit"))) * Cost < Bound
    /\ ledgerFile.debits * Cost < Bound

\* Products of numbers of debits and the cost.
LEMMA OneMore ==
    ASSUME NEW n \in Nat, NEW m \in Nat PROVE (n + 1) * m = n * m + m
  OBVIOUS

\* More debits cost more.
LEMMA Growing ==
    ASSUME NEW n \in Nat, NEW k \in Nat, NEW m \in Nat, n <= k
    PROVE  n * m <= k * m
  OBVIOUS

\* One more debit keeps the balance the funds less the debits.
LEMMA DebitAddsUp ==
    ASSUME NEW e \in Account, AddsUp(e), NEW f \in Account,
           f.balance = Beyond(e.balance, Cost), f.debits = e.debits + 1
    PROVE  AddsUp(f)
<1>1. e.balance \in Nat /\ e.debits \in Nat /\ Cost \in Nat /\ Funds \in Nat
  BY AccountingAssumption DEF Account
<1>2. f.debits * Cost = e.debits * Cost + Cost /\ e.debits * Cost \in Nat
  BY <1>1, OneMore
<1> QED
  BY <1>1, <1>2 DEF AddsUp, Beyond

\* While the balance covers a decision, the debits are within the funds.
LEMMA Covered ==
    ASSUME NEW e \in Account, AddsUp(e), e.balance >= Cost
    PROVE  e.debits * Cost + Cost <= Funds
<1>1. e.balance \in Nat /\ e.debits \in Nat /\ Cost \in Nat /\ Funds \in Nat
      /\ Cost > 0
  BY AccountingAssumption DEF Account
<1>2. e.debits * Cost \in Nat
  BY <1>1
<1> QED
  BY <1>1, <1>2 DEF AddsUp, Beyond

\* What is debited is below any bound on what may ever be.
LEMMA Below ==
    ASSUME NEW d \in Nat, NEW p \in Nat, NEW k \in Nat, NEW bound \in Nat,
           (d + p) * k < bound
    PROVE  d * k < bound
<1>1. d * k <= (d + p) * k
  BY Growing
<1>2. d * k \in Nat /\ (d + p) * k \in Nat
  OBVIOUS
<1> QED
  BY <1>1, <1>2

\* The bound is a positive number.
LEMMA BoundType ==
    /\ Funds \in Nat /\ Cost \in Nat /\ Cost > 0
    /\ Cardinality(Caller) * Cost \in Nat
    /\ Bound \in Nat /\ Funds + Cost <= Bound
<1>1. Funds \in Nat /\ Cost \in Nat /\ Cost > 0
  BY AccountingAssumption
<1>2. 1 * Cost <= Cardinality(Caller) * Cost
  BY <1>1, SomeCaller, Growing
<1>3. Cardinality(Caller) * Cost \in Nat
  BY <1>1, SomeCaller
<1> QED
  BY <1>1, <1>2, <1>3 DEF Bound

\* While the balance covers a decision, every thread may be past the
\* comparison.
LEMMA Room ==
    ASSUME NEW e \in Account, AddsUp(e), e.balance >= Cost,
           NEW p \in Nat, p <= Cardinality(Caller)
    PROVE  (e.debits + p) * Cost < Bound
<1>1. e.debits \in Nat /\ Cost \in Nat
  BY BoundType DEF Account
<1>2. (e.debits + p) * Cost = e.debits * Cost + p * Cost
  BY <1>1
<1>3. p * Cost <= Cardinality(Caller) * Cost
  BY <1>1, SomeCaller, Growing
<1>4. e.debits * Cost + Cost <= Funds
  BY Covered
<1>5. e.debits * Cost \in Nat /\ p * Cost \in Nat
  BY <1>1
<1> QED
  BY <1>2, <1>3, <1>4, <1>5, BoundType DEF Bound

\* CheckBalance reserves room for one more debit, Debit takes it.
LEMMA LedgerStep == TypeOK /\ LedgerInv /\ [Next]_vars => LedgerInv'
<1> SUFFICES ASSUME TypeOK, LedgerInv, [Next]_vars PROVE LedgerInv'
  OBVIOUS
<1> DEFINE D == ledger.debits
           P == Cardinality(At("debit"))
<1>0. /\ pc \in [Caller -> Step] /\ ledger \in Account /\ ledgerFile \in Account
      /\ D \in Nat /\ P \in Nat /\ P <= Cardinality(Caller)
      /\ ledger.balance \in Nat
  BY AtFinite DEF TypeOK, Account
<1>1. D * Cost < Bound
  BY <1>0, BoundType, Below DEF LedgerInv
<1>2. ASSUME UNCHANGED purse, NEW c \in Caller, pc[c] # "debit",
             NEW s \in Step \ {"debit"}, pc' = [pc EXCEPT ![c] = s]
      PROVE  LedgerInv'
  <2>1. At("debit")' = At("debit")
    BY <1>0, <1>2, Elsewhere
  <2> QED
    BY <1>2, <2>1 DEF LedgerInv, LedgerAddsUp, AddsUp, purse, Bound
<1>3. ASSUME NEW c \in Caller, CheckBalance(c) PROVE LedgerInv'
  <2>1. ledger' = ledger /\ pc[c] = "compare"
    BY <1>3 DEF CheckBalance
  <2>2. AddsUp(ledgerFile)' /\ ledgerFile'.debits * Cost < Bound
    BY <1>1, <1>3 DEF CheckBalance, Saved, LedgerInv, LedgerAddsUp, AddsUp
  <2>3. CASE ledger.balance < Cost
    <3>1. At("debit")' = At("debit")
      BY <1>0, <1>3, <2>1, <2>3, Elsewhere DEF CheckBalance, Finish, Goto
    <3> QED
      BY <2>1, <2>2, <3>1 DEF LedgerInv, LedgerAddsUp, AddsUp, Bound
  <2>4. CASE ~(ledger.balance < Cost)
    <3>1. pc' = [pc EXCEPT ![c] = "debit"]
      BY <1>3, <2>4 DEF CheckBalance, Keep, Goto
    <3>2. Cardinality(At("debit")') <= Cardinality(Caller)
          /\ Cardinality(At("debit")') \in Nat
      <4>1. pc[c] # "debit" /\ pc \in [Caller -> Step]
        BY <1>0, <2>1
      <4>2. Cardinality(At("debit")') = P + 1
            /\ Cardinality(At("debit")') <= Cardinality(Caller)
        BY <3>1, <4>1, Enter
      <4> QED
        BY <1>0, <4>2
    <3>3. ledger.balance >= Cost
      BY <1>0, <2>4, BoundType
    <3>4. (D + Cardinality(At("debit")')) * Cost < Bound
      BY <1>0, <3>2, <3>3, Room DEF LedgerInv, LedgerAddsUp
    <3> QED
      BY <2>1, <2>2, <3>4 DEF LedgerInv, LedgerAddsUp, AddsUp, Bound
  <2> QED
    BY <2>3, <2>4
<1>4. ASSUME NEW c \in Caller, Debit(c) PROVE LedgerInv'
  <2>1. pc[c] = "debit" /\ pc' = [pc EXCEPT ![c] = "idle"]
    BY <1>4 DEF Debit, Finish, Goto
  <2>2. Cardinality(At("debit")') = P - 1 /\ P >= 1
    <3>1. Cardinality(At("debit")') = P - 1
      BY <1>0, <2>1, Leave
    <3>2. At("debit") # {}
      BY <2>1 DEF At
    <3>3. P # 0
      BY <3>2, AtFinite, FS_EmptySet
    <3> QED
      BY <1>0, <3>1, <3>3
  <2>3. ledger'.debits = D + 1 /\ ledger' \in Account
        /\ ledger'.balance = Beyond(ledger.balance, Cost)
    BY <1>0, <1>4, BoundType DEF Debit, Beyond, Account
  <2>4. AddsUp(ledger)'
    <3>1. AddsUp(ledger)
      BY DEF LedgerInv, LedgerAddsUp
    <3>2. AddsUp(ledger')
      BY <1>0, <2>3, <3>1, DebitAddsUp
    <3> QED
      BY <3>2 DEF AddsUp
  <2>5. (ledger'.debits + Cardinality(At("debit")')) * Cost < Bound
    <3>1. ledger'.debits + Cardinality(At("debit")') = D + P
      BY <1>0, <2>2, <2>3
    <3> QED
      BY <3>1 DEF LedgerInv
  <2>6. ledger'.debits * Cost < Bound
    <3>1. P - 1 \in Nat
      BY <1>0, <2>2
    <3> QED
      BY <2>2, <2>3, <2>5, <3>1, BoundType, Below DEF Account
  <2>7. AddsUp(ledgerFile)' /\ ledgerFile'.debits * Cost < Bound
    BY <1>4, <2>4, <2>6 DEF Debit, Saved, LedgerInv, LedgerAddsUp, AddsUp
  <2> QED
    BY <2>4, <2>5, <2>7 DEF LedgerInv, LedgerAddsUp, Bound
<1>5. ASSUME NEW c \in Caller,
             NEW kind \in {"context", "count"}, NEW size \in Nat,
             Receive(c, kind, size)
      PROVE  LedgerInv'
  BY <1>2, <1>5 DEF Receive, Goto, Step
<1>6. ASSUME NEW c \in Caller,
             \/ CheckQuota(c) \/ RateLimited(c) \/ Track(c) \/ DumpUsage(c)
             \/ WriteUsage(c) \/ Meter(c) \/ Summary(c) \/ Sync(c)
             \/ Stop(c) \/ Veto(c) \/ ReadBudget(c) \/ SpendBudget(c)
      PROVE  LedgerInv'
  <2>1. UNCHANGED purse /\ pc[c] # "debit"
    BY <1>6 DEF CheckQuota, RateLimited, Track, DumpUsage, WriteUsage, Meter,
       Summary, Sync, Stop, Veto, ReadBudget, SpendBudget
  <2>2. \E s \in Step \ {"debit"} : pc' = [pc EXCEPT ![c] = s]
    BY <1>6 DEF CheckQuota, RateLimited, Track, DumpUsage, WriteUsage, Meter,
       Summary, Sync, Stop, Veto, ReadBudget, SpendBudget, Proceed, Keep,
       Finish, Unbilled, Goto, Step
  <2> QED
    BY <1>2, <2>1, <2>2
<1>7. ASSUME NEW c \in Caller, OpenAccount(c) \/ ShowBalance(c)
      PROVE  LedgerInv'
  <2>1. ledger' = ledger
    BY <1>7 DEF OpenAccount, ShowBalance
  <2>2. AddsUp(ledgerFile)' /\ ledgerFile'.debits * Cost < Bound
    BY <1>1, <1>7 DEF OpenAccount, ShowBalance, Saved, LedgerInv,
       LedgerAddsUp, AddsUp
  <2>3. At("debit")' = At("debit")
    <3>1. CASE OpenAccount(c)
      <4>1. PICK s \in {"idle", "compare"} : pc' = [pc EXCEPT ![c] = s]
        BY <3>1 DEF OpenAccount, Proceed, Finish, Goto
      <4>2. pc[c] # "debit" /\ s # "debit"
        BY <3>1, <4>1 DEF OpenAccount
      <4> QED
        BY <1>0, <4>1, <4>2, Elsewhere
    <3>2. CASE ShowBalance(c)
      BY <3>2 DEF At, ShowBalance
    <3> QED
      BY <1>7, <3>1, <3>2
  <2> QED
    BY <2>1, <2>2, <2>3 DEF LedgerInv, LedgerAddsUp, AddsUp, Bound
<1>8. CASE Restart
  <2>1. At("debit")' = {}
    BY <1>8 DEF Restart, At
  <2>2. Cardinality(At("debit")') = 0
    BY <2>1, FS_EmptySet
  <2>3. ledger' = ledgerFile /\ ledgerFile' = ledgerFile
    BY <1>8 DEF Restart
  <2>4. ledgerFile.debits \in Nat
    BY <1>0 DEF Account
  <2>5. ledger'.debits + Cardinality(At("debit")') = ledgerFile.debits
    BY <2>2, <2>3, <2>4
  <2> QED
    BY <2>3, <2>5 DEF LedgerInv, LedgerAddsUp, AddsUp, Bound
<1>9. ASSUME NEW c \in Caller, CountProof(c) \/ BindWallet(c)
       PROVE  LedgerInv'
  <2>1. At("debit")' = At("debit") /\ UNCHANGED purse
    BY <1>9 DEF At, CountProof, BindWallet
  <2> QED
    BY <2>1 DEF purse, LedgerInv, LedgerAddsUp, AddsUp, Bound
<1>10. CASE UNCHANGED vars
  <2>1. At("debit")' = At("debit")
    BY <1>10 DEF At, vars
  <2> QED
    BY <1>10, <2>1 DEF vars, purse, LedgerInv, LedgerAddsUp, AddsUp, Bound
<1> QED
  BY <1>3, <1>4, <1>5, <1>6, <1>7, <1>8, <1>9, <1>10,
     AccountingAssumption DEF Next, Serve

\* A new account has its funds and no debit.
LEMMA LedgerInit == Init => LedgerInv
<1> SUFFICES ASSUME Init PROVE LedgerInv
  OBVIOUS
<1>1. At("debit") = {}
  BY DEF Init, At
<1>2. Cardinality(At("debit")) = 0
  BY <1>1, FS_EmptySet
<1>3. ledger.debits = 0 /\ ledger.balance = Funds /\ ledgerFile = ledger
  BY DEF Init
<1>4. 0 < Bound /\ 0 * Cost = 0 /\ Beyond(Funds, 0) = Funds
  BY BoundType DEF Beyond
<1>5. LedgerAddsUp
  BY <1>3, <1>4 DEF LedgerAddsUp, AddsUp
<1> QED
  BY <1>2, <1>3, <1>4, <1>5 DEF LedgerInv

\* The balance, saved or not, is always the funds less the debits.
THEOREM Bookkeeping == Spec => []LedgerAddsUp
<1>1. LedgerInv => LedgerAddsUp
  BY DEF LedgerInv
<1> QED
  BY <1>1, LedgerInit, LedgerStep, TypeCorrect, PTL DEF Spec

\* Threads that race overdraw the balance by less than one decision each.
THEOREM Overdraft == Spec => []OverdraftBounded
<1>1. TypeOK /\ LedgerInv => OverdraftBounded
  <2> SUFFICES ASSUME TypeOK, LedgerInv PROVE OverdraftBounded
    OBVIOUS
  <2>1. ledger.debits \in Nat /\ Cardinality(At("debit")) \in Nat
    BY AtFinite DEF TypeOK, Account
  <2> QED
    BY <2>1, BoundType, Below DEF LedgerInv, OverdraftBounded, Bound
<1> QED
  BY <1>1, LedgerInit, LedgerStep, TypeCorrect, PTL DEF Spec
-----------------------------------------------------------------------------
(* One thread: what is read is still so when it is used.                   *)

OverInv ==
    /\ ledger.debits * Cost <= Funds /\ ledgerFile.debits * Cost <= Funds
    /\ \A c \in Caller : pc[c] = "debit" => ledger.debits * Cost + Cost <= Funds

LEMMA OverStep ==
    ASSUME NEW p, Caller = {p}, TypeOK, LedgerAddsUp, OverInv, [Next]_vars
    PROVE  OverInv'
<1>0. /\ p \in Caller /\ pc \in [Caller -> Step]
      /\ ledger \in Account /\ ledgerFile \in Account
      /\ ledger.debits \in Nat /\ Cost \in Nat /\ ledger.debits * Cost \in Nat
      /\ ledger.balance \in Nat /\ Funds \in Nat
  BY AccountingAssumption DEF TypeOK, Account
<1>1. ASSUME UNCHANGED ledger, ledgerFile' \in {ledger, ledgerFile},
             pc'[p] = "debit" => pc[p] = "debit"
      PROVE  OverInv'
  BY <1>0, <1>1 DEF OverInv
<1>2. CASE CheckBalance(p)
  <2>1. UNCHANGED ledger /\ ledgerFile' \in {ledger, ledgerFile}
    BY <1>2 DEF CheckBalance, Saved
  <2>2. CASE ledger.balance < Cost
    <3>1. pc'[p] = "idle"
      BY <1>0, <1>2, <2>2 DEF CheckBalance, Finish, Goto
    <3> QED
      BY <1>1, <2>1, <3>1
  <2>3. CASE ledger.balance >= Cost
    BY <1>0, <2>1, <2>3, Covered DEF OverInv, LedgerAddsUp
  <2> QED
    BY <1>0, <2>2, <2>3
<1>3. CASE Debit(p)
  <2>1. pc[p] = "debit" /\ pc'[p] = "idle"
    BY <1>0, <1>3 DEF Debit, Finish, Goto
  <2>2. ledger'.debits = ledger.debits + 1 /\ ledgerFile' \in {ledger', ledgerFile}
    BY <1>3 DEF Debit, Saved
  <2>3. ledger'.debits * Cost = ledger.debits * Cost + Cost
    BY <1>0, <2>2, OneMore
  <2> QED
    BY <1>0, <2>1, <2>2, <2>3 DEF OverInv
<1>4. CASE Restart
  BY <1>0, <1>4 DEF Restart, OverInv
<1>5. CASE OpenAccount(p) \/ ShowBalance(p)
  <2>1. UNCHANGED ledger /\ ledgerFile' \in {ledger, ledgerFile}
    BY <1>5 DEF OpenAccount, ShowBalance, Saved
  <2>2. pc'[p] = "debit" => pc[p] = "debit"
    BY <1>0, <1>5 DEF OpenAccount, ShowBalance, Finish, Proceed, Goto
  <2> QED
    BY <1>1, <2>1, <2>2
<1>6. ASSUME NEW s \in Step \ {"debit"}, pc' = [pc EXCEPT ![p] = s],
             UNCHANGED purse
      PROVE  OverInv'
  BY <1>0, <1>1, <1>6 DEF purse
<1>7. CASE \/ CheckQuota(p) \/ RateLimited(p) \/ Track(p) \/ DumpUsage(p)
           \/ WriteUsage(p) \/ Meter(p) \/ Summary(p) \/ Sync(p)
           \/ Stop(p) \/ Veto(p) \/ ReadBudget(p) \/ SpendBudget(p)
           \/ \E size \in Size : Receive(p, "context", size)
           \/ Receive(p, "count", 0)
  <2>1. UNCHANGED purse
    BY <1>7 DEF CheckQuota, RateLimited, Track, DumpUsage, WriteUsage, Meter,
       Summary, Sync, Stop, Veto, ReadBudget, SpendBudget, Receive
  <2>2. \E s \in Step \ {"debit"} : pc' = [pc EXCEPT ![p] = s]
    BY <1>7 DEF CheckQuota, RateLimited, Track, DumpUsage, WriteUsage, Meter,
       Summary, Sync, Stop, Veto, ReadBudget, SpendBudget, Receive,
       Finish, Proceed, Keep, Unbilled, Goto, Step
  <2> QED
    BY <1>6, <2>1, <2>2
<1>8. CASE CountProof(p) \/ BindWallet(p) \/ UNCHANGED vars
  <2>1. UNCHANGED <<ledger, ledgerFile, pc>>
    BY <1>8 DEF CountProof, BindWallet, vars, purse
  <2> QED
    BY <1>1, <2>1
<1> QED
  BY <1>0, <1>2, <1>3, <1>4, <1>5, <1>7, <1>8 DEF Next, Serve

\* With one thread no decision is provided unfunded.
THEOREM NobodyOverdraws ==
    ASSUME NEW p, Caller = {p}
    PROVE  Spec => []NoOverdraft
<1>1. Init => OverInv
  <2> SUFFICES ASSUME Init PROVE OverInv
    OBVIOUS
  <2>1. ledger.debits = 0 /\ ledgerFile.debits = 0 /\ 0 * Cost = 0
        /\ Funds \in Nat /\ 0 <= Funds
    BY AccountingAssumption DEF Init
  <2> QED
    BY <2>1 DEF Init, OverInv
<1>2. OverInv => NoOverdraft
  BY DEF OverInv, NoOverdraft
<1>3. TypeOK /\ LedgerAddsUp /\ OverInv /\ [Next]_vars => OverInv'
  BY OverStep
<1> QED
  BY <1>1, <1>2, <1>3, TypeCorrect, Bookkeeping, PTL DEF Spec

BudgetInv ==
    /\ consumed <= Limit
    /\ admitted <= Limit * restarts + consumed
    /\ \A c \in Caller : pc[c] = "spend" => job[c].read = consumed

LEMMA BudgetStep ==
    ASSUME NEW p, Caller = {p}, TypeOK, BudgetInv, [Next]_vars
    PROVE  BudgetInv'
<1>0. /\ p \in Caller /\ pc \in [Caller -> Step] /\ job \in [Caller -> Job]
      /\ job[p].read \in Nat /\ job[p].size \in Nat
      /\ consumed \in Nat /\ admitted \in Nat /\ restarts \in Nat
      /\ Limit \in Nat /\ Limit * restarts \in Nat
  <2>1. job[p] \in Job
    BY DEF TypeOK
  <2> QED
    BY <2>1, AccountingAssumption DEF TypeOK, Job
<1>1. ASSUME UNCHANGED <<consumed, admitted, restarts>>, pc'[p] # "spend"
      PROVE  BudgetInv'
  BY <1>1 DEF BudgetInv
<1>2. CASE ReadBudget(p)
  <2>1. UNCHANGED <<consumed, admitted, restarts>>
    BY <1>2 DEF ReadBudget, budget
  <2>2. CASE Keep(p, "spend", consumed)
    <3>1. job'[p].read = consumed
      <4>1. job[p] \in Job
        BY <1>0
      <4> QED
        BY <1>0, <2>2, <4>1 DEF Keep, Job
    <3> QED
      BY <2>1, <3>1 DEF BudgetInv
  <2>3. CASE Proceed(p, "balance") \/ Finish(p)
    <3>1. pc'[p] # "spend"
      BY <1>0, <2>3 DEF Proceed, Finish, Goto
    <3> QED
      BY <1>1, <2>1, <3>1
  <2> QED
    BY <1>2, <2>2, <2>3 DEF ReadBudget
<1>3. CASE SpendBudget(p)
  <2> DEFINE g == Least(job[p].size, Beyond(Limit, job[p].read))
  <2>1. job[p].read = consumed /\ UNCHANGED restarts
        /\ consumed' = consumed + g /\ admitted' = admitted + g
    BY <1>3 DEF SpendBudget, BudgetInv
  <2>2. g \in Nat /\ consumed + g <= Limit
    BY <1>0, <2>1 DEF Least, Beyond, BudgetInv
  <2> HIDE DEF g
  <2>3. pc'[p] # "spend"
    BY <1>0, <1>3 DEF SpendBudget, Unbilled, Proceed, Goto
  <2>4. admitted + g <= Limit * restarts + (consumed + g)
    BY <1>0, <2>2 DEF BudgetInv
  <2> QED
    BY <2>1, <2>2, <2>3, <2>4 DEF BudgetInv
<1>4. CASE Restart
  <2>1. Limit * (restarts + 1) = Limit * restarts + Limit
    BY <1>0
  <2>2. consumed' = 0 /\ restarts' = restarts + 1 /\ UNCHANGED admitted
        /\ pc'[p] = "idle"
    BY <1>0, <1>4 DEF Restart
  <2> QED
    BY <1>0, <2>1, <2>2 DEF BudgetInv
<1>5. CASE \/ CheckQuota(p) \/ RateLimited(p) \/ Track(p) \/ DumpUsage(p)
           \/ WriteUsage(p) \/ Meter(p) \/ Summary(p) \/ Sync(p)
           \/ Stop(p) \/ Veto(p) \/ OpenAccount(p) \/ CheckBalance(p) \/ Debit(p)
           \/ \E size \in Size : Receive(p, "context", size)
           \/ Receive(p, "count", 0)
  <2>1. UNCHANGED <<consumed, admitted, restarts>>
    BY <1>5 DEF CheckQuota, RateLimited, Track, DumpUsage, WriteUsage, Meter,
       Summary, Sync, Stop, Veto, OpenAccount, CheckBalance, Debit, Receive,
       budget
  <2>2. pc'[p] # "spend"
    BY <1>0, <1>5 DEF CheckQuota, RateLimited, Track, DumpUsage, WriteUsage,
       Meter, Summary, Sync, Stop, Veto, OpenAccount, CheckBalance, Debit,
       Receive, Finish, Proceed, Keep, Unbilled, Goto
  <2> QED
    BY <1>1, <2>1, <2>2
<1>6. CASE CountProof(p) \/ BindWallet(p) \/ ShowBalance(p) \/ UNCHANGED vars
  <2>1. UNCHANGED <<consumed, admitted, restarts, pc, job>>
    BY <1>6 DEF CountProof, BindWallet, ShowBalance, vars, budget
  <2> QED
    BY <2>1 DEF BudgetInv
<1> QED
  BY <1>0, <1>2, <1>3, <1>4, <1>5, <1>6 DEF Next, Serve

\* With one thread every start of the process admits the day's budget once.
THEOREM BudgetKept ==
    ASSUME NEW p, Caller = {p}
    PROVE  Spec => []AdmittedWithinBudget
<1>1. Init => BudgetInv
  <2> SUFFICES ASSUME Init PROVE BudgetInv
    OBVIOUS
  <2>1. Limit \in Nat /\ Limit * 0 = 0
    BY AccountingAssumption
  <2> QED
    BY <2>1 DEF Init, BudgetInv
<1>2. TypeOK /\ BudgetInv => AdmittedWithinBudget
  <2> SUFFICES ASSUME TypeOK, BudgetInv PROVE AdmittedWithinBudget
    OBVIOUS
  <2>1. /\ Limit \in Nat /\ restarts \in Nat /\ Limit * restarts \in Nat
        /\ Limit * (restarts + 1) = Limit * restarts + Limit
        /\ consumed \in Nat /\ admitted \in Nat
    BY AccountingAssumption DEF TypeOK
  <2> QED
    BY <2>1 DEF BudgetInv, AdmittedWithinBudget
<1>3. TypeOK /\ BudgetInv /\ [Next]_vars => BudgetInv'
  BY BudgetStep
<1> QED
  BY <1>1, <1>2, <1>3, TypeCorrect, PTL DEF Spec

\* A call between its metering and its synchronisation is not billed yet.
DueInv ==
    /\ callsFile = calls /\ billedFile = billed
    /\ billed <= Beyond(calls, Free)
    /\ \A c \in Caller :
          /\ pc[c] = "sync" => job[c].read = calls
          /\ IF pc[c] = "sync"
             THEN Beyond(calls, Free) <= billed + restarts + 1
             ELSE Beyond(calls, Free) <= billed + restarts

LEMMA DueStep ==
    ASSUME NEW p, Caller = {p}, ~WritesFail, TypeOK, DueInv, [Next]_vars
    PROVE  DueInv'
<1>0. /\ p \in Caller /\ pc \in [Caller -> Step] /\ job \in [Caller -> Job]
      /\ calls \in Nat /\ billed \in Nat /\ restarts \in Nat /\ Free \in Nat
      /\ job[p] \in Job
  BY AccountingAssumption DEF TypeOK
<1>1. ASSUME UNCHANGED <<calls, callsFile, billed, billedFile, restarts>>,
             pc[p] # "sync", pc'[p] # "sync"
      PROVE  DueInv'
  BY <1>0, <1>1 DEF DueInv
<1>2. CASE Meter(p)
  <2>1. /\ calls' = calls + 1 /\ callsFile' = calls'
        /\ pc[p] = "meter" /\ pc'[p] = "sync" /\ job'[p].read = calls'
        /\ UNCHANGED <<billed, billedFile, restarts>>
    BY <1>0, <1>2 DEF Meter, Keep, Goto, dues, Job
  <2>2. /\ Beyond(calls', Free) <= Beyond(calls, Free) + 1
        /\ Beyond(calls, Free) <= Beyond(calls', Free)
        /\ Beyond(calls', Free) \in Nat /\ Beyond(calls, Free) \in Nat
    BY <1>0, <2>1 DEF Beyond
  <2>3. Beyond(calls, Free) <= billed + restarts
    BY <1>0, <2>1 DEF DueInv
  <2> QED
    BY <1>0, <2>1, <2>2, <2>3 DEF DueInv
<1>3. CASE Sync(p)
  <2>1. /\ pc[p] = "sync" /\ pc'[p] # "sync" /\ job[p].read = calls
        /\ UNCHANGED <<calls, callsFile, restarts>>
    BY <1>0, <1>3 DEF Sync, Finish, Proceed, Goto, meter, DueInv
  <2>2. billed' = Beyond(calls, Free) /\ billedFile' = billed'
    BY <1>3, <2>1 DEF Sync, Saved
  <2>3. Beyond(calls, Free) \in Nat
    BY <1>0 DEF Beyond
  <2> QED
    BY <1>0, <2>1, <2>2, <2>3 DEF DueInv
<1>4. CASE Summary(p)
  <2>1. /\ pc[p] = "idle" /\ job'[p].read = calls
        /\ UNCHANGED <<calls, callsFile, billed, billedFile, restarts>>
    BY <1>0, <1>4 DEF Summary, meter, dues
  <2>2. Beyond(calls, Free) <= billed + restarts /\ Beyond(calls, Free) \in Nat
        /\ billed <= Beyond(calls, Free) /\ callsFile = calls /\ billedFile = billed
    BY <1>0, <2>1 DEF DueInv, Beyond
  <2>3. Beyond(calls, Free) <= billed + restarts + 1
    BY <1>0, <2>2
  <2> QED
    BY <2>1, <2>2, <2>3 DEF DueInv
<1>5. CASE Restart
  <2>1. /\ UNCHANGED <<calls, callsFile, billed, billedFile>>
        /\ restarts' = restarts + 1 /\ pc'[p] = "idle"
    BY <1>0, <1>5 DEF Restart, DueInv
  <2>2. Beyond(calls, Free) <= billed + restarts + 1 /\ Beyond(calls, Free) \in Nat
    BY <1>0 DEF DueInv, Beyond
  <2> QED
    BY <1>0, <2>1, <2>2 DEF DueInv
<1>6. CASE \/ CheckQuota(p) \/ RateLimited(p) \/ Track(p) \/ DumpUsage(p)
           \/ WriteUsage(p) \/ Stop(p) \/ Veto(p) \/ ReadBudget(p)
           \/ SpendBudget(p) \/ OpenAccount(p) \/ CheckBalance(p) \/ Debit(p)
           \/ \E size \in Size : Receive(p, "context", size)
           \/ Receive(p, "count", 0)
  <2>1. UNCHANGED <<calls, callsFile, billed, billedFile, restarts>>
    BY <1>6 DEF CheckQuota, RateLimited, Track, DumpUsage, WriteUsage, Stop,
       Veto, ReadBudget, SpendBudget, OpenAccount, CheckBalance, Debit,
       Receive, meter, dues
  <2>2. pc[p] # "sync" /\ pc'[p] # "sync"
    BY <1>0, <1>6 DEF CheckQuota, RateLimited, Track, DumpUsage, WriteUsage,
       Stop, Veto, ReadBudget, SpendBudget, OpenAccount, CheckBalance, Debit,
       Receive, Finish, Proceed, Keep, Unbilled, Goto
  <2> QED
    BY <1>1, <2>1, <2>2
<1>7. CASE CountProof(p) \/ BindWallet(p) \/ ShowBalance(p) \/ UNCHANGED vars
  <2>1. UNCHANGED <<calls, billed, restarts, pc, job>>
        /\ callsFile' \in {calls, callsFile} /\ billedFile' \in {billed, billedFile}
    BY <1>7 DEF CountProof, BindWallet, ShowBalance, vars, meter, dues, Saved
  <2> QED
    BY <2>1 DEF DueInv
<1> QED
  BY <1>0, <1>2, <1>3, <1>4, <1>5, <1>6, <1>7 DEF Next, Serve

\* With one thread and files that can be written, the account owes what was
\* metered whenever no call is being served, restarts cutting off one each.
THEOREM MeteredIsBilled ==
    ASSUME NEW p, Caller = {p}, ~WritesFail
    PROVE  Spec => []BilledWhenQuiet
<1>1. Init => DueInv
  BY AccountingAssumption DEF Init, DueInv, Beyond
<1>2. DueInv => BilledWhenQuiet
  <2> SUFFICES ASSUME DueInv, pc[p] = "idle"
               PROVE  /\ billed <= Beyond(calls, Free)
                      /\ Beyond(calls, Free) <= billed + restarts
    BY DEF BilledWhenQuiet
  <2> QED
    BY DEF DueInv
<1>3. TypeOK /\ DueInv /\ [Next]_vars => DueInv'
  BY DueStep
<1> QED
  BY <1>1, <1>2, <1>3, TypeCorrect, PTL DEF Spec
=============================================================================
