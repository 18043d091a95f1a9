------------------------ MODULE RetailAdmissionProofs ------------------------
(***************************************************************************)
(* Proofs about RetailAdmission for every set of workers, requests, builds *)
(* and bindings, every limit and any length of the clock.                  *)
(***************************************************************************)
EXTENDS RetailAdmission, FiniteSetTheorems, TLAPS

\* A worker on its way knows what it was asked.
Busy == [req : Request, binding : Binding, at : Time, paid : BOOLEAN]
JobOK == \A w \in Worker : pc[w] # "idle" => job[w] \in Busy

\* What the tables hold when a worker has come to a step.
PlaceOK(w) ==
    LET r == job[w].req
    IN  /\ pc[w] \in {"oldmode", "seek", "repair", "retry", "guard"} =>
              requests[r] # None
        /\ pc[w] \in {"seek", "repair", "retry", "guard"} =>
              requests[r].binding = job[w].binding
        /\ pc[w] = "retry" => guards[r] # None

\* An exemption that was given is recorded in the guard.
ExemptOK ==
    \A r \in Request :
        exempt[r] # 0 => exempt[r] = 1 /\ guards[r] # None /\ guards[r].used

RowInv == /\ TypeOK /\ JobOK /\ GuardMatchesRequest /\ ExemptOK
          /\ \A w \in Worker : PlaceOK(w)
-----------------------------------------------------------------------------
(* Types.                                                                  *)

LEMMA NoJobType == NoJob \in Job
  BY DEF NoJob, Job

LEMMA BusyType == Busy \subseteq Job
  BY DEF Busy, Job

LEMMA SlotType ==
    ASSUME NEW w \in Worker, job[w] \in Busy
    PROVE  /\ Slotted(w) \in Slot
           /\ job[w].req \in Request
           /\ BucketOf[job[w].req] \in Bucket
  BY AdmissionAssumption DEF Busy, Slotted, Slot

\* A worker that ends its attempt, or moves on.
LEMMA FinishType ==
    ASSUME TypeOK, JobOK, NEW w \in Worker, Finish(w)
    PROVE  pc' \in [Worker -> Step] /\ job' \in [Worker -> Job] /\ JobOK'
  BY NoJobType DEF Finish, Goto, TypeOK, JobOK, Step

LEMMA ProceedType ==
    ASSUME TypeOK, JobOK, NEW w \in Worker, NEW s \in Step, Proceed(w, s),
           pc[w] # "idle"
    PROVE  pc' \in [Worker -> Step] /\ job' \in [Worker -> Job] /\ JobOK'
  BY DEF Proceed, Goto, TypeOK, JobOK

LEMMA NewGuardType ==
    ASSUME NEW w \in Worker, job[w] \in Busy
    PROVE  /\ NewGuard(w) \in GuardRow
           /\ NewGuard(w) # None
           /\ NewGuard(w).binding = job[w].binding
           /\ NewGuard(w).used = job[w].paid
  BY NoneIsNoRow DEF NewGuard, GuardRow, Busy

\* What initialize_request leaves of the guards.
InitializedOK(w) ==
    /\ \A r \in Request :
          /\ r # job[w].req => guards'[r] = guards[r]
          /\ guards[r] # None =>
                /\ guards'[r] # None
                /\ guards'[r].binding = guards[r].binding
                /\ guards'[r].window = guards[r].window
                /\ guards'[r].count = guards[r].count
                /\ guards[r].used => guards'[r].used
    /\ guards[job[w].req] = None => guards'[job[w].req] = NewGuard(w)
    /\ guards'[job[w].req] # None
    /\ guards'[job[w].req].binding = job[w].binding

LEMMA InitializeType ==
    ASSUME TypeOK, NEW w \in Worker, job[w] \in Busy, InitializeGuard(w),
           GuardFits(w)
    PROVE  guards' \in [Request -> GuardRow \cup {None}] /\ InitializedOK(w)
<1> DEFINE q == job[w].req
           old == guards[q]
           kept == KeptGuard(w)
<1>1. q \in Request /\ job[w].paid \in BOOLEAN
  BY DEF Busy
<1>2. guards' = [guards EXCEPT ![q] = IF old = None THEN NewGuard(w) ELSE kept]
  BY DEF InitializeGuard
<1>3. ASSUME old # None
      PROVE  /\ kept \in GuardRow /\ kept # None
             /\ kept.binding = old.binding
             /\ kept.window = old.window /\ kept.count = old.count
             /\ old.used => kept.used
  <2>1. old \in GuardRow
    BY <1>1, <1>3 DEF TypeOK
  <2>2. kept \in GuardRow /\ kept.binding = old.binding
        /\ kept.window = old.window /\ kept.count = old.count
        /\ (old.used => kept.used)
    BY <1>1, <2>1 DEF GuardRow, KeptGuard
  <2> QED
    BY <2>2, NoneIsNoRow
<1>4. guards \in [Request -> GuardRow \cup {None}]
  BY DEF TypeOK
<1>5. guards'[q] = IF old = None THEN NewGuard(w) ELSE kept
  BY <1>1, <1>2, <1>4
<1>6. \A r \in Request \ {q} : guards'[r] = guards[r]
  BY <1>2, <1>4
<1>7. guards' \in [Request -> GuardRow \cup {None}]
  <2>1. (IF old = None THEN NewGuard(w) ELSE kept) \in GuardRow
    BY <1>3, NewGuardType
  <2> HIDE DEF kept
  <2> QED
    BY <1>2, <1>4, <2>1
<1>8. old # None => old.binding = job[w].binding
  BY DEF GuardFits
<1> HIDE DEF kept
<1>9. CASE old = None
  <2>1. guards'[q] = NewGuard(w)
    BY <1>5, <1>9
  <2> QED
    BY <1>6, <1>7, <1>9, <2>1, NewGuardType DEF InitializedOK
<1>10. CASE old # None
  <2>1. guards'[q] = kept
    BY <1>5, <1>10
  <2> QED
    BY <1>3, <1>6, <1>7, <1>8, <1>10, <2>1 DEF InitializedOK
<1> QED
  BY <1>9, <1>10
-----------------------------------------------------------------------------
(* The rows.                                                               *)

\* Rows are only added, and a request row is never changed.
Grow == /\ \A r \in Request : requests[r] # None => requests'[r] = requests[r]
        /\ \A r \in Request : guards[r] # None => guards'[r] # None

\* One worker moves, the others stay where they are.
Moves(w) == \A v \in Worker \ {w} : pc'[v] = pc[v] /\ job'[v] = job[v]

LEMMA FinishMoves ==
    ASSUME TypeOK, NEW w \in Worker, Finish(w)
    PROVE  Moves(w) /\ pc'[w] = "idle" /\ PlaceOK(w)'
  BY DEF Finish, Goto, Moves, PlaceOK, TypeOK

LEMMA ProceedMoves ==
    ASSUME TypeOK, NEW w \in Worker, NEW s, Proceed(w, s)
    PROVE  Moves(w) /\ pc'[w] = s /\ job'[w] = job[w]
  BY DEF Proceed, Goto, Moves, TypeOK

LEMMA PlacesKept ==
    ASSUME TypeOK, JobOK, \A v \in Worker : PlaceOK(v),
           NEW w \in Worker, Moves(w), Grow, PlaceOK(w)'
    PROVE  \A v \in Worker : PlaceOK(v)'
<1> SUFFICES ASSUME NEW v \in Worker \ {w} PROVE PlaceOK(v)'
  OBVIOUS
<1>1. pc'[v] = pc[v] /\ job'[v] = job[v] /\ PlaceOK(v)
  BY DEF Moves
<1>2. pc[v] # "idle" => job[v].req \in Request
  BY DEF JobOK, Busy
<1> QED
  BY <1>1, <1>2 DEF PlaceOK, Grow

\* Nothing but the places of the workers changes.
LEMMA RowsStand ==
    ASSUME RowInv, NEW w \in Worker, Moves(w), PlaceOK(w)',
           UNCHANGED <<requests, guards, exempt, seen>>
    PROVE  /\ \A v \in Worker : PlaceOK(v)'
           /\ GuardMatchesRequest' /\ ExemptOK'
<1>1. Grow
  BY DEF Grow
<1>2. \A v \in Worker : PlaceOK(v)'
  BY <1>1, PlacesKept DEF RowInv
<1>3. GuardMatchesRequest' /\ ExemptOK'
  BY DEF RowInv, GuardMatchesRequest, ExemptOK
<1> QED
  BY <1>2, <1>3

\* Where the request row is written, the guard may be.
LEMMA InitializedRows ==
    ASSUME TypeOK, GuardMatchesRequest, ExemptOK,
           NEW w \in Worker, job[w] \in Busy, InitializedOK(w),
           requests[job[w].req] # None,
           requests[job[w].req].binding = job[w].binding,
           requests' = requests, exempt' = exempt,
           seen' \subseteq seen \cup {<<job[w].req, job[w].binding>>}
    PROVE  GuardMatchesRequest' /\ ExemptOK'
<1> DEFINE q == job[w].req
<1>1. ASSUME NEW r \in Request, guards'[r] # None
      PROVE  requests[r] # None /\ guards'[r].binding = requests[r].binding
  BY <1>1 DEF InitializedOK, GuardMatchesRequest
<1>2. ASSUME NEW p \in seen'
      PROVE  guards'[p[1]] # None /\ guards'[p[1]].binding = p[2]
  <2>1. CASE p \in seen
    <3>1. p[1] \in Request
      BY <2>1 DEF TypeOK
    <3> QED
      BY <2>1, <3>1 DEF InitializedOK, GuardMatchesRequest
  <2>2. CASE p = <<q, job[w].binding>>
    BY <2>2 DEF InitializedOK
  <2> QED
    BY <2>1, <2>2
<1>3. ExemptOK'
  BY DEF InitializedOK, ExemptOK
<1> QED
  BY <1>1, <1>2, <1>3 DEF GuardMatchesRequest

LEMMA RowInit == Init => RowInv
<1> SUFFICES ASSUME Init PROVE RowInv
  OBVIOUS
<1>1. 0 \in Time
  BY AdmissionAssumption DEF Time
<1>2. TypeOK
  BY <1>1, NoJobType DEF Init, TypeOK, Mode, Step
<1>3. JobOK /\ GuardMatchesRequest /\ ExemptOK /\ \A w \in Worker : PlaceOK(w)
  BY DEF Init, JobOK, GuardMatchesRequest, ExemptOK, PlaceOK
<1> QED
  BY <1>2, <1>3 DEF RowInv

LEMMA RowStep == RowInv /\ [Next]_vars => RowInv'
<1> SUFFICES ASSUME RowInv, [Next]_vars PROVE RowInv'
  OBVIOUS
<1> USE DEF RowInv
<1>0. \A w \in Worker : pc[w] \in Step /\ job[w] \in Job
                        /\ (pc[w] # "idle" => job[w] \in Busy)
  BY DEF TypeOK, JobOK
<1>1. ASSUME NEW w \in Worker, NEW r \in Request, NEW paid \in BOOLEAN,
             Receive(w, r, paid)
      PROVE  RowInv'
  <2>1. [req |-> r, binding |-> SourceBinding[build[w]][r],
         at |-> clock, paid |-> paid] \in Busy
    BY AdmissionAssumption DEF Busy, TypeOK
  <2>2. TypeOK' /\ JobOK'
    BY <1>0, <1>1, <2>1, BusyType DEF Receive, Goto, TypeOK, JobOK, Step, history
  <2>3. Moves(w) /\ PlaceOK(w)'
    BY <1>1 DEF Receive, Goto, Moves, PlaceOK, TypeOK
  <2>4. UNCHANGED <<requests, guards, exempt, seen>>
    BY <1>1 DEF Receive, history
  <2> QED
    BY <2>2, <2>3, <2>4, RowsStand
<1>2. ASSUME NEW w \in Worker, Lookup(w) PROVE RowInv'
  <2>0. pc[w] = "lookup" /\ UNCHANGED <<mode, clock, tokens, requests, guards,
                                        build, fresh, exempt, retried, seen>>
    BY <1>2 DEF Lookup, history
  <2>1. PICK s \in {"newmode", "oldmode"} :
            Proceed(w, s) /\ (s = "oldmode" => requests[job[w].req] # None)
    BY <1>2 DEF Lookup
  <2>2. TypeOK' /\ JobOK'
    BY <2>0, <2>1, ProceedType DEF TypeOK, Step
  <2>3. Moves(w) /\ PlaceOK(w)'
    BY <2>0, <2>1, ProceedMoves DEF PlaceOK
  <2> QED
    BY <2>0, <2>2, <2>3, RowsStand
<1>3. ASSUME NEW w \in Worker, CheckOld(w) PROVE RowInv'
  <2>0. pc[w] = "oldmode" /\ UNCHANGED <<mode, clock, tokens, requests, guards,
                                         build, fresh, exempt, retried, seen>>
    BY <1>3 DEF CheckOld, history
  <2>1. CASE Finish(w)
    BY <2>0, <2>1, FinishType, FinishMoves, RowsStand DEF TypeOK
  <2>2. CASE Proceed(w, "seek") /\ requests[job[w].req].binding = job[w].binding
    <3>1. TypeOK' /\ JobOK'
      BY <2>0, <2>2, ProceedType DEF TypeOK, Step
    <3>2. Moves(w) /\ PlaceOK(w)'
      BY <2>0, <2>2, ProceedMoves DEF PlaceOK
    <3> QED
      BY <2>0, <3>1, <3>2, RowsStand
  <2> QED
    BY <1>3, <2>1, <2>2 DEF CheckOld
<1>4. ASSUME NEW w \in Worker, SeekGuard(w) PROVE RowInv'
  <2>0. pc[w] = "seek" /\ UNCHANGED <<mode, clock, tokens, requests, guards,
                                      build, fresh, exempt, retried, seen>>
    BY <1>4 DEF SeekGuard, history
  <2>1. PICK s \in {"repair", "retry"} :
            Proceed(w, s) /\ (s = "retry" => guards[job[w].req] # None)
    BY <1>4 DEF SeekGuard
  <2>2. TypeOK' /\ JobOK'
    BY <2>0, <2>1, ProceedType DEF TypeOK, Step
  <2>3. Moves(w) /\ PlaceOK(w)'
    BY <2>0, <2>1, ProceedMoves DEF PlaceOK
  <2> QED
    BY <2>0, <2>2, <2>3, RowsStand
<1>5. ASSUME NEW w \in Worker, RepairGuard(w) PROVE RowInv'
  <2>0. pc[w] = "repair" /\ job[w] \in Busy
        /\ UNCHANGED <<mode, clock, tokens, requests, build, fresh, exempt,
                       retried, seen>>
    BY <1>0, <1>5 DEF RepairGuard, history
  <2>1. CASE Finish(w) /\ UNCHANGED guards
    BY <2>0, <2>1, FinishType, FinishMoves, RowsStand DEF TypeOK
  <2>2. CASE GuardFits(w) /\ InitializeGuard(w) /\ Proceed(w, "retry")
    <3>1. TypeOK' /\ JobOK'
      BY <2>0, <2>2, ProceedType, InitializeType DEF TypeOK, Step
    <3>2. Moves(w) /\ PlaceOK(w)'
      BY <2>0, <2>2, ProceedMoves, InitializeType DEF PlaceOK, InitializedOK
    <3>3. Grow
      BY <2>0, <2>2, InitializeType DEF Grow, InitializedOK
    <3>4. InitializedOK(w)
      BY <2>0, <2>2, InitializeType
    <3>5. GuardMatchesRequest' /\ ExemptOK'
      BY <2>0, <3>4, InitializedRows DEF PlaceOK
    <3> QED
      BY <3>1, <3>2, <3>3, <3>5, PlacesKept
  <2> QED
    BY <1>5, <2>1, <2>2 DEF RepairGuard
<1>6. ASSUME NEW w \in Worker, UseContinuation(w) PROVE RowInv'
  <2> DEFINE q == job[w].req
             used == [guards[q] EXCEPT !.used = TRUE]
  <2>0. /\ pc[w] = "retry" /\ job[w] \in Busy /\ Finish(w) /\ Saw(w)
        /\ guards' = [guards EXCEPT ![q] = used]
        /\ exempt' = [exempt EXCEPT ![q] = @ + 1]
        /\ guards[q].binding = job[w].binding
        /\ ~guards[q].used
        /\ UNCHANGED <<mode, clock, tokens, requests, build, fresh, retried>>
    <3>1. pc[w] = "retry" /\ job[w] \in Busy
      BY <1>0, <1>6 DEF UseContinuation
    <3> QED
      BY <1>6, <3>1 DEF UseContinuation, Continues, GuardFits, PlaceOK
  <2>1. q \in Request /\ guards[q] \in GuardRow /\ guards[q] # None
    BY <2>0 DEF Busy, PlaceOK, TypeOK
  <2>2. used \in GuardRow /\ used # None /\ used.used
        /\ used.binding = job[w].binding
    BY <2>0, <2>1, NoneIsNoRow DEF GuardRow
  <2>3. exempt[q] = 0
    BY <2>0, <2>1 DEF ExemptOK
  <2> HIDE DEF used
  <2>4. /\ guards'[q] = used /\ exempt'[q] = 1
        /\ \A r \in Request \ {q} : guards'[r] = guards[r] /\ exempt'[r] = exempt[r]
    BY <2>0, <2>1, <2>3 DEF TypeOK
  <2>5. TypeOK' /\ JobOK'
    <3>1. guards' \in [Request -> GuardRow \cup {None}]
          /\ exempt' \in [Request -> Nat]
      BY <2>0, <2>1, <2>2 DEF TypeOK
    <3>2. seen' \subseteq Request \X Binding
      BY <2>0 DEF Saw, Busy, TypeOK
    <3> QED
      BY <2>0, <3>1, <3>2, FinishType DEF TypeOK
  <2>6. Grow
    BY <2>0, <2>2, <2>4 DEF Grow
  <2>7. GuardMatchesRequest'
    <3>1. requests[q] # None /\ requests[q].binding = job[w].binding
      BY <2>0 DEF PlaceOK
    <3>2. \A p \in seen' : p \in seen \/ p = <<q, job[w].binding>>
      BY <2>0 DEF Saw
    <3>3. \A p \in seen : p[1] \in Request
      BY DEF TypeOK
    <3> QED
      BY <2>0, <2>1, <2>2, <2>4, <3>1, <3>2, <3>3 DEF GuardMatchesRequest
  <2>8. ExemptOK'
    BY <2>1, <2>2, <2>4 DEF ExemptOK
  <2> QED
    BY <2>0, <2>5, <2>6, <2>7, <2>8, FinishMoves, PlacesKept
<1>7. ASSUME NEW w \in Worker, UseRetry(w) PROVE RowInv'
  <2> DEFINE q == job[w].req
             more == [guards[q] EXCEPT !.window = Slotted(w),
                                       !.count = RetryCount(w) + 1]
  <2>0. /\ pc[w] = "retry" /\ job[w] \in Busy /\ Finish(w) /\ Saw(w)
        /\ guards' = [guards EXCEPT ![q].window = Slotted(w),
                                    ![q].count = RetryCount(w) + 1]
        /\ retried' = [retried EXCEPT ![q][Slotted(w)] = @ + 1]
        /\ guards[q].binding = job[w].binding
        /\ UNCHANGED <<mode, clock, tokens, requests, build, fresh, exempt>>
    <3>1. pc[w] = "retry" /\ job[w] \in Busy
      BY <1>0, <1>7 DEF UseRetry
    <3> QED
      BY <1>7, <3>1 DEF UseRetry, Retries, GuardFits, PlaceOK
  <2>1. q \in Request /\ guards[q] \in GuardRow /\ guards[q] # None
        /\ Slotted(w) \in Slot
    BY <2>0, SlotType DEF Busy, PlaceOK, TypeOK
  <2>2. more \in GuardRow /\ more # None /\ more.used = guards[q].used
        /\ more.binding = job[w].binding
    <3>1. RetryCount(w) + 1 \in Nat
      BY <2>1 DEF RetryCount, GuardRow
    <3>2. more \in GuardRow
      BY <2>1, <3>1 DEF GuardRow
    <3>3. more.used = guards[q].used /\ more.binding = guards[q].binding
      BY <2>1 DEF GuardRow
    <3> QED
      BY <2>0, <3>2, <3>3, NoneIsNoRow
  <2>3. guards' = [guards EXCEPT ![q] = more]
    BY <2>0, <2>1 DEF TypeOK
  <2> HIDE DEF more
  <2>4. guards'[q] = more /\ \A r \in Request \ {q} : guards'[r] = guards[r]
    BY <2>1, <2>3 DEF TypeOK
  <2>5. TypeOK' /\ JobOK'
    <3>1. guards' \in [Request -> GuardRow \cup {None}]
      BY <2>1, <2>2, <2>3 DEF TypeOK
    <3>2. retried' \in [Request -> [Slot -> Nat]]
      BY <2>0, <2>1 DEF TypeOK
    <3>3. seen' \subseteq Request \X Binding
      BY <2>0 DEF Saw, Busy, TypeOK
    <3> QED
      BY <2>0, <3>1, <3>2, <3>3, FinishType DEF TypeOK
  <2>6. Grow
    BY <2>0, <2>2, <2>4 DEF Grow
  <2>7. GuardMatchesRequest'
    <3>1. requests[q] # None /\ requests[q].binding = job[w].binding
      BY <2>0 DEF PlaceOK
    <3>2. \A p \in seen' : p \in seen \/ p = <<q, job[w].binding>>
      BY <2>0 DEF Saw
    <3>3. \A p \in seen : p[1] \in Request
      BY DEF TypeOK
    <3>4. ASSUME NEW r \in Request, guards'[r] # None
          PROVE  requests[r] # None /\ guards'[r].binding = requests[r].binding
      BY <2>2, <2>4, <3>1, <3>4 DEF GuardMatchesRequest
    <3>5. ASSUME NEW p \in seen'
          PROVE  guards'[p[1]] # None /\ guards'[p[1]].binding = p[2]
      <4>1. CASE p = <<q, job[w].binding>>
        BY <2>2, <2>4, <4>1
      <4>2. CASE p \in seen
        BY <2>0, <2>2, <2>4, <3>3, <4>2 DEF GuardMatchesRequest
      <4> QED
        BY <3>2, <4>1, <4>2
    <3> QED
      BY <2>0, <3>4, <3>5 DEF GuardMatchesRequest
  <2>8. ExemptOK'
    BY <2>0, <2>1, <2>2, <2>4 DEF ExemptOK
  <2> QED
    BY <2>0, <2>5, <2>6, <2>7, <2>8, FinishMoves, PlacesKept
<1>8. ASSUME NEW w \in Worker, RefuseRetry(w) PROVE RowInv'
  BY <1>8, FinishType, FinishMoves, RowsStand
     DEF RefuseRetry, history, TypeOK
<1>9. ASSUME NEW w \in Worker, CheckNew(w) PROVE RowInv'
  <2>0. pc[w] = "newmode" /\ UNCHANGED <<mode, clock, tokens, requests, guards,
                                         build, fresh, exempt, retried, seen>>
    BY <1>9 DEF CheckNew, history
  <2>1. CASE Finish(w)
    BY <2>0, <2>1, FinishType, FinishMoves, RowsStand DEF TypeOK
  <2>2. CASE Proceed(w, "token")
    <3>1. TypeOK' /\ JobOK'
      BY <2>0, <2>2, ProceedType DEF TypeOK, Step
    <3>2. Moves(w) /\ PlaceOK(w)'
      BY <2>0, <2>2, ProceedMoves DEF PlaceOK
    <3> QED
      BY <2>0, <3>1, <3>2, RowsStand
  <2> QED
    BY <1>9, <2>1, <2>2 DEF CheckNew
<1>10. ASSUME NEW w \in Worker, TakeToken(w) PROVE RowInv'
  <2>0. pc[w] = "token" /\ job[w] \in Busy
        /\ UNCHANGED <<mode, clock, requests, guards, build, fresh, exempt,
                       retried, seen>>
    BY <1>0, <1>10 DEF TakeToken, history
  <2>1. tokens' \in [Bucket -> [Slot -> Nat]]
    <3> DEFINE b == BucketOf[job[w].req]
               t == Slotted(w)
    <3>1. b \in Bucket /\ t \in Slot /\ tokens \in [Bucket -> [Slot -> Nat]]
      BY <2>0, SlotType DEF TypeOK
    <3>2. \/ tokens' = [tokens EXCEPT ![b][t] = @ + 1]
          \/ tokens' = tokens
      BY <1>10 DEF TakeToken
    <3> HIDE DEF b, t
    <3> QED
      BY <3>1, <3>2
  <2>2. CASE Finish(w)
    BY <2>0, <2>1, <2>2, FinishType, FinishMoves, RowsStand DEF TypeOK
  <2>3. CASE Proceed(w, "record")
    <3>1. TypeOK' /\ JobOK'
      BY <2>0, <2>1, <2>3, ProceedType DEF TypeOK, Step
    <3>2. Moves(w) /\ PlaceOK(w)'
      BY <2>0, <2>3, ProceedMoves DEF PlaceOK
    <3> QED
      BY <2>0, <3>1, <3>2, RowsStand
  <2> QED
    BY <1>10, <2>2, <2>3 DEF TakeToken
<1>11. ASSUME NEW w \in Worker, RecordRequest(w) PROVE RowInv'
  <2> DEFINE q == job[w].req
             row == [binding |-> job[w].binding, admittedAt |-> job[w].at]
  <2>0. pc[w] = "record" /\ job[w] \in Busy
        /\ UNCHANGED <<mode, clock, tokens, guards, build, fresh, exempt,
                       retried, seen>>
    BY <1>0, <1>11 DEF RecordRequest, history
  <2>1. CASE Finish(w) /\ UNCHANGED requests
    BY <2>0, <2>1, FinishType, FinishMoves, RowsStand DEF TypeOK
  <2>2. CASE /\ requests[q] \in {None, row}
             /\ requests' = [requests EXCEPT ![q] = row]
             /\ Proceed(w, "guard")
    <3>1. q \in Request /\ row \in RequestRow /\ row # None
          /\ row.binding = job[w].binding
      BY <2>0, NoneIsNoRow DEF Busy, RequestRow
    <3> HIDE DEF row
    <3>2. requests'[q] = row /\ \A r \in Request \ {q} : requests'[r] = requests[r]
      BY <2>2, <3>1 DEF TypeOK
    <3>3. TypeOK' /\ JobOK'
      BY <2>0, <2>2, <3>1, ProceedType DEF TypeOK, Step
    <3>4. Moves(w) /\ PlaceOK(w)'
      BY <2>0, <2>2, <3>1, <3>2, ProceedMoves DEF PlaceOK
    <3>5. Grow
      BY <2>0, <2>2, <3>2 DEF Grow
    <3>6. GuardMatchesRequest' /\ ExemptOK'
      BY <2>0, <3>2, <3>5 DEF GuardMatchesRequest, ExemptOK, Grow
    <3> QED
      BY <3>3, <3>4, <3>5, <3>6, PlacesKept
  <2> QED
    BY <1>11, <2>1, <2>2 DEF RecordRequest
<1>12. ASSUME NEW w \in Worker, GuardRequest(w) PROVE RowInv'
  <2>0. pc[w] = "guard" /\ job[w] \in Busy /\ Finish(w)
        /\ UNCHANGED <<mode, clock, tokens, requests, build, exempt, retried>>
    BY <1>0, <1>12 DEF GuardRequest
  <2>1. CASE UNCHANGED <<guards, fresh, seen>>
    BY <2>0, <2>1, FinishType, FinishMoves, RowsStand DEF TypeOK
  <2>2. CASE /\ GuardFits(w) /\ InitializeGuard(w) /\ Saw(w)
             /\ fresh' = [fresh EXCEPT
                           ![BucketOf[job[w].req]][Slotted(w)] = @ + 1]
    <3>1. InitializedOK(w) /\ guards' \in [Request -> GuardRow \cup {None}]
      BY <2>0, <2>2, InitializeType
    <3>2. fresh' \in [Bucket -> [Slot -> Nat]]
      BY <2>0, <2>2, SlotType DEF TypeOK
    <3>3. seen' = seen \cup {<<job[w].req, job[w].binding>>}
          /\ seen' \subseteq Request \X Binding
      BY <2>0, <2>2 DEF Saw, Busy, TypeOK
    <3>4. TypeOK' /\ JobOK'
      BY <2>0, <3>1, <3>2, <3>3, FinishType DEF TypeOK
    <3>5. Grow
      BY <2>0, <3>1 DEF Grow, InitializedOK
    <3>6. GuardMatchesRequest' /\ ExemptOK'
      BY <2>0, <3>1, <3>3, InitializedRows DEF PlaceOK
    <3> QED
      BY <2>0, <3>4, <3>5, <3>6, FinishMoves, PlacesKept
  <2> QED
    BY <1>12, <2>1, <2>2 DEF GuardRequest
<1>13. ASSUME NEW w \in Worker, StoreFails(w) PROVE RowInv'
  BY <1>13, FinishType, FinishMoves, RowsStand DEF StoreFails, history, TypeOK
<1>14. ASSUME NEW w \in Worker, NEW b \in Build, Crash(w, b) PROVE RowInv'
  BY <1>14, FinishType, FinishMoves, RowsStand DEF Crash, history, TypeOK
<1>15. ASSUME NEW m \in Mode, SetMode(m) PROVE RowInv'
  BY <1>15 DEF SetMode, history, TypeOK, JobOK, GuardMatchesRequest, ExemptOK, PlaceOK
<1>16. CASE Tick
  BY <1>16, AdmissionAssumption DEF Tick, Time, history, TypeOK, JobOK, GuardMatchesRequest, ExemptOK,
     PlaceOK
<1>17. CASE UNCHANGED vars
  BY <1>17 DEF vars, TypeOK, JobOK, GuardMatchesRequest, ExemptOK, PlaceOK
<1> QED
  BY <1>1, <1>2, <1>3, <1>4, <1>5, <1>6, <1>7, <1>8, <1>9, <1>10, <1>11,
     <1>12, <1>13, <1>14, <1>15, <1>16, <1>17 DEF Next, Attempt
-----------------------------------------------------------------------------
(* Steps take nothing back.                                                *)

\* One guard is replaced by one that is bound alike and as used.
LEMMA GuardReplaced ==
    ASSUME TypeOK, NEW q \in Request, guards[q] # None, NEW g, g # None,
           guards' = [guards EXCEPT ![q] = g], g.binding = guards[q].binding,
           guards[q].used => g.used, UNCHANGED <<tokens, requests>>
    PROVE  TakesNothingBack
<1>1. \A r \in Request : guards[r] # None =>
          /\ guards'[r] # None /\ guards'[r].binding = guards[r].binding
          /\ guards[r].used => guards'[r].used
  BY DEF TypeOK
<1>2. \A b \in Bucket, s \in Slot : tokens[b][s] <= tokens'[b][s]
  BY DEF TypeOK
<1> QED
  BY <1>1, <1>2 DEF TakesNothingBack

LEMMA NothingTakenStep == RowInv /\ [Next]_vars => [TakesNothingBack]_vars
<1> SUFFICES ASSUME RowInv, [Next]_vars PROVE TakesNothingBack \/ UNCHANGED vars
  OBVIOUS
<1>0. TypeOK /\ \A w \in Worker : pc[w] # "idle" => job[w] \in Busy
  BY DEF RowInv, JobOK
<1>1. ASSUME UNCHANGED <<tokens, requests, guards>> PROVE TakesNothingBack
  BY <1>0, <1>1 DEF TakesNothingBack, TypeOK
<1>2. ASSUME NEW w \in Worker, job[w] \in Busy, UNCHANGED <<tokens, requests>>,
             GuardFits(w), InitializeGuard(w)
      PROVE  TakesNothingBack
  BY <1>0, <1>2, InitializeType DEF TakesNothingBack, InitializedOK, TypeOK
<1>3. ASSUME NEW w \in Worker, UseContinuation(w) PROVE TakesNothingBack
  <2> DEFINE q == job[w].req
             used == [guards[q] EXCEPT !.used = TRUE]
  <2>1. /\ q \in Request /\ guards[q] \in GuardRow
        /\ guards' = [guards EXCEPT ![q] = used]
        /\ UNCHANGED <<tokens, requests>>
    <3>1. pc[w] = "retry" /\ job[w] \in Busy /\ PlaceOK(w)
      BY <1>0, <1>3 DEF UseContinuation, RowInv
    <3> QED
      BY <1>0, <1>3, <3>1 DEF UseContinuation, Busy, PlaceOK, TypeOK
  <2>2. used \in GuardRow /\ used # None /\ used.used
        /\ used.binding = guards[q].binding
    BY <2>1, NoneIsNoRow DEF GuardRow
  <2> HIDE DEF used
  <2> QED
    BY <1>0, <2>1, <2>2, NoneIsNoRow, GuardReplaced
<1>4. ASSUME NEW w \in Worker, UseRetry(w) PROVE TakesNothingBack
  <2> DEFINE q == job[w].req
             more == [guards[q] EXCEPT !.window = Slotted(w),
                                       !.count = RetryCount(w) + 1]
  <2>0. pc[w] = "retry" /\ job[w] \in Busy /\ PlaceOK(w)
    BY <1>0, <1>4 DEF UseRetry, RowInv
  <2>1. /\ q \in Request /\ guards[q] \in GuardRow /\ Slotted(w) \in Slot
        /\ guards \in [Request -> GuardRow \cup {None}]
        /\ guards' = [guards EXCEPT ![q].window = Slotted(w),
                                    ![q].count = RetryCount(w) + 1]
        /\ UNCHANGED <<tokens, requests>>
    BY <1>0, <1>4, <2>0, SlotType DEF UseRetry, Busy, PlaceOK, TypeOK
  <2>2. more.used = guards[q].used /\ more.binding = guards[q].binding
    BY <2>1 DEF GuardRow
  <2>3. more # None
    <3>1. RetryCount(w) + 1 \in Nat
      BY <2>1 DEF RetryCount, GuardRow
    <3>2. more \in GuardRow
      BY <2>1, <3>1 DEF GuardRow
    <3> QED
      BY <3>2, NoneIsNoRow
  <2>4. guards' = [guards EXCEPT ![q] = more]
    BY <2>1
  <2> HIDE DEF more
  <2> QED
    BY <1>0, <2>1, <2>2, <2>3, <2>4, NoneIsNoRow, GuardReplaced
<1>5. ASSUME NEW w \in Worker, TakeToken(w) PROVE TakesNothingBack
  <2> DEFINE b == BucketOf[job[w].req]
             t == Slotted(w)
  <2>1. b \in Bucket /\ t \in Slot /\ tokens \in [Bucket -> [Slot -> Nat]]
    BY <1>0, <1>5, SlotType DEF TakeToken, TypeOK
  <2>2. /\ UNCHANGED <<requests, guards>>
        /\ \/ tokens' = [tokens EXCEPT ![b][t] = @ + 1]
           \/ tokens' = tokens
    BY <1>5 DEF TakeToken
  <2> HIDE DEF b, t
  <2>3. \A c \in Bucket, s \in Slot : tokens[c][s] <= tokens'[c][s]
    BY <2>1, <2>2
  <2> QED
    BY <2>2, <2>3 DEF TakesNothingBack
<1>6. ASSUME NEW w \in Worker, RecordRequest(w) PROVE TakesNothingBack
  <2> DEFINE q == job[w].req
             row == [binding |-> job[w].binding, admittedAt |-> job[w].at]
  <2>1. /\ UNCHANGED <<tokens, guards>>
        /\ \/ /\ requests[q] \in {None, row}
              /\ requests' = [requests EXCEPT ![q] = row]
           \/ requests' = requests
    BY <1>6 DEF RecordRequest
  <2> HIDE DEF row
  <2> QED
    BY <1>0, <2>1 DEF TakesNothingBack, TypeOK
<1>7. ASSUME NEW w \in Worker, RepairGuard(w) PROVE TakesNothingBack
  BY <1>0, <1>1, <1>2, <1>7 DEF RepairGuard
<1>8. ASSUME NEW w \in Worker, GuardRequest(w) PROVE TakesNothingBack
  BY <1>0, <1>1, <1>2, <1>8 DEF GuardRequest
<1>9. \A w \in Worker :
        (\/ \E r \in Request, paid \in BOOLEAN : Receive(w, r, paid)
         \/ Lookup(w) \/ CheckOld(w) \/ SeekGuard(w) \/ RefuseRetry(w)
         \/ CheckNew(w) \/ StoreFails(w) \/ \E b \in Build : Crash(w, b))
        => UNCHANGED <<tokens, requests, guards>>
  BY DEF Receive, Lookup, CheckOld, SeekGuard, RefuseRetry, CheckNew,
         StoreFails, Crash
<1>10. (\E m \in Mode : SetMode(m)) \/ Tick => UNCHANGED <<tokens, requests, guards>>
  BY DEF SetMode, Tick
<1> QED
  BY <1>1, <1>3, <1>4, <1>5, <1>6, <1>7, <1>8, <1>9, <1>10 DEF Next, Attempt
-----------------------------------------------------------------------------
(* The rate limit: every token not yet passed on is held by a worker.      *)

InFlight(b, s) ==
    {w \in Worker : /\ pc[w] \in {"record", "guard"}
                    /\ BucketOf[job[w].req] = b /\ Slotted(w) = s}

LimitInv ==
    \A b \in Bucket, s \in Slot :
        /\ IsFiniteSet(InFlight(b, s))
        /\ fresh[b][s] + Cardinality(InFlight(b, s)) <= tokens[b][s]
        /\ tokens[b][s] <= Limit

\* A worker that holds no token before and after changes nothing.
LEMMA FlightStands ==
    ASSUME NEW w \in Worker, Moves(w), NEW b, NEW s,
           w \in InFlight(b, s)' <=> w \in InFlight(b, s)
    PROVE  InFlight(b, s)' = InFlight(b, s)
  BY DEF Moves, InFlight, Slotted

\* A worker that ends its attempt gives up the token it may hold.
LEMMA FlightEnds ==
    ASSUME TypeOK, NEW w \in Worker, Finish(w), NEW b, NEW s
    PROVE  InFlight(b, s)' = InFlight(b, s) \ {w}
<1>1. Moves(w) /\ w \notin InFlight(b, s)'
  BY FinishMoves DEF InFlight
<1>2. \A v \in Worker \ {w} : v \in InFlight(b, s)' <=> v \in InFlight(b, s)
  BY <1>1 DEF Moves, InFlight, Slotted
<1> QED
  BY <1>1, <1>2 DEF InFlight

\* Tokens are given up, not spent.
LEMMA LimitEnds ==
    ASSUME TypeOK, LimitInv, NEW w \in Worker, Finish(w),
           UNCHANGED <<tokens, fresh>>
    PROVE  LimitInv'
<1> SUFFICES ASSUME NEW b \in Bucket, NEW s \in Slot
             PROVE  /\ IsFiniteSet(InFlight(b, s)')
                    /\ fresh[b][s] + Cardinality(InFlight(b, s)') <= tokens[b][s]
                    /\ tokens[b][s] <= Limit
  BY DEF LimitInv
<1> DEFINE F == InFlight(b, s)
<1>1. InFlight(b, s)' = F \ {w}
  BY FlightEnds
<1>2. IsFiniteSet(F) /\ fresh[b][s] + Cardinality(F) <= tokens[b][s]
      /\ tokens[b][s] <= Limit /\ fresh[b][s] \in Nat /\ tokens[b][s] \in Nat
  BY DEF LimitInv, TypeOK
<1> HIDE DEF F
<1>3. IsFiniteSet(F \ {w}) /\ Cardinality(F \ {w}) <= Cardinality(F)
      /\ Cardinality(F) \in Nat /\ Cardinality(F \ {w}) \in Nat
  <2>1. IsFiniteSet(F \ {w}) /\ Cardinality(F) \in Nat
    BY <1>2, FS_RemoveElement, FS_CardinalityType
  <2>2. Cardinality(F \ {w}) \in Nat
    BY <2>1, FS_CardinalityType
  <2>3. Cardinality(F \ {w}) <= Cardinality(F)
    BY <1>2, FS_Subset
  <2> QED
    BY <2>1, <2>2, <2>3
<1> QED
  BY <1>1, <1>2, <1>3

\* Nobody takes or spends a token.
LEMMA LimitStands ==
    ASSUME LimitInv, UNCHANGED <<tokens, fresh>>,
           \A b \in Bucket, s \in Slot : InFlight(b, s)' = InFlight(b, s)
    PROVE  LimitInv'
  BY DEF LimitInv

LEMMA LimitStep == RowInv /\ LimitInv /\ [Next]_vars => LimitInv'
<1> SUFFICES ASSUME RowInv, LimitInv, [Next]_vars PROVE LimitInv'
  OBVIOUS
<1>0. TypeOK /\ JobOK
  BY DEF RowInv
<1>1. ASSUME NEW w \in Worker, NEW t \in {"oldmode", "newmode", "seek", "repair",
                                          "retry", "token"},
             Proceed(w, t), pc[w] \notin {"record", "guard"},
             UNCHANGED <<tokens, fresh>>
      PROVE  LimitInv'
  <2>1. Moves(w) /\ pc'[w] = t
    BY <1>0, <1>1, ProceedMoves
  <2>2. \A b, s : w \notin InFlight(b, s)' /\ w \notin InFlight(b, s)
    BY <1>1, <2>1 DEF InFlight
  <2> QED
    BY <1>1, <2>1, <2>2, FlightStands, LimitStands
<1>2. ASSUME NEW w \in Worker, NEW r \in Request, NEW paid \in BOOLEAN,
             Receive(w, r, paid)
      PROVE  LimitInv'
  <2>1. Moves(w) /\ pc[w] = "idle" /\ pc'[w] = "lookup"
        /\ UNCHANGED <<tokens, fresh>>
    BY <1>0, <1>2 DEF Receive, Goto, Moves, TypeOK, history
  <2>2. \A b, s : w \notin InFlight(b, s)' /\ w \notin InFlight(b, s)
    BY <2>1 DEF InFlight
  <2> QED
    BY <2>1, <2>2, FlightStands, LimitStands
<1>3. ASSUME NEW w \in Worker,
             Lookup(w) \/ CheckOld(w) \/ SeekGuard(w) \/ RepairGuard(w)
                \/ UseContinuation(w) \/ UseRetry(w) \/ RefuseRetry(w) \/ CheckNew(w)
      PROVE  LimitInv'
  <2>1. UNCHANGED <<tokens, fresh>> /\ pc[w] \notin {"record", "guard"}
    BY <1>3 DEF Lookup, CheckOld, SeekGuard, RepairGuard, UseContinuation,
                UseRetry, RefuseRetry, CheckNew, history
  <2>2. \/ Finish(w)
        \/ \E t \in {"oldmode", "newmode", "seek", "repair", "retry", "token"} :
               Proceed(w, t)
    BY <1>3 DEF Lookup, CheckOld, SeekGuard, RepairGuard, UseContinuation,
                UseRetry, RefuseRetry, CheckNew
  <2> QED
    BY <1>0, <1>1, <2>1, <2>2, LimitEnds
<1>4. ASSUME NEW w \in Worker, TakeToken(w) PROVE LimitInv'
  <2> DEFINE b0 == BucketOf[job[w].req]
             s0 == Slotted(w)
  <2>0. pc[w] = "token" /\ b0 \in Bucket /\ s0 \in Slot /\ UNCHANGED fresh
    BY <1>0, <1>4, SlotType DEF TakeToken, JobOK, history
  <2>1. CASE Finish(w) /\ UNCHANGED tokens
    BY <1>0, <2>0, <2>1, LimitEnds
  <2>2. CASE /\ tokens[b0][s0] < Limit
             /\ tokens' = [tokens EXCEPT ![b0][s0] = @ + 1]
             /\ Proceed(w, "record")
    <3>1. Moves(w) /\ pc'[w] = "record" /\ job'[w] = job[w]
      BY <1>0, <2>2, ProceedMoves
    <3>2. ASSUME NEW b \in Bucket, NEW s \in Slot
          PROVE  /\ InFlight(b, s)' = IF b = b0 /\ s = s0
                                      THEN InFlight(b, s) \cup {w}
                                      ELSE InFlight(b, s)
                 /\ w \notin InFlight(b, s)
      <4>1. w \notin InFlight(b, s)
        BY <2>0 DEF InFlight
      <4>2. \A v \in Worker \ {w} : v \in InFlight(b, s)' <=> v \in InFlight(b, s)
        BY <3>1 DEF Moves, InFlight, Slotted
      <4>3. w \in InFlight(b, s)' <=> b = b0 /\ s = s0
        BY <3>1 DEF InFlight, Slotted
      <4>4. InFlight(b, s) \subseteq Worker /\ InFlight(b, s)' \subseteq Worker
        BY DEF InFlight
      <4> HIDE DEF b0, s0
      <4> QED
        BY <4>1, <4>2, <4>3, <4>4
    <3> HIDE DEF b0, s0
    <3>3. tokens \in [Bucket -> [Slot -> Nat]] /\ fresh \in [Bucket -> [Slot -> Nat]]
      BY <1>0 DEF TypeOK
    <3>4. ASSUME NEW b \in Bucket, NEW s \in Slot
          PROVE  /\ IsFiniteSet(InFlight(b, s)')
                 /\ fresh'[b][s] + Cardinality(InFlight(b, s)') <= tokens'[b][s]
                 /\ tokens'[b][s] <= Limit
      <4> DEFINE F == InFlight(b, s)
      <4>1. IsFiniteSet(F) /\ fresh[b][s] + Cardinality(F) <= tokens[b][s]
            /\ tokens[b][s] <= Limit
        BY DEF LimitInv
      <4>2. w \notin F
        BY <3>2
      <4>3. InFlight(b, s)' = IF b = b0 /\ s = s0 THEN F \cup {w} ELSE F
        BY <3>2
      <4> HIDE DEF F
      <4>4. IsFiniteSet(F \cup {w}) /\ Cardinality(F \cup {w}) = Cardinality(F) + 1
            /\ Cardinality(F) \in Nat
        BY <4>1, <4>2, FS_AddElement, FS_CardinalityType
      <4>5. CASE b = b0 /\ s = s0
        BY <2>0, <2>2, <3>3, <4>1, <4>3, <4>4, <4>5, AdmissionAssumption
      <4>6. CASE ~(b = b0 /\ s = s0)
        <5>1. tokens'[b][s] = tokens[b][s]
          BY <2>0, <2>2, <3>3, <4>6
        <5> QED
          BY <2>0, <4>1, <4>3, <4>6, <5>1
      <4> QED
        BY <4>5, <4>6
    <3> QED
      BY <3>4 DEF LimitInv
  <2> QED
    BY <1>4, <2>1, <2>2 DEF TakeToken
<1>5. ASSUME NEW w \in Worker, RecordRequest(w) PROVE LimitInv'
  <2>0. pc[w] = "record" /\ UNCHANGED <<tokens, fresh>>
    BY <1>5 DEF RecordRequest, history
  <2>1. CASE Finish(w)
    BY <1>0, <2>0, <2>1, LimitEnds
  <2>2. CASE Proceed(w, "guard")
    <3>1. Moves(w) /\ pc'[w] = "guard" /\ job'[w] = job[w]
      BY <1>0, <2>2, ProceedMoves
    <3>2. \A b, s : w \in InFlight(b, s)' <=> w \in InFlight(b, s)
      BY <2>0, <3>1 DEF InFlight, Slotted
    <3> QED
      BY <2>0, <3>1, <3>2, FlightStands, LimitStands
  <2> QED
    BY <1>5, <2>1, <2>2 DEF RecordRequest
<1>6. ASSUME NEW w \in Worker, GuardRequest(w) PROVE LimitInv'
  <2> DEFINE b0 == BucketOf[job[w].req]
             s0 == Slotted(w)
  <2>0. pc[w] = "guard" /\ Finish(w) /\ UNCHANGED tokens
        /\ b0 \in Bucket /\ s0 \in Slot
    BY <1>0, <1>6, SlotType DEF GuardRequest, JobOK
  <2>1. CASE UNCHANGED fresh
    BY <1>0, <2>0, <2>1, LimitEnds
  <2>2. CASE fresh' = [fresh EXCEPT ![b0][s0] = @ + 1]
    <3>1. \A b, s : InFlight(b, s)' = InFlight(b, s) \ {w}
      BY <1>0, <2>0, FlightEnds
    <3>2. \A b, s : w \in InFlight(b, s) <=> b = b0 /\ s = s0
      BY <2>0 DEF InFlight
    <3> HIDE DEF b0, s0
    <3>3. tokens \in [Bucket -> [Slot -> Nat]] /\ fresh \in [Bucket -> [Slot -> Nat]]
      BY <1>0 DEF TypeOK
    <3>4. ASSUME NEW b \in Bucket, NEW s \in Slot
          PROVE  /\ IsFiniteSet(InFlight(b, s)')
                 /\ fresh'[b][s] + Cardinality(InFlight(b, s)') <= tokens'[b][s]
                 /\ tokens'[b][s] <= Limit
      <4> DEFINE F == InFlight(b, s)
      <4>1. IsFiniteSet(F) /\ fresh[b][s] + Cardinality(F) <= tokens[b][s]
            /\ tokens[b][s] <= Limit /\ InFlight(b, s)' = F \ {w}
        BY <3>1 DEF LimitInv
      <4>2. w \in F <=> b = b0 /\ s = s0
        BY <3>2
      <4> HIDE DEF F
      <4>3. IsFiniteSet(F \ {w}) /\ Cardinality(F) \in Nat
            /\ Cardinality(F \ {w}) \in Nat
            /\ (w \in F => Cardinality(F \ {w}) = Cardinality(F) - 1)
            /\ (w \notin F => F \ {w} = F)
        BY <4>1, FS_RemoveElement, FS_CardinalityType
      <4>4. CASE b = b0 /\ s = s0
        BY <2>0, <2>2, <3>3, <4>1, <4>2, <4>3, <4>4
      <4>5. CASE ~(b = b0 /\ s = s0)
        <5>1. fresh'[b][s] = fresh[b][s]
          BY <2>0, <2>2, <3>3, <4>5
        <5> QED
          BY <2>0, <4>1, <4>2, <4>3, <4>5, <5>1
      <4> QED
        BY <4>4, <4>5
    <3> QED
      BY <3>4 DEF LimitInv
  <2> QED
    BY <1>6, <2>1, <2>2 DEF GuardRequest
<1>7. ASSUME NEW w \in Worker, StoreFails(w) \/ \E b \in Build : Crash(w, b)
      PROVE  LimitInv'
  BY <1>0, <1>7, LimitEnds DEF StoreFails, Crash, history
<1>8. ASSUME (\E m \in Mode : SetMode(m)) \/ Tick \/ UNCHANGED vars
      PROVE  LimitInv'
  <2>1. UNCHANGED <<pc, job, tokens, fresh>>
    BY <1>8 DEF SetMode, Tick, vars, history
  <2> QED
    BY <2>1, LimitStands DEF InFlight, Slotted
<1> QED
  BY <1>1, <1>2, <1>3, <1>4, <1>5, <1>6, <1>7, <1>8 DEF Next, Attempt

LEMMA LimitInit == Init => LimitInv
<1> SUFFICES ASSUME Init PROVE LimitInv
  OBVIOUS
<1>1. ASSUME NEW b \in Bucket, NEW s \in Slot
      PROVE  /\ IsFiniteSet(InFlight(b, s))
             /\ fresh[b][s] + Cardinality(InFlight(b, s)) <= tokens[b][s]
             /\ tokens[b][s] <= Limit
  <2>1. InFlight(b, s) = {}
    BY DEF Init, InFlight
  <2>2. fresh[b][s] = 0 /\ tokens[b][s] = 0 /\ Limit \in Nat
    BY AdmissionAssumption DEF Init
  <2> QED
    BY <2>1, <2>2, FS_EmptySet
<1> QED
  BY <1>1 DEF LimitInv
-----------------------------------------------------------------------------
(* What an attempt is admitted on.                                         *)

LEMMA RowsHold == Spec => []RowInv
<1> QED
  BY RowInit, RowStep, PTL DEF Spec

\* Type correctness of the tables and of every worker's locals.
THEOREM TypeCorrect == Spec => []TypeOK
  BY RowsHold, PTL DEF RowInv

\* One attempt of a request passes on the payment continuation, however many
\* workers repair, retry and crash around it.
THEOREM OneContinuation == Spec => []ContinuationOnce
<1>1. RowInv => ContinuationOnce
  BY DEF RowInv, ExemptOK, ContinuationOnce, TypeOK
<1> QED
  BY <1>1, RowsHold, PTL

\* Request table and guard table agree on the one binding of all attempts
\* that were passed.
THEOREM GuardsMatch == Spec => []GuardMatchesRequest
  BY RowsHold, PTL DEF RowInv

\* Durable decisions are never taken back.
THEOREM NothingIsTakenBack == Spec => NothingTakenBack
  BY RowsHold, NothingTakenStep, PTL DEF Spec, NothingTakenBack

\* No window admits more new attempts than its limit.
THEOREM LimitHolds == Spec => []FreshWithinLimit
<1>1. RowInv /\ LimitInv => FreshWithinLimit
  <2> SUFFICES ASSUME RowInv, LimitInv, NEW b \in Bucket, NEW s \in Slot
               PROVE  fresh[b][s] <= tokens[b][s] /\ tokens[b][s] <= Limit
    BY DEF FreshWithinLimit
  <2>1. Cardinality(InFlight(b, s)) \in Nat
    BY FS_CardinalityType DEF LimitInv
  <2> QED
    BY <2>1 DEF LimitInv, RowInv, TypeOK
<1> QED
  BY <1>1, RowsHold, LimitInit, LimitStep, PTL DEF Spec
-----------------------------------------------------------------------------
(* Retries. The count of the window at hand is lost only to a worker whose  *)
(* attempt lies in an earlier window, and that attempt ends with it: what a *)
(* window may still give is bounded by the workers that lag behind it.      *)

LEMMA WindowsAscend ==
    ASSUME NEW a \in Nat, NEW b \in Nat, a <= b
    PROVE  WindowOf(a) <= WindowOf(b) /\ WindowOf(a) \in Nat
<1>1. Window \in Nat \ {0}
  BY AdmissionAssumption
<1> DEFINE x == a \div Window
           y == b \div Window
<1>2. x \in Nat /\ y \in Nat
  BY <1>1
<1>3. x <= y
  BY <1>1
<1> HIDE DEF x, y
<1>4. x * Window <= y * Window /\ x * Window \in Nat
  BY <1>1, <1>2, <1>3
<1> QED
  BY <1>4 DEF WindowOf, x, y

LEMMA SlotsAreTimes == Slot \subseteq Nat /\ None \notin Slot
<1>1. \A t \in Time : WindowOf(t) \in Nat
  BY WindowsAscend, AdmissionAssumption DEF Time
<1> QED
  BY <1>1, AdmissionAssumption DEF Slot

Behind(s) == {w \in Worker : pc[w] # "idle" /\ Slotted(w) < s}
Within(s) == {w \in Worker : pc[w] # "idle" /\ Slotted(w) = s}
CountIn(r, s) ==
    IF guards[r] # None /\ guards[r].window = s THEN guards[r].count ELSE 0
Allowance == RetryLimit * Cardinality(Worker)

RetriedOK(r, s) ==
    /\ WindowOf(clock) < s => retried[r][s] = 0
    /\ WindowOf(clock) = s =>
          \/ retried[r][s] = 0
          \/ retried[r][s] + RetryLimit * Cardinality(Behind(s)) + RetryLimit
                <= Allowance + CountIn(r, s)
    /\ s < WindowOf(clock) =>
          \/ retried[r][s] + RetryLimit <= Allowance + CountIn(r, s)
          \/ retried[r][s] + Cardinality(Within(s))
                < Allowance + Cardinality(Worker)

RetryInv ==
    /\ \A r \in Request, s \in Slot : RetriedOK(r, s)
    /\ \A r \in Request : guards[r] # None => guards[r].count <= RetryLimit
    /\ \A w \in Worker : pc[w] # "idle" => job[w].at <= clock

\* Sets of workers.
LEMMA Sizes ==
    ASSUME IsFiniteSet(Worker), Worker # {}, NEW S \in SUBSET Worker
    PROVE  /\ IsFiniteSet(S) /\ Cardinality(S) \in Nat
           /\ Cardinality(S) <= Cardinality(Worker)
           /\ Cardinality(Worker) \in Nat /\ 1 <= Cardinality(Worker)
<1>1. IsFiniteSet(S) /\ Cardinality(S) <= Cardinality(Worker)
  BY FS_Subset
<1>2. Cardinality(S) \in Nat /\ Cardinality(Worker) \in Nat
  BY <1>1, FS_CardinalityType
<1>3. Cardinality(Worker) # 0
  BY FS_EmptySet
<1> QED
  BY <1>1, <1>2, <1>3

\* A worker that leaves a set of workers makes it smaller.
LEMMA OneLess ==
    ASSUME IsFiniteSet(Worker), Worker # {}, NEW S \in SUBSET Worker,
           NEW T \in SUBSET S, NEW w \in S, w \notin T
    PROVE  Cardinality(T) + 1 <= Cardinality(S)
<1>1. IsFiniteSet(S) /\ Cardinality(S) \in Nat
  BY Sizes
<1>2. /\ IsFiniteSet(S \ {w})
      /\ Cardinality(S \ {w}) = Cardinality(S) - 1
  BY <1>1, FS_RemoveElement
<1>3. T \in SUBSET (S \ {w})
  OBVIOUS
<1>4. Cardinality(T) <= Cardinality(S \ {w}) /\ IsFiniteSet(T)
  BY <1>2, <1>3, FS_Subset
<1>5. Cardinality(T) \in Nat
  BY <1>4, FS_CardinalityType
<1> QED
  BY <1>1, <1>2, <1>4, <1>5

LEMMA Times ==
    ASSUME NEW a \in Nat, NEW b \in Nat, a <= b
    PROVE  /\ RetryLimit * a \in Nat /\ RetryLimit * b \in Nat
           /\ RetryLimit * a <= RetryLimit * b
           /\ RetryLimit * (a + 1) = RetryLimit * a + RetryLimit
<1>1. RetryLimit \in Nat
  BY AdmissionAssumption
<1> QED
  BY <1>1

\* What is a number here.
Counts(r, s) ==
    /\ retried[r][s] \in Nat /\ CountIn(r, s) \in Nat /\ s \in Nat
    /\ WindowOf(clock) \in Nat /\ RetryLimit \in Nat \ {0}
    /\ Allowance \in Nat /\ RetryLimit <= Allowance
    /\ Cardinality(Worker) \in Nat /\ 1 <= Cardinality(Worker)
    /\ \A t : /\ Cardinality(Behind(t)) \in Nat
              /\ Cardinality(Within(t)) \in Nat
              /\ RetryLimit * Cardinality(Behind(t)) \in Nat

LEMMA CountsHold ==
    ASSUME IsFiniteSet(Worker), Worker # {}, TypeOK,
           NEW r \in Request, NEW s \in Slot
    PROVE  Counts(r, s)
<1>1. RetryLimit \in Nat \ {0} /\ s \in Nat
  BY AdmissionAssumption, SlotsAreTimes
<1>2. retried[r][s] \in Nat /\ CountIn(r, s) \in Nat
  BY DEF TypeOK, CountIn, GuardRow
<1>3. WindowOf(clock) \in Nat
  BY WindowsAscend DEF TypeOK, Time
<1>4. Cardinality(Worker) \in Nat /\ 1 <= Cardinality(Worker)
  BY Sizes
<1>5. Allowance \in Nat /\ RetryLimit <= Allowance
  <2>1. RetryLimit * 1 <= RetryLimit * Cardinality(Worker)
        /\ RetryLimit * Cardinality(Worker) \in Nat
    BY <1>4, Times
  <2> QED
    BY <1>1, <2>1 DEF Allowance
<1>6. ASSUME NEW t
      PROVE  /\ Cardinality(Behind(t)) \in Nat
             /\ Cardinality(Within(t)) \in Nat
             /\ RetryLimit * Cardinality(Behind(t)) \in Nat
  <2>1. Behind(t) \in SUBSET Worker /\ Within(t) \in SUBSET Worker
    BY DEF Behind, Within
  <2>2. Cardinality(Behind(t)) \in Nat /\ Cardinality(Within(t)) \in Nat
    BY <2>1, Sizes
  <2> QED
    BY <2>2, Times
<1> QED
  BY <1>1, <1>2, <1>3, <1>4, <1>5, <1>6 DEF Counts

LEMMA CountsNext ==
    ASSUME IsFiniteSet(Worker), Worker # {}, TypeOK',
           NEW r \in Request, NEW s \in Slot
    PROVE  Counts(r, s)'
  BY CountsHold, PTL

\* Nothing is retried, and no more workers lag behind or are within a window.
LEMMA Fewer ==
    ASSUME IsFiniteSet(Worker), Worker # {}, TypeOK, TypeOK', RetryInv,
           NEW r \in Request, NEW s \in Slot,
           UNCHANGED <<clock, retried[r][s], CountIn(r, s)>>,
           WindowOf(clock) = s => Behind(s)' \subseteq Behind(s),
           s < WindowOf(clock) => Within(s)' \subseteq Within(s)
    PROVE  RetriedOK(r, s)'
<1>1. Counts(r, s) /\ Counts(r, s)'
  BY CountsHold, CountsNext
<1>2. RetriedOK(r, s)
  BY DEF RetryInv
<1>3. Behind(s) \in SUBSET Worker /\ Within(s) \in SUBSET Worker
  BY DEF Behind, Within
<1>4. WindowOf(clock)' = WindowOf(clock) /\ Allowance' = Allowance
  BY DEF WindowOf, Allowance
<1>5. CASE WindowOf(clock) = s
  <2>1. Cardinality(Behind(s)') <= Cardinality(Behind(s))
    BY <1>3, <1>5, Sizes, FS_Subset
  <2>2. RetryLimit * Cardinality(Behind(s)') <= RetryLimit * Cardinality(Behind(s))
    BY <1>1, <2>1, Times DEF Counts
  <2> QED
    BY <1>1, <1>2, <1>4, <1>5, <2>2 DEF Counts, RetriedOK
<1>6. CASE s < WindowOf(clock)
  <2>1. Cardinality(Within(s)') <= Cardinality(Within(s))
    BY <1>3, <1>6, Sizes, FS_Subset
  <2> QED
    BY <1>1, <1>2, <1>4, <1>6, <2>1 DEF Counts, RetriedOK
<1>7. CASE WindowOf(clock) < s
  BY <1>1, <1>2, <1>4, <1>7 DEF Counts, RetriedOK
<1> QED
  BY <1>1, <1>5, <1>6, <1>7 DEF Counts

\* A worker moves on or ends: no more workers anywhere.
LEMMA MovesFewer ==
    ASSUME NEW w \in Worker, Moves(w),
           pc'[w] = "idle" \/ (pc[w] # "idle" /\ job'[w] = job[w])
    PROVE  \A s : Behind(s)' \subseteq Behind(s) /\ Within(s)' \subseteq Within(s)
  BY DEF Moves, Behind, Within, Slotted

\* Guards keep their window and count, or are new and have none.
LEMMA RetriesStand ==
    ASSUME IsFiniteSet(Worker), Worker # {}, RowInv, RowInv', RetryInv,
           NEW w \in Worker, Moves(w),
           pc'[w] = "idle" \/ (pc[w] # "idle" /\ job'[w] = job[w]),
           \A r \in Request :
               IF guards[r] = None
               THEN \/ guards'[r] = None
                    \/ guards'[r].window = None /\ guards'[r].count = 0
               ELSE /\ guards'[r] # None
                    /\ guards'[r].window = guards[r].window
                    /\ guards'[r].count = guards[r].count,
           UNCHANGED <<clock, retried>>
    PROVE  RetryInv'
<1>0. TypeOK /\ TypeOK'
  BY DEF RowInv
<1>1. ASSUME NEW r \in Request, NEW s \in Slot PROVE RetriedOK(r, s)'
  <2>1. CountIn(r, s)' = CountIn(r, s)
    BY SlotsAreTimes DEF CountIn
  <2>2. Behind(s)' \subseteq Behind(s) /\ Within(s)' \subseteq Within(s)
    BY MovesFewer
  <2> QED
    BY <1>0, <2>1, <2>2, Fewer
<1>2. ASSUME NEW r \in Request, guards'[r] # None
      PROVE  guards'[r].count <= RetryLimit
  <2>1. CASE guards[r] = None
    BY <1>2, <2>1, AdmissionAssumption
  <2>2. CASE guards[r] # None
    BY <2>2 DEF RetryInv
  <2> QED
    BY <2>1, <2>2
<1>3. ASSUME NEW v \in Worker, pc'[v] # "idle" PROVE job'[v].at <= clock'
  BY <1>3 DEF Moves, RetryInv
<1> QED
  BY <1>1, <1>2, <1>3 DEF RetryInv

\* A retry counted in the window t for the request q by the worker w.
LEMMA RetryCounted ==
    ASSUME IsFiniteSet(Worker), Worker # {}, RowInv, RowInv', RetryInv,
           NEW w \in Worker, Moves(w), pc[w] # "idle", pc'[w] = "idle",
           NEW q \in Request, NEW t \in Slot, t = Slotted(w),
           t <= WindowOf(clock), CountIn(q, t) < RetryLimit,
           guards'[q] # None, guards'[q].window = t,
           guards'[q].count = CountIn(q, t) + 1,
           retried'[q][t] = retried[q][t] + 1, UNCHANGED clock,
           NEW s \in Slot, s # t => retried'[q][s] = retried[q][s],
           CountIn(q, s) <= RetryLimit
    PROVE  RetriedOK(q, s)'
<1> DEFINE c == WindowOf(clock)
           n == retried[q][s]
           m == retried'[q][s]
           k == CountIn(q, s)
           A == Allowance
           N == Cardinality(Worker)
           b == Cardinality(Behind(s))
           d == Cardinality(Behind(s)')
           i == Cardinality(Within(s))
           j == Cardinality(Within(s)')
           x == RetryLimit * b
           y == RetryLimit * d
<1>0. Counts(q, s) /\ Counts(q, s)' /\ t \in Nat
  <2>1. TypeOK /\ TypeOK'
    BY DEF RowInv
  <2>2. Counts(q, s) /\ Counts(q, s)'
    BY <2>1, CountsHold, CountsNext
  <2> QED
    BY <2>2, SlotsAreTimes
<1>1. /\ n \in Nat /\ m \in Nat /\ k \in Nat /\ A \in Nat /\ N \in Nat
      /\ b \in Nat /\ d \in Nat /\ i \in Nat /\ j \in Nat
      /\ x \in Nat /\ y \in Nat /\ c \in Nat /\ s \in Nat
      /\ RetryLimit \in Nat \ {0} /\ RetryLimit <= A /\ 1 <= N
  BY <1>0 DEF Counts
<1>2. /\ c < s => n = 0
      /\ c = s => n = 0 \/ n + x + RetryLimit <= A + k
      /\ s < c => n + RetryLimit <= A + k \/ n + i < A + N
  BY DEF RetryInv, RetriedOK
<1>3. CountIn(q, s)' = IF s = t THEN k + 1 ELSE 0
  BY DEF CountIn
<1>4. /\ Behind(s) \in SUBSET Worker /\ Within(s) \in SUBSET Worker
      /\ Behind(s)' \in SUBSET Behind(s) /\ Within(s)' \in SUBSET Within(s)
      /\ w \notin Behind(s)' /\ w \notin Within(s)'
  BY MovesFewer DEF Behind, Within
<1>5. /\ d <= b /\ j <= i /\ d + 1 <= N /\ j + 1 <= N
      /\ t < s => d + 1 <= b
      /\ t = s => j + 1 <= i
  <2>1. d <= b /\ j <= i
    BY <1>4, Sizes, FS_Subset
  <2>2. d + 1 <= N /\ j + 1 <= N
    BY <1>4, OneLess
  <2>3. t < s => w \in Behind(s)
    BY DEF Behind
  <2>4. t = s => w \in Within(s)
    BY DEF Within
  <2> QED
    BY <1>4, <2>1, <2>2, <2>3, <2>4, OneLess
<1>6. /\ y <= x
      /\ y + RetryLimit <= A
      /\ t < s => y + RetryLimit <= x
  <2>1. y <= x /\ y + RetryLimit = RetryLimit * (d + 1)
    BY <1>1, <1>5, Times
  <2>2. RetryLimit * (d + 1) <= A
    BY <1>1, <1>5, Times DEF Allowance
  <2>3. t < s => RetryLimit * (d + 1) <= x
    BY <1>1, <1>5, Times
  <2> QED
    BY <2>1, <2>2, <2>3
<1>7. /\ WindowOf(clock)' = c /\ Allowance' = A
      /\ m = IF s = t THEN n + 1 ELSE n
  BY DEF WindowOf, Allowance
<1>8. SUFFICES LET l == CountIn(q, s)'
               IN  /\ c < s => m = 0
                   /\ c = s => m = 0 \/ m + y + RetryLimit <= A + l
                   /\ s < c => m + RetryLimit <= A + l \/ m + j < A + N
  BY <1>7 DEF RetriedOK
<1>9. k <= RetryLimit /\ (s = t => k < RetryLimit) /\ t <= c
  OBVIOUS
<1> HIDE DEF c, n, m, k, A, N, b, d, i, j, x, y
<1> QED
  BY <1>0, <1>1, <1>2, <1>3, <1>5, <1>6, <1>7, <1>9

LEMMA RetryUsed ==
    ASSUME IsFiniteSet(Worker), Worker # {}, RowInv, RowInv', RetryInv,
           NEW w \in Worker, UseRetry(w),
           NEW q \in Request, q = job[w].req, NEW t \in Slot, t = Slotted(w)
    PROVE  RetryInv'
<1> DEFINE g == guards[q]
           more == [g EXCEPT !.window = t, !.count = RetryCount(w) + 1]
<1>0. TypeOK /\ TypeOK'
  BY DEF RowInv
<1>1. pc[w] = "retry" /\ job[w] \in Busy /\ PlaceOK(w) /\ Finish(w)
  BY DEF UseRetry, RowInv, JobOK
<1>2. g \in GuardRow /\ g # None /\ t <= WindowOf(clock)
  <2>1. job[w].at \in Nat /\ clock \in Nat
    BY <1>0, <1>1 DEF TypeOK, Time, Busy
  <2>2. job[w].at <= clock
    BY <1>1 DEF RetryInv
  <2> QED
    BY <1>0, <1>1, <2>1, <2>2, WindowsAscend DEF PlaceOK, TypeOK, Slotted
<1>3. RetryCount(w) = CountIn(q, t) /\ CountIn(q, t) < RetryLimit
      /\ CountIn(q, t) \in Nat
  BY <1>2 DEF UseRetry, Retries, RetryCount, CountIn, GuardRow
<1>4. more \in GuardRow /\ more.window = t /\ more.count = CountIn(q, t) + 1
  <2>1. RetryCount(w) + 1 \in Nat
    BY <1>3
  <2>2. more \in GuardRow
    BY <1>2, <2>1 DEF GuardRow
  <2> QED
    BY <1>2, <1>3, <2>2 DEF GuardRow
<1>5. /\ guards' = [guards EXCEPT ![q] = more] /\ more # None
      /\ retried' = [retried EXCEPT ![q][t] = @ + 1] /\ UNCHANGED clock
      /\ retried \in [Request -> [Slot -> Nat]]
      /\ guards \in [Request -> GuardRow \cup {None}]
  BY <1>0, <1>2, <1>4, NoneIsNoRow DEF UseRetry, TypeOK
<1>6. Moves(w) /\ pc'[w] = "idle" /\ pc[w] # "idle"
  BY <1>0, <1>1, FinishMoves
<1>7. RetryLimit \in Nat \ {0}
  BY AdmissionAssumption
<1>8. \A r \in Request, s \in Slot : CountIn(r, s) <= RetryLimit
  BY <1>7 DEF RetryInv, CountIn
<1> HIDE DEF more, g
<1>9. /\ guards'[q] # None /\ guards'[q].window = t
       /\ guards'[q].count = CountIn(q, t) + 1
       /\ retried'[q][t] = retried[q][t] + 1
       /\ \A s \in Slot : s # t => retried'[q][s] = retried[q][s]
  BY <1>2, <1>4, <1>5
<1>10. ASSUME NEW s \in Slot PROVE RetriedOK(q, s)'
  <2>1. CountIn(q, s) <= RetryLimit
    BY <1>2, <1>8
  <2>2. s # t => retried'[q][s] = retried[q][s]
    BY <1>9
  <2> QED
    BY <1>2, <1>3, <1>5, <1>6, <1>9, <2>1, <2>2, RetryCounted
<1>11. ASSUME NEW r \in Request, r # q, NEW s \in Slot PROVE RetriedOK(r, s)'
  <2>1. guards'[r] = guards[r] /\ retried'[r][s] = retried[r][s]
    BY <1>2, <1>5, <1>11
  <2>2. CountIn(r, s)' = CountIn(r, s)
    BY <2>1 DEF CountIn
  <2>3. Behind(s)' \subseteq Behind(s) /\ Within(s)' \subseteq Within(s)
    BY <1>6, MovesFewer
  <2> QED
    BY <1>0, <1>5, <2>1, <2>2, <2>3, Fewer
<1>12. ASSUME NEW r \in Request, guards'[r] # None
       PROVE  guards'[r].count <= RetryLimit
  <2>1. CASE r = q
    BY <1>3, <1>7, <1>9, <2>1
  <2>2. CASE r # q
    BY <1>2, <1>5, <1>12, <2>2 DEF RetryInv
  <2> QED
    BY <2>1, <2>2
<1>13. ASSUME NEW v \in Worker, pc'[v] # "idle" PROVE job'[v].at <= clock'
  BY <1>5, <1>6, <1>13 DEF Moves, RetryInv
<1>14. \A r \in Request, s \in Slot : RetriedOK(r, s)'
  BY <1>10, <1>11
<1> QED
  BY <1>12, <1>13, <1>14 DEF RetryInv

\* The clock goes on: a window that is left has its allowance, and no worker
\* that could set its count back.
LEMMA RetryTick ==
    ASSUME IsFiniteSet(Worker), Worker # {}, RowInv, RowInv', RetryInv, Tick
    PROVE  RetryInv'
<1>1. /\ TypeOK /\ TypeOK' /\ UNCHANGED <<guards, retried, pc, job>>
      /\ clock \in Nat /\ clock' \in Nat /\ clock <= clock'
  BY DEF RowInv, Tick, history, TypeOK, Time
<1>2. WindowOf(clock) <= WindowOf(clock')
  BY <1>1, WindowsAscend
<1>3. ASSUME NEW r \in Request, NEW s \in Slot PROVE RetriedOK(r, s)'
  <2>1. Counts(r, s) /\ Counts(r, s)'
    BY <1>1, CountsHold, CountsNext
  <2>2. /\ RetriedOK(r, s) /\ retried'[r][s] = retried[r][s]
        /\ CountIn(r, s)' = CountIn(r, s)
        /\ Behind(s)' = Behind(s) /\ Within(s)' = Within(s)
        /\ Allowance' = Allowance /\ WindowOf(clock)' = WindowOf(clock')
    BY <1>1 DEF RetryInv, CountIn, Behind, Within, Slotted, Allowance, WindowOf
  <2> QED
    BY <1>2, <2>1, <2>2 DEF Counts, RetriedOK
<1>4. \A r \in Request : guards'[r] # None => guards'[r].count <= RetryLimit
  BY <1>1 DEF RetryInv
<1>5. ASSUME NEW w \in Worker, pc'[w] # "idle" PROVE job'[w].at <= clock'
  <2>1. job[w].at \in Nat /\ job[w].at <= clock /\ job'[w] = job[w]
    BY <1>1, <1>5 DEF RowInv, JobOK, Busy, Time, RetryInv
  <2> QED
    BY <1>1, <2>1
<1> QED
  BY <1>3, <1>4, <1>5 DEF RetryInv

LEMMA RetryStep ==
    ASSUME IsFiniteSet(Worker), Worker # {}, RowInv, RetryInv, [Next]_vars,
           RowInv'
    PROVE  RetryInv'
<1> USE DEF RowInv
<1>0. TypeOK /\ JobOK /\ TypeOK'
      /\ \A w \in Worker : pc[w] # "idle" => job[w] \in Busy
  BY DEF JobOK
<1>1. ASSUME NEW w \in Worker, NEW r \in Request, NEW paid \in BOOLEAN,
             Receive(w, r, paid)
      PROVE  RetryInv'
  <2>1. /\ UNCHANGED <<guards, clock, retried>> /\ job'[w].at = clock
        /\ clock \in Nat /\ Moves(w) /\ pc[w] = "idle"
    <3>1. pc \in [Worker -> Step] /\ job \in [Worker -> Job] /\ clock \in Nat
      BY <1>0 DEF TypeOK, Time
    <3> QED
      BY <1>1, <3>1 DEF Receive, Goto, history, Moves
  <2>2. ASSUME NEW q \in Request, NEW s \in Slot PROVE RetriedOK(q, s)'
    <3>1. Slotted(w)' = WindowOf(clock) /\ WindowOf(clock) \in Nat
      BY <2>1, WindowsAscend DEF Slotted
    <3>2. ~(WindowOf(clock) < WindowOf(clock))
      BY <3>1
    <3>3. WindowOf(clock) = s => Behind(s)' \subseteq Behind(s)
      BY <2>1, <3>1, <3>2 DEF Behind, Moves, Slotted
    <3>4. s < WindowOf(clock) => Within(s)' \subseteq Within(s)
      BY <2>1, <3>1, <3>2 DEF Within, Moves, Slotted
    <3>5. CountIn(q, s)' = CountIn(q, s) /\ UNCHANGED retried[q][s]
      BY <2>1 DEF CountIn
    <3> QED
      BY <1>0, <2>1, <3>3, <3>4, <3>5, Fewer
  <2>3. ASSUME NEW v \in Worker, pc'[v] # "idle" PROVE job'[v].at <= clock'
    BY <2>1, <2>3 DEF Moves, RetryInv
  <2> QED
    BY <2>1, <2>2, <2>3 DEF RetryInv
<1>2. ASSUME NEW w \in Worker, UNCHANGED <<guards, clock, retried>>, Moves(w),
             pc'[w] = "idle" \/ (pc[w] # "idle" /\ job'[w] = job[w])
      PROVE  RetryInv'
  BY <1>2, RetriesStand
<1>3. ASSUME NEW w \in Worker,
             Lookup(w) \/ CheckOld(w) \/ SeekGuard(w) \/ RefuseRetry(w)
             \/ CheckNew(w) \/ TakeToken(w) \/ RecordRequest(w)
      PROVE  RetryInv'
  <2>1. /\ UNCHANGED <<guards, clock, retried>> /\ pc[w] # "idle"
        /\ Finish(w) \/ \E s : Proceed(w, s)
    BY <1>3 DEF Lookup, CheckOld, SeekGuard, RefuseRetry, CheckNew, TakeToken,
                RecordRequest, history
  <2> QED
    BY <1>0, <1>2, <2>1, FinishMoves, ProceedMoves
<1>4. ASSUME NEW w \in Worker, UseContinuation(w) PROVE RetryInv'
  <2> DEFINE q == job[w].req
             used == [guards[q] EXCEPT !.used = TRUE]
  <2>1. /\ q \in Request /\ guards[q] \in GuardRow /\ Finish(w)
        /\ guards' = [guards EXCEPT ![q] = used]
        /\ UNCHANGED <<clock, retried>>
    <3>1. pc[w] = "retry" /\ job[w] \in Busy /\ PlaceOK(w)
      BY <1>0, <1>4 DEF UseContinuation
    <3> QED
      BY <1>0, <1>4, <3>1 DEF UseContinuation, Busy, PlaceOK, TypeOK
  <2>2. used \in GuardRow /\ used # None
        /\ used.window = guards[q].window /\ used.count = guards[q].count
    BY <2>1, NoneIsNoRow DEF GuardRow
  <2> HIDE DEF used
  <2>3. \A r \in Request :
            IF guards[r] = None
            THEN \/ guards'[r] = None
                 \/ guards'[r].window = None /\ guards'[r].count = 0
            ELSE /\ guards'[r] # None
                 /\ guards'[r].window = guards[r].window
                 /\ guards'[r].count = guards[r].count
    BY <1>0, <2>1, <2>2, NoneIsNoRow DEF TypeOK
  <2>4. pc'[w] = "idle" /\ Moves(w)
    BY <1>0, <2>1, FinishMoves
  <2> QED
    BY <2>1, <2>3, <2>4, RetriesStand
<1>5. ASSUME NEW w \in Worker, UseRetry(w) PROVE RetryInv'
  <2>1. job[w].req \in Request /\ Slotted(w) \in Slot
    BY <1>0, <1>5, SlotType DEF UseRetry
  <2> QED
    BY <1>5, <2>1, RetryUsed
<1>6. ASSUME NEW w \in Worker, RepairGuard(w) \/ GuardRequest(w) PROVE RetryInv'
  <2>1. /\ UNCHANGED <<clock, retried>> /\ pc[w] # "idle" /\ job[w] \in Busy
        /\ Finish(w) \/ \E s : Proceed(w, s)
        /\ UNCHANGED guards \/ (GuardFits(w) /\ InitializeGuard(w))
    BY <1>0, <1>6 DEF RepairGuard, GuardRequest, history
  <2>2. Moves(w) /\ (pc'[w] = "idle" \/ (pc[w] # "idle" /\ job'[w] = job[w]))
    BY <1>0, <2>1, FinishMoves, ProceedMoves
  <2>3. CASE UNCHANGED guards
    BY <1>2, <2>1, <2>2, <2>3
  <2>4. CASE GuardFits(w) /\ InitializeGuard(w)
    <3>1. InitializedOK(w)
      BY <1>0, <2>1, <2>4, InitializeType
    <3>2. \A r \in Request :
              IF guards[r] = None
              THEN \/ guards'[r] = None
                   \/ guards'[r].window = None /\ guards'[r].count = 0
              ELSE /\ guards'[r] # None
                   /\ guards'[r].window = guards[r].window
                   /\ guards'[r].count = guards[r].count
      BY <3>1 DEF InitializedOK, NewGuard
    <3> QED
      BY <2>1, <2>2, <3>2, RetriesStand
  <2> QED
    BY <2>1, <2>3, <2>4
<1>7. ASSUME NEW w \in Worker, StoreFails(w) \/ \E b \in Build : Crash(w, b)
      PROVE  RetryInv'
  <2>1. UNCHANGED <<guards, clock, retried>> /\ Finish(w)
    BY <1>7 DEF StoreFails, Crash, history
  <2> QED
    BY <1>0, <1>2, <2>1, FinishMoves
<1>8. ASSUME (\E m \in Mode : SetMode(m)) \/ UNCHANGED vars PROVE RetryInv'
  <2>1. UNCHANGED <<guards, clock, retried, pc, job>>
    BY <1>8 DEF SetMode, history, vars
  <2>2. \A r \in Request, s \in Slot : RetriedOK(r, s)'
    BY <2>1 DEF RetryInv, RetriedOK, CountIn, Behind, Within, Slotted,
                Allowance, WindowOf
  <2> QED
    BY <2>1, <2>2 DEF RetryInv
<1>9. CASE Tick
  BY <1>9, RetryTick
<1> QED
  BY <1>1, <1>3, <1>4, <1>5, <1>6, <1>7, <1>8, <1>9 DEF Next, Attempt

\* However many processes race, crash and come late to a guard, a request is
\* passed as a retry less than RetryLimit + 1 times per process in a window:
\* where one process serves the application, RetryLimit times.
THEOREM RetriesStayBounded ==
    ASSUME IsFiniteSet(Worker), Worker # {}
    PROVE  Spec => []RetriesBounded
<1>1. Init => RetryInv
  <2> SUFFICES ASSUME Init PROVE RetryInv
    OBVIOUS
  <2>1. RowInv
    BY RowInit
  <2>2. ASSUME NEW r \in Request, NEW s \in Slot PROVE RetriedOK(r, s)
    <3>1. Counts(r, s) /\ retried[r][s] = 0
      BY <2>1, CountsHold DEF RowInv, Init
    <3> QED
      BY <3>1 DEF Counts, RetriedOK
  <2> QED
    BY <2>2 DEF Init, RetryInv
<1>2. RowInv /\ RetryInv => RetriesBounded
  <2> SUFFICES ASSUME RowInv, RetryInv, NEW r \in Request, NEW s \in Slot
               PROVE  retried[r][s] < (RetryLimit + 1) * Cardinality(Worker)
    BY DEF RetriesBounded
  <2>1. Counts(r, s) /\ RetriedOK(r, s) /\ CountIn(r, s) <= RetryLimit
    BY CountsHold, AdmissionAssumption DEF RowInv, RetryInv, CountIn
  <2>2. (RetryLimit + 1) * Cardinality(Worker) = Allowance + Cardinality(Worker)
    BY <2>1 DEF Counts, Allowance
  <2> QED
    BY <2>1, <2>2 DEF Counts, RetriedOK
<1>3. RowInv /\ RetryInv /\ [Next]_vars => RetryInv'
  BY RowStep, RetryStep
<1> QED
  BY <1>1, <1>2, <1>3, RowsHold, PTL DEF Spec

=============================================================================
