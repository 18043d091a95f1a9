------------------------- MODULE RetailServiceProofs -------------------------
(***************************************************************************)
(* Proofs about the composition RetailService, and what the theorems about *)
(* its two parts come to for it.                                           *)
(***************************************************************************)
EXTENDS RetailService, FiniteSetTheorems, TLAPS

AdmissionProofs ==
    INSTANCE RetailAdmissionProofs WITH pc <- step, job <- attempt
DeliveryProofs == INSTANCE RetailDeliveryProofs

\* The service mode and the builds belong to both parts.
Shared == <<mode, build>>

\* A process on its way through one part leaves the other part's rows alone.
LEMMA AttemptsAlone ==
    ASSUME NEW w \in Worker, Admission!Attempt(w)
    PROVE  UNCHANGED Shared
  BY DEF Shared, Admission!Attempt, Admission!Lookup,
     Admission!CheckOld, Admission!SeekGuard, Admission!RepairGuard,
     Admission!UseContinuation, Admission!UseRetry, Admission!RefuseRetry,
     Admission!CheckNew, Admission!TakeToken, Admission!RecordRequest,
     Admission!GuardRequest

LEMMA PassingIsAttempt ==
    ASSUME NEW w \in Worker, Passes(w)
    PROVE  Admission!Attempt(w)
  BY DEF Passes, Admission!Attempt

LEMMA ChargesAlone ==
    ASSUME NEW w \in Worker, Charge(w)
    PROVE  Delivery!Settle(w) /\ UNCHANGED Shared
  BY DEF Charge, Shared, Delivery!Settle, Delivery!SettlementConfirmed,
     Delivery!SettlementReplyLost

LEMMA DeliversAlone ==
    ASSUME NEW w \in Worker, Deliver(w)
    PROVE  Delivery!Serve(w) /\ UNCHANGED Shared
<1>1. Delivery!Serve(w)
  BY DEF Deliver, Delivery!Serve, Delivery!Settle
<1>2. CASE Delivery!SettlementRefused(w) \/ Delivery!CheckMode(w)
  BY <1>1, <1>2 DEF Shared, Delivery!SettlementRefused, Delivery!CheckMode
<1>3. CASE Delivery!Claim(w) \/ Delivery!Resume(w)
  BY <1>1, <1>3 DEF Shared, Delivery!Claim, Delivery!ClaimInserted,
     Delivery!ClaimConsumed, Delivery!ClaimConflict, Delivery!Resume
<1>4. CASE \/ Delivery!Render(w) \/ Delivery!ReadForFailure(w)
           \/ Delivery!MarkFailed(w)
  BY <1>1, <1>4 DEF Shared, Delivery!Render, Delivery!RenderSucceeds,
     Delivery!RenderFails, Delivery!ReadForFailure, Delivery!MarkFailed
<1>5. CASE \/ Delivery!ReadClaim(w) \/ Delivery!MarkDelivered(w)
           \/ Delivery!ReadRaced(w) \/ Delivery!Respond(w)
  BY <1>1, <1>5 DEF Shared, Delivery!ReadClaim, Delivery!MarkDelivered,
     Delivery!ReadRaced, Delivery!Respond
<1> QED
  BY <1>1, <1>2, <1>3, <1>4, <1>5 DEF Deliver

LEMMA AdmissionStep ==
    [ServiceNext]_serviceVars => [Admission!Next]_(Admission!vars)
<1> USE DEF Shared, admissionOnly
<1> SUFFICES ASSUME [ServiceNext]_serviceVars
             PROVE  [Admission!Next]_(Admission!vars)
  OBVIOUS
<1>1. ASSUME NEW w \in Worker, NEW r \in Request, NEW paid \in BOOLEAN,
             Ask(w, r, paid)
      PROVE  Admission!Next
  BY <1>1 DEF Ask, Admission!Next
<1>2. ASSUME NEW w \in Worker, Admit(w) \/ Pay(w) PROVE Admission!Next
  BY <1>2, PassingIsAttempt DEF Admit, Pay, Admission!Next
<1>3. ASSUME NEW w \in Worker, Charge(w) PROVE UNCHANGED Admission!vars
  BY <1>3, ChargesAlone DEF Charge, Admission!vars, Admission!history
<1>4. ASSUME NEW w \in Worker, Deliver(w) PROVE UNCHANGED Admission!vars
  BY <1>4, DeliversAlone DEF Deliver, Admission!vars, Admission!history
<1>5. ASSUME NEW w \in Worker, StoreFails(w)
      PROVE  Admission!Next \/ UNCHANGED Admission!vars
  BY <1>5 DEF StoreFails, Admission!Next, Admission!vars, Admission!history,
     Delivery!StoreFails
<1>6. ASSUME NEW w \in Worker, NEW b \in Build, Crash(w, b)
      PROVE  Admission!Next
  BY <1>6 DEF Crash, Admission!Next
<1>7. ASSUME NEW m \in Admission!Mode, SetMode(m) PROVE Admission!Next
  BY <1>7 DEF SetMode, Admission!Next
<1>8. ASSUME Tick PROVE Admission!Next
  BY <1>8 DEF Tick, Admission!Next
<1>9. CASE UNCHANGED serviceVars
  BY <1>9 DEF serviceVars, Admission!vars, Admission!history
<1> QED
  BY <1>1, <1>2, <1>3, <1>4, <1>5, <1>6, <1>7, <1>8, <1>9 DEF ServiceNext

\* A process that passes knows its request, bound as its registry says.
LEMMA PayerKnown ==
    ASSUME AdmissionProofs!RowInv, NEW w \in Worker, Passes(w)
    PROVE  attempt[w].req \in Request
<1>1. step[w] # "idle"
  BY DEF Passes, Admission!UseContinuation, Admission!UseRetry
<1> QED
  BY <1>1 DEF AdmissionProofs!RowInv, AdmissionProofs!JobOK, AdmissionProofs!Busy

LEMMA DeliveryStep ==
    AdmissionProofs!RowInv /\ [ServiceNext]_serviceVars
        => [Delivery!Next]_(Delivery!vars)
<1> USE DEF Shared, deliveryOnly
<1> SUFFICES ASSUME AdmissionProofs!RowInv, [ServiceNext]_serviceVars
             PROVE  [Delivery!Next]_(Delivery!vars)
  OBVIOUS
<1>1. ASSUME NEW w \in Worker, NEW r \in Request, NEW paid \in BOOLEAN,
             Ask(w, r, paid)
      PROVE  UNCHANGED Delivery!vars
  BY <1>1 DEF Ask, Delivery!vars, Admission!Receive
<1>2. ASSUME NEW w \in Worker, Admit(w) PROVE UNCHANGED Delivery!vars
  BY <1>2, AttemptsAlone DEF Admit, Delivery!vars
<1>3. ASSUME NEW w \in Worker, Pay(w) PROVE Delivery!Next
  BY <1>3, PayerKnown DEF Pay, Delivery!Serve, Delivery!Next
<1>4. ASSUME NEW w \in Worker, Charge(w) \/ Deliver(w) PROVE Delivery!Next
  BY <1>4, ChargesAlone, DeliversAlone DEF Delivery!Serve, Delivery!Next
<1>5. ASSUME NEW w \in Worker, StoreFails(w)
      PROVE  Delivery!Next \/ UNCHANGED Delivery!vars
  BY <1>5 DEF StoreFails, Delivery!Next, Delivery!vars, Admission!StoreFails
<1>6. ASSUME NEW w \in Worker, NEW b \in Build, Crash(w, b)
      PROVE  Delivery!Next
  BY <1>6 DEF Crash, Delivery!Next
<1>7. ASSUME NEW m \in Admission!Mode, SetMode(m) PROVE Delivery!Next
  BY <1>7 DEF SetMode, Delivery!Next, Admission!Mode, Delivery!Mode
<1>8. ASSUME Tick PROVE UNCHANGED Delivery!vars
  BY <1>8 DEF Tick, Admission!Tick, Delivery!vars
<1>9. CASE UNCHANGED serviceVars
  BY <1>9 DEF serviceVars, Delivery!vars
<1> QED
  BY <1>1, <1>2, <1>3, <1>4, <1>5, <1>6, <1>7, <1>8, <1>9 DEF ServiceNext
-----------------------------------------------------------------------------
(* The two parts.                                                          *)

\* The module with the proofs about a part speaks of the same part.
LEMMA SameAdmission ==
    /\ Admission!Init => AdmissionProofs!Init
    /\ [Admission!Next]_(Admission!vars)
          => [AdmissionProofs!Next]_(AdmissionProofs!vars)
  BY DEF Admission!vars, AdmissionProofs!vars, Admission!history,
     AdmissionProofs!history, Admission!Mode, AdmissionProofs!Mode,
     Admission!Time, AdmissionProofs!Time, Admission!WindowOf,
     AdmissionProofs!WindowOf, Admission!Slot, AdmissionProofs!Slot,
     Admission!NoJob, AdmissionProofs!NoJob, Admission!Init,
     AdmissionProofs!Init, Admission!Goto, AdmissionProofs!Goto,
     Admission!Finish, AdmissionProofs!Finish, Admission!Proceed,
     AdmissionProofs!Proceed, Admission!Slotted, AdmissionProofs!Slotted,
     Admission!Saw, AdmissionProofs!Saw, Admission!NewGuard,
     AdmissionProofs!NewGuard, Admission!GuardFits,
     AdmissionProofs!GuardFits, Admission!KeptGuard,
     AdmissionProofs!KeptGuard, Admission!InitializeGuard,
     AdmissionProofs!InitializeGuard, Admission!Receive,
     AdmissionProofs!Receive, Admission!Lookup, AdmissionProofs!Lookup,
     Admission!CheckOld, AdmissionProofs!CheckOld, Admission!SeekGuard,
     AdmissionProofs!SeekGuard, Admission!RepairGuard,
     AdmissionProofs!RepairGuard, Admission!RetryCount,
     AdmissionProofs!RetryCount, Admission!Continues,
     AdmissionProofs!Continues, Admission!Retries, AdmissionProofs!Retries,
     Admission!UseContinuation, AdmissionProofs!UseContinuation,
     Admission!UseRetry, AdmissionProofs!UseRetry, Admission!RefuseRetry,
     AdmissionProofs!RefuseRetry, Admission!CheckNew,
     AdmissionProofs!CheckNew, Admission!TakeToken,
     AdmissionProofs!TakeToken, Admission!RecordRequest,
     AdmissionProofs!RecordRequest, Admission!GuardRequest,
     AdmissionProofs!GuardRequest, Admission!StoreFails,
     AdmissionProofs!StoreFails, Admission!Crash, AdmissionProofs!Crash,
     Admission!SetMode, AdmissionProofs!SetMode, Admission!Tick,
     AdmissionProofs!Tick, Admission!Attempt, AdmissionProofs!Attempt,
     Admission!Next, AdmissionProofs!Next

LEMMA SameDelivery ==
    /\ Delivery!Init => DeliveryProofs!Init
    /\ [Delivery!Next]_(Delivery!vars)
          => [DeliveryProofs!Next]_(DeliveryProofs!vars)
  BY DEF Delivery!vars, DeliveryProofs!vars, Delivery!Mode,
     DeliveryProofs!Mode, Delivery!NoJob, DeliveryProofs!NoJob,
     Delivery!Init, DeliveryProofs!Init, Delivery!ClaimOf,
     DeliveryProofs!ClaimOf, Delivery!ClaimIs, DeliveryProofs!ClaimIs,
     Delivery!Goto, DeliveryProofs!Goto, Delivery!Finish,
     DeliveryProofs!Finish, Delivery!Refuse, DeliveryProofs!Refuse,
     Delivery!Log, DeliveryProofs!Log, Delivery!Resolve,
     DeliveryProofs!Resolve, Delivery!Receive, DeliveryProofs!Receive,
     Delivery!SettlementConfirmed, DeliveryProofs!SettlementConfirmed,
     Delivery!SettlementReplyLost, DeliveryProofs!SettlementReplyLost,
     Delivery!SettlementRefused, DeliveryProofs!SettlementRefused,
     Delivery!CheckMode, DeliveryProofs!CheckMode, Delivery!ClaimInserted,
     DeliveryProofs!ClaimInserted, Delivery!ClaimConsumed,
     DeliveryProofs!ClaimConsumed, Delivery!ClaimConflict,
     DeliveryProofs!ClaimConflict, Delivery!Resume, DeliveryProofs!Resume,
     Delivery!RenderSucceeds, DeliveryProofs!RenderSucceeds,
     Delivery!RenderFails, DeliveryProofs!RenderFails,
     Delivery!ReadForFailure, DeliveryProofs!ReadForFailure,
     Delivery!MarkFailed, DeliveryProofs!MarkFailed, Delivery!CompareDigest,
     DeliveryProofs!CompareDigest, Delivery!ReadClaim,
     DeliveryProofs!ReadClaim, Delivery!MarkDelivered,
     DeliveryProofs!MarkDelivered, Delivery!ReadRaced,
     DeliveryProofs!ReadRaced, Delivery!Respond, DeliveryProofs!Respond,
     Delivery!StoreStep, DeliveryProofs!StoreStep, Delivery!StoreFails,
     DeliveryProofs!StoreFails, Delivery!Crash, DeliveryProofs!Crash,
     Delivery!SetMode, DeliveryProofs!SetMode, Delivery!Claim,
     DeliveryProofs!Claim, Delivery!Render, DeliveryProofs!Render,
     Delivery!Settle, DeliveryProofs!Settle, Delivery!Serve,
     DeliveryProofs!Serve, Delivery!Next, DeliveryProofs!Next

\* What the proofs about the parts assume of the constants.
LEMMA AdmissionAssumed ==
    /\ BucketOf \in [Request -> Bucket]
    /\ SourceBinding \in [Build -> [Request -> Binding]]
    /\ {Window, Limit, RetryLimit} \subseteq Nat \ {0}
    /\ MaxTime \in Nat
    /\ None \notin Request \cup Binding \cup Nat
  BY ServiceAssumption

LEMMA NoneAssumed ==
    None \notin AdmissionProofs!RequestRow \cup AdmissionProofs!GuardRow
  BY ServiceAssumption DEF Admission!RequestRow, AdmissionProofs!RequestRow,
     Admission!GuardRow, AdmissionProofs!GuardRow, Admission!Time,
     AdmissionProofs!Time, Admission!Slot, AdmissionProofs!Slot,
     Admission!WindowOf, AdmissionProofs!WindowOf

LEMMA DeliveryAssumed ==
    /\ SourceBinding \in [Build -> [Request -> Binding]]
    /\ Rendering \in [Build -> [DeliveryProofs!Uri -> Body \cup {Oversized}]]
    /\ None \notin Body \cup Tx \cup DeliveryProofs!Uri
    /\ Oversized \notin Body
    /\ DeliveryProofs!IsFiniteSet(Worker)
  BY ServiceAssumption DEF Delivery!Uri, DeliveryProofs!Uri, IsFiniteSet,
     DeliveryProofs!IsFiniteSet

\* Admission within the service is admission as RetailAdmission specifies it,
\* and what was proved of that holds of it.
THEOREM AdmissionWithin == ServiceSpec => Admission!Spec
<1>1. ServiceInit => Admission!Init
  BY DEF ServiceInit
<1> QED
  BY <1>1, AdmissionStep, PTL DEF ServiceSpec, Admission!Spec

LEMMA AdmissionHolds ==
    ServiceSpec => /\ []AdmissionProofs!RowInv
                   /\ []AdmissionProofs!GuardMatchesRequest
<1>1. Admission!Spec => AdmissionProofs!Spec
  BY SameAdmission, PTL DEF Admission!Spec, AdmissionProofs!Spec
<1>2. AdmissionProofs!Spec => []AdmissionProofs!RowInv
  BY AdmissionAssumed, NoneAssumed, AdmissionProofs!RowsHold, PTL
<1>3. AdmissionProofs!Spec => []AdmissionProofs!GuardMatchesRequest
  BY AdmissionAssumed, NoneAssumed, AdmissionProofs!GuardsMatch, PTL
<1> QED
  BY <1>1, <1>2, <1>3, AdmissionWithin, PTL

\* Payment and delivery within the service are those of RetailDelivery.
THEOREM DeliveryWithin == ServiceSpec => Delivery!Spec
<1>1. ServiceInit => Delivery!Init
  BY DEF ServiceInit
<1> QED
  BY <1>1, AdmissionHolds, DeliveryStep, PTL DEF ServiceSpec, Delivery!Spec

LEMMA DeliveryHolds == ServiceSpec => []DeliveryProofs!Inv
<1>1. Delivery!Spec => DeliveryProofs!Spec
  BY SameDelivery, PTL DEF Delivery!Spec, DeliveryProofs!Spec
<1>2. DeliveryProofs!Spec => []DeliveryProofs!Inv
  BY DeliveryAssumed, DeliveryProofs!Invariance, PTL
<1> QED
  BY <1>1, <1>2, DeliveryWithin, PTL
-----------------------------------------------------------------------------
(* A process at work.                                                      *)

Typed ==
    /\ step \in [Worker -> AdmissionProofs!Step]
    /\ attempt \in [Worker -> AdmissionProofs!Job]
    /\ pc \in [Worker -> DeliveryProofs!Step]
    /\ job \in [Worker -> DeliveryProofs!Job]
    /\ build \in [Worker -> Build]

LEMMA PartsTyped ==
    AdmissionProofs!RowInv /\ DeliveryProofs!Inv => Typed
  BY DEF Typed, AdmissionProofs!RowInv, AdmissionProofs!TypeOK,
     DeliveryProofs!Inv, DeliveryProofs!TypeOK

\* Past its gate admission does not read the mode again.
PastGate == {"seek", "repair", "retry", "token", "record", "guard"}

\* A step of admission: it ends the attempt, or goes on with it.
Advances(w) ==
    /\ step[w] # "idle"
    /\ step'[w] = "idle" \/ attempt'[w] = attempt[w]
    /\ step'[w] \in PastGate => step[w] \in PastGate \/ mode # "disabled"
    /\ \A v \in Worker \ {w} : step'[v] = step[v] /\ attempt'[v] = attempt[v]
    /\ UNCHANGED Shared

LEMMA FinishAdvances ==
    ASSUME Typed, NEW w \in Worker, Admission!Finish(w), step[w] # "idle",
           UNCHANGED Shared
    PROVE  Advances(w)
  BY DEF Typed, Admission!Finish, Admission!Goto, Advances, PastGate

LEMMA ProceedAdvances ==
    ASSUME Typed, NEW w \in Worker, NEW s, Admission!Proceed(w, s),
           step[w] # "idle", UNCHANGED Shared,
           s \in PastGate => step[w] \in PastGate \/ mode # "disabled"
    PROVE  Advances(w)
  BY DEF Typed, Admission!Proceed, Admission!Goto, Advances

LEMMA AttemptAdvances ==
    ASSUME Typed, NEW w \in Worker, Admission!Attempt(w)
    PROVE  Advances(w) /\ seen \subseteq seen'
<1>0. UNCHANGED Shared /\ step[w] # "idle"
  BY AttemptsAlone DEF Admission!Attempt, Admission!Lookup,
     Admission!CheckOld, Admission!SeekGuard, Admission!RepairGuard,
     Admission!UseContinuation, Admission!UseRetry, Admission!RefuseRetry,
     Admission!CheckNew, Admission!TakeToken, Admission!RecordRequest,
     Admission!GuardRequest
<1>1. ASSUME Admission!Finish(w) PROVE Advances(w)
  BY <1>0, <1>1, FinishAdvances
<1>2. CASE Admission!Lookup(w)
  <2>1. \E s \in {"newmode", "oldmode"} : Admission!Proceed(w, s)
    BY <1>2 DEF Admission!Lookup
  <2> QED
    BY <1>0, <1>2, <2>1, ProceedAdvances
       DEF Admission!Lookup, Admission!history, PastGate
<1>3. CASE Admission!CheckOld(w) \/ Admission!CheckNew(w)
  <2>1. \/ Admission!Finish(w)
        \/ mode # "disabled" /\ \E s : Admission!Proceed(w, s)
    BY <1>3 DEF Admission!CheckOld, Admission!CheckNew
  <2>2. seen' = seen
    BY <1>3 DEF Admission!CheckOld, Admission!CheckNew, Admission!history
  <2> QED
    BY <1>0, <1>1, <2>1, <2>2, ProceedAdvances
<1>4. CASE \/ Admission!SeekGuard(w) \/ Admission!RepairGuard(w)
           \/ Admission!RefuseRetry(w)
  <2>1. \/ Admission!Finish(w)
        \/ step[w] \in PastGate /\ \E s : Admission!Proceed(w, s)
    BY <1>4 DEF Admission!SeekGuard, Admission!RepairGuard,
       Admission!RefuseRetry, PastGate
  <2>2. seen' = seen
    BY <1>4 DEF Admission!SeekGuard, Admission!RepairGuard,
       Admission!RefuseRetry, Admission!history
  <2> QED
    BY <1>0, <1>1, <2>1, <2>2, ProceedAdvances
<1>5. CASE Admission!TakeToken(w) \/ Admission!RecordRequest(w)
  <2>1. \/ Admission!Finish(w)
        \/ step[w] \in PastGate /\ \E s : Admission!Proceed(w, s)
    BY <1>5 DEF Admission!TakeToken, Admission!RecordRequest, PastGate
  <2>2. seen' = seen
    BY <1>5 DEF Admission!TakeToken, Admission!RecordRequest,
       Admission!history
  <2> QED
    BY <1>0, <1>1, <2>1, <2>2, ProceedAdvances
<1>6. CASE \/ Admission!UseContinuation(w) \/ Admission!UseRetry(w)
           \/ Admission!GuardRequest(w)
  <2>1. Admission!Finish(w) /\ seen \subseteq seen'
    BY <1>6 DEF Admission!UseContinuation, Admission!UseRetry,
       Admission!GuardRequest, Admission!Saw
  <2> QED
    BY <1>1, <2>1
<1> QED
  BY <1>2, <1>3, <1>4, <1>5, <1>6 DEF Admission!Attempt

LEMMA PassesAdvances ==
    ASSUME Typed, NEW w \in Worker, Passes(w)
    PROVE  /\ Advances(w) /\ step[w] \in PastGate /\ step'[w] = "idle"
           /\ seen' = seen \cup {<<attempt[w].req, attempt[w].binding>>}
<1>1. /\ Admission!Finish(w) /\ Admission!Saw(w) /\ step[w] \in PastGate
  BY DEF Passes, Admission!UseContinuation, Admission!UseRetry,
     Admission!GuardRequest, PastGate
<1>2. step[w] # "idle"
  BY <1>1 DEF PastGate
<1>3. step'[w] = "idle"
  BY <1>1 DEF Typed, Admission!Finish, Admission!Goto
<1> QED
  BY <1>1, <1>2, <1>3, PassingIsAttempt, AttemptsAlone, FinishAdvances
     DEF Admission!Saw

\* A step of payment and delivery likewise.
AboutToPay == {"settle", "claim"}
Serves(w) ==
    /\ pc[w] # "idle"
    /\ pc'[w] = "idle" \/ job'[w].uri = job[w].uri
    /\ pc'[w] \in AboutToPay => mode # "disabled"
    /\ \A v \in Worker \ {w} : pc'[v] = pc[v] /\ job'[v] = job[v]
    /\ UNCHANGED Shared

LEMMA FinishServes ==
    ASSUME Typed, NEW w \in Worker, Delivery!Finish(w), pc[w] # "idle",
           UNCHANGED Shared
    PROVE  Serves(w)
  BY DEF Typed, Delivery!Finish, Delivery!Goto, Serves, AboutToPay

LEMMA GotoServes ==
    ASSUME Typed, NEW w \in Worker, NEW s, Delivery!Goto(w, s),
           pc[w] # "idle", UNCHANGED job, UNCHANGED Shared,
           s \in AboutToPay => mode # "disabled"
    PROVE  Serves(w)
  BY DEF Typed, Delivery!Goto, Serves

LEMMA ChargeServes ==
    ASSUME Typed, NEW w \in Worker, Charge(w)
    PROVE  /\ Serves(w) /\ pc[w] = "settle" /\ late' = late
           /\ \E tx : settled' = settled \cup {<<job[w].uri, tx>>}
<1>0. PICK tx \in Tx : \/ Delivery!SettlementConfirmed(w, tx)
                       \/ Delivery!SettlementReplyLost(w, tx)
  BY DEF Charge
<1>1. /\ UNCHANGED Shared /\ pc[w] = "settle" /\ late' = late
      /\ settled' = settled \cup {<<job[w].uri, tx>>}
  BY <1>0, ChargesAlone
     DEF Delivery!SettlementConfirmed, Delivery!SettlementReplyLost
<1>2. CASE Delivery!SettlementConfirmed(w, tx)
  <2>1. job' = [job EXCEPT ![w].tx = tx] /\ Delivery!Goto(w, "mode")
    BY <1>2 DEF Delivery!SettlementConfirmed
  <2>2. job'[w].uri = job[w].uri /\ \A v \in Worker \ {w} : job'[v] = job[v]
    BY <2>1 DEF Typed, DeliveryProofs!Job
  <2>3. pc'[w] = "mode" /\ \A v \in Worker \ {w} : pc'[v] = pc[v]
    BY <2>1 DEF Typed, Delivery!Goto
  <2> QED
    BY <1>1, <2>2, <2>3 DEF Serves, AboutToPay
<1>3. CASE Delivery!SettlementReplyLost(w, tx)
  BY <1>1, <1>3, FinishServes DEF Delivery!SettlementReplyLost
<1> QED
  BY <1>0, <1>1, <1>2, <1>3

\* A settlement is only claimed at the claim, one by one.
LEMMA DeliverServes ==
    ASSUME Typed, NEW w \in Worker, Deliver(w)
    PROVE  /\ Serves(w) /\ settled' = settled
           /\ \/ late' = late
              \/ pc[w] = "claim" /\ \E tx : late' = late \cup {tx}
<1>0. UNCHANGED Shared
  BY DeliversAlone
<1>1. ASSUME pc[w] # "idle", Delivery!Finish(w) PROVE Serves(w)
  BY <1>0, <1>1, FinishServes
<1>2. ASSUME pc[w] # "idle", UNCHANGED job, NEW s, Delivery!Goto(w, s),
             s \notin AboutToPay
      PROVE  Serves(w)
  BY <1>0, <1>2, GotoServes
<1>3. CASE Delivery!SettlementRefused(w)
  BY <1>1, <1>3 DEF Delivery!SettlementRefused
<1>4. CASE Delivery!CheckMode(w)
  <2>1. \/ Delivery!Finish(w)
        \/ mode # "disabled" /\ Delivery!Goto(w, "claim") /\ UNCHANGED job
    BY <1>4 DEF Delivery!CheckMode
  <2>2. pc[w] # "idle" /\ settled' = settled /\ late' = late
    BY <1>4 DEF Delivery!CheckMode
  <2> QED
    BY <1>0, <1>1, <2>1, <2>2, GotoServes
<1>5. CASE Delivery!ClaimInserted(w)
  <2>1. /\ pc[w] = "claim" /\ settled' = settled /\ UNCHANGED job
        /\ late' = late \/ \E tx : late' = late \cup {tx}
        /\ Delivery!Goto(w, "render")
    BY <1>5 DEF Delivery!ClaimInserted
  <2> QED
    BY <1>2, <2>1 DEF AboutToPay
<1>6. CASE Delivery!ClaimConsumed(w) \/ Delivery!ClaimConflict(w)
  <2>1. /\ pc[w] # "idle" /\ settled' = settled /\ late' = late
        /\ \/ Delivery!Finish(w)
           \/ Delivery!Goto(w, "resume") /\ UNCHANGED job
    BY <1>6 DEF Delivery!ClaimConsumed, Delivery!ClaimConflict,
       Delivery!Refuse
  <2> QED
    BY <1>1, <1>2, <2>1 DEF AboutToPay
<1>7. CASE Delivery!Resume(w)
  <2>1. /\ pc[w] # "idle" /\ settled' = settled /\ late' = late
        /\ \/ Delivery!Finish(w)
           \/ Delivery!Goto(w, "render") /\ UNCHANGED job
    BY <1>7 DEF Delivery!Resume, Delivery!Refuse
  <2> QED
    BY <1>1, <1>2, <2>1 DEF AboutToPay
<1>8. CASE Delivery!RenderSucceeds(w)
  <2>1. /\ pc[w] # "idle" /\ settled' = settled /\ late' = late
        /\ \E b : job' = [job EXCEPT ![w].body = b]
        /\ Delivery!Goto(w, "read")
    BY <1>8 DEF Delivery!RenderSucceeds
  <2>2. job'[w].uri = job[w].uri /\ \A v \in Worker \ {w} : job'[v] = job[v]
    BY <2>1 DEF Typed, DeliveryProofs!Job
  <2>3. pc'[w] = "read" /\ \A v \in Worker \ {w} : pc'[v] = pc[v]
    BY <2>1 DEF Typed, Delivery!Goto
  <2> QED
    BY <1>0, <2>1, <2>2, <2>3 DEF Serves, AboutToPay
<1>9. CASE Delivery!RenderFails(w)
  <2>1. /\ pc[w] # "idle" /\ settled' = settled /\ late' = late
        /\ Delivery!Goto(w, "fail") /\ UNCHANGED job
    BY <1>9 DEF Delivery!RenderFails
  <2> QED
    BY <1>2, <2>1 DEF AboutToPay
<1>10. CASE Delivery!ReadForFailure(w) \/ Delivery!MarkFailed(w)
  <2>1. /\ pc[w] # "idle" /\ settled' = settled /\ late' = late
        /\ \/ Delivery!Finish(w)
           \/ Delivery!Goto(w, "markfail") /\ UNCHANGED job
    BY <1>10 DEF Delivery!ReadForFailure, Delivery!MarkFailed
  <2> QED
    BY <1>1, <1>2, <2>1 DEF AboutToPay
<1>11. CASE Delivery!ReadClaim(w)
  <2>1. /\ pc[w] # "idle" /\ settled' = settled /\ late' = late
        /\ \/ Delivery!Finish(w)
           \/ \E s \in {"respond", "mark"} :
                 Delivery!Goto(w, s) /\ UNCHANGED job
    BY <1>11 DEF Delivery!ReadClaim, Delivery!CompareDigest, Delivery!Refuse
  <2> QED
    BY <1>1, <1>2, <2>1 DEF AboutToPay
<1>12. CASE Delivery!MarkDelivered(w)
  <2>1. /\ pc[w] # "idle" /\ settled' = settled /\ late' = late
        /\ \E s \in {"respond", "reread"} :
                 Delivery!Goto(w, s) /\ UNCHANGED job
    BY <1>12 DEF Delivery!MarkDelivered
  <2> QED
    BY <1>2, <2>1 DEF AboutToPay
<1>13. CASE Delivery!ReadRaced(w) \/ Delivery!Respond(w)
  <2>1. /\ pc[w] # "idle" /\ settled' = settled /\ late' = late
        /\ \/ Delivery!Finish(w)
           \/ Delivery!Goto(w, "respond") /\ UNCHANGED job
    BY <1>13 DEF Delivery!ReadRaced, Delivery!Respond,
       Delivery!CompareDigest, Delivery!Refuse
  <2> QED
    BY <1>1, <1>2, <2>1 DEF AboutToPay
<1> QED
  BY <1>3, <1>4, <1>5, <1>6, <1>7, <1>8, <1>9, <1>10, <1>11, <1>12, <1>13
     DEF Deliver, Delivery!Claim, Delivery!Render
-----------------------------------------------------------------------------
(* Charged as admitted.                                                    *)

\* A process is in one part at a time, holds the binding of the registry it
\* was started with, and pays only for what was passed.
AtWork(w) ==
    /\ step[w] # "idle" =>
           /\ pc[w] = "idle"
           /\ attempt[w].binding = SourceBinding[build[w]][attempt[w].req]
    /\ pc[w] # "idle" => job[w].uri \in seen

ChargeInv ==
    /\ \A w \in Worker : AtWork(w)
    /\ \A s \in settled : s[1] \in seen

LEMMA AdvancesAtWork ==
    ASSUME ChargeInv, NEW w \in Worker, Advances(w), seen \subseteq seen',
           UNCHANGED deliveryOnly
    PROVE  ChargeInv'
<1>1. pc[w] = "idle"
  BY DEF ChargeInv, AtWork, Advances
<1>2. ASSUME NEW v \in Worker PROVE AtWork(v)'
  BY <1>1 DEF ChargeInv, AtWork, Advances, Shared, deliveryOnly
<1> QED
  BY <1>2 DEF ChargeInv, deliveryOnly

LEMMA ServesAtWork ==
    ASSUME ChargeInv, NEW w \in Worker, Serves(w), UNCHANGED admissionOnly,
           settled' = settled \/ \E tx : settled' = settled \cup {<<job[w].uri, tx>>}
    PROVE  ChargeInv'
<1>1. step[w] = "idle" /\ job[w].uri \in seen
  BY DEF ChargeInv, AtWork, Serves
<1>2. ASSUME NEW v \in Worker PROVE AtWork(v)'
  BY <1>1 DEF ChargeInv, AtWork, Serves, Shared, admissionOnly
<1>3. ASSUME NEW s \in settled' PROVE s[1] \in seen'
  BY <1>1 DEF ChargeInv, admissionOnly
<1> QED
  BY <1>2, <1>3 DEF ChargeInv

\* Admission hands over to payment.
LEMMA PaysAtWork ==
    ASSUME Typed, ChargeInv, NEW w \in Worker, Pay(w)
    PROVE  ChargeInv'
<1> DEFINE u == <<attempt[w].req, attempt[w].binding>>
<1>1. /\ Advances(w) /\ step[w] \in PastGate /\ step'[w] = "idle"
      /\ seen' = seen \cup {u}
  BY PassesAdvances DEF Pay
<1>2. u = <<attempt[w].req, SourceBinding[build[w]][attempt[w].req]>>
  BY <1>1 DEF ChargeInv, AtWork, Advances
<1> HIDE DEF u
<1>3. /\ job' = [job EXCEPT ![w].uri = u] /\ Delivery!Goto(w, "settle")
      /\ settled' = settled
  BY <1>2 DEF Pay, Delivery!Receive
<1>4. job'[w].uri = u /\ \A v \in Worker \ {w} : job'[v] = job[v]
  BY <1>3 DEF Typed, DeliveryProofs!Job
<1>5. \A v \in Worker \ {w} : pc'[v] = pc[v]
  BY <1>3 DEF Typed, Delivery!Goto
<1>6. AtWork(w)'
  BY <1>1, <1>4 DEF AtWork
<1>7. ASSUME NEW v \in Worker \ {w} PROVE AtWork(v)'
  BY <1>1, <1>4, <1>5 DEF ChargeInv, AtWork, Advances, Shared
<1> QED
  BY <1>1, <1>3, <1>6, <1>7 DEF ChargeInv

LEMMA ChargeStep == Typed /\ ChargeInv /\ [ServiceNext]_serviceVars => ChargeInv'
<1> SUFFICES ASSUME Typed, ChargeInv, [ServiceNext]_serviceVars
             PROVE  ChargeInv'
  OBVIOUS
<1>1. ASSUME NEW w \in Worker, NEW r \in Request, NEW paid \in BOOLEAN,
             Ask(w, r, paid)
      PROVE  ChargeInv'
  <2>1. /\ pc[w] = "idle" /\ UNCHANGED deliveryOnly
        /\ UNCHANGED Shared /\ seen' = seen
        /\ Admission!Goto(w, "lookup")
        /\ attempt' = [attempt EXCEPT ![w] =
                         [req |-> r, binding |-> SourceBinding[build[w]][r],
                          at |-> clock, paid |-> paid]]
    BY <1>1 DEF Ask, Free, Shared, Admission!Receive, Admission!history
  <2>2. /\ attempt'[w].req = r
        /\ attempt'[w].binding = SourceBinding[build[w]][r]
        /\ \A v \in Worker \ {w} : attempt'[v] = attempt[v]
    BY <2>1 DEF Typed
  <2>3. \A v \in Worker \ {w} : step'[v] = step[v]
    BY <2>1 DEF Typed, Admission!Goto
  <2>4. AtWork(w)'
    BY <2>1, <2>2 DEF AtWork, deliveryOnly, Shared
  <2>5. ASSUME NEW v \in Worker \ {w} PROVE AtWork(v)'
    BY <2>1, <2>2, <2>3 DEF ChargeInv, AtWork, deliveryOnly, Shared
  <2> QED
    BY <2>1, <2>4, <2>5 DEF ChargeInv, deliveryOnly
<1>2. ASSUME NEW w \in Worker, Admit(w) PROVE ChargeInv'
  BY <1>2, AttemptAdvances, AdvancesAtWork DEF Admit
<1>3. ASSUME NEW w \in Worker, Pay(w) PROVE ChargeInv'
  BY <1>3, PaysAtWork
<1>4. ASSUME NEW w \in Worker, Charge(w) PROVE ChargeInv'
  BY <1>4, ChargeServes, ServesAtWork DEF Charge
<1>5. ASSUME NEW w \in Worker, Deliver(w) PROVE ChargeInv'
  BY <1>5, DeliverServes, ServesAtWork DEF Deliver
<1>6. ASSUME NEW w \in Worker, StoreFails(w) PROVE ChargeInv'
  <2>1. CASE Admission!StoreFails(w) /\ UNCHANGED deliveryOnly
    <3>1. Advances(w) /\ seen \subseteq seen'
      BY <1>6, <2>1, FinishAdvances
         DEF Admission!StoreFails, Admission!history, Shared, StoreFails,
             Delivery!StoreFails
    <3> QED
      BY <2>1, <3>1, AdvancesAtWork
  <2>2. CASE Delivery!StoreFails(w) /\ UNCHANGED admissionOnly
    <3>1. pc[w] # "idle" /\ UNCHANGED Shared /\ settled' = settled
      BY <1>6, <2>2 DEF Delivery!StoreFails, Delivery!StoreStep, Shared
    <3> QED
      BY <2>2, <3>1, FinishServes, ServesAtWork DEF Delivery!StoreFails
  <2> QED
    BY <1>6, <2>1, <2>2 DEF StoreFails
<1>7. ASSUME NEW w \in Worker, NEW b \in Build, Crash(w, b) PROVE ChargeInv'
  <2>1. /\ Admission!Finish(w) /\ Delivery!Finish(w)
        /\ build' = [build EXCEPT ![w] = b]
        /\ seen' = seen /\ settled' = settled
    BY <1>7 DEF Crash, Admission!Crash, Admission!history, Delivery!Crash
  <2>2. step'[w] = "idle" /\ pc'[w] = "idle"
    BY <2>1 DEF Typed, Admission!Finish, Admission!Goto, Delivery!Finish,
       Delivery!Goto
  <2>3. ASSUME NEW v \in Worker \ {w}
        PROVE  /\ step'[v] = step[v] /\ attempt'[v] = attempt[v]
               /\ pc'[v] = pc[v] /\ job'[v] = job[v] /\ build'[v] = build[v]
    BY <2>1 DEF Typed, Admission!Finish, Admission!Goto, Delivery!Finish,
       Delivery!Goto
  <2>4. \A v \in Worker : AtWork(v)'
    BY <2>1, <2>2, <2>3 DEF ChargeInv, AtWork
  <2> QED
    BY <2>1, <2>4 DEF ChargeInv
<1>8. ASSUME UNCHANGED <<step, attempt, pc, job, build, seen, settled>>
      PROVE  ChargeInv'
  BY <1>8 DEF ChargeInv, AtWork
<1>9. ASSUME NEW m \in Admission!Mode, SetMode(m) PROVE ChargeInv'
  BY <1>8, <1>9 DEF SetMode, Admission!SetMode, Admission!history,
     Delivery!SetMode
<1>10. CASE Tick
  BY <1>8, <1>10 DEF Tick, Admission!Tick, Admission!history, deliveryOnly
<1>11. CASE UNCHANGED serviceVars
  BY <1>8, <1>11 DEF serviceVars, admissionOnly, deliveryOnly
<1> QED
  BY <1>1, <1>2, <1>3, <1>4, <1>5, <1>6, <1>7, <1>9, <1>10, <1>11
     DEF ServiceNext

\* A request is charged under the one binding it was admitted with, and
\* answered only when it was charged.
THEOREM ChargesAreAdmitted == ServiceSpec => []ChargedAsAdmitted
<1>1. ServiceInit => ChargeInv
  BY DEF ServiceInit, Admission!Init, Delivery!Init, ChargeInv, AtWork
<1>2. ChargeInv /\ AdmissionProofs!RowInv /\ DeliveryProofs!Inv
         => ChargedAsAdmitted
  <2> SUFFICES ASSUME ChargeInv, AdmissionProofs!RowInv, DeliveryProofs!Inv
               PROVE  ChargedAsAdmitted
    OBVIOUS
  <2>1. \A s \in settled : s[1] \in seen
    BY DEF ChargeInv
  <2>2. ASSUME NEW s \in settled, NEW t \in settled, s[1][1] = t[1][1]
        PROVE  s[1] = t[1]
    <3>1. s[1] \in Request \X Binding /\ t[1] \in Request \X Binding
      BY <2>1 DEF AdmissionProofs!RowInv, AdmissionProofs!TypeOK
    <3>2. s[1][2] = t[1][2]
      BY <2>1, <2>2 DEF AdmissionProofs!RowInv,
         AdmissionProofs!GuardMatchesRequest
    <3> QED
      BY <2>2, <3>1, <3>2
  <2>3. \A b \in released : <<b.uri, b.tx>> \in settled
    BY DEF DeliveryProofs!Inv, DeliveryProofs!ReleasedIsDurable,
       DeliveryProofs!OneSettledClaimPerTx
  <2> QED
    BY <2>1, <2>2, <2>3 DEF ChargedAsAdmitted
<1> QED
  BY <1>1, <1>2, AdmissionHolds, DeliveryHolds, PartsTyped, ChargeStep, PTL
     DEF ServiceSpec
-----------------------------------------------------------------------------
(* The kill switch.                                                        *)

\* The processes that may still settle or claim once without reading the mode.
Past == {w \in Worker : step[w] \in PastGate \/ pc[w] \in AboutToPay}
Owed == charged + Cardinality(late) + Cardinality(Past)
StopInv ==
    /\ charged \in Nat /\ IsFiniteSet(late)
    /\ mode = "disabled" => Owed <= Cardinality(Worker)

LEMMA PastSize ==
    /\ IsFiniteSet(Past) /\ Cardinality(Past) \in Nat
    /\ Cardinality(Worker) \in Nat
    /\ Cardinality(Past) <= Cardinality(Worker)
<1>1. IsFiniteSet(Worker) /\ Past \subseteq Worker
  BY ServiceAssumption DEF Past
<1> QED
  BY <1>1, FS_Subset, FS_CardinalityType

\* A step that sends nobody past a gate, and neither settles nor claims.
LEMMA NobodyPasses ==
    ASSUME StopInv, charged' = charged, late' = late, mode' = mode,
           mode = "disabled" => Past' \subseteq Past
    PROVE  StopInv'
<1>1. CASE mode = "disabled"
  <2>1. Cardinality(Past') \in Nat /\ Cardinality(Past') <= Cardinality(Past)
    BY <1>1, PastSize, FS_Subset, FS_CardinalityType
  <2>2. Cardinality(late) \in Nat
    BY FS_CardinalityType DEF StopInv
  <2> QED
    BY <1>1, <2>1, <2>2, PastSize DEF StopInv, Owed
<1> QED
  BY <1>1 DEF StopInv

\* A process that settles or claims is past no gate afterwards.
LEMMA OnePays ==
    ASSUME StopInv, mode' = mode, NEW w \in Past,
           mode = "disabled" => Past' \subseteq Past \ {w},
           \/ /\ late' = late
              /\ charged' = IF mode = "disabled" THEN charged + 1 ELSE charged
           \/ charged' = charged /\ \E tx : late' = late \cup {tx}
    PROVE  StopInv'
<1>1. Cardinality(late) \in Nat
  BY FS_CardinalityType DEF StopInv
<1>2. /\ charged' \in Nat /\ IsFiniteSet(late') /\ Cardinality(late') \in Nat
      /\ charged' + Cardinality(late') <= charged + Cardinality(late) + 1
  <2>1. CASE \E tx : late' = late \cup {tx} /\ charged' = charged
    <3>1. PICK tx : late' = late \cup {tx}
      BY <2>1
    <3>2. /\ IsFiniteSet(late')
          /\ Cardinality(late') =
                IF tx \in late THEN Cardinality(late) ELSE Cardinality(late) + 1
      BY <3>1, FS_AddElement DEF StopInv
    <3> QED
      BY <1>1, <2>1, <3>2 DEF StopInv
  <2>2. CASE /\ late' = late
             /\ charged' = IF mode = "disabled" THEN charged + 1 ELSE charged
    BY <1>1, <2>2 DEF StopInv
  <2> QED
    BY <2>1, <2>2
<1>3. CASE mode = "disabled"
  <2>1. Cardinality(Past \ {w}) = Cardinality(Past) - 1 /\ IsFiniteSet(Past \ {w})
    BY PastSize, FS_RemoveElement
  <2>2. Cardinality(Past') \in Nat /\ Cardinality(Past') <= Cardinality(Past) - 1
    BY <1>3, <2>1, FS_Subset, FS_CardinalityType
  <2> QED
    BY <1>1, <1>2, <1>3, <2>2, PastSize DEF StopInv, Owed
<1> QED
  BY <1>2, <1>3 DEF StopInv

\* While the service is disabled nobody comes to a gate and passes it.
LEMMA AdvancesPast ==
    ASSUME NEW w \in Worker, Advances(w), UNCHANGED pc, mode = "disabled"
    PROVE  Past' \subseteq Past
  BY DEF Advances, Past

LEMMA ServesPast ==
    ASSUME ChargeInv, NEW w \in Worker, Serves(w), UNCHANGED step,
           mode = "disabled"
    PROVE  Past' \subseteq Past \ {w}
<1>1. step[w] = "idle" /\ pc'[w] \notin AboutToPay
  BY DEF ChargeInv, AtWork, Serves
<1> QED
  BY <1>1 DEF Serves, Past, PastGate

\* Passing admission with a payment, a process stays past a gate.
LEMMA PaysPast ==
    ASSUME Typed, NEW w \in Worker, Pay(w)
    PROVE  Past' \subseteq Past
<1>1. Advances(w) /\ w \in Past
  BY PassesAdvances DEF Pay, Past
<1>2. \A v \in Worker \ {w} : pc'[v] = pc[v]
  BY DEF Typed, Pay, Delivery!Receive, Delivery!Goto
<1>3. \A v \in Worker \ {w} : step'[v] = step[v]
  BY <1>1 DEF Advances
<1> QED
  BY <1>1, <1>2, <1>3 DEF Past

LEMMA StopStep ==
    Typed /\ ChargeInv /\ StopInv /\ [ServiceNext]_serviceVars => StopInv'
<1> SUFFICES ASSUME Typed, ChargeInv, StopInv, [ServiceNext]_serviceVars
             PROVE  StopInv'
  OBVIOUS
<1>1. ASSUME NEW w \in Worker, NEW r \in Request, NEW paid \in BOOLEAN,
             Ask(w, r, paid)
      PROVE  StopInv'
  <2>1. /\ UNCHANGED deliveryOnly /\ charged' = charged /\ mode' = mode
        /\ Admission!Goto(w, "lookup")
    BY <1>1 DEF Ask, Admission!Receive
  <2>2. Past' \subseteq Past
    BY <2>1 DEF Typed, Admission!Goto, Past, PastGate, deliveryOnly
  <2> QED
    BY <2>1, <2>2, NobodyPasses DEF deliveryOnly
<1>2. ASSUME NEW w \in Worker, Advances(w), UNCHANGED <<deliveryOnly, charged>>
      PROVE  StopInv'
  <2>1. pc' = pc /\ late' = late /\ charged' = charged /\ mode' = mode
    BY <1>2 DEF deliveryOnly, Advances, Shared
  <2> QED
    BY <1>2, <2>1, AdvancesPast, NobodyPasses
<1>3. ASSUME NEW w \in Worker, Admit(w) PROVE StopInv'
  BY <1>2, <1>3, AttemptAdvances DEF Admit
<1>4. ASSUME NEW w \in Worker, Pay(w) PROVE StopInv'
  <2>1. late' = late /\ charged' = charged /\ mode' = mode
    BY <1>4 DEF Pay, Delivery!Receive
  <2> QED
    BY <1>4, <2>1, PaysPast, NobodyPasses
<1>5. ASSUME NEW w \in Worker, Charge(w) PROVE StopInv'
  <2>1. /\ Serves(w) /\ w \in Past /\ late' = late /\ mode' = mode
        /\ step' = step
    BY <1>5, ChargeServes
       DEF Past, AboutToPay, Serves, Shared, Charge, admissionOnly
  <2>2. charged' = IF mode = "disabled" THEN charged + 1 ELSE charged
    BY <1>5 DEF Charge
  <2> QED
    BY <2>1, <2>2, ServesPast, OnePays
<1>6. ASSUME NEW w \in Worker, Deliver(w) PROVE StopInv'
  <2>1. /\ Serves(w) /\ mode' = mode /\ step' = step /\ charged' = charged
        /\ \/ late' = late
           \/ w \in Past /\ \E tx : late' = late \cup {tx}
    BY <1>6, DeliverServes
       DEF Past, AboutToPay, Serves, Shared, Deliver, admissionOnly
  <2>2. mode = "disabled" => Past' \subseteq Past \ {w}
    BY <2>1, ServesPast
  <2> QED
    BY <2>1, <2>2, OnePays, NobodyPasses
<1>7. ASSUME NEW w \in Worker, StoreFails(w) PROVE StopInv'
  <2>1. CASE Admission!StoreFails(w) /\ UNCHANGED <<deliveryOnly, charged>>
    <3>1. Advances(w)
      BY <1>7, <2>1, FinishAdvances
         DEF Admission!StoreFails, Admission!history, Shared
    <3> QED
      BY <1>2, <2>1, <3>1
  <2>2. CASE Delivery!StoreFails(w) /\ UNCHANGED <<admissionOnly, charged>>
    <3>1. /\ pc[w] # "idle" /\ UNCHANGED Shared /\ late' = late
          /\ mode' = mode /\ step' = step /\ charged' = charged
      BY <2>2 DEF Delivery!StoreFails, Delivery!StoreStep, Shared,
         admissionOnly
    <3>2. mode = "disabled" => Past' \subseteq Past
      BY <2>2, <3>1, FinishServes, ServesPast DEF Delivery!StoreFails
    <3> QED
      BY <3>1, <3>2, NobodyPasses
  <2> QED
    BY <1>7, <2>1, <2>2 DEF StoreFails
<1>8. ASSUME NEW w \in Worker, NEW b \in Build, Crash(w, b) PROVE StopInv'
  <2>1. /\ Admission!Goto(w, "idle") /\ Delivery!Goto(w, "idle")
        /\ late' = late /\ charged' = charged /\ mode' = mode
    BY <1>8 DEF Crash, Admission!Crash, Delivery!Crash, Admission!Finish,
       Delivery!Finish
  <2>2. Past' \subseteq Past
    BY <2>1 DEF Typed, Admission!Goto, Delivery!Goto, Past, PastGate,
       AboutToPay
  <2> QED
    BY <2>1, <2>2, NobodyPasses
<1>9. ASSUME NEW m \in Admission!Mode, SetMode(m) PROVE StopInv'
  <2>1. /\ step' = step /\ pc' = pc /\ mode' = m
        /\ late' = IF m = mode THEN late ELSE {}
        /\ charged' = IF m = mode THEN charged ELSE 0
    BY <1>9 DEF SetMode, Admission!SetMode, Delivery!SetMode
  <2>2. CASE m = mode
    BY <2>1, <2>2, NobodyPasses DEF Past
  <2>3. CASE m # mode
    <3>1. /\ charged' = 0 /\ IsFiniteSet(late') /\ Cardinality(late') = 0
          /\ Past' = Past
      BY <2>1, <2>3, FS_EmptySet DEF Past
    <3> QED
      BY <3>1, PastSize DEF StopInv, Owed
  <2> QED
    BY <2>2, <2>3
<1>10. CASE Tick \/ UNCHANGED serviceVars
  <2>1. /\ step' = step /\ pc' = pc /\ mode' = mode /\ late' = late
        /\ charged' = charged
    BY <1>10 DEF Tick, Admission!Tick, serviceVars, admissionOnly,
       deliveryOnly
  <2> QED
    BY <2>1, NobodyPasses DEF Past
<1> QED
  BY <1>1, <1>3, <1>4, <1>5, <1>6, <1>7, <1>8, <1>9, <1>10 DEF ServiceNext

\* Disabled, the service settles and claims at most once more per process.
THEOREM DisabledReallyStops == ServiceSpec => []DisabledStops
<1>1. ServiceInit => ChargeInv /\ StopInv
  <2> SUFFICES ASSUME ServiceInit PROVE ChargeInv /\ StopInv
    OBVIOUS
  <2>1. ChargeInv
    BY DEF ServiceInit, Admission!Init, Delivery!Init, ChargeInv, AtWork
  <2>2. charged = 0 /\ IsFiniteSet(late) /\ Cardinality(late) = 0
    BY FS_EmptySet DEF ServiceInit, Delivery!Init
  <2> QED
    BY <2>1, <2>2, PastSize DEF StopInv, Owed
<1>2. StopInv => DisabledStops
  <2> SUFFICES ASSUME StopInv, mode = "disabled"
               PROVE  charged + Cardinality(late) <= Cardinality(Worker)
    BY DEF DisabledStops
  <2>1. Cardinality(late) \in Nat
    BY FS_CardinalityType DEF StopInv
  <2> QED
    BY <2>1, PastSize DEF StopInv, Owed
<1> QED
  BY <1>1, <1>2, AdmissionHolds, DeliveryHolds, PartsTyped, ChargeStep,
     StopStep, PTL DEF ServiceSpec
=============================================================================
