---------------------- MODULE ContextGovernanceProofs ----------------------
(***************************************************************************)
(* Proofs about ContextGovernance for every set of calls, every            *)
(* configuration of keys, and every window, cooldown, threshold and budget.*)
(***************************************************************************)
EXTENDS ContextGovernance, FiniteSetTheorems, SequenceTheorems,
        TLAPS

EventName == {"bypass_attempt", "retroactive_attempt", "override_attempt",
              "delayed_logging_attempt"}

\* The last entries of a sequence are no more than asked for, and all of
\* them if there are fewer.
LEMMA LastOfSeq ==
    ASSUME NEW S, NEW s \in Seq(S), NEW n \in Nat
    PROVE  /\ LastOf(s, n) \in Seq(S)
           /\ Len(LastOf(s, n)) = IF Len(s) > n THEN n ELSE Len(s)
<1>1. CASE Len(s) > n
  <2>1. /\ LastOf(s, n) = SubSeq(s, Len(s) - n + 1, Len(s))
        /\ Len(s) - n + 1 \in 1..(Len(s) + 1)
    BY <1>1 DEF LastOf
  <2> QED
    BY <1>1, <2>1
<1>2. CASE ~(Len(s) > n)
  <2>1. LastOf(s, n) = SubSeq(s, 1, Len(s))
    BY <1>2 DEF LastOf
  <2> QED
    BY <1>2, <2>1
<1> QED
  BY <1>1, <1>2

\* A sequence over a set is one over any larger set.
LEMMA WiderSeq ==
    ASSUME NEW S, NEW T, S \subseteq T, NEW s \in Seq(S)
    PROVE  s \in Seq(T)
<1>1. PICK n \in Nat : s \in [1..n -> S]
  BY SeqDef
<1>2. s \in [1..n -> T]
  BY <1>1
<1> QED
  BY <1>2, SeqDef

\* The events of a call are a sequence of event names.
LEMMA EventsSeq ==
    ASSUME NEW r PROVE EventsOf(r) \in Seq(EventName)
<1>1. \A e \in EventName : Detected(r, e) \in Seq(EventName)
  BY DEF Detected
<1>2. /\ Detected(r, "bypass_attempt") \in Seq(EventName)
      /\ Detected(r, "retroactive_attempt") \in Seq(EventName)
      /\ Detected(r, "override_attempt") \in Seq(EventName)
      /\ Detected(r, "delayed_logging_attempt") \in Seq(EventName)
  BY <1>1 DEF EventName
<1> QED
  BY <1>2 DEF EventsOf

\* Events are only added to the history, up to its length.
LEMMA RecordedEvents ==
    ASSUME signals \in Seq(EventName), NEW r, RecordEvents(r)
    PROVE  /\ signals' \in Seq(EventName)
           /\ Len(signals') <= SignalHistory
           /\ Len(signals) >= 3 => Len(signals') >= 3
<1>1. /\ signals \o EventsOf(r) \in Seq(EventName)
      /\ Len(signals \o EventsOf(r)) >= Len(signals)
  BY EventsSeq
<1>2. Len(signals \o EventsOf(r)) \in Nat /\ Len(signals) \in Nat
  BY <1>1
<1>3. SignalHistory \in Nat /\ SignalHistory >= 3
  BY CallsAreShaped
<1>4. signals' = LastOf(signals \o EventsOf(r), SignalHistory)
  BY DEF RecordEvents
<1>5. /\ signals' \in Seq(EventName)
      /\ Len(signals') = IF Len(signals \o EventsOf(r)) > SignalHistory
                         THEN SignalHistory
                         ELSE Len(signals \o EventsOf(r))
  BY <1>1, <1>3, <1>4, LastOfSeq
<1> QED
  BY <1>1, <1>2, <1>3, <1>5

\* What is the same resembles itself by its family and its bucket at least.
LEMMA SelfSimilar ==
    ASSUME NEW a, IsFiniteSet(a.strategy)
    PROVE  Similarity(a, a) \in Int /\ Similarity(a, a) >= 600
<1> DEFINE n == Cardinality(a.strategy)
           size == IF a.size.form # "missing" THEN 150 ELSE 0
           tokens == IF n = 0 THEN 0 ELSE (150 * n) \div n
           venue == IF a.venue # "none" THEN 100 ELSE 0
<1>1. n \in Nat
  BY FS_CardinalityType
<1>2. /\ Cardinality(a.strategy \cup a.strategy) = n
      /\ Cardinality(a.strategy \cap a.strategy) = n
  BY Zenon
<1>3. Similarity(a, a) = 250 + 350 + size + tokens + venue
  <2>1. Similarity(a, a) =
          250 + (IF Bucket(a.size) = Bucket(a.size) THEN 350 ELSE 0)
            + (IF a.size = a.size /\ a.size.form # "missing" THEN 150 ELSE 0)
            + (IF Cardinality(a.strategy \cap a.strategy) = 0 THEN 0
               ELSE (150 * Cardinality(a.strategy \cap a.strategy))
                      \div Cardinality(a.strategy \cup a.strategy))
            + (IF a.venue = a.venue /\ a.venue # "none" THEN 100 ELSE 0)
    BY Zenon DEF Similarity
  <2>2. (IF Bucket(a.size) = Bucket(a.size) THEN 350 ELSE 0) = 350
    OBVIOUS
  <2>3. (IF a.size = a.size /\ a.size.form # "missing" THEN 150 ELSE 0) = size
    OBVIOUS
  <2>4. (IF a.venue = a.venue /\ a.venue # "none" THEN 100 ELSE 0) = venue
    OBVIOUS
  <2>5. (IF Cardinality(a.strategy \cap a.strategy) = 0 THEN 0
         ELSE (150 * Cardinality(a.strategy \cap a.strategy))
                \div Cardinality(a.strategy \cup a.strategy)) = tokens
    BY <1>2, Zenon
  <2> HIDE DEF n, size, tokens, venue
  <2> QED
    BY <2>1, <2>2, <2>3, <2>4, <2>5
<1>4. size \in Nat /\ venue \in Nat
  OBVIOUS
<1>5. tokens \in Nat
  BY <1>1
<1> HIDE DEF n, size, tokens, venue
<1> QED
  BY <1>3, <1>4, <1>5
-----------------------------------------------------------------------------
(* What each way a call can end does to the registries.                    *)

\* Whatever the answer, the posture it leaves is one the code knows.
LEMMA PostureKnown == ASSUME NEW q, NEW p PROVE PostureAfter(q, p) \in Posture
<1>1. Candidate(p) \in Posture
  BY DEF Candidate, Posture, Severe
<1> QED
  BY <1>1 DEF PostureAfter, Posture

\* The statuses of the answers that carry one of their own.
LEMMA StopsRefuse ==
    ASSUME NEW r
    PROVE  /\ TemporalStop(r) \in Refusing /\ LoopStop(r) \in Refusing
           /\ TelemetryStop(r) \in Refusing \cup {"CLEAR"}
           /\ DecisionStatus(r) \in {"ALLOW", "CONSTRAIN", "VETO"}
           /\ Verdict(r) \in {"ALLOW", "CONSTRAIN", "REDUCE", "VETO"}
<1>1. TemporalStop(r) \in Refusing
  BY DEF TemporalStop, Refusing
<1>2. LoopStop(r) \in Refusing
  BY DEF LoopStop, Refusing
<1>3. TelemetryStop(r) \in Refusing \cup {"CLEAR"}
  BY DEF TelemetryStop, Refusing
<1>4. DecisionStatus(r) \in {"ALLOW", "CONSTRAIN", "VETO"}
  BY DEF DecisionStatus
<1>5. Verdict(r) \in {"ALLOW", "CONSTRAIN", "REDUCE", "VETO"}
  BY <1>4 DEF Verdict
<1> QED
  BY <1>1, <1>2, <1>3, <1>4, <1>5

\* What a refusal before the decision answers.
LEMMA Refusals ==
    ASSUME NEW r,
           \/ TemporalRefusal(r) \/ LoopRefusal(r) \/ TelemetryRefusal(r)
           \/ ReleaseCooldownRefusal(r) \/ AcceptRelease(r) \/ RefuseRelease(r)
    PROVE  reply'.status \in Refusing
<1>1. CASE TemporalRefusal(r)
  BY <1>1, StopsRefuse DEF TemporalRefusal, Structured, WithSignals, Answer,
     AnswerFrom, Payload
<1>2. CASE LoopRefusal(r)
  BY <1>2, StopsRefuse DEF LoopRefusal, Structured, WithSignals, Answer,
     AnswerFrom, Payload
<1>3. CASE TelemetryRefusal(r)
  BY <1>3, StopsRefuse DEF TelemetryRefusal, TelemetryTriggered, Structured,
     WithSignals, Answer, AnswerFrom, Payload
<1>4. CASE ReleaseCooldownRefusal(r)
  BY <1>4 DEF ReleaseCooldownRefusal, Structured, WithSignals, Answer,
     AnswerFrom, Payload, Refusing
<1>5. CASE AcceptRelease(r)
  BY <1>5 DEF AcceptRelease, Structured, WithSignals, Answer,
     AnswerFrom, Payload, Refusing
<1>6. CASE RefuseRelease(r)
  BY <1>6 DEF RefuseRelease, Structured, WithSignals, Answer,
     AnswerFrom, Payload, Refusing
<1> QED
  BY <1>1, <1>2, <1>3, <1>4, <1>5, <1>6

\* What a refusal after them answers.
LEMMA LateRefusals ==
    ASSUME NEW r,
           \/ RejectMalformed(r) \/ RejectProcess(r) \/ BudgetRefusal(r)
           \/ Veto(r) \/ Unfunded(r)
    PROVE  reply'.status \in Refusing
<1>1. CASE RejectMalformed(r)
  BY <1>1 DEF RejectMalformed, Reject, Structured, WithSignals, Answer,
     AnswerFrom, Payload, Refusing
<1>2. CASE RejectProcess(r)
  BY <1>2 DEF RejectProcess, Reject, Structured, WithSignals, Answer,
     AnswerFrom, Payload, Refusing
<1>3. CASE BudgetRefusal(r)
  BY <1>3 DEF BudgetRefusal, Structured, WithSignals, Answer,
     AnswerFrom, Payload, Refusing
<1>4. CASE Veto(r)
  BY <1>4 DEF Veto, Answer, AnswerFrom, Payload, Refusing
<1>5. CASE Unfunded(r)
  BY <1>5 DEF Unfunded, WithSignals, AnswerFrom, Payload, Refusing
<1> QED
  BY <1>1, <1>2, <1>3, <1>4, <1>5

\* Every call is counted, and neither moves the clock nor the configuration.
LEMMA CallsCount ==
    ASSUME NEW r, Call(r)
    PROVE  /\ calls < MaxCalls /\ calls' = calls + 1
           /\ now' = now /\ deployment' = deployment
<1> USE DEF Serve, PastTemporal, PastLoop, PastTelemetry, PastRelease,
        WellFormed, Decide, Structured, Answer, AnswerFrom, Reject
<1>1. CASE TemporalRefusal(r)
  BY <1>1 DEF TemporalRefusal
<1>2. CASE LoopRefusal(r)
  BY <1>2 DEF LoopRefusal
<1>3. CASE TelemetryRefusal(r)
  BY <1>3 DEF TelemetryRefusal
<1>4. CASE ReleaseCooldownRefusal(r)
  BY <1>4 DEF ReleaseCooldownRefusal
<1>5. CASE AcceptRelease(r)
  BY <1>5 DEF AcceptRelease
<1>6. CASE RefuseRelease(r)
  BY <1>6 DEF RefuseRelease
<1>7. CASE RejectMalformed(r)
  BY <1>7 DEF RejectMalformed
<1>8. CASE RejectProcess(r)
  BY <1>8 DEF RejectProcess
<1>9. CASE Raise(r)
  BY <1>9 DEF Raise
<1>10. CASE BudgetRefusal(r)
  BY <1>10 DEF BudgetRefusal
<1>11. CASE Veto(r)
  BY <1>11 DEF Veto
<1>12. CASE Admit(r)
  BY <1>12 DEF Admit
<1>13. CASE Unfunded(r)
  BY <1>13 DEF Unfunded
<1> QED
  BY <1>1, <1>2, <1>3, <1>4, <1>5, <1>6, <1>7, <1>8, <1>9, <1>10, <1>11,
     <1>12, <1>13 DEF Call

\* Temporal governance refuses the call, or counts it as passed.
LEMMA CallsPass ==
    ASSUME NEW r, Call(r), ~TemporalRefusal(r)
    PROVE  PastTemporal(r)
  BY DEF Call, LoopRefusal, TelemetryRefusal, ReleaseCooldownRefusal,
     AcceptRelease, RefuseRelease, RejectMalformed, RejectProcess, Raise,
     BudgetRefusal, Veto, Admit, Unfunded, WellFormed, Decide, PastLoop,
     PastTelemetry, PastRelease

\* What a call leaves in the other registries.
LEMMA CallsRecord ==
    ASSUME NEW r, Call(r)
    PROVE  /\ retries' = retries \/ CountTry(r)
           /\ denials' = denials \/ RecordDenial(r)
           /\ signals' = signals \/ RecordEvents(r)
<1> USE DEF PastLoop, PastTelemetry, PastRelease, WellFormed, Decide, Reject
<1>1. CASE TemporalRefusal(r)
  BY <1>1 DEF TemporalRefusal
<1>2. CASE LoopRefusal(r)
  BY <1>2 DEF LoopRefusal
<1>3. CASE TelemetryRefusal(r)
  BY <1>3 DEF TelemetryRefusal
<1>4. CASE ReleaseCooldownRefusal(r)
  BY <1>4 DEF ReleaseCooldownRefusal
<1>5. CASE AcceptRelease(r)
  BY <1>5 DEF AcceptRelease
<1>6. CASE RefuseRelease(r)
  BY <1>6 DEF RefuseRelease
<1>7. CASE RejectMalformed(r)
  BY <1>7 DEF RejectMalformed
<1>8. CASE RejectProcess(r)
  BY <1>8 DEF RejectProcess
<1>9. CASE Raise(r)
  BY <1>9 DEF Raise
<1>10. CASE BudgetRefusal(r)
  BY <1>10 DEF BudgetRefusal
<1>11. CASE Veto(r)
  BY <1>11 DEF Veto
<1>12. CASE Admit(r)
  BY <1>12 DEF Admit
<1>13. CASE Unfunded(r)
  BY <1>13 DEF Unfunded
<1> QED
  BY <1>1, <1>2, <1>3, <1>4, <1>5, <1>6, <1>7, <1>8, <1>9, <1>10, <1>11,
     <1>12, <1>13 DEF Call

\* Only a decision spends, and only a release or a decision moves the
\* release of a halt.
LEMMA CallsSpend ==
    ASSUME NEW r, Call(r)
    PROVE  \/ UNCHANGED <<spent, release>>
           \/ AcceptRelease(r) /\ UNCHANGED spent
           \/ Decide(r) /\ ~Exhausted(r)
<1> USE DEF Reject
<1>1. CASE TemporalRefusal(r) \/ LoopRefusal(r) \/ TelemetryRefusal(r)
  BY <1>1 DEF TemporalRefusal, LoopRefusal, TelemetryRefusal
<1>2. CASE ReleaseCooldownRefusal(r) \/ AcceptRelease(r) \/ RefuseRelease(r)
  BY <1>2 DEF ReleaseCooldownRefusal, AcceptRelease, RefuseRelease
<1>3. CASE RejectMalformed(r) \/ RejectProcess(r) \/ Raise(r)
  BY <1>3 DEF RejectMalformed, RejectProcess, Raise
<1>4. CASE BudgetRefusal(r)
  BY <1>4 DEF BudgetRefusal
<1>5. CASE Veto(r) \/ Admit(r) \/ Unfunded(r)
  BY <1>5 DEF Veto, Admit, Unfunded, Decide
<1> QED
  BY <1>1, <1>2, <1>3, <1>4, <1>5 DEF Call

\* A call that does not raise leaves a posture derived from its answer.
LEMMA CallsPosture ==
    ASSUME NEW r, posture \in Posture, Call(r)
    PROVE  posture' \in Posture
<1>1. ASSUME NEW q, NEW p, AnswerFrom(q, p) PROVE posture' \in Posture
  BY <1>1, PostureKnown DEF AnswerFrom
<1>2. ASSUME NEW p, Structured(p) PROVE posture' \in Posture
  BY <1>1, <1>2 DEF Structured, Answer
<1>3. CASE TemporalRefusal(r) \/ LoopRefusal(r) \/ TelemetryRefusal(r)
  BY <1>2, <1>3 DEF TemporalRefusal, LoopRefusal, TelemetryRefusal
<1>4. CASE ReleaseCooldownRefusal(r) \/ AcceptRelease(r) \/ RefuseRelease(r)
  BY <1>2, <1>4 DEF ReleaseCooldownRefusal, AcceptRelease, RefuseRelease
<1>5. CASE RejectMalformed(r) \/ RejectProcess(r)
  BY <1>2, <1>5 DEF RejectMalformed, RejectProcess, Reject
<1>6. CASE Raise(r)
  BY <1>6 DEF Raise
<1>7. CASE BudgetRefusal(r)
  BY <1>2, <1>7 DEF BudgetRefusal
<1>8. CASE Veto(r) \/ Admit(r) \/ Unfunded(r)
  BY <1>1, <1>8 DEF Veto, Admit, Unfunded, Answer
<1> QED
  BY <1>3, <1>4, <1>5, <1>6, <1>7, <1>8 DEF Call

\* What a call answers.
LEMMA CallsAnswer ==
    ASSUME NEW r, Call(r)
    PROVE  reply'.status \in Admitting \cup Refusing \cup {"NONE", "ERROR"}
<1>1. CASE Raise(r)
  BY <1>1 DEF Raise
<1>2. CASE Admit(r)
  <2>1. reply'.status = Verdict(r)
    BY <1>2 DEF Admit, Answer, AnswerFrom, Payload
  <2>2. Verdict(r) \in Admitting
    BY <1>2, StopsRefuse DEF Admit, Admitting
  <2> QED
    BY <2>1, <2>2
<1> QED
  BY <1>1, <1>2, Refusals, LateRefusals DEF Call
-----------------------------------------------------------------------------
(* Types.                                                                  *)

LEMMA FamilyKnown == ASSUME NEW r \in Request PROVE FamilyOf(r) \in Family
  BY DEF Family

\* What a budgeted call is granted is an amount.
LEMMA GrantsAreAmounts ==
    ASSUME NEW r \in Request, spent \in [Class -> Nat], SpendBudget(r)
    PROVE  spent' \in [Class -> Nat]
<1>1. Direction(r.intent) \in Class
  BY DEF Direction, Class
<1>2. AdjustedSize(r) \in Int
  BY CallsAreShaped DEF AdjustedSize
<1>3. Remaining(r) \in Nat
  BY <1>1, CallsAreShaped DEF Remaining
<1>4. Budgeted(r) => Granted(r) \in Nat
  BY <1>2, <1>3 DEF Budgeted, Granted
<1>5. Budgeted(r) => spent[Direction(r.intent)] + Granted(r) \in Nat
  BY <1>1, <1>4
<1> QED
  BY <1>1, <1>5 DEF SpendBudget

\* The registries of temporal governance.
LEMMA TemporalType ==
    ASSUME TypeOK, NEW r \in Request, Call(r)
    PROVE  /\ passes' \in Seq([family : Family, at : 1..now])
           /\ retryUntil' \in [Family -> 0..(now + RetrySpacing)]
           /\ denyUntil' \in 0..(now + DenyCooldown)
           /\ haltUntil' \in 0..(now + HaltCooldown)
<1>1. /\ now \in Nat /\ now \in 1..now
      /\ {RetrySpacing, DenyCooldown, HaltCooldown} \subseteq Nat
  BY TimesAreNatural DEF TypeOK
<1>2. /\ passes \in Seq([family : Family, at : 1..now])
      /\ retryUntil \in [Family -> 0..(now + RetrySpacing)]
      /\ denyUntil \in 0..(now + DenyCooldown)
      /\ haltUntil \in 0..(now + HaltCooldown)
  BY DEF TypeOK
<1>3. CASE TemporalRefusal(r)
  <2>1. /\ UNCHANGED <<passes, retryUntil>>
        /\ haltUntil' = haltUntil \/ haltUntil' = now + HaltCooldown
        /\ denyUntil' = denyUntil \/ denyUntil' = now + DenyCooldown
    BY <1>3 DEF TemporalRefusal
  <2>2. /\ now + HaltCooldown \in 0..(now + HaltCooldown)
        /\ now + DenyCooldown \in 0..(now + DenyCooldown)
    BY <1>1
  <2> QED
    BY <1>2, <2>1, <2>2
<1>4. CASE ~TemporalRefusal(r)
  <2>1. CountPass(r)
    BY <1>4, CallsPass DEF PastTemporal
  <2>2. CASE ~On("temporal")
    BY <1>2, <2>1, <2>2 DEF CountPass, temporalVars
  <2>3. CASE On("temporal")
    <3>1. /\ passes' = Append(passes, [family |-> FamilyOf(r), at |-> now])
          /\ retryUntil' = [retryUntil EXCEPT ![FamilyOf(r)] =
                               IF RetrySpacing > 0 THEN now + RetrySpacing
                               ELSE @]
          /\ denyUntil' = denyUntil /\ haltUntil' = haltUntil
      BY <2>1, <2>3 DEF CountPass
    <3>2. [family |-> FamilyOf(r), at |-> now] \in [family : Family, at : 1..now]
      BY <1>1, FamilyKnown
    <3>3. passes' \in Seq([family : Family, at : 1..now])
      BY <1>2, <3>1, <3>2
    <3>4. now + RetrySpacing \in 0..(now + RetrySpacing)
      BY <1>1
    <3>5. retryUntil' \in [Family -> 0..(now + RetrySpacing)]
      BY <1>2, <3>1, <3>4
    <3> QED
      BY <1>2, <3>1, <3>3, <3>5
  <2> QED
    BY <2>2, <2>3
<1> QED
  BY <1>3, <1>4

\* The registries of loop integrity and of the exception events.
LEMMA LoopType ==
    ASSUME TypeOK, NEW r \in Request, Call(r)
    PROVE  /\ retries' \in [Family -> 0..calls']
           /\ DOMAIN denials' = Family
           /\ \A f \in Family :
                 /\ denials'[f] \in Seq({Snapshot(q) : q \in Request})
                 /\ Len(denials'[f]) <= DenialHistory
           /\ signals' \in Seq(EventName) /\ Len(signals') <= SignalHistory
<1>1. retries' \in [Family -> 0..calls']
  <2>1. retries' = retries \/ CountTry(r)
    BY CallsRecord
  <2>2. calls' = calls + 1 /\ calls \in Nat
    BY CallsCount DEF TypeOK
  <2>3. retries \in [Family -> 0..calls']
    BY <2>2 DEF TypeOK
  <2>4. retries[FamilyOf(r)] + 1 \in 0..calls'
    BY <2>2, FamilyKnown DEF TypeOK
  <2> QED
    BY <2>1, <2>3, <2>4, FamilyKnown DEF CountTry
<1>2. ASSUME RecordDenial(r), NEW f \in Family
      PROVE  /\ denials'[f] \in Seq({Snapshot(q) : q \in Request})
             /\ Len(denials'[f]) <= DenialHistory
  <2> DEFINE S == {Snapshot(q) : q \in Request}
             longer == Append(denials[f], Snapshot(r))
  <2>1. /\ denials'[f] = IF f = FamilyOf(r) THEN LastOf(longer, DenialHistory)
                         ELSE denials[f]
        /\ denials[f] \in Seq(S) /\ Len(denials[f]) <= DenialHistory
    BY <1>2 DEF RecordDenial, TypeOK
  <2>2. longer \in Seq(S) /\ DenialHistory \in Nat
    BY <2>1, CallsAreShaped
  <2> HIDE DEF S, longer
  <2>3. /\ LastOf(longer, DenialHistory) \in Seq(S)
        /\ Len(LastOf(longer, DenialHistory)) <= DenialHistory
    BY <2>2, LastOfSeq
  <2>4. denials'[f] \in Seq(S) /\ Len(denials'[f]) <= DenialHistory
    BY <2>1, <2>3
  <2> QED
    BY <2>4 DEF S
<1>3. DOMAIN denials' = Family
  BY CallsRecord DEF RecordDenial, TypeOK
<1>4. signals' \in Seq(EventName) /\ Len(signals') <= SignalHistory
  BY CallsRecord, RecordedEvents DEF TypeOK, EventName
<1>5. denials' = denials \/ RecordDenial(r)
  BY CallsRecord
<1>6. \A f \in Family :
         /\ denials'[f] \in Seq({Snapshot(q) : q \in Request})
         /\ Len(denials'[f]) <= DenialHistory
  BY <1>2, <1>5 DEF TypeOK
<1> QED
  BY <1>1, <1>3, <1>4, <1>6

\* Budget and release.
LEMMA SpendType ==
    ASSUME TypeOK, NEW r \in Request, Call(r)
    PROVE  /\ spent' \in [Class -> Nat]
           /\ release' \in [cooldown : 0..(now + ReleaseCooldown),
                             review : BOOLEAN]
<1>0. /\ now \in Nat /\ ReleaseCooldown \in Nat
      /\ spent \in [Class -> Nat]
      /\ release \in [cooldown : 0..(now + ReleaseCooldown), review : BOOLEAN]
  BY TimesAreNatural DEF TypeOK
<1>1. CASE UNCHANGED <<spent, release>>
  BY <1>0, <1>1
<1>2. CASE AcceptRelease(r) /\ UNCHANGED spent
  BY <1>0, <1>2 DEF AcceptRelease
<1>3. CASE Decide(r)
  <2>1. spent' \in [Class -> Nat]
    BY <1>0, <1>3, GrantsAreAmounts DEF Decide
  <2>2. release' = [release EXCEPT !.review = release.review /\ ~ReviewDue]
    BY <1>3 DEF Decide
  <2>3. (release.review /\ ~ReviewDue) \in BOOLEAN
    OBVIOUS
  <2> HIDE DEF ReviewDue
  <2>4. \A b \in BOOLEAN :
           [release EXCEPT !.review = b]
               \in [cooldown : 0..(now + ReleaseCooldown), review : BOOLEAN]
    BY <1>0
  <2> QED
    BY <2>1, <2>2, <2>3, <2>4
<1> QED
  BY <1>1, <1>2, <1>3, CallsSpend
-----------------------------------------------------------------------------
\* Steps that serve no call.
LEMMA TickType == TypeOK /\ Tick => TypeOK'
<1> SUFFICES ASSUME TypeOK, Tick PROVE TypeOK'
  OBVIOUS
<1>1. now' \in 1..MaxTime /\ now' = now + 1 /\ now \in Nat
  BY TimesAreNatural DEF Tick, TypeOK
<1>2. /\ 1..now \subseteq 1..now'
      /\ \A n \in Nat : 0..(now + n) \subseteq 0..(now' + n)
      /\ {RetrySpacing, DenyCooldown, HaltCooldown, ReleaseCooldown} \subseteq Nat
  BY <1>1, TimesAreNatural
<1>3. passes' \in Seq([family : Family, at : 1..now'])
  <2>1. passes \in Seq([family : Family, at : 1..now]) /\ passes' = passes
    BY DEF TypeOK, Tick, temporalVars
  <2>2. [family : Family, at : 1..now] \subseteq [family : Family, at : 1..now']
    BY <1>2
  <2> QED
    BY <2>1, <2>2, WiderSeq
<1>4. /\ retryUntil' \in [Family -> 0..(now' + RetrySpacing)]
      /\ denyUntil' \in 0..(now' + DenyCooldown)
      /\ haltUntil' \in 0..(now' + HaltCooldown)
  <2>1. /\ retryUntil \in [Family -> 0..(now + RetrySpacing)]
        /\ denyUntil \in 0..(now + DenyCooldown)
        /\ haltUntil \in 0..(now + HaltCooldown)
        /\ UNCHANGED <<retryUntil, denyUntil, haltUntil>>
    BY DEF TypeOK, Tick, temporalVars
  <2> QED
    BY <1>2, <2>1
<1>5. release' \in [cooldown : 0..(now' + ReleaseCooldown), review : BOOLEAN]
  <2>1. /\ release \in [cooldown : 0..(now + ReleaseCooldown), review : BOOLEAN]
        /\ release' = release
    BY DEF TypeOK, Tick
  <2> QED
    BY <1>2, <2>1
<1>6. UNCHANGED <<calls, deployment, retries, denials, signals, spent, posture,
                  reply>>
  BY DEF Tick
<1> QED
  BY <1>1, <1>3, <1>4, <1>5, <1>6 DEF TypeOK

\* Empty registries are well-typed, at the start and after a restart.
Empty ==
    /\ passes = <<>> /\ retryUntil = [f \in Family |-> 0]
    /\ denyUntil = 0 /\ haltUntil = 0
    /\ retries = [f \in Family |-> 0]
    /\ denials = [f \in Family |-> <<>>]
    /\ signals = <<>>
    /\ spent = [c \in Class |-> 0]
    /\ posture = "NONE"
    /\ release = [cooldown |-> 0, review |-> FALSE]
    /\ reply = [status |-> "NONE", review |-> FALSE, intervention |-> "none"]

LEMMA EmptyType ==
    Empty /\ now \in 1..MaxTime /\ calls \in 0..MaxCalls
          /\ deployment \in Deployment => TypeOK
<1> SUFFICES ASSUME Empty, now \in 1..MaxTime, calls \in 0..MaxCalls,
                    deployment \in Deployment
             PROVE  TypeOK
  OBVIOUS
<1>1. now \in Nat /\ calls \in Nat
  BY TimesAreNatural
<1>2. /\ 0 \in 0..(now + RetrySpacing) /\ 0 \in 0..(now + DenyCooldown)
      /\ 0 \in 0..(now + HaltCooldown) /\ 0 \in 0..(now + ReleaseCooldown)
      /\ 0 \in 0..calls
  BY <1>1, TimesAreNatural
<1>3. DenialHistory \in Nat /\ SignalHistory \in Nat
  BY CallsAreShaped
<1> QED
  BY <1>2, <1>3 DEF TypeOK, Empty, Posture

LEMMA EmptyTypeNext ==
    (Empty /\ now \in 1..MaxTime /\ calls \in 0..MaxCalls
           /\ deployment \in Deployment)' => TypeOK'
  BY EmptyType, PTL

LEMMA TypeInit == Init => TypeOK
<1> SUFFICES ASSUME Init PROVE TypeOK
  OBVIOUS
<1>1. now \in 1..MaxTime /\ calls \in 0..MaxCalls
  BY TimesAreNatural DEF Init
<1>2. Empty /\ deployment \in Deployment
  BY DEF Init, Empty
<1> QED
  BY <1>1, <1>2, EmptyType

LEMMA TypeStep == TypeOK /\ [Next]_vars => TypeOK'
<1> SUFFICES ASSUME TypeOK, [Next]_vars PROVE TypeOK'
  OBVIOUS
<1>1. CASE Tick
  BY <1>1, TickType
<1>2. CASE Restart
  <2>1. /\ Empty' /\ now' \in 1..MaxTime /\ calls' \in 0..MaxCalls
        /\ deployment' \in Deployment
    BY <1>2 DEF Restart, Empty, TypeOK
  <2> QED
    BY <2>1, EmptyTypeNext
<1>3. CASE ReadRegime
  <2>1. /\ posture' \in Posture /\ reply'.status = "NONE"
        /\ UNCHANGED <<now, calls, deployment, temporalVars, retries, denials,
                       signals, spent, release>>
    BY <1>3, PostureKnown DEF ReadRegime
  <2> QED
    BY <2>1 DEF TypeOK, temporalVars
<1>4. ASSUME NEW r \in Request, Call(r) PROVE TypeOK'
  <2>1. /\ now' = now /\ now \in 1..MaxTime
        /\ deployment' \in Deployment /\ calls' \in 0..MaxCalls
    BY <1>4, CallsCount, TimesAreNatural DEF TypeOK
  <2>2. /\ posture' \in Posture
        /\ reply'.status \in Admitting \cup Refusing \cup {"NONE", "ERROR"}
    BY <1>4, CallsPosture, CallsAnswer DEF TypeOK
  <2>3. /\ passes' \in Seq([family : Family, at : 1..now'])
        /\ retryUntil' \in [Family -> 0..(now' + RetrySpacing)]
        /\ denyUntil' \in 0..(now' + DenyCooldown)
        /\ haltUntil' \in 0..(now' + HaltCooldown)
    BY <1>4, <2>1, TemporalType
  <2>4. /\ spent' \in [Class -> Nat]
        /\ release' \in [cooldown : 0..(now' + ReleaseCooldown),
                          review : BOOLEAN]
    BY <1>4, <2>1, SpendType
  <2>5. /\ retries' \in [Family -> 0..calls']
        /\ DOMAIN denials' = Family
        /\ \A f \in Family :
              /\ denials'[f] \in Seq({Snapshot(q) : q \in Request})
              /\ Len(denials'[f]) <= DenialHistory
        /\ signals' \in Seq(EventName) /\ Len(signals') <= SignalHistory
    BY <1>4, LoopType
  <2> QED
    BY <2>1, <2>2, <2>3, <2>4, <2>5 DEF TypeOK, EventName
<1>5. CASE UNCHANGED vars
  BY <1>5 DEF vars, temporalVars, TypeOK
<1> QED
  BY <1>1, <1>2, <1>3, <1>4, <1>5 DEF Next

\* The registries keep to what the evaluators leave in them, for every
\* history of calls.
THEOREM TypeCorrect == Spec => []TypeOK
  BY TypeInit, TypeStep, PTL DEF Spec
-----------------------------------------------------------------------------
(* Halt and release.                                                       *)

\* Where no other layer is configured, a halted key gets to halt release.
LEMMA HaltedIsRelease ==
    ASSUME On("halt_release"), NoOtherLayer, posture \in Halted,
           NEW r, Call(r)
    PROVE  ReleaseCooldownRefusal(r) \/ AcceptRelease(r) \/ RefuseRelease(r)
<1>1. ~On("temporal") /\ ~On("loop") /\ ~On("telemetry")
  BY DEF NoOtherLayer, On
<1>2. ReleaseStops
  BY DEF ReleaseStops, HaltRequired
<1>3. ~TemporalRefusal(r) /\ ~LoopRefusal(r) /\ ~TelemetryRefusal(r)
  BY <1>1 DEF TemporalRefusal, PassesTemporal, LoopRefusal, LoopTriggered,
     DeniedBefore, TelemetryRefusal, TelemetryTriggered
<1>4. ~PastRelease(r)
  BY <1>2 DEF PastRelease
<1> QED
  BY <1>3, <1>4 DEF Call, RejectMalformed, RejectProcess, Raise, BudgetRefusal,
     Veto, Admit, Unfunded, Decide, WellFormed

\* A refused release leaves the key halted.
LEMMA RefusedStaysHalted ==
    ASSUME NEW r, RefuseRelease(r) PROVE posture' \in Halted
<1>1. PICK p : /\ p.status = "HALT"
               /\ AnswerFrom(posture, p)
  <2>1. Structured([Payload("HALT") EXCEPT
                      !.review = release.review, !.releaseRequired = TRUE,
                      !.category = "halt_release_governance",
                      !.events = EventsOf(r)])
    BY DEF RefuseRelease
  <2> QED
    BY <2>1 DEF Structured, Answer, WithSignals, Payload
<1>2. posture' = "HALT_ACTIVE"
  BY <1>1 DEF AnswerFrom, PostureAfter, Candidate
<1> QED
  BY <1>2 DEF Halted

\* Halt signals escalate an answer and leave the rest of it alone.
LEMMA SignalsEscalate ==
    ASSUME NEW p, {"escalated", "degraded"} \subseteq DOMAIN p,
           Escalates(p.events)
    PROVE  WithSignals(p).escalated /\ WithSignals(p).degraded = p.degraded
<1>1. (p.escalated \/ Escalates(p.events)) = TRUE
  OBVIOUS
<1>2. WithSignals(p).escalated = (p.escalated \/ Escalates(p.events))
  BY DEF WithSignals
<1>3. WithSignals(p).escalated = TRUE
  BY <1>1, <1>2, Zenon
<1>4. WithSignals(p).degraded = p.degraded
  BY DEF WithSignals
<1> QED
  BY <1>3, <1>4

\* Who serves a call: a step that counts one.
LEMMA WhoCalls ==
    ASSUME TypeOK, [Next]_vars, calls' # calls
    PROVE  \E r \in Request : Call(r)
  BY DEF Next, Tick, Restart, ReadRegime, vars

\* A key leaves a halt at a release that carried authority and evidence, or
\* in the cooldown after one, and by no other call of /v1/context.
THEOREM HaltEnds == Spec => HaltEndsAtReleaseAlone
<1>1. ASSUME TypeOK, [Next]_vars, On("halt_release"), NoOtherLayer, CallLeaves
      PROVE  release'.cooldown >= now
  <2>1. PICK r \in Request : Call(r)
    BY <1>1, WhoCalls DEF CallLeaves
  <2>2. now \in Nat /\ ReleaseCooldown \in Nat /\ release.cooldown \in Nat
    BY <1>1, TimesAreNatural DEF TypeOK
  <2>3. CASE ReleaseCooldownRefusal(r)
    BY <2>2, <2>3 DEF ReleaseCooldownRefusal, ReleaseCooling
  <2>4. CASE AcceptRelease(r)
    BY <2>2, <2>4 DEF AcceptRelease
  <2>5. CASE RefuseRelease(r)
    BY <1>1, <2>5, RefusedStaysHalted DEF CallLeaves
  <2> QED
    BY <1>1, <2>1, <2>3, <2>4, <2>5, HaltedIsRelease DEF CallLeaves
<1>2. TypeOK /\ [Next]_vars
        => [On("halt_release") /\ NoOtherLayer /\ CallLeaves
              => release'.cooldown >= now]_vars
  BY <1>1
<1> QED
  BY <1>2, TypeCorrect, PTL DEF Spec, HaltEndsAtReleaseAlone

\* Three exception events halt a key until the process restarts: they are never
\* forgotten, so that the answer that accepts a release recommends the halt
\* again (_halt_state_for_api_key, _derive_system_state).  No clean cycle can
\* clear the recommendation, for any constants.
EscalationIsPermanent ==
    [][On("halt_release") /\ NoOtherLayer /\ Len(signals) >= 3
          => ~CallLeaves]_vars
THEOREM EscalationLasts == Spec => EscalationIsPermanent
<1>1. ASSUME TypeOK, [Next]_vars, On("halt_release"), NoOtherLayer,
             Len(signals) >= 3, CallLeaves
      PROVE  FALSE
  <2>1. PICK r \in Request : Call(r)
    BY <1>1, WhoCalls DEF CallLeaves
  <2>2. CASE ReleaseCooldownRefusal(r) \/ AcceptRelease(r)
    <3>1. Len(signals') >= 3
      BY <1>1, <2>2, RecordedEvents
         DEF ReleaseCooldownRefusal, AcceptRelease, TypeOK, EventName
    <3>2. \A events : Escalates(events)
      BY <3>1 DEF Escalates
    <3>3. PICK p : AnswerFrom(posture, p) /\ p.escalated /\ ~p.degraded
      <4>1. CASE ReleaseCooldownRefusal(r)
        <5> DEFINE p == [Payload("DELAY") EXCEPT
                            !.review = TRUE, !.releaseRequired = HaltRequired,
                            !.category = "halt_release_governance",
                            !.events = EventsOf(r)]
        <5>1. Structured(p)
          BY <4>1 DEF ReleaseCooldownRefusal
        <5>2. {"escalated", "degraded"} \subseteq DOMAIN p /\ p.degraded = FALSE
          BY DEF Payload
        <5> HIDE DEF p
        <5>3. WithSignals(p).escalated /\ ~WithSignals(p).degraded
          BY <3>2, <5>2, SignalsEscalate
        <5> QED
          BY <5>1, <5>3 DEF Structured, Answer
      <4>2. CASE AcceptRelease(r)
        <5> DEFINE p == [Payload("DELAY") EXCEPT
                            !.review = TRUE, !.events = EventsOf(r),
                            !.category = "halt_release_governance"]
        <5>1. Structured(p)
          BY <4>2 DEF AcceptRelease
        <5>2. {"escalated", "degraded"} \subseteq DOMAIN p /\ p.degraded = FALSE
          BY DEF Payload
        <5> HIDE DEF p
        <5>3. WithSignals(p).escalated /\ ~WithSignals(p).degraded
          BY <3>2, <5>2, SignalsEscalate
        <5> QED
          BY <5>1, <5>3 DEF Structured, Answer
      <4> QED
        BY <2>2, <4>1, <4>2
    <3>4. posture' \in Halted
      BY <3>3 DEF AnswerFrom, PostureAfter, Candidate, Halted
    <3> QED
      BY <1>1, <3>4 DEF CallLeaves
  <2>3. CASE RefuseRelease(r)
    BY <1>1, <2>3, RefusedStaysHalted DEF CallLeaves
  <2> QED
    BY <1>1, <2>1, <2>2, <2>3, HaltedIsRelease DEF CallLeaves
<1>2. TypeOK /\ [Next]_vars
        => [On("halt_release") /\ NoOtherLayer /\ Len(signals) >= 3
              => ~CallLeaves]_vars
  BY <1>1
<1> QED
  BY <1>2, TypeCorrect, PTL DEF Spec, EscalationIsPermanent

\* Nothing is admitted in the cooldown of a release, and what is admitted
\* first after it asks for the re-evaluation.
THEOREM ReleaseIsReviewed == Spec => ReleasedThenReviewed
<1>1. ASSUME TypeOK, [Next]_vars, On("halt_release"), release.review,
             calls' # calls, reply'.status \in Admitting
      PROVE  reply'.review /\ release.cooldown <= now
  <2>1. PICK r \in Request : Call(r)
    BY <1>1, WhoCalls
  <2>2. Admitting \cap Refusing = {} /\ "ERROR" \notin Admitting
    BY DEF Admitting, Refusing
  <2>3. Admit(r)
    BY <1>1, <2>1, <2>2, Refusals, LateRefusals DEF Call, Raise
  <2>4. reply'.review = ReviewDue
    BY <2>3 DEF Admit, Answer, AnswerFrom, Payload
  <2>5. ~(release.cooldown > now)
    BY <1>1, <2>3 DEF Admit, Decide, WellFormed, PastRelease, ReleaseStops,
       ReleaseCooling
  <2>6. now \in Nat /\ release.cooldown \in Nat
    BY <1>1, TimesAreNatural DEF TypeOK
  <2>7. ReviewDue
    BY <1>1 DEF ReviewDue
  <2>8. reply'.review
    BY <2>4, <2>7, Zenon
  <2>9. release.cooldown <= now
    BY <2>5, <2>6
  <2> QED
    BY <2>8, <2>9
<1>2. TypeOK /\ [Next]_vars
        => [On("halt_release") /\ release.review /\ calls' # calls
              => \/ reply'.status \notin Admitting
                 \/ reply'.review /\ release.cooldown <= now]_vars
  BY <1>1
<1> QED
  BY <1>2, TypeCorrect, PTL DEF Spec, ReleasedThenReviewed
-----------------------------------------------------------------------------
(* Retries.                                                                *)

\* A call that was denied, and is remembered, is not admitted again.
THEOREM RetriesNeverAdmit == Spec => NoRetryToAllow
<1>1. ASSUME TypeOK, NEW r \in Request, On("loop"),
             Snapshot(r) \in ToSet(denials[FamilyOf(r)])
      PROVE  ~Admit(r)
  <2> DEFINE past == denials[FamilyOf(r)]
             s == Similarity(Snapshot(r), Snapshot(r))
  <2>1. past \in Seq({Snapshot(q) : q \in Request})
    BY <1>1, FamilyKnown DEF TypeOK
  <2>2. PICK i \in 1..Len(past) : past[i] = Snapshot(r)
    BY <1>1, <2>1 DEF ToSet
  <2>3. past # <<>> /\ s \in Resembling(r)
    BY <2>1, <2>2 DEF Resembling
  <2>4. s \in Int /\ s >= 600
    BY CallsAreShaped, SelfSimilar DEF Snapshot
  <2> HIDE DEF s
  <2>5. LoopTriggered(r)
    BY <1>1, <2>3, <2>4, RepeatsResemble DEF LoopTriggered, DeniedBefore, AtLeast
  <2> QED
    BY <2>5 DEF Admit, Decide, WellFormed, PastRelease, PastTelemetry, PastLoop
<1>2. TypeOK /\ [Next]_vars
        => [\A r \in Request :
               On("loop") /\ Snapshot(r) \in ToSet(denials[FamilyOf(r)])
                  => ~Admit(r)]_vars
  BY <1>1
<1> QED
  BY <1>2, TypeCorrect, PTL DEF Spec, NoRetryToAllow
-----------------------------------------------------------------------------
(* Pace.  The passes are in the order of their times, and the expiry of a  *)
(* family's spacing is past all of its passes.                             *)

Near(i) == {j \in i..Len(passes) : passes[j].at <= passes[i].at + Window}

InOrder == \A i, j \in 1..Len(passes) : i <= j => passes[i].at <= passes[j].at
Spacing ==
    \A i, j \in 1..Len(passes) :
        i < j /\ passes[i].family = passes[j].family
            => passes[j].at >= passes[i].at + RetrySpacing
SpacedOut ==
    \A i \in 1..Len(passes) :
        RetrySpacing > 0
            => passes[i].at + RetrySpacing <= retryUntil[passes[i].family]
Few == MaxRequests > 0
          => \A i \in 1..Len(passes) : Cardinality(Near(i)) <= MaxRequests
PaceInv == InOrder /\ Spacing /\ SpacedOut /\ Few

\* What is in the window can be counted.
LEMMA WindowFinite ==
    ASSUME passes \in Seq([family : Family, at : 1..now])
    PROVE  /\ IsFiniteSet(Recent) /\ Cardinality(Recent) \in Nat
           /\ \A i \in 1..Len(passes) :
                 IsFiniteSet(Near(i)) /\ Cardinality(Near(i)) \in Nat
<1>1. IsFiniteSet(1..Len(passes))
  BY FS_Interval
<1>2. Recent \subseteq 1..Len(passes)
  BY DEF Recent
<1>3. \A i \in 1..Len(passes) : Near(i) \subseteq 1..Len(passes)
  BY DEF Near
<1> QED
  BY <1>1, <1>2, <1>3, FS_Subset, FS_CardinalityType

\* Times and families of the passes.
LEMMA PassTyped ==
    ASSUME TypeOK
    PROVE  /\ Len(passes) \in Nat /\ now \in Nat
           /\ RetrySpacing \in Nat /\ Window \in Nat /\ MaxRequests \in Nat
           /\ \A i \in 1..Len(passes) :
                 /\ passes[i].at \in Nat /\ passes[i].at <= now
                 /\ passes[i].family \in Family
<1>1. passes \in Seq([family : Family, at : 1..now]) /\ now \in 1..MaxTime
  BY DEF TypeOK
<1>2. RetrySpacing \in Nat /\ Window \in Nat /\ MaxRequests \in Nat
      /\ MaxTime \in Nat
  BY TimesAreNatural
<1>3. now \in Nat
  BY <1>1, <1>2
<1>4. Len(passes) \in Nat
  BY <1>1
<1>5. \A i \in 1..Len(passes) : passes[i] \in [family : Family, at : 1..now]
  BY <1>1, ElementOfSeq
<1>6. \A i \in 1..Len(passes) : passes[i].at \in 1..now /\ passes[i].family \in Family
  BY <1>5
<1> QED
  BY <1>2, <1>3, <1>4, <1>6

\* A call that passes is the last of its window and of its family.
LEMMA PassPaced ==
    ASSUME TypeOK, PaceInv, NEW r \in Request, On("temporal"),
           PassesTemporal(r), CountPass(r)
    PROVE  PaceInv'
<1> SUFFICES ASSUME NEW n, n = Len(passes), NEW f, f = FamilyOf(r)
             PROVE  PaceInv'
  OBVIOUS
<1>1. /\ n \in Nat /\ now \in Nat /\ f \in Family
      /\ RetrySpacing \in Nat /\ Window \in Nat /\ MaxRequests \in Nat
  BY PassTyped, FamilyKnown
<1>2. retryUntil \in [Family -> 0..(now + RetrySpacing)]
      /\ passes \in Seq([family : Family, at : 1..now])
  BY DEF TypeOK
<1>3. /\ passes' = Append(passes, [family |-> f, at |-> now])
      /\ retryUntil' = [retryUntil EXCEPT ![f] =
                           IF RetrySpacing > 0 THEN now + RetrySpacing ELSE @]
  BY DEF CountPass
<1>4. /\ Len(passes') = n + 1
      /\ \A i \in 1..n : passes'[i] = passes[i]
      /\ passes'[n + 1].family = f /\ passes'[n + 1].at = now
  BY <1>2, <1>3
<1>5. \A i \in 1..n : /\ passes[i].at \in Nat /\ passes[i].at <= now
                      /\ passes[i].family \in Family
  BY PassTyped
<1>6. retryUntil[f] <= now
  <2>1. ~(retryUntil[f] > now)
    BY DEF PassesTemporal, CoolingDown, Spaced
  <2>2. retryUntil[f] \in Nat
    BY <1>1, <1>2
  <2> QED
    BY <1>1, <2>1, <2>2
<1>7. MaxRequests > 0 => Cardinality(Recent) + 1 <= MaxRequests
  BY <1>1, <1>2, WindowFinite DEF PassesTemporal, RatePressure, Projected
<1>8. InOrder'
  <2> SUFFICES ASSUME NEW i \in 1..(n + 1), NEW j \in 1..(n + 1), i <= j
               PROVE  passes'[i].at <= passes'[j].at
    BY <1>4 DEF InOrder
  <2>1. CASE j = n + 1
    <3>1. i = n + 1 \/ i \in 1..n
      BY <1>1
    <3> QED
      BY <1>1, <1>4, <1>5, <2>1, <3>1
  <2>2. CASE j # n + 1
    <3>1. i \in 1..n /\ j \in 1..n
      BY <1>1, <2>2
    <3> QED
      BY <1>4, <3>1 DEF PaceInv, InOrder
  <2> QED
    BY <2>1, <2>2
<1>9. Spacing'
  <2>1. ASSUME NEW i \in 1..n, passes[i].family = f
        PROVE  now >= passes[i].at + RetrySpacing
    <3>1. RetrySpacing > 0 => passes[i].at + RetrySpacing <= retryUntil[f]
      BY <2>1 DEF PaceInv, SpacedOut
    <3>2. retryUntil[f] \in Nat
      BY <1>1, <1>2
    <3> QED
      BY <1>1, <1>5, <1>6, <3>1, <3>2
  <2> SUFFICES ASSUME NEW i \in 1..(n + 1), NEW j \in 1..(n + 1), i < j,
                      passes'[i].family = passes'[j].family
               PROVE  passes'[j].at >= passes'[i].at + RetrySpacing
    BY <1>4 DEF Spacing
  <2>2. i \in 1..n
    BY <1>1
  <2>3. CASE j = n + 1
    BY <1>4, <2>1, <2>2, <2>3
  <2>4. CASE j # n + 1
    <3>1. j \in 1..n
      BY <1>1, <2>4
    <3> QED
      BY <1>4, <2>2, <3>1 DEF PaceInv, Spacing
  <2> QED
    BY <2>3, <2>4
<1>10. SpacedOut'
  <2> SUFFICES ASSUME NEW i \in 1..(n + 1), RetrySpacing > 0
               PROVE  passes'[i].at + RetrySpacing
                         <= retryUntil'[passes'[i].family]
    BY <1>4 DEF SpacedOut
  <2>1. retryUntil'[f] = now + RetrySpacing
    BY <1>1, <1>2, <1>3
  <2>2. \A g \in Family : g # f => retryUntil'[g] = retryUntil[g]
    BY <1>2, <1>3
  <2>3. CASE i = n + 1
    BY <1>1, <1>4, <2>1, <2>3
  <2>4. CASE i # n + 1
    <3>1. i \in 1..n
      BY <1>1, <2>4
    <3>2. CASE passes[i].family = f
      BY <1>1, <1>4, <1>5, <2>1, <3>1, <3>2
    <3>3. CASE passes[i].family # f
      BY <1>4, <1>5, <2>2, <3>1, <3>3 DEF PaceInv, SpacedOut
    <3> QED
      BY <3>2, <3>3
  <2> QED
    BY <2>3, <2>4
<1>11. ASSUME MaxRequests > 0, NEW i \in 1..n
       PROVE  Cardinality(Near(i)') <= MaxRequests
  <2>1. /\ IsFiniteSet(Recent) /\ Cardinality(Recent) \in Nat
        /\ IsFiniteSet(Near(i)) /\ Cardinality(Near(i)) \in Nat
        /\ Cardinality(Near(i)) <= MaxRequests
    BY <1>2, <1>11, WindowFinite DEF PaceInv, Few
  <2>2. CASE now <= passes[i].at + Window
    <3>1. Near(i)' \subseteq Recent \cup {n + 1}
      <4> SUFFICES ASSUME NEW j \in i..(n + 1), j # n + 1
                   PROVE  j \in Recent
        BY <1>1, <1>4 DEF Near
      <4>1. j \in 1..n /\ i <= j
        BY <1>1
      <4>2. passes[i].at <= passes[j].at
        BY <4>1 DEF PaceInv, InOrder
      <4>3. passes[i].at \in Nat /\ passes[j].at \in Nat
        BY <1>5, <4>1
      <4>4. passes[j].at >= now - Window
        BY <1>1, <2>2, <4>2, <4>3
      <4> QED
        BY <4>1, <4>4 DEF Recent
    <3>2. /\ IsFiniteSet(Recent \cup {n + 1})
          /\ Cardinality(Recent \cup {n + 1}) =
                IF n + 1 \in Recent THEN Cardinality(Recent)
                                    ELSE Cardinality(Recent) + 1
      BY <2>1, FS_AddElement
    <3>3. /\ Cardinality(Near(i)') <= Cardinality(Recent \cup {n + 1})
          /\ Cardinality(Near(i)') \in Nat
      BY <3>1, <3>2, FS_Subset, FS_CardinalityType
    <3> QED
      BY <1>1, <1>7, <1>11, <2>1, <3>2, <3>3
  <2>3. CASE ~(now <= passes[i].at + Window)
    <3>1. Near(i)' \subseteq Near(i)
      <4> SUFFICES ASSUME NEW j \in i..(n + 1),
                          passes'[j].at <= passes'[i].at + Window
                   PROVE  j \in i..n /\ passes[j].at <= passes[i].at + Window
        BY <1>4 DEF Near
      <4>1. j # n + 1
        BY <1>4, <2>3
      <4>2. j \in i..n /\ j \in 1..n
        BY <1>1, <4>1
      <4> QED
        BY <1>4, <4>2
    <3>2. /\ Cardinality(Near(i)') <= Cardinality(Near(i))
          /\ Cardinality(Near(i)') \in Nat
      BY <2>1, <3>1, FS_Subset, FS_CardinalityType
    <3> QED
      BY <1>1, <2>1, <3>2
  <2> QED
    BY <2>2, <2>3
<1>12. ASSUME MaxRequests > 0
       PROVE  Cardinality(Near(n + 1)') <= MaxRequests
  <2>1. Near(n + 1)' \subseteq {n + 1}
    BY <1>1, <1>4 DEF Near
  <2>2. IsFiniteSet({n + 1}) /\ Cardinality({n + 1}) = 1
    BY FS_Singleton
  <2>3. Cardinality(Near(n + 1)') <= 1 /\ Cardinality(Near(n + 1)') \in Nat
    BY <2>1, <2>2, FS_Subset, FS_CardinalityType
  <2> QED
    BY <1>1, <1>12, <2>3
<1>13. Few'
  <2> SUFFICES ASSUME MaxRequests > 0, NEW i \in 1..Len(passes')
               PROVE  Cardinality(Near(i)') <= MaxRequests
    BY DEF Few
  <2>1. i \in 1..n \/ i = n + 1
    BY <1>1, <1>4
  <2> QED
    BY <1>11, <1>12, <2>1
<1> QED
  BY <1>8, <1>9, <1>10, <1>13 DEF PaceInv

\* Steps that count no pass.
LEMMA PaceStays ==
    ASSUME PaceInv, UNCHANGED <<passes, retryUntil>>
    PROVE  PaceInv'
<1>1. InOrder' /\ Spacing' /\ SpacedOut'
  BY DEF PaceInv, InOrder, Spacing, SpacedOut
<1>2. Few'
  BY DEF PaceInv, Few, Near
<1> QED
  BY <1>1, <1>2 DEF PaceInv

LEMMA NoPasses == passes = <<>> => PaceInv
  BY DEF PaceInv, InOrder, Spacing, SpacedOut, Few

LEMMA NoPassesNext == (passes = <<>>)' => PaceInv'
  BY NoPasses, PTL

LEMMA PaceStep == TypeOK /\ PaceInv /\ [Next]_vars => PaceInv'
<1> SUFFICES ASSUME TypeOK, PaceInv, [Next]_vars PROVE PaceInv'
  OBVIOUS
<1>1. CASE Tick \/ ReadRegime \/ UNCHANGED vars
  BY <1>1, PaceStays DEF Tick, ReadRegime, vars, temporalVars
<1>2. CASE Restart
  BY <1>2, NoPassesNext DEF Restart
<1>3. ASSUME NEW r \in Request, Call(r) PROVE PaceInv'
  <2>1. CASE TemporalRefusal(r)
    BY <2>1, PaceStays DEF TemporalRefusal
  <2>2. CASE ~TemporalRefusal(r)
    <3>1. PassesTemporal(r) /\ CountPass(r)
      BY <1>3, <2>2, CallsPass DEF PastTemporal
    <3>2. CASE On("temporal")
      BY <3>1, <3>2, PassPaced
    <3>3. CASE ~On("temporal")
      BY <3>1, <3>3, PaceStays DEF CountPass, temporalVars
    <3> QED
      BY <3>2, <3>3
  <2> QED
    BY <2>1, <2>2
<1> QED
  BY <1>1, <1>2, <1>3 DEF Next

\* Temporal governance lets no more than MaxRequests calls through in any
\* window, and no two of a family closer than the spacing.
THEOREM CallsArePaced == Spec => []PassesPaced
<1>1. TypeOK /\ PaceInv => PassesPaced
  <2> SUFFICES ASSUME TypeOK, PaceInv, NEW i \in 1..Len(passes)
               PROVE  /\ MaxRequests > 0 =>
                           Cardinality({j \in i..Len(passes) :
                              passes[j].at <= passes[i].at + Window})
                                 <= MaxRequests
                      /\ \A j \in (i + 1)..Len(passes) :
                           passes[i].family = passes[j].family =>
                              passes[j].at >= passes[i].at + RetrySpacing
    BY DEF PassesPaced
  <2>1. Len(passes) \in Nat
    BY DEF TypeOK
  <2>2. MaxRequests > 0 =>
           Cardinality({j \in i..Len(passes) :
              passes[j].at <= passes[i].at + Window}) <= MaxRequests
    BY DEF PaceInv, Few, Near
  <2>3. \A j \in (i + 1)..Len(passes) : j \in 1..Len(passes) /\ i < j
    BY <2>1
  <2> QED
    BY <2>2, <2>3 DEF PaceInv, Spacing
<1>2. Init => PaceInv
  BY NoPasses DEF Init
<1> QED
  BY <1>1, <1>2, PaceStep, TypeCorrect, PTL DEF Spec
=============================================================================
