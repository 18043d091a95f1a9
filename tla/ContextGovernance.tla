------------------------- MODULE ContextGovernance -------------------------
(***************************************************************************)
(* The governance pipeline of GET /v1/context for one API key (app.py,     *)
(* get_context and the evaluators it calls, in their order): temporal      *)
(* governance, loop integrity, telemetry integrity, halt release,          *)
(* validation of the decision record, process-integrity language, the      *)
(* guardrail decision, the permission budget and billing.                  *)
(*                                                                         *)
(* Every registry of the pipeline is a dictionary of the process keyed by  *)
(* the API key, so one key is modelled and a restart empties all of them.  *)
(* A call is one step: overlapping calls of a key are the subject of       *)
(* ContextAccounting.  The queue, the proof and the telemetry a call also  *)
(* leaves behind feed nothing back into the decision and have modules of   *)
(* their own.  Sizes are cents, ratios thousandths, times whole seconds;   *)
(* an expiry in the past is the same as no expiry.                         *)
(***************************************************************************)
EXTENDS Integers, Sequences, FiniteSets, SequencesExt

CONSTANTS
    Request,        \* the calls a client makes
    Deployment,     \* key configurations: [layers, haltThreshold, regime]
    MaxTime,        \* bound: the clock stops here
    MaxCalls,       \* bound: calls served
    Window, MaxRequests,                      \* temporal_governance
    RetrySpacing, DenyCooldown, HaltCooldown,
    PressureSimilarity, AmbiguousSimilarity,  \* loop_integrity
    RetryBlock, PressureEscalation,
    DenialHistory,  \* denials kept per family (10 in the code)
    SignalHistory,  \* exception events kept (10 in the code)
    StaleAfter, MinReliability, Disagreement, HaltDisagreement,
    ReleaseCooldown, RequiredEvidence,        \* halt_release_governance
    Budget, DelayOnExhaustion                 \* permission_budgeting

Severe == {"PRESSURE_ELEVATED", "TELEMETRY_DEGRADED", "HALT_RECOMMENDED",
           "HALT_ACTIVE"}
Halted == {"HALT_RECOMMENDED", "HALT_ACTIVE"}
Posture == Severe \cup {"NONE", "NORMAL", "CONSTRAINED_OPERATION",
                        "RECOVERY_REVIEW_REQUIRED"}
Admitting == {"ALLOW", "CONSTRAIN", "REDUCE"}
Refusing == {"VETO", "DENY", "DELAY", "HALT", "RETRY_DELAYED",
             "RETRY_BLOCKED", "PRESSURE_ESCALATED"}

\* The classes of intents, each with a budget of its own.
Class == {"risk_increasing", "risk_reducing", "general"}

ASSUME TimesAreNatural ==
    /\ {Window, MaxRequests, RetrySpacing, DenyCooldown,
        HaltCooldown, ReleaseCooldown} \subseteq Nat
    /\ MaxTime \in Nat \ {0} /\ MaxCalls \in Nat

\* Strategies are finite sets of tokens, amounts whole cents; three events
\* fit into the history of events and one denial into that of denials.
ASSUME CallsAreShaped ==
    /\ \A r \in Request : r.size.cents \in Int /\ IsFiniteSet(r.strategy)
    /\ Budget \in [Class -> Nat]
    /\ SignalHistory \in Nat /\ SignalHistory >= 3
    /\ DenialHistory \in Nat \ {0}

\* A call resembles itself by 600 thousandths at the least: its family and
\* the bucket of its size.  A key whose threshold is higher takes a call
\* without size, venue and strategy for another one.
ASSUME RepeatsResemble == AmbiguousSimilarity \in Int /\ AmbiguousSimilarity <= 600

VARIABLES
    now, calls,
    deployment,     \* the layers and threshold of the key, the regime
    passes,         \* calls temporal governance let through: [family, at];
                    \* the code drops those behind the window, see Recent
    retryUntil,     \* per family: end of the retry spacing
    denyUntil, haltUntil,
    retries,        \* family_retry_counts
    denials,        \* family_denials: snapshots of denied calls
    signals,        \* HALT_SIGNAL_STATE: categories of exception events
    spent,          \* permission budget consumed per class
    posture,        \* SYSTEM_STATE_REGISTRY, "NONE" without an entry
    release,        \* HALT_RELEASE_STATE
    reply           \* the last answer

temporalVars == <<passes, retryUntil, denyUntil, haltUntil>>
vars == <<now, calls, deployment, temporalVars, retries, denials, signals,
          spent, posture, release, reply>>
-----------------------------------------------------------------------------
(* Classification of a call.                                               *)

RiskIncreasing == {"trade", "deploy_liquidity", "open_position",
                   "increase_position"}
RiskReducing == {"reduce_position", "exit_position", "decrease_position"}

Direction(intent) ==
    IF intent \in RiskIncreasing THEN "risk_increasing"
    ELSE IF intent \in RiskReducing THEN "risk_reducing" ELSE "general"

FamilyOf(r) == <<r.intent, r.asset>>
Family == {FamilyOf(r) : r \in Request}

On(layer) == layer \in deployment.layers

\* What a denial remembers of the call.
Snapshot(r) == [size |-> r.size, venue |-> r.venue, strategy |-> r.strategy]

Bucket(size) ==
    IF size.form = "missing" THEN "missing"
    ELSE IF size.form # "number" THEN "non_numeric"
    ELSE LET v == IF size.cents < 0 THEN -size.cents ELSE size.cents
         IN  IF v >= 25000000 THEN "oversized"
             ELSE IF v >= 5000000 THEN "large"
             ELSE IF v >= 500000 THEN "medium"
             ELSE IF v > 0 THEN "small" ELSE "zero"

\* Similarity of two calls of a family, strategies being sets of tokens.
Similarity(a, b) ==
    LET either == Cardinality(a.strategy \cup b.strategy)
        both == Cardinality(a.strategy \cap b.strategy)
    IN  250 + (IF Bucket(a.size) = Bucket(b.size) THEN 350 ELSE 0)
            + (IF a.size = b.size /\ a.size.form # "missing"
               THEN 150 ELSE 0)
            + (IF both = 0 THEN 0 ELSE (150 * both) \div either)
            + (IF a.venue = b.venue /\ a.venue # "none" THEN 100 ELSE 0)

LastOf(seq, n) == SubSeq(seq, IF Len(seq) > n THEN Len(seq) - n + 1 ELSE 1,
                         Len(seq))
-----------------------------------------------------------------------------
(* Temporal governance.                                                    *)

\* Mutant of Recent: the window forgets its oldest second.
RecentExclusive == {i \in 1..Len(passes) : passes[i].at > now - Window}
\* Without a window nothing is ever dropped.
Recent == {i \in 1..Len(passes) :
              Window = 0 \/ passes[i].at >= now - Window}
Projected == Cardinality(Recent) + 1
EffectiveHaltThreshold ==
    IF deployment.haltThreshold > 0 THEN deployment.haltThreshold
    ELSE IF MaxRequests > 0 THEN MaxRequests + 1 ELSE 0

Quarantined == haltUntil > now
Spaced(f) == retryUntil[f] > now
DenyCooling == denyUntil > now
CoolingDown(f) == Quarantined \/ Spaced(f) \/ DenyCooling
HaltPressure == /\ EffectiveHaltThreshold > 0
                /\ Projected > EffectiveHaltThreshold
RatePressure == MaxRequests > 0 /\ Projected > MaxRequests

\* The status of a call temporal governance stops, in the order it looks.
TemporalStop(r) ==
    IF Quarantined THEN "HALT"
    ELSE IF Spaced(FamilyOf(r)) THEN "DELAY"
    ELSE IF DenyCooling THEN "DENY"
    ELSE IF HaltPressure THEN "HALT" ELSE "DENY"

PassesTemporal(r) ==
    On("temporal") =>
        ~CoolingDown(FamilyOf(r)) /\ ~HaltPressure /\ ~RatePressure

\* A call let through is counted, and its family spaced.
CountPass(r) ==
    IF On("temporal")
    THEN /\ passes' = Append(passes, [family |-> FamilyOf(r), at |-> now])
         /\ retryUntil' = [retryUntil EXCEPT ![FamilyOf(r)] =
                              IF RetrySpacing > 0 THEN now + RetrySpacing
                              ELSE @]
         /\ UNCHANGED <<denyUntil, haltUntil>>
    ELSE UNCHANGED temporalVars
-----------------------------------------------------------------------------
(* Loop integrity: how close the call is to an earlier denial of its       *)
(* family, and how often the family has been tried since.                  *)

\* Mutant of Resembling: only the last denial is compared.
ResemblingLast(r) ==
    LET past == denials[FamilyOf(r)]
    IN  {Similarity(Snapshot(r), past[i]) : i \in {Len(past)}}
Resembling(r) ==
    LET f == FamilyOf(r)
    IN  {Similarity(Snapshot(r), denials[f][i]) : i \in 1..Len(denials[f])}
DeniedBefore(r) == On("loop") /\ denials[FamilyOf(r)] # <<>>
AtLeast(r, threshold) == \E s \in Resembling(r) : s >= threshold
Tries(r) == retries[FamilyOf(r)] + 1

LoopTriggered(r) == DeniedBefore(r) /\ AtLeast(r, AmbiguousSimilarity)

LoopStop(r) ==
    IF /\ AtLeast(r, PressureSimilarity)
       /\ Tries(r) >= PressureEscalation
    THEN "PRESSURE_ESCALATED"
    ELSE IF Tries(r) >= RetryBlock THEN "RETRY_BLOCKED" ELSE "RETRY_DELAYED"

\* Every evaluation of a denied family counts, a learning retry included.
CountTry(r) ==
    retries' = IF DeniedBefore(r)
               THEN [retries EXCEPT ![FamilyOf(r)] = @ + 1] ELSE retries

RecordDenial(r) ==
    denials' = [denials EXCEPT ![FamilyOf(r)] =
                   LastOf(Append(@, Snapshot(r)), DenialHistory)]
-----------------------------------------------------------------------------
(* Telemetry integrity.                                                    *)

Spread(scores) ==
    IF Cardinality(scores) < 2 THEN 0
    ELSE CHOOSE d \in {a - b : a, b \in scores} :
            \A a, b \in scores : a - b <= d

Stale(r) == r.age # -1 /\ r.age > StaleAfter
Disagreeing(r) == Spread(r.scores) >= Disagreement

\* Without a reliability of its own the call has its sources' average.
TooUnreliable(r) ==
    LET least == MinReliability[Direction(r.intent)]
    IN  IF r.reliability # -1 THEN r.reliability < least
        ELSE FoldSet(LAMBDA s, sum : s + sum, 0, r.scores)
                 < least * Cardinality(r.scores) \/ r.scores = {}

TelemetryStop(r) ==
    IF Stale(r) THEN "DELAY"
    ELSE IF Disagreeing(r)
    THEN IF HaltDisagreement > 0 /\ Spread(r.scores) >= HaltDisagreement
         THEN "HALT" ELSE "DENY"
    ELSE IF TooUnreliable(r) THEN "DENY" ELSE "CLEAR"

TelemetryTriggered(r) == On("telemetry") /\ TelemetryStop(r) # "CLEAR"
-----------------------------------------------------------------------------
(* Halt release.                                                           *)

ReleaseCooling == release.cooldown > now
\* Mutant of HaltRequired: a recommended halt asks for no release.
ActiveHaltRequired == posture = "HALT_ACTIVE"
HaltRequired == posture \in Halted
Authorized(r) == r.authority /\ RequiredEvidence \subseteq r.evidence

\* Mutant of ReleaseStops: the cooldown of a release stops nothing.
StopsWhenHalted == On("halt_release") /\ HaltRequired
ReleaseStops == On("halt_release") /\ (ReleaseCooling \/ HaltRequired)
ReviewDue == On("halt_release") /\ release.review
-----------------------------------------------------------------------------
(* The decision: guardrail of the regime, status, adjusted size.           *)

AllowsNewRisk(r) ==
    /\ deployment.regime # "Stress"
    /\ ~ /\ deployment.regime = "Elevated Fragility"
         /\ r.size.form = "number" /\ r.size.cents >= 25000000
AllowsIncrease == deployment.regime \notin {"Stress", "Elevated Fragility"}

DecisionStatus(r) ==
    LET risky == r.intent \in RiskIncreasing
    IN  IF risky /\ ~AllowsNewRisk(r) THEN "VETO"
        ELSE IF /\ risky /\ ~AllowsIncrease
                /\ r.size.form = "missing" \/ r.size.cents > 0
        THEN "CONSTRAIN" ELSE "ALLOW"

\* Half the size, and at least one unit of currency.
AdjustedSize(r) ==
    IF DecisionStatus(r) = "VETO" THEN 0
    ELSE IF DecisionStatus(r) = "CONSTRAIN"
    THEN IF r.size.cents \div 2 > 100 THEN r.size.cents \div 2 ELSE 100
    ELSE r.size.cents

\* The budget of the call's class, and what the call would take of it.
Remaining(r) == LET left == Budget[Direction(r.intent)]
                            - spent[Direction(r.intent)]
                IN  IF left > 0 THEN left ELSE 0
Budgeted(r) == /\ On("permission_budgeting")
               /\ DecisionStatus(r) # "VETO"
               /\ r.size.form = "number" /\ AdjustedSize(r) > 0
Exhausted(r) == Budgeted(r) /\ Remaining(r) = 0
Reduced(r) == Budgeted(r) /\ AdjustedSize(r) > Remaining(r)
Granted(r) == IF Reduced(r) THEN Remaining(r) ELSE AdjustedSize(r)

SpendBudget(r) ==
    spent' = IF Budgeted(r)
             THEN [spent EXCEPT ![Direction(r.intent)] = @ + Granted(r)]
             ELSE spent
-----------------------------------------------------------------------------
(* The answer, and the system state it leaves behind.                      *)

Payload(status) ==
    [status |-> status, category |-> "none", events |-> <<>>,
     degraded |-> FALSE, pressure |-> FALSE, escalated |-> FALSE,
     review |-> FALSE, releaseRequired |-> FALSE]

\* The events of a call, in the order _detect_exception_categories looks.
Detected(r, event) == IF event \in r.flags THEN <<event>> ELSE <<>>
EventsOf(r) ==
    Detected(r, "bypass_attempt") \o Detected(r, "retroactive_attempt")
        \o Detected(r, "override_attempt")
        \o Detected(r, "delayed_logging_attempt")
RecordEvents(r) == signals' = LastOf(signals \o EventsOf(r), SignalHistory)

\* _halt_state_for_api_key, once the call's own events are recorded.
Escalates(events) ==
    \/ Len(events) >= 2
    \/ Len(signals') >= 3
    \/ Cardinality(ToSet(signals')) >= 3

\* _derive_system_state: the first condition that holds.
Candidate(p) ==
    IF p.status = "HALT" THEN "HALT_ACTIVE"
    ELSE IF p.degraded THEN "TELEMETRY_DEGRADED"
    ELSE IF p.escalated THEN "HALT_RECOMMENDED"
    ELSE IF p.review THEN "RECOVERY_REVIEW_REQUIRED"
    ELSE IF p.pressure THEN "PRESSURE_ELEVATED"
    ELSE IF p.status \in {"CONSTRAIN", "REDUCE"}
    THEN "CONSTRAINED_OPERATION" ELSE "NORMAL"

\* _apply_system_state: from posture q, a calm answer only opens a review.
PostureAfter(q, p) ==
    IF /\ q \in Severe
       /\ Candidate(p) \in {"NORMAL", "CONSTRAINED_OPERATION"}
    THEN "RECOVERY_REVIEW_REQUIRED" ELSE Candidate(p)

Clarifiable == {"incomplete_decision_record", "ambiguous_constraint_language",
                "invalid_size_format"}

\* _apply_human_intervention_taxonomy, on a payload with its posture.
Intervention(p, q) ==
    IF p.releaseRequired THEN "halt_release_authorization_required"
    ELSE IF p.status = "VETO" /\ "override_attempt" \in ToSet(p.events)
    THEN "override_attempt_detected"
    ELSE IF p.category \in Clarifiable THEN "clarification_required"
    ELSE IF /\ p.category \notin {"telemetry_integrity", "billing",
                                  "halt_release_governance"}
            /\ ToSet(p.events) \ {"override_attempt"} # {}
    THEN "exception_authorization_required"
    ELSE IF q = "HALT_RECOMMENDED" THEN "approval_required" ELSE "none"

\* The answer p, given from posture q.
AnswerFrom(q, p) ==
    /\ posture' = PostureAfter(q, p)
    /\ reply' = [status |-> p.status, review |-> p.review,
                 intervention |-> Intervention(p, PostureAfter(q, p))]
    /\ calls' = calls + 1
    /\ UNCHANGED <<now, deployment>>
Answer(p) == AnswerFrom(posture, p)

\* _build_structured_response: the halt signals of the key always count.
WithSignals(p) == [p EXCEPT !.escalated = @ \/ Escalates(p.events)]
Structured(p) == Answer(WithSignals(p))
-----------------------------------------------------------------------------
(* One action per way a call can end, in the order of the pipeline.        *)

\* An entitled call arrives, and which evaluators it gets past.
Serve(r) == calls < MaxCalls /\ r \in Request
PastTemporal(r) == Serve(r) /\ PassesTemporal(r) /\ CountPass(r)
PastLoop(r) == PastTemporal(r) /\ ~LoopTriggered(r) /\ CountTry(r)
PastTelemetry(r) == PastLoop(r) /\ ~TelemetryTriggered(r)
PastRelease(r) == PastTelemetry(r) /\ ~ReleaseStops

\* Temporal governance refuses: a cooldown runs, or the window is full.
TemporalRefusal(r) ==
    /\ Serve(r) /\ ~PassesTemporal(r)
    /\ LET fresh == ~CoolingDown(FamilyOf(r)) IN
       /\ haltUntil' = IF fresh /\ HaltPressure
                       THEN now + HaltCooldown ELSE haltUntil
       /\ denyUntil' = IF fresh /\ ~HaltPressure
                       THEN now + DenyCooldown ELSE denyUntil
    /\ RecordEvents(r)
    /\ Structured([Payload(TemporalStop(r)) EXCEPT
                      !.pressure = TRUE, !.events = EventsOf(r)])
    /\ UNCHANGED <<passes, retryUntil, retries, denials, spent, release>>

\* Loop integrity refuses a call that resembles a denied one.
LoopRefusal(r) ==
    /\ PastTemporal(r) /\ LoopTriggered(r) /\ CountTry(r)
    /\ RecordEvents(r) /\ RecordDenial(r)
    /\ Structured([Payload(LoopStop(r)) EXCEPT
                      !.pressure = TRUE, !.events = EventsOf(r),
                      !.escalated = LoopStop(r) = "PRESSURE_ESCALATED"])
    /\ UNCHANGED <<spent, release>>

\* Telemetry is stale, contradictory or unreliable.
TelemetryRefusal(r) ==
    /\ PastLoop(r) /\ TelemetryTriggered(r)
    /\ RecordEvents(r)
    /\ IF TelemetryStop(r) = "DELAY" THEN UNCHANGED denials
                                     ELSE RecordDenial(r)
    /\ Structured([Payload(TelemetryStop(r)) EXCEPT
                      !.degraded = TRUE, !.events = EventsOf(r),
                      !.category = "telemetry_integrity",
                      !.escalated = TelemetryStop(r) = "HALT"])
    /\ UNCHANGED <<spent, release>>

\* A released halt cools down: nothing is admitted yet.
ReleaseCooldownRefusal(r) ==
    /\ PastTelemetry(r) /\ ReleaseStops /\ ReleaseCooling
    /\ RecordEvents(r)
    /\ Structured([Payload("DELAY") EXCEPT
                      !.review = TRUE, !.releaseRequired = HaltRequired,
                      !.category = "halt_release_governance",
                      !.events = EventsOf(r)])
    /\ UNCHANGED <<denials, spent, release>>

\* The call carries the authority and all the evidence: the halt is released.
AcceptRelease(r) ==
    /\ PastTelemetry(r) /\ ReleaseStops /\ ~ReleaseCooling /\ Authorized(r)
    /\ release' = [cooldown |-> now + ReleaseCooldown, review |-> TRUE]
    /\ RecordEvents(r)
    /\ Structured([Payload("DELAY") EXCEPT
                      !.review = TRUE, !.events = EventsOf(r),
                      !.category = "halt_release_governance"])
    /\ UNCHANGED <<denials, spent>>

\* A halted key stays halted without them.
RefuseRelease(r) ==
    /\ PastTelemetry(r) /\ ReleaseStops /\ ~ReleaseCooling /\ ~Authorized(r)
    /\ RecordEvents(r)
    /\ Structured([Payload("HALT") EXCEPT
                      !.review = release.review, !.releaseRequired = TRUE,
                      !.category = "halt_release_governance",
                      !.events = EventsOf(r)])
    /\ UNCHANGED <<denials, spent, release>>

\* _validate_decision_fields: what is wrong with the record of the call.
Malformed(r) ==
    IF r.intent = "none" \/ r.asset = "none" THEN "incomplete_decision_record"
    ELSE IF r.intent \notin RiskIncreasing THEN "none"
    ELSE CASE r.size.form = "missing" -> "incomplete_decision_record"
           [] r.size.form = "vague"   -> "ambiguous_constraint_language"
           [] r.size.form = "text"    -> "invalid_size_format"
           [] OTHER                   -> "none"

\* _reject_decision: a VETO that is remembered as a denial of the family.
Reject(r, category, events) ==
    /\ RecordDenial(r)
    /\ Structured([Payload("VETO") EXCEPT !.category = category,
                                          !.events = events])
    /\ UNCHANGED <<spent, release>>

RejectMalformed(r) ==
    /\ PastRelease(r) /\ Malformed(r) # "none"
    /\ UNCHANGED signals
    /\ Reject(r, Malformed(r), <<>>)

RejectProcess(r) ==
    /\ PastRelease(r) /\ Malformed(r) = "none" /\ r.flags # {}
    /\ RecordEvents(r)
    /\ Reject(r, "process_integrity_violation", EventsOf(r))

\* The size of a call that adds no risk is not validated: when it is not a
\* number the handler raises, after the evaluators have counted the call.
Unparsable(r) == r.size.form \in {"vague", "text"}
Raise(r) ==
    /\ PastRelease(r) /\ Malformed(r) = "none" /\ r.flags = {}
    /\ Unparsable(r)
    /\ reply' = [status |-> "ERROR", review |-> FALSE,
                 intervention |-> "none"]
    /\ calls' = calls + 1
    /\ UNCHANGED <<now, deployment, denials, signals, spent, posture,
                   release>>

WellFormed(r) ==
    PastRelease(r) /\ Malformed(r) = "none" /\ r.flags = {} /\ ~Unparsable(r)

\* The budget of the class is used up; a constrained call also escalates.
BudgetRefusal(r) ==
    /\ WellFormed(r) /\ Exhausted(r)
    /\ UNCHANGED <<denials, signals, spent, release>>
    /\ Structured([Payload(IF DelayOnExhaustion THEN "DELAY" ELSE "DENY")
                      EXCEPT !.category = "permission_budgeting",
                             !.escalated = DecisionStatus(r) = "CONSTRAIN"])

\* What the decision leaves behind, a guardrail veto included: the review
\* after a release is done, and the budget is spent before billing is asked.
Decide(r) ==
    /\ WellFormed(r) /\ ~Exhausted(r)
    /\ SpendBudget(r)
    /\ release' = [release EXCEPT !.review = @ /\ ~ReviewDue]
    /\ UNCHANGED signals
Verdict(r) == IF Budgeted(r) /\ Reduced(r) THEN "REDUCE"
              ELSE DecisionStatus(r)

Veto(r) ==
    /\ Decide(r) /\ Verdict(r) = "VETO"
    /\ RecordDenial(r)
    /\ Answer([Payload("VETO") EXCEPT !.review = ReviewDue])

Admit(r) ==
    /\ Decide(r) /\ Verdict(r) # "VETO"
    /\ UNCHANGED denials
    /\ Answer([Payload(Verdict(r)) EXCEPT !.review = ReviewDue])

\* Billing refuses a billable verdict: the system state, already moved for
\* the verdict, moves again for the refusal.
Unfunded(r) ==
    /\ On("billing")
    /\ Decide(r) /\ Verdict(r) \in {"ALLOW", "CONSTRAIN"}
    /\ UNCHANGED denials
    /\ AnswerFrom(PostureAfter(posture, [Payload(Verdict(r)) EXCEPT
                                            !.review = ReviewDue]),
                  WithSignals([Payload("DENY") EXCEPT
                                  !.review = ReviewDue,
                                  !.category = "billing"]))
-----------------------------------------------------------------------------
Init ==
    /\ now = 1 /\ calls = 0
    /\ deployment \in Deployment
    /\ passes = <<>> /\ retryUntil = [f \in Family |-> 0]
    /\ denyUntil = 0 /\ haltUntil = 0
    /\ retries = [f \in Family |-> 0]
    /\ denials = [f \in Family |-> <<>>]
    /\ signals = <<>>
    /\ spent = [c \in Class |-> 0]
    /\ posture = "NONE"
    /\ release = [cooldown |-> 0, review |-> FALSE]
    /\ reply = [status |-> "NONE", review |-> FALSE, intervention |-> "none"]

Tick == /\ now < MaxTime
        /\ now' = now + 1
        /\ UNCHANGED <<calls, deployment, temporalVars, retries, denials,
                       signals, spent, posture, release, reply>>

\* Every registry of the pipeline is memory of the process.
Restart ==
    /\ passes' = <<>> /\ retryUntil' = [f \in Family |-> 0]
    /\ denyUntil' = 0 /\ haltUntil' = 0
    /\ retries' = [f \in Family |-> 0]
    /\ denials' = [f \in Family |-> <<>>]
    /\ signals' = <<>>
    /\ spent' = [c \in Class |-> 0]
    /\ posture' = "NONE"
    /\ release' = [cooldown |-> 0, review |-> FALSE]
    /\ reply' = [status |-> "NONE", review |-> FALSE, intervention |-> "none"]
    /\ UNCHANGED <<now, calls, deployment>>

\* GET /v1/regime writes the system state of the key as well: with no decision
\* in the answer the candidate is NORMAL.
ReadRegime ==
    /\ posture' = PostureAfter(posture, Payload("NONE"))
    /\ reply' = [status |-> "NONE", review |-> FALSE, intervention |-> "none"]
    /\ UNCHANGED <<now, calls, deployment, temporalVars, retries, denials, signals,
                   spent, release>>

Call(r) ==
    \/ TemporalRefusal(r) \/ LoopRefusal(r) \/ TelemetryRefusal(r)
    \/ ReleaseCooldownRefusal(r) \/ AcceptRelease(r) \/ RefuseRelease(r)
    \/ RejectMalformed(r) \/ RejectProcess(r) \/ Raise(r)
    \/ BudgetRefusal(r) \/ Veto(r) \/ Admit(r) \/ Unfunded(r)

Next == Tick \/ Restart \/ ReadRegime \/ \E r \in Request : Call(r)

Spec == Init /\ [][Next]_vars
-----------------------------------------------------------------------------
\* The registries keep to what the evaluators leave in them: expiries no
\* further away than their cooldown, bounded histories, a budget spent by
\* whole grants (app.py: _temporal_state_for_api_key, _loop_state_for_api_key,
\* _record_exception, _evaluate_permission_budget).
TypeOK ==
    /\ now \in 1..MaxTime /\ calls \in 0..MaxCalls
    /\ deployment \in Deployment
    /\ passes \in Seq([family : Family, at : 1..now])
    /\ retryUntil \in [Family -> 0..(now + RetrySpacing)]
    /\ denyUntil \in 0..(now + DenyCooldown)
    /\ haltUntil \in 0..(now + HaltCooldown)
    /\ retries \in [Family -> 0..calls]
    /\ DOMAIN denials = Family
    /\ \A f \in Family :
          /\ denials[f] \in Seq({Snapshot(r) : r \in Request})
          /\ Len(denials[f]) <= DenialHistory
    /\ signals \in Seq({"bypass_attempt", "retroactive_attempt",
                        "override_attempt", "delayed_logging_attempt"})
    /\ Len(signals) <= SignalHistory
    /\ spent \in [Class -> Nat]
    /\ posture \in Posture
    /\ release \in [cooldown : 0..(now + ReleaseCooldown), review : BOOLEAN]
    /\ reply.status \in Admitting \cup Refusing \cup {"NONE", "ERROR"}

\* However calls of several families, refusals, cooldowns and the pruning of
\* the window interleave, temporal governance never lets more than
\* MaxRequests calls through in any Window, nor two calls of a family closer
\* than RetrySpacing (_evaluate_temporal_governance).
PassesPaced ==
    \A i \in 1..Len(passes) :
        /\ MaxRequests > 0 =>
              Cardinality({j \in i..Len(passes) :
                             passes[j].at <= passes[i].at + Window})
                  <= MaxRequests
        /\ \A j \in (i + 1)..Len(passes) :
              passes[i].family = passes[j].family =>
                  passes[j].at >= passes[i].at + RetrySpacing

\* docs/non_bypass_policy.md: no retries to force an ALLOW. While the family
\* remembers a denied call, the same call is never admitted, whatever came
\* in between (_evaluate_loop_integrity, _record_loop_denial).
NoRetryToAllow ==
    [][\A r \in Request :
          On("loop") /\ Snapshot(r) \in ToSet(denials[FamilyOf(r)])
              => ~Admit(r)]_vars

\* A key leaves a halt-related posture only at a release that carried its
\* authority and evidence, or in the cooldown that follows it
\* (_halt_release_response: "before the system may exit halt-related
\* posture"). A restart, which forgets the posture, is not an exit.
HaltEndsAtRelease ==
    [][/\ On("halt_release") /\ posture \in Halted
       /\ posture' \notin Halted \cup {"NONE"}
       => release'.cooldown >= now]_vars

\* The same of calls to /v1/context, where no other evaluator is configured
\* whose refusals write the system state of a halted key as well
\* (_evaluate_halt_release_governance, _derive_system_state).
NoOtherLayer == deployment.layers \cap {"temporal", "loop", "telemetry"} = {}
CallLeaves == posture \in Halted /\ posture' \notin Halted /\ calls' # calls
HaltEndsAtReleaseAlone ==
    [][On("halt_release") /\ NoOtherLayer /\ CallLeaves
          => release'.cooldown >= now]_vars

\* What every answer in the posture announces ("halt recommendation cleared by
\* subsequent clean control cycle", _derive_system_state): a call that detects
\* no exception event, is stopped by no other evaluator and carries the
\* authority and the evidence of a release, or is admitted, ends a halt
\* recommendation.
CleanCycle(r) == r.flags = {} /\ (AcceptRelease(r) \/ Admit(r))
CleanCycleClears ==
    [][posture = "HALT_RECOMMENDED" /\ (\E r \in Request : CleanCycle(r))
          => posture' # "HALT_RECOMMENDED"]_vars

\* After a release nothing is admitted during its cooldown, and the first
\* decision after it carries the demand for a re-evaluation
\* (_evaluate_halt_release_governance, get_context).
ReleasedThenReviewed ==
    [][On("halt_release") /\ release.review /\ calls' # calls
          => \/ reply'.status \notin Admitting
             \/ reply'.review /\ release.cooldown <= now]_vars
=============================================================================
