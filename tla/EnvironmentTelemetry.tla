------------------------ MODULE EnvironmentTelemetry ------------------------
(***************************************************************************)
(* What the answers of GET /v1/context leave behind for the feed           *)
(* GET /v1/feeds/constraint_pressure (core/telemetry_engine.py,            *)
(* core/environmental_state_engine.py).  A thread condenses its answer     *)
(* into a record outside the lock and appends it under the lock to a       *)
(* bounded deque; the feed copies the latest of them under the lock.       *)
(*                                                                         *)
(* Scores between 0 and 1 with three decimals are numbers of thousandths,  *)
(* weights with two decimals are percentages; a division rounds halves up, *)
(* where Python rounds what a binary fraction makes of them.               *)
(***************************************************************************)
EXTENDS Naturals, Sequences, FiniteSets, FiniteSetsExt

CONSTANTS
    Answerer,       \* threads of the process
    Outcome,        \* answers that may be given: [status, state, loop,
                    \* telemetry, temporal, disagreement]; loop: thousandths
    RecordLimit,    \* maxlen of the deque
    WindowLimit     \* limit of the feed's snapshot (100 in the code)

\* In a window of more than 333 records one of them may weigh less than the
\* rounding of a rate.
ASSUME TelemetryConstants ==
    /\ RecordLimit \in Nat \ {0} /\ WindowLimit \in 1..333
    /\ \A o \in Outcome :
          /\ o.loop \in 0..1000
          /\ {o.telemetry, o.temporal, o.disagreement} \subseteq BOOLEAN

VARIABLES
    deque,      \* the records, the latest last
    drafts      \* record a thread has built and not yet appended

telemetryVars == <<deque, drafts>>
-----------------------------------------------------------------------------
(* build_internal_telemetry_record                                         *)

Allowing == {"ALLOW"}
Constraining == {"CONSTRAIN", "REDUCE", "DELAY", "RETRY_DELAYED"}
Denying == {"DENY", "VETO", "HALT", "RETRY_BLOCKED", "PRESSURE_ESCALATED"}

StatusWeight(status) ==
    CASE status = "ALLOW" -> 0
      [] status = "CONSTRAIN" -> 550
      [] status = "REDUCE" -> 580
      [] status = "DELAY" -> 620
      [] status = "RETRY_DELAYED" -> 660
      [] status = "RETRY_BLOCKED" -> 820
      [] status = "PRESSURE_ESCALATED" -> 900
      [] status = "DENY" -> 880
      [] status = "VETO" -> 950
      [] status = "HALT" -> 1000
      [] OTHER -> 500

StateWeight(state) ==
    CASE state = "NORMAL" -> 0
      [] state = "CONSTRAINED_OPERATION" -> 450
      [] state = "RECOVERY_REVIEW_REQUIRED" -> 520
      [] state = "PRESSURE_ELEVATED" -> 700
      [] state = "TELEMETRY_DEGRADED" -> 800
      [] state = "HALT_RECOMMENDED" -> 900
      [] state = "HALT_ACTIVE" -> 1000
      [] OTHER -> 350

Posture(o) ==
    CASE o.state \in {"HALT_ACTIVE", "HALT_RECOMMENDED", "TELEMETRY_DEGRADED"}
            -> "DEFENSIVE"
      [] o.state = "PRESSURE_ELEVATED" \/ o.status = "PRESSURE_ESCALATED"
            -> "ESCALATING"
      [] o.state = "RECOVERY_REVIEW_REQUIRED" -> "RECOVERING"
      [] o.state = "CONSTRAINED_OPERATION" \/ o.status \in Constraining
            -> "CONSTRAINED"
      [] OTHER -> "QUIET"

UpToOne(thousandths) == IF thousandths > 1000 THEN 1000 ELSE thousandths
If(flag, weight) == IF flag THEN weight ELSE 0
\* n divided by d, rounded to the nearest number.
Rounded(n, d) == (2 * n + d) \div (2 * d)

Condensed(o) ==
    [status |-> o.status,
     state |-> o.state,
     constraint |-> UpToOne(
         Max({StatusWeight(o.status), StateWeight(o.state), o.loop})
         + If(o.telemetry, 200) + If(o.temporal, 150)
         + If(o.disagreement, 150)),
     divergence |-> Rounded(65 * StatusWeight(o.status)
                            + 25 * StateWeight(o.state) + 10 * o.loop, 100),
     admissibility |-> StatusWeight(o.status),
     posture |-> Posture(o),
     loop |-> o.loop,
     mismatch |-> o.temporal \/ o.disagreement]
-----------------------------------------------------------------------------
(* EnvironmentalStateEngine                                                *)

\* Mutant of Bucket: the status the loop governance added last is missing.
BucketBefore(status) ==
    IF status \in Allowing THEN "allow"
    ELSE IF status \in Denying \ {"PRESSURE_ESCALATED"} THEN "deny"
    ELSE "constrain"

\* What is not known counts as a constraint.
Bucket(status) ==
    IF status \in Allowing THEN "allow"
    ELSE IF status \in Denying THEN "deny" ELSE "constrain"

InBucket(window, bucket) ==
    Cardinality({i \in DOMAIN window : Bucket(window[i].status) = bucket})
Rate(n, window) == Rounded(1000 * n, Max({1, Len(window)}))

\* The longest run of denials among the last five records.
DenyCluster(window) ==
    LET recent == SubSeq(window, Max({1, Len(window) - 4}), Len(window))
        runs == {n \in 0..Len(recent) : \E before \in 0..(Len(recent) - n) :
                    \A i \in (before + 1)..(before + n) :
                        Bucket(recent[i].status) = "deny"}
    IN  Rate(Max(runs), recent)

\* Hundredths of a score times the length of the window: rates and the
\* cluster are scores already, constraint is summed over the window.
SumOf(window, values) ==
    LET sum[n \in 0..Len(window)] ==
            IF n = 0 THEN 0 ELSE sum[n - 1] + values[n]
    IN  sum[Len(window)]
ScoreOf(fixed, summed, window) ==
    UpToOne(Rounded(fixed * Len(window) + summed, 100 * Len(window)))

PressureScore(window) ==
    LET constraints == [i \in DOMAIN window |-> window[i].constraint]
    IN  IF window = <<>> THEN 0
        ELSE ScoreOf(36 * Rate(InBucket(window, "constrain"), window)
                       + 48 * Rate(InBucket(window, "deny"), window)
                       + 18 * DenyCluster(window),
                     32 * SumOf(window, constraints), window)

Strained == {"PRESSURE_ELEVATED", "TELEMETRY_DEGRADED", "HALT_RECOMMENDED",
             "HALT_ACTIVE"}
DriftScore(window) ==
    LET weights == [i \in DOMAIN window |-> window[i].admissibility]
        strains == [i \in DOMAIN window |->
                       IF window[i].state \in Strained THEN 1000
                       ELSE window[i].loop]
        mismatches == [i \in DOMAIN window |-> If(window[i].mismatch, 1)]
    IN  IF window = <<>> THEN 0
        ELSE ScoreOf(0, 32000 * (Len(window) - InBucket(window, "allow"))
                          + 28 * SumOf(window, weights)
                          + 28 * SumOf(window, strains)
                          + 12000 * SumOf(window, mismatches), window)

Volatility(window) ==
    LET turns == {i \in 1..(Len(window) - 1) :
                     Bucket(window[i].status) # Bucket(window[i + 1].status)}
    IN  Rounded(1000 * Cardinality(turns), Max({1, Len(window) - 1}))
Fragmentation(window) ==
    LET postures == {window[i].posture : i \in DOMAIN window}
    IN  Rounded(1000 * (Cardinality(postures) - 1), 4)

StabilityScore(window) ==
    LET divergences == [i \in DOMAIN window |-> window[i].divergence]
        strains == [i \in DOMAIN window |->
                       IF window[i].mismatch THEN 1000 ELSE window[i].loop]
    IN  IF window = <<>> THEN 1000
        ELSE 1000 - ScoreOf(28 * Volatility(window) + 14 * Fragmentation(window),
                            28 * SumOf(window, divergences)
                              + 30 * SumOf(window, strains), window)

\* The commonest posture; of equally common ones the first in the alphabet.
Alphabet == <<"CONSTRAINED", "DEFENSIVE", "ESCALATING", "QUIET", "RECOVERING">>
DominantPosture(window) ==
    LET Count(p) == Cardinality({i \in DOMAIN window : window[i].posture = p})
        first == CHOOSE n \in DOMAIN Alphabet : \A m \in DOMAIN Alphabet :
                    \/ Count(Alphabet[n]) > Count(Alphabet[m])
                    \/ Count(Alphabet[n]) = Count(Alphabet[m]) /\ n <= m
    IN  IF window = <<>> THEN "QUIET" ELSE Alphabet[first]
EnvironmentLabel(score, dominant) ==
    IF score >= 720 \/ (score >= 480 /\ dominant \in {"DEFENSIVE", "ESCALATING"})
    THEN "DEFENSIVE"
    ELSE IF score >= 480 THEN "CONSTRAINED"
    ELSE IF score >= 220 THEN "RECOVERING" ELSE "QUIET"
PressureLabel(score) ==
    IF score >= 720 THEN "CONSTRAINED" ELSE IF score >= 480 THEN "ELEVATED"
    ELSE IF score >= 220 THEN "RISING" ELSE "QUIET"
DriftLabel(score) ==
    IF score >= 780 THEN "ESCALATING" ELSE IF score >= 480 THEN "RISING"
    ELSE IF score >= 220 THEN "RECOVERING" ELSE "QUIET"
StabilityLabel(score) ==
    IF score < 350 THEN "FRAGMENTED" ELSE IF score < 550 THEN "UNSTABLE"
    ELSE IF score < 780 THEN "RECOVERING" ELSE "QUIET"
-----------------------------------------------------------------------------
TelemetryInit ==
    /\ deque = <<>>
    /\ drafts = [a \in Answerer |-> <<>>]

\* The answer is complete; its record is built without the lock.
Condense(a, o) ==
    /\ drafts[a] = <<>>
    /\ drafts' = [drafts EXCEPT ![a] = <<Condensed(o)>>]
    /\ UNCHANGED deque

\* capture_decision: the deque drops its oldest record when it is full.
Capture(a) ==
    /\ drafts[a] # <<>>
    /\ deque' = LET all == deque \o drafts[a]
                IN  SubSeq(all, Max({1, Len(all) - RecordLimit + 1}), Len(all))
    /\ drafts' = [drafts EXCEPT ![a] = <<>>]

\* snapshot(limit=100), a copy under the lock: what a feed built now shows.
Feed == SubSeq(deque, Max({1, Len(deque) - WindowLimit + 1}), Len(deque))

TelemetryNext ==
    \E a \in Answerer :
        \/ \E o \in Outcome : Condense(a, o)
        \/ Capture(a)

TelemetrySpec == TelemetryInit /\ [][TelemetryNext]_telemetryVars
-----------------------------------------------------------------------------
Heavier(o, r) ==
    /\ StatusWeight(o.status) >= StatusWeight(r.status)
    /\ StateWeight(o.state) >= StateWeight(r.state)
    /\ o.loop >= r.loop /\ (r.mismatch => o.temporal \/ o.disagreement)
    /\ Condensed(o).constraint >= r.constraint

\* Had one answer of the window weighed more, by the table of weights, the
\* feed would not report less pressure nor the engine less drift: the table
\* and the buckets are kept apart and must rank the statuses alike.  And a
\* window of plain allowances is quiet and stable (STATUS_WEIGHTS and
\* DENY_STATUSES of telemetry_engine.py, derive_constraint_pressure,
\* derive_drift_state).
HeavierNeverCalms ==
    /\ \A i \in DOMAIN Feed, o \in Outcome : Heavier(o, Feed[i]) =>
          LET worse == [Feed EXCEPT ![i] = Condensed(o)]
          IN  /\ PressureScore(worse) >= PressureScore(Feed)
              /\ DriftScore(worse) >= DriftScore(Feed)
    /\ (\A i \in DOMAIN Feed : Feed[i].constraint = 0 /\ ~Feed[i].mismatch) =>
          /\ PressureLabel(PressureScore(Feed)) = "QUIET"
          /\ EnvironmentLabel(PressureScore(Feed), DominantPosture(Feed))
                = "QUIET"
          /\ DriftLabel(DriftScore(Feed)) = "QUIET"
          /\ StabilityLabel(StabilityScore(Feed)) = "QUIET"
=============================================================================
