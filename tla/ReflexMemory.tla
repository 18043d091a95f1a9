---------------------------- MODULE ReflexMemory ----------------------------
(***************************************************************************)
(* What Nova remembers of earlier stress and shows a reviewer              *)
(* (core/reflex_memory, app.py: apply_reflex_memory).  The memory is       *)
(* configuration: a registry that depends on the regime of the process, an *)
(* age and its limits in the record of the API key, and fixture files that *)
(* are read anew for every answer.  It must never decide: an entry that is *)
(* active, admissible and not stale changes the review posture of the      *)
(* answer, and a proof says so; nothing else does.                         *)
(***************************************************************************)
EXTENDS Naturals, Sequences, FiniteSets

CONSTANTS
    Regime,         \* DEFAULT_REGIME the process may be started with
    Request,        \* what a call asks: [intent, size], size 0 for none
    Setting,        \* memory_governance of key records: [admissible, age,
                    \* staleAfter, ratio]; ratio is a percentage, 0 is unset
    Shelf           \* contents of the fixture directory: sequences of [id,
                    \* effect, sound]; sound: what validation asks holds

VARIABLES
    regime,     \* of the process
    setting,    \* of the key's record
    shelf,      \* the fixture files
    answer      \* the last answer

memoryVars == <<regime, setting, shelf, answer>>
-----------------------------------------------------------------------------
RiskIncreasing ==
    {"trade", "deploy_liquidity", "open_position", "increase_position"}

\* build_registry: one entry for each known regime.
Lesson(id, class, posture) ==
    [id |-> id, class |-> class, posture |-> posture]
Registry ==
    IF regime = "Stress"
    THEN {Lesson("stress", "fragility_escalation", "elevated_review_attention")}
    ELSE IF regime = "Elevated Fragility"
    THEN {Lesson("fragility", "liquidity_deterioration", "constrained_review")}
    ELSE IF regime = "Stable"
    THEN {Lesson("monitoring", "baseline_monitoring", "baseline_review")}
    ELSE {}

\* select_active_entry: the stress entry before the one of fragility, which
\* wants a size; monitoring is never active.
ActiveFor(request) ==
    {e \in Registry :
        /\ request.intent \in RiskIncreasing
        /\ e.id = "stress" \/ (e.id = "fragility" /\ request.size > 0)}

\* _memory_governance_config: a limit or a ratio of zero counts as unset.
StaleAfter == IF setting.staleAfter = 0 THEN 3600 ELSE setting.staleAfter
AgingRatio == IF setting.ratio = 0 THEN 50 ELSE setting.ratio

\* _memory_age_state
AgeState ==
    IF setting.age >= StaleAfter THEN "stale"
    ELSE IF setting.age * 100 >= StaleAfter * AgingRatio THEN "aging"
    ELSE "fresh"

\* Mutant of Influences: a stale memory is flagged and still used.
InfluencesFlagged(e) == e.class \in setting.admissible

\* _evaluate_memory_governance
Influences(e) ==
    e.class \in setting.admissible /\ AgeState # "stale"

\* apply_reflex_memory: the decision passes through as it came.
Answer(request) ==
    LET active == ActiveFor(request)
        used == {e \in active : Influences(e)}
    IN  [triggered |-> active # {},
         applied |-> used # {},
         posture |-> IF used = {} THEN "baseline_review"
                     ELSE (CHOOSE e \in used : TRUE).posture,
         proof |-> {e.id : e \in used},
         age |-> IF active = {} THEN "not_applicable" ELSE AgeState,
         context |-> shelf]

\* validate_reflex_memory_state: what makes it raise instead of answering.
Consistent(a) ==
    /\ a.proof # {} => a.triggered
    /\ a.applied => a.triggered
    /\ a.posture \in {"baseline_review", "constrained_review",
                      "elevated_review_attention"}

\* validate_reflex_memory_entry, for every file that is read.
Readable == \A i \in DOMAIN shelf : shelf[i].sound
Failed == [triggered |-> FALSE, applied |-> FALSE,
           posture |-> "error", proof |-> {}, age |-> "error",
           context |-> <<>>]
-----------------------------------------------------------------------------
MemoryInit ==
    /\ regime \in Regime /\ setting \in Setting /\ shelf \in Shelf
    /\ answer = Failed

\* A call of GET /v1/context reaches the memory and is answered.
Recall(request) ==
    /\ answer' = IF Consistent(Answer(request)) /\ Readable
                 THEN Answer(request) ELSE Failed
    /\ UNCHANGED <<regime, setting, shelf>>

\* The record of the key changes in keys.json.
Reconfigure(s) ==
    /\ setting' = s
    /\ UNCHANGED <<regime, shelf, answer>>

\* Another version of the fixtures is checked out.
Restock(s) ==
    /\ shelf' = s
    /\ UNCHANGED <<regime, setting, answer>>

MemoryNext ==
    \/ \E r \in Request : Recall(r)
    \/ \E s \in Setting : Reconfigure(s)
    \/ \E s \in Shelf : Restock(s)

MemorySpec == MemoryInit /\ [][MemoryNext]_memoryVars
-----------------------------------------------------------------------------
\* An answer leaves the baseline posture exactly when it carries a proof, it
\* never does so on a stale memory or for an entry that is not active, and
\* with readable fixtures the validation never turns an answer into an error
\* (apply_reflex_memory, validate_reflex_memory_state).
MemoryOnlyInforms ==
    /\ answer.posture = "error" \/
         /\ answer.proof # {} <=> answer.posture # "baseline_review"
         /\ answer.proof # {} => answer.triggered
         /\ answer.age = "stale" => answer.posture = "baseline_review"
    /\ \A r \in Request : Consistent(Answer(r))
=============================================================================
