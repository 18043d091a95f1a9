-------------------------- MODULE DecisionEvidence --------------------------
(***************************************************************************)
(* What a decision of /v1/context leaves behind: its domain trace and the  *)
(* admission history it is compared with (app.py, _infer_domain_trace,     *)
(* _record_admission_state), its proof (_build_proof_payload) and the      *)
(* registry proofs are retrieved from (_attach_proof_to_payload, GET       *)
(* /v1/proof/{decision_id}).                                               *)
(*                                                                         *)
(* Handlers run in a thread pool: the history is read when the trace is    *)
(* made and written when the decision is recorded.  The registry is        *)
(* guarded by a lock and written as a whole; a failed write is ignored.    *)
(* Which decision is taken is the business of module ContextGovernance.    *)
(***************************************************************************)
EXTENDS Naturals, Sequences, FiniteSets

CONSTANTS
    Server,         \* threads that serve /v1/context
    Owner,          \* owners of API keys
    Asked,          \* what is asked: [increases, asset, domains], domains
                    \* being what the asset, strategy and venue hint at
    Refusal,        \* how the checks refuse: [category, status], DELAY, DENY
                    \* or HALT with temporal_governance, RETRY_DELAYED,
                    \* RETRY_BLOCKED or PRESSURE_ESCALATED with
                    \* loop_integrity, VETO with a malformed call, ...
    HistoryCap,     \* admissions kept per key (10 in the code)
    PriorReach,     \* how many of them count as prior (5)
    MaxDecisions,   \* bound: proofs issued
    MaxLostWrites,  \* bound: failed writes of the registry
    MaxRestarts     \* bound: process restarts

RefusingStatus == {"VETO", "DENY", "DELAY", "HALT", "RETRY_DELAYED",
                   "RETRY_BLOCKED", "PRESSURE_ESCALATED"}

ASSUME EvidenceConstants ==
    /\ \A x \in Refusal : x.status \in RefusingStatus
    /\ PriorReach \in Nat \ {0} /\ HistoryCap \in Nat /\ HistoryCap >= PriorReach
    /\ \A a \in Asked : a.increases \in BOOLEAN

VARIABLES
    server,         \* per thread: the decision it is about to record
    history,        \* DECISION_ADMISSION_STATE, per owner
    registry,       \* PROOF_REGISTRY: [decision id -> proof record]
    saved,          \* the registry's file
    issued,         \* history: [decision id -> [owner, status]] told callers
    unsaved,        \* history: ids told since the file was last written
    lost,           \* history: ids not in the file at a restart
    audit,          \* the last retrieval: was it "found", and "rightful"
    mishaps         \* [writes, restarts] so far

evidenceVars == <<server, history, registry, saved, issued, unsaved,
                  lost, audit, mishaps>>
-----------------------------------------------------------------------------
(* The trace of a decision.                                                *)

\* The first of the domains hinted at, in this order.
DomainOrder == <<"stablecoin", "validator", "governance", "macro", "liquidity">>
Domain(asked) ==
    LET hinted == {i \in DOMAIN DomainOrder : DomainOrder[i] \in asked.domains}
    IN  IF hinted = {} THEN "general"
        ELSE DomainOrder[CHOOSE i \in hinted : \A j \in hinted : i <= j]

Newest(s, n) == SubSeq(s, IF Len(s) > n THEN Len(s) - n + 1 ELSE 1, Len(s))

\* _recent_prior_decisions: recent admissions of more risk in the asset, or
\* in no asset at all.
Priors(owner, asked) ==
    {i \in DOMAIN Newest(history[owner], PriorReach) :
        LET entry == Newest(history[owner], PriorReach)[i]
        IN  /\ asked.increases /\ entry.increases
            /\ entry.asset \in {asked.asset, "ANY"}}

Trace(owner, asked, status) ==
    [category |-> Domain(asked),
     pressure |-> status \in {"CONSTRAIN", "VETO"} /\ Priors(owner, asked) # {}]
-----------------------------------------------------------------------------
(* The proof of a decision.                                                *)

\* Mutant of StatusForProof: a reduced decision is not known and is denied.
StatusWithoutReduce(status) ==
    CASE status \in {"ALLOW", "CONSTRAIN", "DELAY", "HALT"} -> status
      [] status = "RETRY_DELAYED" -> "DELAY"
      [] status = "PRESSURE_ESCALATED" -> "HALT"
      [] OTHER -> "DENY"

\* _decision_status_for_proof
StatusForProof(status) ==
    CASE status \in {"ALLOW", "CONSTRAIN", "DELAY", "HALT"} -> status
      [] status = "REDUCE" -> "CONSTRAIN"
      [] status = "RETRY_DELAYED" -> "DELAY"
      [] status = "PRESSURE_ESCALATED" -> "HALT"
      [] OTHER -> "DENY"

ProcessCategory ==
    {"temporal_governance", "loop_integrity", "halt_release_governance",
     "incomplete_decision_record", "ambiguous_constraint_language",
     "invalid_size_format", "process_integrity_violation"}

\* _classify_proof: a veto in a domain with telemetry counts as one of
\* telemetry, whatever it was decided on.
Classification(category, proven) ==
    CASE category = "billing" -> "billing_enforcement"
      [] \/ category = "telemetry_integrity"
         \/ /\ category \in {DomainOrder[i] : i \in DOMAIN DomainOrder}
            /\ proven \in {"DENY", "DELAY", "HALT"} -> "telemetry_integrity"
      [] category \in ProcessCategory -> "process_integrity"
      [] proven # "ALLOW" /\ category \notin ProcessCategory
            -> "market_system_risk"
      [] OTHER -> "unclassified"

\* _constraint_effect_for_proof
Effect(category, proven) ==
    CASE proven = "CONSTRAIN" -> IF category = "permission_budgeting"
                                 THEN "concentration_limited"
                                 ELSE "exposure_reduction"
      [] proven = "DENY"  -> "entry_blocked"
      [] proven = "DELAY" -> "delayed"
      [] proven = "HALT"  -> "halted"
      [] OTHER -> "none"

\* _intervention_type_for_proof
InterventionType(proven, effect) ==
    CASE proven = "ALLOW" -> "none"
      [] proven # "ALLOW" /\ effect \in {"exposure_reduction", "concentration_limited"}
            -> "reduced"
      [] proven # "ALLOW" /\ effect = "delayed" -> "delayed"
      [] proven # "ALLOW" /\ effect = "halted" -> "halted"
      [] OTHER -> "blocked"

\* _prevented_action_for_proof: the type of what was prevented.
Prevented(category, proven, increases) ==
    CASE category = "billing" -> "billing_unlock"
      [] category \in {"temporal_governance", "loop_integrity",
                       "halt_release_governance"} -> "process_step"
      [] category \notin ProcessCategory \cup {"billing"} /\ proven = "CONSTRAIN"
            -> IF increases THEN "increase" ELSE "concentration"
      [] category \notin {"billing", "temporal_governance", "loop_integrity",
                          "halt_release_governance"}
         /\ proven \in {"DENY", "DELAY", "HALT"} -> "entry"
      [] OTHER -> "none"

\* _build_proof_payload.  The reproducibility hash covers the request's
\* asset and direction and the fields below, but neither its size nor its
\* prevented action, time or id.
Proof(asked, category, status) ==
    LET proven == StatusForProof(status)
        effect == Effect(category, proven)
    IN  [hash |-> [asset |-> asked.asset, increases |-> asked.increases,
                   status |-> proven, effect |-> effect,
                   class |-> Classification(category, proven),
                   intervention |-> InterventionType(proven, effect)],
         prevented |-> Prevented(category, proven, asked.increases)]
-----------------------------------------------------------------------------
(* Decisions, their records and their retrieval.                           *)

Free == [at |-> "free"]

\* What may be decided once the checks have passed: only more risk is vetoed
\* or constrained, anything may be reduced to the budget.
Outcomes(asked) ==
    {"ALLOW", "REDUCE"} \cup (IF asked.increases THEN {"CONSTRAIN", "VETO"} ELSE {})

\* The trace is made from the history as it is now.
Assess(t, owner, asked, status) ==
    /\ server[t] = Free /\ Cardinality(DOMAIN issued) < MaxDecisions
    /\ LET trace == Trace(owner, asked, status)
       IN  server' = [server EXCEPT ![t] =
              [at |-> "record", owner |-> owner, asked |-> asked,
               status |-> status, pressure |-> trace.pressure,
               category |-> IF status = "REDUCE" THEN "permission_budgeting"
                            ELSE trace.category]]
    /\ UNCHANGED <<history, registry, saved, issued, unsaved, lost, audit, mishaps>>

\* _record_admission_state
Record(t) ==
    /\ server[t].at = "record"
    /\ LET d == server[t]
       IN  history' = [history EXCEPT ![d.owner] =
              Newest(Append(@, [increases |-> d.asked.increases,
                                asset |-> d.asked.asset]), HistoryCap)]
    /\ server' = [server EXCEPT ![t].at = "attach"]
    /\ UNCHANGED <<registry, saved, issued, unsaved, lost, audit, mishaps>>

\* A refusal of a check is not recorded as an admission.
Refuse(t, owner, asked, refusal) ==
    /\ server[t] = Free /\ Cardinality(DOMAIN issued) < MaxDecisions
    /\ server' = [server EXCEPT ![t] =
           [at |-> "attach", owner |-> owner, asked |-> asked, pressure |-> FALSE,
            status |-> refusal.status, category |-> refusal.category]]
    /\ UNCHANGED <<history, registry, saved, issued, unsaved, lost, audit, mishaps>>

\* Billing refuses an allowed or constrained decision, recorded already.
Bill(t) ==
    /\ server[t].at = "attach" /\ server[t].status \in {"ALLOW", "CONSTRAIN"}
    /\ server' = [server EXCEPT ![t] =
           [at |-> "attach", owner |-> server[t].owner, asked |-> server[t].asked,
            pressure |-> FALSE, status |-> "DENY", category |-> "billing"]]
    /\ UNCHANGED <<history, registry, saved, issued, unsaved, lost, audit, mishaps>>

Extended(f, id, value) == [i \in DOMAIN f \cup {id} |-> IF i = id THEN value ELSE f[i]]

\* Mutant of Entered: the registry is written before the proof is entered.
EnteredLate(id, record, written) ==
    /\ registry' = Extended(registry, id, record)
    /\ saved' = IF written THEN registry ELSE saved
    /\ unsaved' = IF written THEN {} ELSE unsaved \cup {id}

\* Under PROOF_LOCK; the write is of the whole registry.
Entered(id, record, written) ==
    /\ registry' = Extended(registry, id, record)
    /\ saved' = IF written THEN registry' ELSE saved
    /\ unsaved' = IF written THEN {} ELSE unsaved \cup {id}

Attach(t, written) ==
    LET d == server[t]
        id == Cardinality(DOMAIN issued) + 1
    IN  /\ d.at = "attach" /\ id <= MaxDecisions
        /\ written \/ mishaps.writes < MaxLostWrites
        /\ mishaps' = IF written THEN mishaps
                      ELSE [mishaps EXCEPT !.writes = @ + 1]
        /\ Entered(id, [owner |-> d.owner, pressure |-> d.pressure,
                        proof |-> Proof(d.asked, d.category, d.status)], written)
        /\ issued' = Extended(issued, id, [owner |-> d.owner, status |-> d.status])
        /\ server' = [server EXCEPT ![t] = Free]
        /\ UNCHANGED <<history, lost, audit>>

\* GET /v1/proof/{decision_id}: found by the owner it was issued to.
Retrieve(owner, id) ==
    /\ audit' = [found |-> id \in DOMAIN registry /\ registry[id].owner = owner,
                  rightful |-> issued[id].owner = owner]
    /\ UNCHANGED <<server, history, registry, saved, issued, unsaved, lost, mishaps>>

\* The history is memory only; the registry is read back from its file.
RestartServer ==
    /\ mishaps.restarts < MaxRestarts
    /\ mishaps' = [mishaps EXCEPT !.restarts = @ + 1]
    /\ server' = [t \in Server |-> Free]
    /\ history' = [o \in Owner |-> <<>>]
    /\ registry' = saved
    /\ lost' = lost \cup unsaved /\ unsaved' = {}
    /\ UNCHANGED <<saved, issued, audit>>
-----------------------------------------------------------------------------
EvidenceInit ==
    /\ server = [t \in Server |-> Free]
    /\ history = [o \in Owner |-> <<>>]
    /\ registry = <<>> /\ saved = <<>> /\ issued = <<>>
    /\ unsaved = {} /\ lost = {} /\ audit = [found |-> FALSE, rightful |-> FALSE]
    /\ mishaps = [writes |-> 0, restarts |-> 0]

EvidenceNext ==
    \/ \E t \in Server :
          \/ \E owner \in Owner, asked \in Asked :
                \/ \E status \in Outcomes(asked) : Assess(t, owner, asked, status)
                \/ \E refusal \in Refusal : Refuse(t, owner, asked, refusal)
          \/ Record(t) \/ Bill(t)
          \/ \E written \in BOOLEAN : Attach(t, written)
    \/ \E owner \in Owner, id \in DOMAIN issued : Retrieve(owner, id)
    \/ RestartServer

EvidenceSpec == EvidenceInit /\ [][EvidenceNext]_evidenceVars
-----------------------------------------------------------------------------
\* A proof never tells another story than the answer did: it shows no
\* intervention exactly when the request was allowed, a reduction exactly
\* when it was admitted at less than it asked for, and names a prevented
\* action and a class of risk for everything but an allowed request.  The
\* story passes through four tables (_decision_status_for_proof,
\* _constraint_effect_for_proof, _intervention_type_for_proof,
\* _classify_proof).
ProofTellsOutcome ==
    \A id \in DOMAIN registry :
        LET proof == registry[id].proof
            status == issued[id].status
        IN  /\ proof.hash.intervention = "none" <=> status = "ALLOW"
            /\ proof.hash.intervention = "reduced" <=> status \in {"CONSTRAIN", "REDUCE"}
            /\ proof.prevented = "none" <=> status = "ALLOW"
            /\ proof.hash.class = "unclassified" <=> status = "ALLOW"

\* A decision id that a caller was told of can be retrieved by its owner,
\* and by nobody else, however often the process restarts; only the ids
\* issued after the last write before a restart are lost
\* (_attach_proof_to_payload, _proof_record_for_owner).
IssuedProofsLast ==
    /\ \A id \in DOMAIN issued \ lost :
          /\ id \in DOMAIN registry /\ registry[id].owner = issued[id].owner
          /\ id \in unsaved \/ id \in DOMAIN saved
    /\ audit.found => audit.rightful
=============================================================================
