------------------------- MODULE ArchitectOperations -------------------------
(***************************************************************************)
(* The Architect data-operations brief (core/architect_data_operations.py):*)
(* evidence - a fixture's records, or the metadata of the proof registry   *)
(* that the policy permits (the Stage A pilot), or none - is normalized,   *)
(* counted into the health of five domains and searched for anomalies, of  *)
(* which some notify the Architect and the others are tracked quietly.     *)
(* The API writes and replaces its files while a brief is made.            *)
(***************************************************************************)
EXTENDS Naturals, FiniteSets

CONSTANTS
    Fixture,        \* record sets an evidence file may hold
    ProofRecord,    \* [id, created, status, effect, attempted, complete] of
                    \* the registry; created = 0: no timestamp
    Observed24h,    \* hours of the observation window
    RepeatThreshold,
    GeneratedAt     \* instants a brief may be generated for

ASSUME ArchitectConstants ==
    /\ Observed24h \in Nat /\ RepeatThreshold \in Nat \ {0} /\ GeneratedAt \subseteq Nat
    /\ \A p \in ProofRecord : p.created \in Nat /\ p.attempted \in BOOLEAN

VARIABLES
    proofFile,      \* the registry file: whether it is there, its proofs
    reflexFile,     \* .reflex_governance_records.jsonl exists
    work,           \* the brief in the making, and then told
    readFrom        \* history: the registry as the brief read it

architectVars == <<proofFile, reflexFile, work, readFrom>>
-----------------------------------------------------------------------------
\* A record is [id, flags, class, live]: the fields that are true of it.
Flagged(R, f) == {r \in R : f \in r.flags}
Count(R, f) == Cardinality(Flagged(R, f))

\* normalize_record: an unproven claim to be live is unknown.
Normalized(R) ==
    {[r EXCEPT !.class = IF @ = "live" /\ ~r.live THEN "unknown" ELSE @] : r \in R}

Drifted(r) == "classification_changed" \in r.flags /\ "change_explained" \notin r.flags
Unproven(r) == "provenance_missing" \in r.flags \/ "provenance_complete" \notin r.flags

\* detect_anomalies: what an anomaly of a type affects.
AnomalyOf ==
    [source_provenance_missing |-> "provenance_missing",
     source_class_conflict |-> "provenance_conflicting",
     stale_source |-> "stale",
     governance_epoch_mismatch |-> "epoch_mismatch",
     proof_verification_failure |-> "proof_failed",
     replay_failure |-> "replay_failed",
     canonical_signature_mismatch |-> "signature_mismatch",
     chronology_link_failure |-> "link_failed",
     authority_effect_invalid |-> "authority_invalid",
     execution_boundary_violation |-> "execution_attempted",
     unexpected_source_field |-> "unexpected_field",
     unexplained_classification_drift |-> "classification_changed"]
AnomalyType == DOMAIN AnomalyOf

Affected(type, R) ==
    CASE type = "source_provenance_missing" -> {r \in R : Unproven(r)}
      [] type = "unexplained_classification_drift" -> {r \in R : Drifted(r)}
      [] OTHER -> Flagged(R, AnomalyOf[type])

Critical == {"authority_effect_invalid", "execution_boundary_violation"}
Material == {"chronology_link_failure", "canonical_signature_mismatch"}
Severity(type) ==
    IF type \in Critical THEN "critical" ELSE IF type \in Material THEN "material"
    ELSE IF type = "unexpected_source_field" THEN "informational" ELSE "watch"

\* apply_notification_rules
ImmediateNotification == Critical \cup {"chronology_link_failure"}
RepeatedNotification ==
    {"unexplained_classification_drift", "proof_verification_failure", "replay_failure",
     "canonical_signature_mismatch", "chronology_link_failure", "source_provenance_missing"}
Notifies(type, occurrences) ==
    \/ Severity(type) = "critical" \/ type \in ImmediateNotification
    \/ type \in RepeatedNotification /\ occurrences >= RepeatThreshold

Anomalies(R) ==
    {[type |-> type, affected |-> {r.id : r \in Affected(type, R)},
      severity |-> Severity(type),
      notification |-> Notifies(type, Cardinality(Affected(type, R)))] :
        type \in {t \in AnomalyType : Affected(t, R) # {}}}
-----------------------------------------------------------------------------
\* compute_*_health: what each domain counts, as total and as failures (a
\* record may fail more than once), and whether it was observed at all.
HealthDomain == {"service", "intake", "context", "proof", "chronology", "boundary"}

Total(domain, R) ==
    CASE domain = "service" -> Count(R, "request")
      [] domain = "proof" -> Count(R, "proof_created") + Count(R, "replay_attempted")
      [] OTHER -> Cardinality(R)

\* Mutant of BoundaryFailures: attempts by Nova to execute do not count.
AuthorityFailures(R) == Count(R, "authority_invalid") + Count(R, "approval_language")
BoundaryFailures(R) ==
    Count(R, "authority_invalid") + Count(R, "execution_attempted")
        + Count(R, "approval_language")

Failures(domain, R) ==
    CASE domain = "service" ->
            Cardinality({r \in Flagged(R, "request") :
                            r.flags \cap {"validation_failed", "internal_error"} # {}})
      [] domain = "intake" ->
            Count(R, "provenance_conflicting")
            + Cardinality({r \in Flagged(R, "provenance_missing") :
                  r.flags \cap {"provenance_conflicting", "provenance_complete"} = {}})
            + Count(R, "invalid_input") + Count(R, "stale")
      [] domain = "context" ->
            Count(R, "classification_failed") + Cardinality({r \in R : Drifted(r)})
            + Count(R, "epoch_mismatch")
      [] domain = "proof" ->
            Cardinality(Flagged(R, "proof_created") \cap Flagged(R, "proof_failed"))
            + Cardinality(Flagged(R, "replay_attempted") \cap Flagged(R, "replay_failed"))
            + Count(R, "signature_mismatch") + Count(R, "output_variance")
      [] domain = "chronology" ->
            Count(R, "link_failed") + Count(R, "interruption") + Count(R, "archive_dependency")
      [] domain = "boundary" -> BoundaryFailures(R)

SeenBy(domain, R) ==
    CASE domain = "service" -> Flagged(R, "request") # {}
      [] domain = "context" ->
            \E r \in R : r.flags \cap {"context_created", "classification_completed",
                   "classification_failed", "classification_changed",
                   "constraint_context_created"} # {}
      [] domain = "chronology" ->
            \E r \in R : r.flags \cap {"link_verified", "link_failed", "epoch_linked",
                   "interruption", "archive_dependency"} # {}
      [] OTHER -> R # {}

\* health_status
Health(domain, R) ==
    LET total == Total(domain, R)
        failures == Failures(domain, R)
    IN  IF ~SeenBy(domain, R) \/ total = 0 THEN "unknown"
        ELSE IF failures = 0 THEN "healthy"
        ELSE IF failures < total THEN "degraded" ELSE "unavailable"
-----------------------------------------------------------------------------
\* event_in_window, the window ending when the brief is generated
InObservation(p, now) == p.created # 0 /\ p.created <= now /\ now <= p.created + Observed24h

\* apply_field_allowlist, proof_metadata_to_observation: of a proof record the
\* permitted fields alone are observed.  Whether Nova attempted an execution
\* is not one of them; the field for an unexpected note always is dropped.
Observation(p) ==
    [id |-> p.id, class |-> "unknown", live |-> FALSE,
     flags |-> {"proof_created", "unexpected_field"}
        \cup (IF p.status = "passed" THEN {"proof_passed"} ELSE {})
        \cup (IF p.status = "failed" THEN {"proof_failed"} ELSE {})
        \cup (IF p.complete THEN {"provenance_complete"} ELSE {"provenance_missing"})
        \cup (IF p.effect = "none" THEN {} ELSE {"authority_invalid"})]

PilotRecords(now) ==
    {Observation(p) : p \in {q \in proofFile.proofs : InObservation(q, now)}}

\* discover_runtime_evidence_sources, merge_evidence_sources: a source with
\* ingested records stays as it was read, another is as it is found now.
SourcesFound(ingested) ==
    [proof_registry |-> [available |-> proofFile.present \/ ingested > 0,
                         count |-> ingested],
     reflex_governance_records |-> [available |-> reflexFile, count |-> 0]]

ObservationStatus(sources) ==
    IF \E s \in DOMAIN sources : sources[s].count > 0 THEN "partial_records_ingested"
    ELSE "sources_discovered_no_records_ingested"  \* the repository itself is one
-----------------------------------------------------------------------------
NoWork == [at |-> "none"]

\* load_bounded_evidence or build_bounded_runtime_evidence
LoadFixture(records, now) ==
    /\ work.at = "none"
    /\ work' = [at |-> "loaded", mode |-> "offline_fixture", records |-> records, now |-> now]
    /\ readFrom' = {} /\ UNCHANGED <<proofFile, reflexFile>>

\* build_proof_registry_pilot_evidence, the policy being valid
LoadRegistry(now) ==
    /\ work.at = "none"
    /\ work' = [at |-> "loaded", mode |-> "pilot_proof_registry",
                records |-> PilotRecords(now), now |-> now]
    /\ readFrom' = proofFile.proofs
    /\ UNCHANGED <<proofFile, reflexFile>>

\* generate_canonical_snapshot
Snapshot ==
    LET R == Normalized(work.records)
        ingested == IF work.mode = "pilot_proof_registry" THEN Cardinality(R) ELSE 0
        sources == SourcesFound(ingested)
        found == Anomalies(R)
    IN  /\ work.at = "loaded"
        /\ work' = [at |-> "told", mode |-> work.mode, now |-> work.now, records |-> R,
                    sources |-> sources, status |-> ObservationStatus(sources),
                    health |-> [d \in HealthDomain |-> Health(d, R)],
                    anomalies |-> found,
                    missing |-> {s \in DOMAIN sources : ~sources[s].available},
                    quiet |-> {a.type : a \in {b \in found : ~b.notification}},
                    action |-> {a.type : a \in {b \in found : b.notification}}]
        /\ UNCHANGED <<proofFile, reflexFile, readFrom>>

Finish == work.at # "none" /\ work' = NoWork /\ UNCHANGED <<proofFile, reflexFile, readFrom>>

\* The API stores proofs and records, its operator removes the files.
FilesChange(file, reflex) ==
    /\ proofFile' = file /\ reflexFile' = reflex
    /\ UNCHANGED <<work, readFrom>>

ArchitectInit ==
    /\ proofFile = [present |-> FALSE, proofs |-> {}] /\ reflexFile = FALSE /\ work = NoWork /\ readFrom = {}

ArchitectNext ==
    \/ \E now \in GeneratedAt :
          LoadRegistry(now) \/ \E records \in Fixture \cup {{}} : LoadFixture(records, now)
    \/ Snapshot \/ Finish
    \/ \E reflex \in BOOLEAN :
          \/ FilesChange([present |-> FALSE, proofs |-> {}], reflex)
          \/ \E P \in SUBSET ProofRecord : FilesChange([present |-> TRUE, proofs |-> P], reflex)

ArchitectSpec == ArchitectInit /\ [][ArchitectNext]_architectVars
-----------------------------------------------------------------------------
\* The domain whose health should show an anomaly that is notified at once.
ShownBy ==
    [authority_effect_invalid |-> "boundary", execution_boundary_violation |-> "boundary",
     chronology_link_failure |-> "chronology"]

\* A brief is honest, however the files change under it: no domain is called
\* healthy beside an anomaly in it that notifies the Architect at once; every
\* anomaly found is either notified or tracked; and the pilot reports exactly
\* the proofs of the registry it read that were in its window, with all their
\* failures (generate_canonical_snapshot, compute_*_health, detect_anomalies).
BriefIsHonest ==
    work.at = "told" =>
        /\ \A a \in work.anomalies :
              /\ a.notification /\ a.type \in DOMAIN ShownBy =>
                    work.health[ShownBy[a.type]] \in {"degraded", "unavailable"}
              /\ (a.type \in work.action) # (a.type \in work.quiet)
        /\ work.mode = "pilot_proof_registry" =>
              LET due == {p \in readFrom : InObservation(p, work.now)}
                  failed == {p \in due : p.status = "failed"}
              IN  /\ work.sources.proof_registry.count = Cardinality(due)
                  /\ failed = {} \/ \E a \in work.anomalies :
                        /\ a.type = "proof_verification_failure"
                        /\ a.affected = {p.id : p \in failed}
                  /\ work.health["proof"] = "healthy" => failed = {} /\ due # {}
=============================================================================
