--------------------------- MODULE RetailDelivery ---------------------------
(***************************************************************************)
(* Payment claim and delivery of the Retail Context Network runtime:       *)
(* the part of handle_paid_resource (retail_context/service.py) that runs  *)
(* after admission, i.e. x402 settlement, claim_or_resume_retail_delivery  *)
(* and deliver_or_redeliver_retail_resource, over the SQLite claim table.  *)
(*                                                                         *)
(* Every store access is one action, because every one is a SQLite         *)
(* transaction of its own (BEGIN IMMEDIATE, control_store.py) and other    *)
(* processes, the operator and crashes interleave between two of them.     *)
(* The admission that precedes these steps is module RetailAdmission.      *)
(***************************************************************************)
EXTENDS Naturals, FiniteSets

CONSTANTS
    Worker,         \* processes serving the retail application
    Request,        \* validated request envelopes (their SHA-256 digests)
    Binding,        \* source-binding digests
    Build,          \* what a process runs: code, configuration, registry
    Tx,             \* settlements: (network, transaction_reference)
    Body,           \* canonical response bodies; SHA-256 is injective on them
    SourceBinding,  \* [Build -> [Request -> Binding]], registry of the build
    Rendering,      \* [Build -> [Uri -> Body or Oversized]], build_resource
    Oversized,      \* a body longer than max_response_bytes
    None            \* SQL NULL, or a job field not set yet

\* A resource URI embeds the request digest and the source binding, so one
\* URI never stands for two requests (request_binding.py, resource_uri).
Uri == Request \X Binding

Refusal == {"payment_replay_conflict", "delivery_reconciliation_required",
            "response_digest_mismatch"}

ASSUME DeliveryAssumption ==
    /\ SourceBinding \in [Build -> [Request -> Binding]]
    /\ Rendering \in [Build -> [Uri -> Body \cup {Oversized}]]
    /\ None \notin Body \cup Tx \cup Uri
    /\ Oversized \notin Body
    /\ IsFiniteSet(Worker)

VARIABLES
    mode,       \* retail_service_state.operating_mode
    claims,     \* rows of retail_payment_consumption
    evidence,   \* payment/delivery rows of retail_operational_telemetry
    settled,    \* <<uri, tx>> the facilitator really settled
    pc,         \* next step of each worker in handle_paid_resource
    job,        \* locals of each worker's current request
    build,      \* build each worker process was started with
    released,   \* history: bodies answered with status 200
    refused,    \* history: refusals that assert something durable
    late        \* history: settlements claimed since the last disable

vars == <<mode, claims, evidence, settled, pc, job, build,
          released, refused, late>>

Mode == {"disabled", "controlled_proof"}
Status == {"pending", "delivered", "failed"}
Row == [uri : Uri, tx : Tx, status : Status, body : Body \cup {None}]
EventType == {"payment_claimed", "delivery_completed", "delivery_failed"}
Event == [type : EventType, uri : Uri, tx : Tx]
Step == {"idle", "settle", "mode", "claim", "resume", "render", "read",
         "mark", "reread", "fail", "markfail", "respond"}
Job == [uri : Uri \cup {None}, tx : Tx \cup {None}, body : Body \cup {None}]
NoJob == [uri |-> None, tx |-> None, body |-> None]
-----------------------------------------------------------------------------
Init ==
    /\ mode = "disabled"
    /\ claims = {} /\ evidence = {} /\ settled = {}
    /\ pc = [w \in Worker |-> "idle"]
    /\ job = [w \in Worker |-> NoJob]
    /\ build \in [Worker -> Build]
    /\ released = {} /\ refused = {} /\ late = {}

\* claim_id is a hash of receipt, network and transaction, and the receipt a
\* hash of the requirement (hence the URI) and the transaction: the pair.
ClaimOf(w) == {c \in claims : c.uri = job[w].uri /\ c.tx = job[w].tx}
ClaimIs(w, s) == \E c \in ClaimOf(w) : c.status = s

Goto(w, step) == pc' = [pc EXCEPT ![w] = step]

\* The worker answers and forgets the request.
Finish(w) == Goto(w, "idle") /\ job' = [job EXCEPT ![w] = NoJob]

Refuse(w, reason) ==
    /\ refused' = refused \cup
                  {[uri |-> job[w].uri, tx |-> job[w].tx, reason |-> reason]}
    /\ Finish(w)

Log(type, w) == evidence' = evidence \cup
    {[type |-> type, uri |-> job[w].uri, tx |-> job[w].tx]}

\* Mutant of Resolve: the UPDATE without "AND status = 'pending'".
ResolveAnyStatus(w, status, body) ==
    claims' = {IF c \in ClaimOf(w)
               THEN [uri |-> c.uri, tx |-> c.tx,
                     status |-> status, body |-> body]
               ELSE c : c \in claims}

\* UPDATE ... SET delivery_status WHERE claim_id = ? AND status = 'pending'
Resolve(w, status, body) ==
    claims' = {IF c \in ClaimOf(w) /\ c.status = "pending"
               THEN [uri |-> c.uri, tx |-> c.tx,
                     status |-> status, body |-> body]
               ELSE c : c \in claims}
-----------------------------------------------------------------------------
\* An admitted POST that carries a decodable payment. The URI is bound to the
\* source registry this process loaded at start.
Receive(w, r) ==
    /\ pc[w] = "idle"
    /\ Goto(w, "settle")
    /\ job' = [job EXCEPT ![w].uri = <<r, SourceBinding[build[w]][r]>>]
    /\ UNCHANGED <<mode, claims, evidence, settled, build, released, refused,
                   late>>

\* process_retail_x402_payment ends in a receipt for tx.
SettlementConfirmed(w, tx) ==
    /\ pc[w] = "settle"
    /\ settled' = settled \cup {<<job[w].uri, tx>>}
    /\ job' = [job EXCEPT ![w].tx = tx]
    /\ Goto(w, "mode")
    /\ UNCHANGED <<mode, claims, evidence, build, released, refused, late>>

\* The facilitator settled, but its answer was lost, malformed or timed out:
\* the code reports payment_settlement_failed.
SettlementReplyLost(w, tx) ==
    /\ pc[w] = "settle"
    /\ settled' = settled \cup {<<job[w].uri, tx>>}
    /\ Finish(w)
    /\ UNCHANGED <<mode, claims, evidence, build, released, refused, late>>

\* Payload mismatch, failed verification, refused or mismatching settlement.
SettlementRefused(w) ==
    /\ pc[w] = "settle"
    /\ Finish(w)
    /\ UNCHANGED <<mode, claims, evidence, settled, build, released, refused,
                   late>>

\* Mutant of CheckMode: the mode is not checked again after settlement.
SkipMode(w) ==
    /\ pc[w] = "mode"
    /\ Goto(w, "claim")
    /\ UNCHANGED <<mode, claims, evidence, settled, job, build, released,
                   refused, late>>

\* The mode is read in a transaction of its own, before the claim's.
CheckMode(w) ==
    /\ pc[w] = "mode"
    /\ IF mode = "controlled_proof"
       THEN Goto(w, "claim") /\ UNCHANGED job
       ELSE Finish(w)
    /\ UNCHANGED <<mode, claims, evidence, settled, build, released, refused,
                   late>>

\* Mutant of ClaimInserted: no UNIQUE constraint on the settlement.
ClaimById(w) ==
    /\ pc[w] = "claim"
    /\ ClaimOf(w) = {}
    /\ claims' = claims \cup {[uri |-> job[w].uri, tx |-> job[w].tx,
                               status |-> "pending", body |-> None]}
    /\ Log("payment_claimed", w)
    /\ late' = IF mode = "disabled" THEN late \cup {job[w].tx} ELSE late
    /\ Goto(w, "render")
    /\ UNCHANGED <<mode, settled, job, build, released, refused>>

\* INSERT succeeds: neither the claim id nor the settlement has a row. Row
\* and payment_claimed event commit together.
ClaimInserted(w) ==
    /\ pc[w] = "claim"
    /\ \A c \in claims : c.tx # job[w].tx
    /\ claims' = claims \cup {[uri |-> job[w].uri, tx |-> job[w].tx,
                               status |-> "pending", body |-> None]}
    /\ Log("payment_claimed", w)
    /\ late' = IF mode = "disabled" THEN late \cup {job[w].tx} ELSE late
    /\ Goto(w, "render")
    /\ UNCHANGED <<mode, settled, job, build, released, refused>>

\* IntegrityError, and the settlement's row equals the record.
ClaimConsumed(w) ==
    /\ pc[w] = "claim"
    /\ ClaimOf(w) # {}
    /\ Goto(w, "resume")
    /\ UNCHANGED <<mode, claims, evidence, settled, job, build, released,
                   refused, late>>

\* IntegrityError, and the settlement was consumed by another resource.
ClaimConflict(w) ==
    /\ pc[w] = "claim"
    /\ ClaimOf(w) = {}
    /\ \E c \in claims : c.tx = job[w].tx
    /\ Refuse(w, "payment_replay_conflict")
    /\ UNCHANGED <<mode, claims, evidence, settled, build, released, late>>

\* Mutant of Resume: only a delivered claim is resumed.
ResumeDelivered(w) ==
    /\ pc[w] = "resume"
    /\ IF ClaimIs(w, "delivered")
       THEN Goto(w, "render") /\ UNCHANGED <<job, refused>>
       ELSE Refuse(w, "delivery_reconciliation_required")
    /\ UNCHANGED <<mode, claims, evidence, settled, build, released, late>>

\* get_payment_claim_by_settlement of an already consumed payment.
Resume(w) ==
    /\ pc[w] = "resume"
    /\ IF ClaimIs(w, "failed")
       THEN Refuse(w, "delivery_reconciliation_required")
       ELSE IF ClaimOf(w) = {}
       THEN Refuse(w, "payment_replay_conflict")
       ELSE Goto(w, "render") /\ UNCHANGED <<job, refused>>
    /\ UNCHANGED <<mode, claims, evidence, settled, build, released, late>>
-----------------------------------------------------------------------------

RenderSucceeds(w) ==
    /\ pc[w] = "render"
    /\ Rendering[build[w]][job[w].uri] # Oversized
    /\ job' = [job EXCEPT ![w].body = Rendering[build[w]][job[w].uri]]
    /\ Goto(w, "read")
    /\ UNCHANGED <<mode, claims, evidence, settled, build, released, refused,
                   late>>

\* build_resource raised, or the body exceeds max_response_bytes.
RenderFails(w) ==
    /\ pc[w] = "render"
    /\ Goto(w, "fail")
    /\ UNCHANGED <<mode, claims, evidence, settled, job, build, released,
                   refused, late>>

\* Only a claim read as pending is marked failed.
ReadForFailure(w) ==
    /\ pc[w] = "fail"
    /\ IF ClaimIs(w, "pending") THEN Goto(w, "markfail") /\ UNCHANGED job
                                ELSE Finish(w)
    /\ UNCHANGED <<mode, claims, evidence, settled, build, released, refused,
                   late>>

\* mark_delivery(failed); a claim that is no longer pending raises ValueError.
MarkFailed(w) ==
    /\ pc[w] = "markfail"
    /\ Resolve(w, "failed", None)
    /\ IF ClaimIs(w, "pending") THEN Log("delivery_failed", w)
                                ELSE UNCHANGED evidence
    /\ Finish(w)
    /\ UNCHANGED <<mode, settled, build, released, refused, late>>

\* Mutant of CompareDigest: the rendering is sent without comparing it.
TrustRendering(w) == Goto(w, "respond") /\ UNCHANGED <<job, refused>>

\* What a durable delivered row lets the worker do with its own rendering.
CompareDigest(w) ==
    IF \E c \in ClaimOf(w) : c.status = "delivered" /\ c.body = job[w].body
    THEN Goto(w, "respond") /\ UNCHANGED <<job, refused>>
    ELSE Refuse(w, "response_digest_mismatch")

\* get_payment_claim after rendering.
ReadClaim(w) ==
    /\ pc[w] = "read"
    /\ IF ClaimOf(w) = {} THEN Refuse(w, "payment_replay_conflict")
       ELSE IF ClaimIs(w, "failed")
       THEN Refuse(w, "delivery_reconciliation_required")
       ELSE IF ClaimIs(w, "delivered") THEN CompareDigest(w)
       ELSE Goto(w, "mark") /\ UNCHANGED <<job, refused>>
    /\ UNCHANGED <<mode, claims, evidence, settled, build, released, late>>

\* Mutants of MarkDelivered: the affected row count is ignored, or checked
\* only after the event is written.
MarkBlindly(w) ==
    /\ pc[w] = "mark"
    /\ Resolve(w, "delivered", job[w].body)
    /\ IF ClaimIs(w, "pending") THEN Log("delivery_completed", w)
                                ELSE UNCHANGED evidence
    /\ Goto(w, "respond")
    /\ UNCHANGED <<mode, settled, job, build, released, refused, late>>
LogThenMark(w) ==
    /\ pc[w] = "mark"
    /\ Resolve(w, "delivered", job[w].body)
    /\ Log("delivery_completed", w)
    /\ Goto(w, IF ClaimIs(w, "pending") THEN "respond" ELSE "reread")
    /\ UNCHANGED <<mode, settled, job, build, released, refused, late>>

\* mark_delivery(delivered); ValueError when the claim is no longer pending.
MarkDelivered(w) ==
    /\ pc[w] = "mark"
    /\ Resolve(w, "delivered", job[w].body)
    /\ IF ClaimIs(w, "pending")
       THEN Log("delivery_completed", w) /\ Goto(w, "respond")
       ELSE UNCHANGED evidence /\ Goto(w, "reread")
    /\ UNCHANGED <<mode, settled, job, build, released, refused, late>>

\* The claim was resolved between the read and the mark.
ReadRaced(w) ==
    /\ pc[w] = "reread"
    /\ IF ClaimIs(w, "delivered") THEN CompareDigest(w)
                                  ELSE Finish(w) /\ UNCHANGED refused
    /\ UNCHANGED <<mode, claims, evidence, settled, build, released, late>>

Respond(w) ==
    /\ pc[w] = "respond"
    /\ released' = released \cup {job[w]}
    /\ Finish(w)
    /\ UNCHANGED <<mode, claims, evidence, settled, build, refused, late>>
-----------------------------------------------------------------------------
StoreStep == {"mode", "claim", "resume", "read", "mark", "reread", "fail",
              "markfail"}

\* The store raised or reported itself unhealthy: the transaction rolled
\* back and the client is told control_store_unavailable.
StoreFails(w) ==
    /\ pc[w] \in StoreStep
    /\ Finish(w)
    /\ UNCHANGED <<mode, claims, evidence, settled, build, released, refused,
                   late>>

\* A process dies, losing its locals and possibly an answer not yet sent,
\* and is started again, maybe with another build.
Crash(w, b) ==
    /\ Finish(w)
    /\ build' = [build EXCEPT ![w] = b]
    /\ UNCHANGED <<mode, claims, evidence, settled, released, refused, late>>

\* retail_control_operator.py set-mode, from a process of its own.
SetMode(m) ==
    /\ mode' = m
    /\ late' = IF m = mode THEN late ELSE {}
    /\ UNCHANGED <<claims, evidence, settled, pc, job, build, released,
                   refused>>

Claim(w) == ClaimInserted(w) \/ ClaimConsumed(w) \/ ClaimConflict(w)
Render(w) == RenderSucceeds(w) \/ RenderFails(w)
Settle(w) == \/ \E tx \in Tx : SettlementConfirmed(w, tx)
             \/ \E tx \in Tx : SettlementReplyLost(w, tx)
             \/ SettlementRefused(w)

\* One request of a worker, in the order of the code.
Serve(w) ==
    \/ \E r \in Request : Receive(w, r)
    \/ Settle(w) \/ CheckMode(w) \/ Claim(w) \/ Resume(w) \/ Render(w)
    \/ ReadForFailure(w) \/ MarkFailed(w)
    \/ ReadClaim(w) \/ MarkDelivered(w) \/ ReadRaced(w) \/ Respond(w)

Next ==
    \/ \E w \in Worker : \/ Serve(w)
                         \/ StoreFails(w)
                         \/ \E b \in Build : Crash(w, b)
    \/ \E m \in Mode : SetMode(m)

Spec == Init /\ [][Next]_vars
-----------------------------------------------------------------------------
\* Every variable keeps to the values the schema and the code allow it.
TypeOK ==
    /\ mode \in Mode
    /\ claims \subseteq Row
    /\ evidence \subseteq Event
    /\ settled \subseteq Uri \X Tx
    /\ pc \in [Worker -> Step]
    /\ job \in [Worker -> Job]
    /\ build \in [Worker -> Build]
    /\ released \subseteq [uri : Uri, tx : Tx, body : Body]
    /\ refused \subseteq [uri : Uri, tx : Tx, reason : Refusal]
    /\ late \subseteq Tx

\* What the position of a worker in the handler implies about its locals:
\* it works for a URI, then for a settlement the facilitator confirmed for
\* that URI, then on a body it rendered.
JobOK ==
    \A w \in Worker :
        /\ pc[w] # "idle" => job[w].uri \in Uri
        /\ pc[w] \notin {"idle", "settle"} =>
               job[w].tx \in Tx /\ <<job[w].uri, job[w].tx>> \in settled
        /\ pc[w] \in {"read", "mark", "reread", "respond"} =>
               job[w].body \in Body

\* What it implies about the claim table, which other workers change: past
\* the claim its claim exists, and a body about to be sent is the durable
\* one. Both must survive every step of every other worker.
ClaimHeld ==
    \A w \in Worker :
        /\ pc[w] \in {"resume", "render", "read", "mark", "reread", "fail",
                      "markfail", "respond"} => ClaimOf(w) # {}
        /\ pc[w] = "respond" => \E c \in ClaimOf(w) :
               c.status = "delivered" /\ c.body = job[w].body

\* No interleaving of workers, crash or redeploy lets one settlement have two
\* claim rows, or a claim for something the facilitator did not settle.
OneSettledClaimPerTx ==
    /\ \A c, d \in claims : c.tx = d.tx => c = d
    /\ \A c \in claims : <<c.uri, c.tx>> \in settled

\* A body ever answered with 200 is the very body of the durable delivered
\* row of its settlement: two processes that race on one claim, or a process
\* redeployed with code that renders otherwise, never hand out a second one.
ReleasedIsDurable ==
    \A r \in released : \E c \in claims :
        /\ c.uri = r.uri /\ c.tx = r.tx
        /\ c.status = "delivered" /\ c.body = r.body

\* What a refusal tells the payer stays true: the settlement was consumed by
\* another resource, failed for good, or was delivered to somebody.
Justified(r) == \E c \in claims :
    /\ c.tx = r.tx
    /\ r.reason = "payment_replay_conflict" => c.uri # r.uri
    /\ r.reason = "delivery_reconciliation_required" =>
           c.uri = r.uri /\ c.status = "failed"
    /\ r.reason = "response_digest_mismatch" =>
           c.uri = r.uri /\ c.status = "delivered"
RefusalsAreReal == \A r \in refused : Justified(r)

\* The telemetry an operator reconciles with tells the same story as the
\* claim rows: each claim has its claimed event, and the one terminal event
\* of its status, even when a failure and a delivery race for it.
EventsOf(type, rows) ==
    {[type |-> type, uri |-> c.uri, tx |-> c.tx] : c \in rows}
WithStatus(s) == {c \in claims : c.status = s}
EvidenceMatchesClaims ==
    evidence = EventsOf("payment_claimed", claims)
               \cup EventsOf("delivery_completed", WithStatus("delivered"))
               \cup EventsOf("delivery_failed", WithStatus("failed"))

\* The kill switch: the mode is not read in the claim's transaction, so a
\* worker past the check may still claim, but once only. While the service
\* stays disabled at most one settlement per worker is consumed.
DisabledDrains ==
    mode = "disabled" =>
        Cardinality(late) + Cardinality({w \in Worker : pc[w] = "claim"})
            <= Cardinality(Worker)

\* A claim is never deleted, rebound or reopened: its row may only go from
\* pending to delivered or failed, and then no step changes it.
ClaimsAdvance ==
    \A c \in claims : \E d \in claims' :
        /\ d.uri = c.uri /\ d.tx = c.tx
        /\ c.status # "pending" => d = c
ClaimsOnlyAdvance == [][ClaimsAdvance]_vars

\* The promise to the payer, seen in the claim table.
RowOf(tx) == CHOOSE c \in claims : c.tx = tx
Claimed(tx) == \E c \in claims : c.tx = tx
Bought == [tx \in Tx |-> IF Claimed(tx) THEN RowOf(tx).uri ELSE None]
Fate == [tx \in Tx |-> IF Claimed(tx) /\ RowOf(tx).status # "pending"
                       THEN RowOf(tx).status ELSE "open"]
Fixed == [tx \in Tx |-> IF Claimed(tx) /\ RowOf(tx).status = "delivered"
                        THEN RowOf(tx).body ELSE None]
HandedOut == {<<r.tx, r.uri, r.body>> : r \in released}
Entitlement == INSTANCE RetailEntitlement WITH
    bought <- Bought, fate <- Fate, fixed <- Fixed, handedOut <- HandedOut

\* Every behaviour of the claim protocol is one the promise allows.
KeepsPromise == Entitlement!Spec
=============================================================================
