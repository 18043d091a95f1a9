# Verification of the Sharpe Nova OS runtime

TLA+ models of the parts of this repository that keep state and are shared by
processes or threads, TLC configurations that check them on small instances,
and TLAPS proofs of what matters most for every value of the constants.

    tlc -workers 2 -config RetailDelivery_race.cfg MCRetailDelivery
    tlapm RetailDeliveryProofs.tla

## The system

The repository holds two services and a large body of governance documents
with offline validators.

* The **Retail Context Network** (`retail_context/`) sells two context
  resources over HTTP with x402 payments. A SQLite file holds the service
  mode, rate limits, request rows, guards, payment claims and telemetry. One
  uvicorn process serves it; during a redeploy two overlap, the operator's
  script is a process of its own, and the tests drive the store from several
  threads.
* The **context API** (`app.py`, `core/`) answers `GET /v1/context` and its
  companions. Handlers are plain functions run in a thread pool; their state is
  in module-level dictionaries, some saved to JSON files, under several
  separate locks or under none.

| Component | State | Operations | What is hard | What makes it correct |
|---|---|---|---|---|
| Retail payment claim and delivery (`service.py`, `runtime_delivery.py`, `x402_payment.py`, `control_store.py`) | claim rows, telemetry rows, service mode | settle, check mode, claim or resume, render, mark delivered or failed, answer | two processes on one settlement, crash between settlement, claim and answer, lost facilitator answers, a redeploy that renders differently | a settlement buys one resource once, with one body for ever; refusals are true; nothing settled is lost |
| Retail runtime admission (`service.py`, `production_controls.py`, `runtime_guard.py`, `control_store.py`) | request rows, guards, rate-limit windows, service mode | look up, reconcile, repair a guard, use continuation or retry, take a token, record, guard | six transactions per attempt, crash between row and guard, two source registries, window boundaries | limits and allowances hold, the tables agree, decisions are not taken back |
| Context accounting (`app.py`, `core/usage_meter.py`, `core/billing_state.py`) | usage counters and file, meter, billing state, prepaid ledger, permission budget | check quota, track, meter, synchronise, spend budget, compare, debit | check and use under different locks, one `.tmp` file for all threads, swallowed write errors, restarts | overruns are bounded, the books add up, nobody is overbilled |
| API keys and entitlements (`app.py` 184-330, 975-1100) | registry put together per call, rate-limit windows | look up, check path, tier, limit; look up again for the answer | keys.json edited during a call, threads in one window | a key opens what it may and a refusal of an entitled key is proven |
| Stripe key lifecycle (`app.py` 4405-4702, `key_manager.py`) | processed events and their file, `keys.json` | webhook events, keys made by hand | marked processed before handled, events lost, repeated, out of order | an event acts once; a key follows its own customer's events |
| Queue governance (`app.py` 1789-1898) | per-key queue | prune, assign, enqueue, place | threads on one list without a lock | a serial call is told its rank |
| Temporal and loop governance (1899-1975, 2284-2620) | time stamps, families, denials per key | cooldown, spacing, similarity, retry and pressure counts | windows, interplay of three cooldowns | calls are paced; no retry forces an ALLOW |
| Halt, release, system state (2621-3080, 3780-3900, 4746-4770) | exception events, posture, release | signals, halt, staged release | orders of calls, endpoints beside `/v1/context` | a halt ends only by a completed release, which is reviewed |
| Admission state and decisions (3096-3256, 4113-4338) | admissions per key | guardrail, status, trace | read and write around a decision | trace and admission agree |
| Decision proofs (1241-1597) | proof registry and file | build, attach, retrieve | swallowed write errors, four tables of statuses | a proof tells the outcome and lasts |
| x402 feed gateway (`app.py` 4780-4990, `core/x402_*`, `feed_metering.py`) | feed usage and file, payments | verify, settle, meter, serve | lost settle answers, failed metering, turn of the month | nothing delivered unmetered or unpaid |
| Reflex memory (`core/reflex_memory`, `app.py` 1600-1790) | key configuration, fixtures | activate, age, answer | files read anew after state changed | memory informs and never decides |
| Reflex governance runtime (`core/reflex_governance_runtime`) | records, signals, escalations and files | observe, detect, escalate, resolve | threads without a lock on one dictionary and one `.tmp` file, torn lines, failed writes, stops between any two steps | what the file holds is lost by no stop while operations neither overlap nor fail; overlapping ones may lose it |
| Environmental telemetry and state engine | bounded deque of records | condense, capture, score, label | two tables kept apart, thresholds | a heavier answer never calms the feed |
| Accepted-state synchronization | refs, registries, mirror, marker of the transfer, checkpoint | resolve, brief, refresh, acknowledge | refs and marker change between the reads | accepted means on main; what is acknowledged on the strength of briefs was reported by one |
| Architect data operations | proof registry, evidence files | read, normalise, health, anomalies, tracking | files replaced during a brief | a brief is honest |
| State Ping and Context Delta (`retail_context/state_ping.py`, `context_delta.py`, `sources.py`) | published observations, source registry | ping, delta | disagreement of sources, registry changes | disagreement is shown |
| Retail telemetry and incidents, retail configuration, chronology, review harnesses, validators, demos | files, environment | offline runs, parsing | little | see "Not modelled" |

Interactions: a retail POST passes admission and then delivery, both over the
one SQLite file and the mode row the operator's script writes. A context call
runs entitlement, metering, queue, temporal, loop, telemetry, halt, validation
and exception layers, decision, permission budget, billing, proof, in this
order; any layer may answer instead, and what was counted before stays counted.

## Modules

| Module | Models | Kind |
|---|---|---|
| `RetailEntitlement` | the promise to the payer: buy, deliver or fail, hand out | abstract specification |
| `RetailDelivery` | `handle_paid_resource` after admission | component, implements `RetailEntitlement` |
| `RetailDeliveryLive` | `RetailDelivery` with an outage that ends | liveness |
| `RetailAdmission` | `_ensure_runtime_admission` | component |
| `RetailService` | `handle_paid_resource` as a whole | composition of `RetailAdmission` and `RetailDelivery` |
| `RetailContext` | State Ping and Context Delta | component |
| `ContextAccounting` | all counters of one API key, by several threads | component |
| `ContextGovernance` | the decision pipeline of `/v1/context` for one key, layer by layer | component |
| `DecisionQueue` | the candidate queue of one key, by several threads | component |
| `DecisionEvidence` | trace, admission history, proof, registry, retrieval | component |
| `KeyLifecycle` | Stripe's webhook and `keys.json` | component |
| `KeyEntitlement` | registry, entitlement and rate limit of a key | component |
| `FeedGateway` | the metered, paid feed | component |
| `ReflexMemory` | remembered stress in an answer | component |
| `ReflexGovernance` | records, patterns and escalations | component |
| `EnvironmentTelemetry` | records of answers, scores and labels of the feed | component |
| `AcceptedState` | canonical registry, daily brief, checkpoint | component |
| `ArchitectOperations` | the Architect's brief | component |
| `*Proofs` | eight modules, two of them for several components | proofs |
| `MC*` | constant definitions for TLC; `MCServices` holds eleven components as scenes of one run | small instances |

`ContextAccounting` and `ContextGovernance` are two views of one handler. The
first keeps its threads and abstracts the layers to a possible `Stop`; the
second keeps every layer and its state and takes a call as one step. The proof,
the queue and the telemetry of a call feed nothing back into its decision and
are modules of their own with their own interleavings.

`PROJECT.json` maps every definition to its lines. A definition named in a
comment "Mutant of X" is X changed as a plausible bug would change it.

### RetailDelivery

Every store access is one action because every one is a transaction of its own
(`BEGIN IMMEDIATE`, control_store.py:102). `pc` is the position in the handler
and `job` its locals (URI, settlement, rendered body). `claims` and `evidence`
are tables; `settled` is what the facilitator really did; `released`, `refused`
and `late` are history. A URI is a pair of request digest and source-binding
digest, so a redeploy with another registry gives another URI. Hashes are
modelled as injective: the claim id stands for (URI, settlement), a digest for
the body. A settlement belongs to one payer, so the payer is not a field.

A crash loses `pc` and `job` of a process and may start another build. An error
of the store rolls its transaction back and ends the request (`StoreFails`).
Telemetry errors after the commit are swallowed (control_store.py:577-593) and
leave no trace in the model.

The handler has one `await` (the request body); after it a process serves one
request at a time. A worker of the model is therefore a process, and several
of them are the redeploy and the multi-process use of the store.

### RetailAdmission

One action per transaction again. `tokens` are the rate-limit windows,
`requests` and `guards` the two tables, `clock` the host's; `at` is the
`observed_at` a request carries from its start. `fresh`, `exempt`, `retried` and
`seen` are history: which attempts were passed, and on what ground. A guard
keeps the count of one window only, as the table does.

### RetailService

The two halves of `handle_paid_resource` in one system: `Admission` and
`Delivery` are instances of their modules that share the operating mode and the
build of a process, with a `pc` and a job each (`step`, `attempt` are the
admission's). After the request body nothing is awaited, so a process has one
request at hand (`Free`), and an attempt that passes admission with a payment
enters the facilitator call in the same step (`Pay`). An attempt that passes
with no payment, or with one that cannot be decoded, ends in a challenge
(`Admit`). A crash ends both halves, a change of mode is seen by both. `charged`
is history: settlements since the service was last disabled.

### ContextAccounting

An action is what no other thread can cut in two: a block under one lock, or
byte code without a call in it (`record["total_calls"] += 1`). The balance
comparison and its debit are two actions, so are the read and the write of the
permission budget, the dump and the rename of the usage file, the read of the
meter and the synchronisation of the account. A save may fail (errors are
swallowed) and then leaves the old file; the usage file is dumped to one `.tmp`
file by all threads without a lock, and a thread in `sharing` may leave it
unreadable, which loads as no usage. `Restart` loads the files and forgets the
permission budget.

Billing enforcement is on, as production requires; counters are in files (no
Redis); the model is one key, one budget class and one UTC day. The governance
layers appear as `Stop`, a vetoed decision as `Veto`. Amounts are cents, so
rounding to two digits and the comparison tolerance of 1e-9 are exact. The rate
limit of a key is a possible refusal here and exact in `KeyEntitlement`. `POST
/v1/usage/reset` (admin) and `_credit_balance` (no caller in the repository)
are left out. So is the cut of `transaction_history` at 250 entries (app.py:562):
`LedgerAddsUp` is about debits that are all still in it.

### ContextGovernance

One action per way a call can end, in the order of `get_context`:
`TemporalRefusal`, `LoopRefusal`, `TelemetryRefusal`, the three answers of halt
release, `RejectMalformed`, `RejectProcess`, `Veto`, `BudgetRefusal`,
`Unfunded`, `Admit`. A guard says which layers let the call through, and every
registry a layer writes before a later one refuses is in the action. `Tick`
lets time pass, `Restart` empties the dictionaries, `ReadRegime` is `GET
/v1/regime`, which overwrites the system state. `_build_structured_response`
and `_apply_system_state` are `Structured` and `PostureAfter`; similarity of
two calls is computed from their fields in thousandths.

### KeyLifecycle, KeyEntitlement

A webhook event is `Mark` (in memory and on file), the handling by kind
(`Renew`, `Create`, `Suspend`, `Deactivate`, `Update`, `Ignore`, or a failure)
and `Acknowledge`, with a possible stop before each; `acked` and `broken` are
what Stripe knows and what was lost. `KeyEntitlement` splits a call where
another thread can run: registry, clock, window, count, and the second look-up
when the answer is built; `EditStore` is anyone writing `keys.json` meanwhile.

### DecisionQueue, DecisionEvidence

The queue's actions are the reads and the writes of the shared list
(`Prune`, `Assign`, `Enqueue`, `Place`). `DecisionEvidence` makes the trace
from the history (`Assess`), records the admission (`Record`), and enters the
proof under its lock with a write that may fail (`Attach`); the four tables a
status passes through are operators.

### FeedGateway, EnvironmentTelemetry

A request reads its time before the meter's lock, verifies, settles, meters and
serves; settle answers may be lost, writes may fail, the process may stop.
`EnvironmentTelemetry` keeps the deque and computes every score with the code's
weights and rounding.

### ReflexMemory, ReflexGovernance

The memory is configuration, fixtures and a regime; `Answer` is
`apply_reflex_memory` with its validation. The replay artifact, which only an
example script builds, is left out.

The runtime's patterns are operators on the records of a window. An observation
is what a pool thread does without a lock: `Note` (the record, in memory),
`AppendLine` (its line), `Detect`, then `Look` and `Enter` for each pattern of
three occurrences, `Dump` (the `.tmp` file all threads share) and `Rename`, or
`FailWrite`, whose error is ignored. A thread in `sharing` may put its own text,
another's or an unreadable one in place. `Resolve` and `Watch` change the
dictionary and then dump it; in the repository only tests call them, so an
operator is one more thread. The two assignments of a resolution are one step,
and so is the text of one `.tmp` file. `StopWatching` may happen between any two
steps, and tears a line that is being appended. The first process finds what
`Found` says, in the instance nothing escalated yet or two escalations. The
signals and their file are left out: no pattern and no escalation reads them.
`alone` and `settled` are history: who works undisturbed, and whether the last
to start did.

### AcceptedState, ArchitectOperations, RetailContext

Each read of a brief is a step, with git, the mirror's writers or the API
running between them. The daily brief is `BeginBrief` (the marker of the
transfer), `ReadRef` (the marker once more, then the ref), `ReadText`,
`ReadEntry`, `ReadAction` (the marker a third time, then the ref again) and
`ReportBrief`. The marker is a file of the working tree, which `RecordsChange`
may bring and take away at any time; `moved` says that it did during a brief.
`EndRun` advances the checkpoint, if the run succeeded; `StopRun` breaks off
before. Nothing in the repository but tests calls
`advance_accepted_state_checkpoint`, which asks only that the run succeeded, that
main was verified and that the registry it is handed passes the schema; the
model hands it the brief's registry, the checkout's or the mirror's, with any
ids, and the history `blind` says whether an advance ever followed a brief that
did not allow claims, or used another registry than its own.

`RetailContext` renders pings from what sources publish and deltas from two
pings; ids are the things they are digests of. The id of an item of evidence is
`EvidenceOf` its claim, without the status; two claims with one id make the
delta refuse the ping.

## Runs

| Run | Instance | What it shows |
|---|---|---|
| `retail_claim_race` | 2 processes, 2 requests, 1 settlement, 2 builds that render differently, one of them too much | single use, one durable body, true refusals, telemetry equal to the rows, monotone claims, refinement of `RetailEntitlement` |
| `retail_service` | admission and delivery together: 2 processes, 1 request, 2 bindings, 2 builds with different registries, 1 settlement, limits of 1, 1 tick | nothing is charged that was not admitted, under one binding for ever; a disabled service settles or claims at most once more per process |
| `retail_live` | 2 processes, 2 requests, 1 settlement, an outage | a settled payment ends in a delivered or failed claim |
| `admission_race` | 2 processes, 1 request, 2 registries, 3 windows of one tick each, limits of 1 | continuation once, tables agree, the rate limit holds, retries per window stay bounded, nothing is taken back |
| `context_race` | 2 threads, quota 1, free 1, funds 3 at cost 2, failing saves, 1 restart | bounds on overruns, books, no overbilling |
| `context_single` | 1 thread, quota 4, no failures, 1 restart | budget, balance and account exactly as documented |
| `context_overdraft` | 2 threads, quota 3 | finding: the balance is overdrawn |
| `context_budget` | 2 threads, sizes 1 and 2, limit 2 | finding: the daily budget is exceeded |
| `governance` | 8 kinds of call, 6 key configurations, 4 calls in 4 ticks | pacing, no retry to an ALLOW, halts end only by release, releases are reviewed |
| `halt_exit` | release layer alone, 5 calls | finding: `GET /v1/regime` ends a halt |
| `halt_clean_cycle` | release layer alone, 5 calls | finding: a clean control cycle does not clear a halt recommendation |
| `services` | eleven scenes, one component each | one or two properties per component, see below |

`services` explores one component after the other: a behaviour picks its scene,
and the components share no variable, so the state spaces add and do not
multiply. Its properties: `EventsHandledOnce` and `KeyFollowsItsEvents` (five
events of two customers, one crash, one failure, one key made by hand),
`RateOverrunBounded` and `GateHolds` (two threads, limit 1 per 2 seconds, one
edit), `SerialCallsRanked` (two threads, three calls, cap 1),
`ProofTellsOutcome` and `IssuedProofsLast` (two owners, two decisions, one
failed write, one restart), `EscalationsKept` (two threads, two records
beside what is found at the start, one act, one stop, one failed write, windows
of one and three days), `DeliveriesMeteredAndPaid` (two threads, a holder and
a payer, two requests across a month, one fault), `AcceptedOnMainAndSeen` (one
merge, one of marker, event and record, refs and files moving under one brief), `BriefIsHonest` (two fixtures,
five proofs), `DisagreementShown` (four publications of two sources, two
registries), `MemoryOnlyInforms` (three regimes, settings and shelves),
`HeavierNeverCalms` (five answers, a window of three).

Why the bounds are enough. The races are between two actors about one row or
counter; a third process adds no new pair of steps. Two renderings, two
bindings and two settlements are the fewest that can differ. Funds of 3 at a
cost of 2 leave a remainder, so the clamp at zero is exercised, and a quota of
1 with two threads reaches the overrun exactly; calls of `context_race` carry
no size, since the permission budget is the subject of the other runs. In
`governance` the limit of two passes in a window of two seconds is reached by
the third call, and three exception events need two calls, after which the
release and the call after it fit; every configuration is a state of its own.
In `services` every cap (queue, history, deque, window, records) is at most the
number of calls, so that it is reached. `DecisionEvidence` has one thread
there, which leaves the order of records and proofs to the proof, valid for any
number. Bounded are the clock (`MaxTime`, `MaxClock`, `LastSecond`,
`MaxInstant`), calls, faults and restarts (`Max...`) and, through the quota,
the calls of a thread; the counters themselves are not capped. The states of
the retail models are finite without a bound. Threads of `context_*` are
symmetric (`Permutations`), so are the processes of `retail_service` and
`admission_race`, whose builds are free; no run with a liveness property uses
symmetry.

`RetriesBounded` is below `RetryLimit + 1` per process in a window. The guard has
one window slot: a process that is late by a window sets it back to its own and
so grants the allowance of that window again. For one process, the documented
deployment, the bound is the allowance itself. It is attained: with a limit of
1, two processes pass three retries of one window. The documents promise a
single node only, so this is a limit of the design and no finding.

Deadlock is checked in the retail and accounting runs, where each system can
always take a request. It is not in `governance`, `halt_exit`, `halt_clean_cycle` and
`services`, which stop when their calls, events and clock are used up.

Every property of a passing run has a mutant in `PROJECT.json`: a definition
changed as a plausible bug would change it, kept beside the original, under
which TLC finds the property violated.

## Fairness

Only `RetailDeliveryLive` assumes any. Until the outage ends everything may
fail for ever. Afterwards:

* weak fairness of `Advance(w)`: a handler is straight-line code whose store
  transactions are bounded by the busy timeout and whose facilitator call is
  bounded by its own timeout, so it does not stay at a step;
* strong fairness of `Retry(r)`: the payer repeats its request; a worker is free
  again and again but not continuously;
* strong fairness of `Resettle(u, tx)`: the facilitator, asked again about a
  payment it has settled, answers infinitely often with that settlement.

The last two are assumptions about the environment, without which the code can
deliver nothing. Rendering may fail even then; the claim is then failed, which
is an end too. The operator may not disable the service again.

## Proofs

Eight modules prove theorems for every value of the constants: any sets of
processes, threads, requests, bindings, builds, events, keys, configurations
and refusals, and any limits, costs, windows and numbers of restarts. They rest
on the named assumptions of the modules, which TLC evaluates in the runs; what
they require beyond types is listed at the end of this section.

**RetailDeliveryProofs.** `TypeOK` is not inductive: that a claim is well typed
depends on what its worker knows. The invariant `Inv` adds `JobOK` (what a
position in the handler implies about the locals: a URI, then a settlement
confirmed for that URI, then a body) and `ClaimHeld` (past the claim, the
worker's claim exists; about to answer, it is delivered with the body in hand,
a fact that survives every step of every other worker because `ClaimsAdvance`).
`AdvanceStep` proves that no step deletes, rebinds or reopens a row; from it
follow the stability of refusals, released bodies and `ClaimHeld`. Single use
is used in turn by `ResolveOne`: an UPDATE touches one row. Theorems:
`Invariance`, `TypeCorrect`, `SingleUse`, `Durability`, `HonestRefusals`,
`FaithfulEvidence`, `Monotonicity`. `Refinement` maps the claim table to
`RetailEntitlement`: inserting a row is `Buy`, marking it `Deliver` or `Fail`,
answering `HandOut`, everything else a stutter.

**ContextAccountingProofs.** The bounds are not inductive: a thread past a
comparison will still count or debit. The invariants count those threads.

* `QuotaInv`: `total` plus the threads at `track` is below quota plus number of
  threads; so is every value in the usage file or on its way there.
* `MeterInv`: the meter, its file and every count a thread carries to the
  account are at most the calls metered.
* `LedgerInv`: the balance adds up, in memory and on disk, and debits plus
  threads at `debit`, times the cost, stay below funds plus one cost per thread.
  `Room` is its heart: a balance that covers one decision means that the debits
  so far, and one more, are within the funds, whatever other threads hold.

The lemmas `Enter`, `Leave` and `Elsewhere` say how the number of threads at a
step changes; they rest on the library's theorems about finite sets.

* With one thread the books are exact. `OverInv`, `BudgetInv` and `DueInv` say
  what the one thread's position implies about balance, grants and account;
  `NobodyOverdraws`, `BudgetKept` and `MeteredIsBilled` assume `Caller = {p}`, the
  last also that no write fails. The runs with two threads refute the first two.

`Draining` (`RetailDeliveryProofs`) counts: `AtClaim` is the set of workers past
the gate with a settlement in hand, `DrainInv` bounds the claims made while
disabled by what left that set. It needs `Worker` finite. No run checks
`DisabledDrains` on its own; the stronger `DisabledStops` of `RetailService` is.

**RetailAdmissionProofs.** `RowInv` adds to the types what the tables hold when
a worker is at a step (`PlaceOK`: past the look-up there is a request row with
the worker's binding, at a retry there is a guard) and that a continuation that
was given is in the guard (`ExemptOK`). From it `OneContinuation`,
`GuardsMatch` and `NothingIsTakenBack`. `LimitInv` counts the workers between
token and pass (`InFlight`), so that passed attempts and those in flight are
within the tokens: `LimitHolds`. `RetryInv` relates the retries of every window
to the guard's one slot, to the workers that still lag behind the window
(`Behind`), each of which may set the slot back once before it is over, and to
those still at work in it (`Within`), each of which may pass once more when it
is past: `RetriesStayBounded`. It needs `Worker` finite and not empty.

**RetailServiceProofs.** The composition implements both parts:
`AdmissionWithin` and `DeliveryWithin` show that every step of `RetailService`
is a step or a stutter of either. With them the invariants of the two proof
modules hold of the composition and need no second proof: the modules are
instanced, and their theorems used, under the same substitutions. What is left
is what joins the parts. `ChargeInv` says that a process is in one part at a
time, that it pays only for what passed, and under the binding of the request
row (which is never rebound): `ChargesAreAdmitted`. `StopInv` counts the
processes that are past a gate, the mode check of either part, with a payment
to settle or to claim; each step that adds to `charged` or to `late` while the
service is disabled takes a process out of that set, and none enters it:
`DisabledReallyStops`.

**GatewayProofs.** Stripe: `HandlerInv` says that a marked event is on file
before it is acted on and that everything seen was acted on, broke off, or is
at hand: `HandledOnce`. `KeysInv` says that a key bound to a customer has the
owner some payment of that customer named, and that no customer has two keys
(`CustomersHaveOneKey`); with it the status of a customer who shares its e-mail
with nobody follows its own events: `KeysFollow`. Entitlement: `GateInv` says
of every thread that the record it holds is what the registry made of some
content of `keys.json`, and that the key was entitled as long as `held` says
so: `GateAlwaysHolds`. Rate limit: `Budget` counts, for every thread, the
passes of a span that may be due to it. A thread that resets the window late
lets the others pass once more, so the bound is quadratic in the number of
threads, `T * (T + 3) / 2` times the limit; it holds for spans of the shortest
window and the highest limit that any content of `keys.json` gives the key:
`RateOverrunIsBounded`. Feed: `PaymentsOK` says that what a line has settled
and not yet served is on the chain, in nobody else's hands and in no delivery,
so a delivery's payment is its own; `BooksOK` says of the meter and of its file
that no delivery has escaped them (`Counted`): the usage of the month on record
is at least what was delivered in it, and nothing was delivered for a later
month. It needs that no month was counted backwards, for then a record starts
anew below what was delivered: `FeedIsPaidFor`.

**ContextGovernanceProofs.** `TypeOK` is inductive over the thirteen ways a
call ends. `CallsArePaced` rests on `PaceInv`: passes are in order of time, the
end of a family's spacing is after its last pass, and every pass has at most
`MaxRequests` others in its window (`Few`). `HaltEnds`
follows from the order of the layers (a halted key gets to halt release where
nothing else is configured), and so does `EscalationLasts`, which explains the
finding of `halt_clean_cycle` and states `EscalationIsPermanent`, defined in this
module and a property of no run; `RetriesNeverAdmit` from the fact that a call
resembles itself, `ReleaseIsReviewed` from the review flag of the release.

**DecisionEvidenceProofs.** `Tells` is the story a proof must tell of a status.
`RefusalTells` and `OutcomeTells` follow a status through the four tables;
`EvidenceInv` says that memory and file hold proofs of issued ids only, each
its owner's and telling its outcome, and that what is not lost is in memory and
in the file or written since: `ProofsAreHonest`, `ProofsLast`. Queue: as long
as calls have come one at a time, `QueueInv` says that the queue is what is
`Lined` up of their history, those neither expired nor cut by the cap, and that
the next sequence number is one more than the number of calls; so the place a
call is told is its rank among all calls that are still live:
`SerialCallsAreRanked`.

**RecordProofs.** Reflex governance: `ReflexInv` says what only a thread
alone at work can know, that what it is about to enter is not there and that
what it has written is what there is (`AloneOK`); that while `settled` whoever
works is alone and the memory keeps what the file holds, and both agree when
no one works (`SettledOK`); and that only threads about to rename share a `.tmp`
file (`SharingOK`): `EscalationsStay`. Accepted state: `AcceptInv` says what a
brief holds between its reads: what it may claim is grounded in one registry of
main (`Grounded`), which later commits leave on main (`MainGrows`), and as long as
the marker it has found stays, it claims nothing and asks for nothing
(`Unmoved`); what was never acknowledged blindly was reported:
`AcceptedMeansMain`. Memory: every answer informs and no more (`AnswerInforms`):
`MemoryInforms`.
State Ping: two disagreeing claims among the contributing observations are
disputed and keep a ping from being resolved (`SourcesDisagree`), remain so
while sources are added (`DisagreementLasts`), and their end is a change
(`RemovalChanges`): `DisagreementIsShown`. Architect: `ArchitectInv` says that
a brief is made of the records of one reading (`LoadedOK`) and of nothing else
(`ToldOK`); each record of the registry is one observation (`ObservedAreDue`),
an anomaly worth a notification shows in the health of its domain
(`NotifiedShows`), and a healthy proof domain has proofs, none failed
(`HealthyProofs`): `BriefsAreHonest`. Feed of the telemetry: `RecordsKept` says
that the deque holds records of answers. The rest is arithmetic: partial sums
(`Summing`) compared by induction (`SumGrows`), rounded quotients of larger
numbers (`RoundedGrows`), the tables against the buckets (`BucketsRank`,
`StatesRank`), the longest run of denials (`ClusterGrows`), and `ShareOfOne`: a
constraint that becomes a denial moves one record from one rate to the other,
and its larger weight outweighs both roundings as long as the window has at
most 333 records. From `PressureGrows`, `DriftGrows` and `QuietScores` follows
`HeavierCalmsNever`.

Assumptions that restrict the deployment: three exception events and one denial
fit the histories kept (10 in the code); the threshold of ambiguous similarity
is at most 0.6 (0.4 by default), as with more a call without size, venue and
strategy is not recognised as its own retry; no customer's e-mail is the
literal `stripe_customer`, the owner the code gives to customers without one;
refusals have the statuses the layers give; an observation has finitely many claims, a registry finitely many proofs, each
with an id of its own, and a fixture finitely many records; the feed's window
has at most 333 records (100 in the code), as in a longer one a record may
weigh less than the rounding of a rate.

The library's induction theorems take an operator and cannot be instantiated
here; where induction is needed it goes through sets of natural numbers
(`Least`, `Induct` in `RecordProofs`, from the well-foundedness of `<`). Folds
and `SelectSeq` are not used in what is proved about: the queue is a set of
calls, the passes of a rate limit a set that is never cut, and a sum the last
value of a recursive function.

Only model-checked: `SettledIsHonoured`, since liveness under fairness is out of
this prover's reach, as is ENABLED; and the four refuted properties, which the
runs with a counterexample show.

## Findings

* **The prepaid balance can be overdrawn** (`context_overdraft`). app.py:758
  compares outside the lock that app.py:652 takes to debit. Two calls pass one
  comparison, both are answered 200, and the clamp at zero hides the second.
  `OverdraftBounded`, proved, says how far: less than one decision per thread.
* **The daily permission budget can be exceeded** (`context_budget`).
  app.py:2114 reads what app.py:2161 writes back without a lock; one of two
  updates is lost and both sizes are admitted.

* **Reading the regime ends a halt** (`halt_exit`). `get_regime` (app.py:4760)
  derives the state of an answer without a decision and writes it over the key's:
  a halted key that reads `GET /v1/regime` is in RECOVERY_REVIEW_REQUIRED, after a
  second read in NORMAL, and its next call is admitted without a release.
  `HaltEndsAtReleaseAlone`, proved, says that no call of `/v1/context` does this
  where no other layer is configured.
* **A clean control cycle does not clear a halt recommendation**
  (`halt_clean_cycle`). Every answer in the posture HALT_RECOMMENDED announces
  that it is "cleared by subsequent clean control cycle" (app.py:3000), but the
  events counted at app.py:2727 are never emptied: from the third on, an answer
  recommends the halt again, that of a call without events whose release is
  accepted included. `EscalationLasts`, proved, says that only a restart ends this.

Not findings, since nothing documented contradicts them, but worth knowing:

* Context API. A denied call (402) has already consumed permission budget,
  counted its retry and cleared the review flag; a restart grants the budget
  of the day again and forgets every halt; a key deactivated during its call is
  refused with 403 and without a proof after state has changed; `max + 1` as
  default halt threshold makes the temporal HALT unreachable; retry counts of a
  family are never reset; `denial_history_limit` and
  `halt_on_compounded_pressure` are read by nothing.
* Rate limit. A fixed window: any span as long as a window admits up to
  `max * T * (T + 3) / 2` calls with T threads (proved), twice the limit with one
  thread and five times with two (both are reached in the model).
* Queue. Two concurrent prunes drop one candidate, whose `next()` then raises and
  answers 500; sequence numbers may repeat; answered calls stay queued.
* Stripe. All customers without an e-mail share the owner `stripe_customer`, so a
  failed payment of one suspends the keys of all; a failed price lookup is
  answered 200 after the mark and the event is lost. The key script and the API
  both rewrite `keys.json` as a whole; that one overwrites what the other has just
  written is not in the model, where a handler's rewrite is one step.
* Evidence. A veto in a domain with telemetry is classed `telemetry_integrity`;
  the reproducibility hash does not cover the size.
* Feed. A settled payment whose metering fails is answered 500; a lost settle
  answer is a 402 for a payment that was charged; the month's count can be
  reset by a thread overtaken at the turn of the month; the cadence is reported
  and not enforced; x402 without a wallet meters requests that then fail.
* Reflex governance. Observations that overlap can lose an escalation or its
  resolution: an older dump renamed over a newer one, a `.tmp` file two threads
  had open, an entry made over one another thread has just made and resolved.
  The next operation that runs undisturbed writes what the memory still has; what
  a stop finds missing in the file is gone. One torn line makes a restart forget all records; `stale` and
  `dormant` need a reflex registered on the first day of the window;
  `unclassified_decisions` cannot fire.
* Accepted state. An empty list of ids to acknowledge acknowledges everything,
  and under an effective transfer, or with another registry than the brief's, ids
  that no brief reported; a
  ref that moves between two reads of a brief can report `accepted` beside a
  claim that is not allowed.
* Architect. The pilot's allow-list drops `nova_execution_attempted`, so it can
  never report an execution attempt; "verification passed" rests on the
  presence of a hash.
* Retail. A ping whose two observations are of one source is valid, but Context
  Delta refuses to index it; late processes may pass more retries in a window,
  below one allowance and one more for each process (proved, above).

## Not modelled, and why

HTTP parsing, authentication, schema validation and signatures (only valid
requests arrive); the wire formats of x402 and of the facilitator (outcomes
only); the rendered contents; wording of responses; SQLite itself (transactions
are atomic and serialised); loss of the disk; Redis mode.

Whole components: retail configuration and the facilitator client (parsing, and
calls whose outcomes are nondeterministic in the models); incidents and
proof-evidence reports of the retail service (written after the fact, read by
no decision); x402 observability (counters of a dashboard); the chronology
(documents appended by hand and validated offline); the review harnesses
(deterministic functions of one call, without state); repository validators,
content and demos.

## Map of the development

The order in which the modules build on each other: `RetailEntitlement`,
`RetailDelivery` (which implements it), `RetailDeliveryLive`; `RetailAdmission`
before it in a request; `ContextGovernance` and `ContextAccounting` for one
handler, `KeyEntitlement` before and `DecisionEvidence`, `DecisionQueue` and
`EnvironmentTelemetry` behind it; the others stand alone. `RetailService` puts
the two halves of a retail request together. Left for later: several threads in
`ContextGovernance`, whose registries have no lock.
