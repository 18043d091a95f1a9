--------------------------- MODULE RetailAdmission ---------------------------
(***************************************************************************)
(* Runtime admission of the Retail Context Network: _ensure_runtime_       *)
(* admission (retail_context/service.py) with the pre-payment controls     *)
(* (production_controls.py), the fixed-window rate limits and durable      *)
(* request rows (control_store.py) and the per-request guard               *)
(* (runtime_guard.py). Every SQLite transaction is one action; processes   *)
(* on one database, the operator and crashes interleave between them.      *)
(*                                                                         *)
(* An attempt is passed when _ensure_runtime_admission returns None: the   *)
(* caller then sees a payment challenge or has its payment processed       *)
(* (module RetailDelivery).                                                *)
(***************************************************************************)
EXTENDS Naturals, FiniteSets

CONSTANTS
    Worker,         \* processes serving the retail application
    Request,        \* validated request envelopes (their digests)
    Bucket,         \* (subject_hash, resource_type) pairs
    BucketOf,       \* [Request -> Bucket]
    Binding,        \* source-binding digests
    Build,          \* what a process runs, notably its source registry
    SourceBinding,  \* [Build -> [Request -> Binding]]
    Window,         \* rate_limit_window_seconds
    Limit,          \* *_max_requests of the control configuration
    RetryLimit,     \* retry_max_requests
    MaxTime,        \* bound on the clock of the model
    None

ASSUME AdmissionAssumption ==
    /\ BucketOf \in [Request -> Bucket]
    /\ SourceBinding \in [Build -> [Request -> Binding]]
    /\ {Window, Limit, RetryLimit} \subseteq Nat \ {0}
    /\ MaxTime \in Nat
    /\ None \notin Request \cup Binding \cup Nat

VARIABLES
    mode,       \* retail_service_state.operating_mode
    clock,      \* the clock of the host
    tokens,     \* retail_rate_limits: request_count, 0 where no row
    requests,   \* retail_runtime_requests: row of each request, or None
    guards,     \* retail_runtime_guards: row of each request, or None
    pc,         \* next step of each worker
    job,        \* locals of each worker
    build,      \* build each worker was started with
    fresh,      \* history: attempts passed on a rate-limit token
    exempt,     \* history: attempts passed on the payment continuation
    retried,    \* history: attempts passed on the retry allowance
    seen        \* history: <<request, binding>> of passed attempts

vars == <<mode, clock, tokens, requests, guards, pc, job, build,
          fresh, exempt, retried, seen>>
history == <<fresh, exempt, retried, seen>>

Mode == {"disabled", "controlled_proof"}
Time == 0 .. MaxTime
WindowOf(t) == (t \div Window) * Window
Slot == {WindowOf(t) : t \in Time}
Step == {"idle", "lookup", "oldmode", "seek", "repair", "retry",
         "newmode", "token", "record", "guard"}
Job == [req : Request \cup {None}, binding : Binding \cup {None},
        at : Time \cup {None}, paid : BOOLEAN]
NoJob == [req |-> None, binding |-> None, at |-> None, paid |-> FALSE]
RequestRow == [binding : Binding, admittedAt : Time]
GuardRow == [binding : Binding, used : BOOLEAN,
             window : Slot \cup {None}, count : Nat]
ASSUME NoneIsNoRow == None \notin RequestRow \cup GuardRow
-----------------------------------------------------------------------------
Init ==
    /\ mode = "disabled" /\ clock = 0
    /\ tokens = [b \in Bucket |-> [s \in Slot |-> 0]]
    /\ requests = [r \in Request |-> None]
    /\ guards = [r \in Request |-> None]
    /\ pc = [w \in Worker |-> "idle"]
    /\ job = [w \in Worker |-> NoJob]
    /\ build \in [Worker -> Build]
    /\ fresh = [b \in Bucket |-> [s \in Slot |-> 0]]
    /\ exempt = [r \in Request |-> 0]
    /\ retried = [r \in Request |-> [s \in Slot |-> 0]]
    /\ seen = {}

Goto(w, step) == pc' = [pc EXCEPT ![w] = step]
Finish(w) == Goto(w, "idle") /\ job' = [job EXCEPT ![w] = NoJob]
Proceed(w, step) == Goto(w, step) /\ UNCHANGED job

Slotted(w) == WindowOf(job[w].at)
Saw(w) == seen' = seen \cup {<<job[w].req, job[w].binding>>}

\* A guard row as initialize_request inserts it.
NewGuard(w) == [binding |-> job[w].binding, used |-> job[w].paid,
                window |-> None, count |-> 0]

\* initialize_request: insert the guard, or keep it and only record that the
\* continuation is used up; a guard bound otherwise raises ValueError.
GuardFits(w) == \/ guards[job[w].req] = None
                \/ guards[job[w].req].binding = job[w].binding

\* Mutant of InitializeGuard: the continuation flag is overwritten.
ResetContinuation(w) ==
    guards' = [guards EXCEPT ![job[w].req] =
                 IF @ = None THEN NewGuard(w)
                 ELSE [@ EXCEPT !.used = job[w].paid]]

KeptGuard(w) == [guards[job[w].req] EXCEPT !.used = @ \/ job[w].paid]
InitializeGuard(w) ==
    guards' = [guards EXCEPT ![job[w].req] =
                 IF @ = None THEN NewGuard(w) ELSE KeptGuard(w)]
-----------------------------------------------------------------------------
\* An authenticated, valid POST; observed_at is read before any transaction.
Receive(w, r, paid) ==
    /\ pc[w] = "idle"
    /\ Goto(w, "lookup")
    /\ job' = [job EXCEPT ![w] =
                 [req |-> r, binding |-> SourceBinding[build[w]][r],
                  at |-> clock, paid |-> paid]]
    /\ UNCHANGED <<mode, clock, tokens, requests, guards, build, history>>

\* get_runtime_request
Lookup(w) ==
    /\ pc[w] = "lookup"
    /\ Proceed(w, IF requests[job[w].req] = None THEN "newmode" ELSE "oldmode")
    /\ UNCHANGED <<mode, clock, tokens, requests, guards, build, history>>

\* A known request: health and mode, then the reconciliation with its row as
\* read by Lookup (a row never changes). The digest is the key of the row,
\* and determines subject and type; the URI may differ in the binding.
CheckOld(w) ==
    /\ pc[w] = "oldmode"
    /\ IF mode = "controlled_proof"
          /\ requests[job[w].req].binding = job[w].binding
       THEN Proceed(w, "seek")
       ELSE Finish(w)
    /\ UNCHANGED <<mode, clock, tokens, requests, guards, build, history>>

\* get_request_guard: a crash may have left the request without a guard.
SeekGuard(w) ==
    /\ pc[w] = "seek"
    /\ Proceed(w, IF guards[job[w].req] = None THEN "repair" ELSE "retry")
    /\ UNCHANGED <<mode, clock, tokens, requests, guards, build, history>>

RepairGuard(w) ==
    /\ pc[w] = "repair"
    /\ IF GuardFits(w) THEN InitializeGuard(w) /\ Proceed(w, "retry")
                       ELSE Finish(w) /\ UNCHANGED guards
    /\ UNCHANGED <<mode, clock, tokens, requests, build, history>>

\* consume_existing_attempt
RetryCount(w) ==
    LET g == guards[job[w].req]
    IN  IF g.window = Slotted(w) THEN g.count ELSE 0

Continues(w) == GuardFits(w) /\ job[w].paid /\ ~guards[job[w].req].used
Retries(w) == GuardFits(w) /\ ~Continues(w) /\ RetryCount(w) < RetryLimit

UseContinuation(w) ==
    /\ pc[w] = "retry"
    /\ Continues(w)
    /\ guards' = [guards EXCEPT ![job[w].req].used = TRUE]
    /\ exempt' = [exempt EXCEPT ![job[w].req] = @ + 1]
    /\ Saw(w)
    /\ Finish(w)
    /\ UNCHANGED <<mode, clock, tokens, requests, build, fresh, retried>>

\* Mutant of UseRetry: the window of the count is not stored.
RetryOutsideWindow(w) ==
    /\ pc[w] = "retry"
    /\ Retries(w)
    /\ guards' = [guards EXCEPT ![job[w].req].count = RetryCount(w) + 1]
    /\ retried' = [retried EXCEPT ![job[w].req][Slotted(w)] = @ + 1]
    /\ Saw(w)
    /\ Finish(w)
    /\ UNCHANGED <<mode, clock, tokens, requests, build, fresh, exempt>>

UseRetry(w) ==
    /\ pc[w] = "retry"
    /\ Retries(w)
    /\ guards' = [guards EXCEPT ![job[w].req].window = Slotted(w),
                                ![job[w].req].count = RetryCount(w) + 1]
    /\ retried' = [retried EXCEPT ![job[w].req][Slotted(w)] = @ + 1]
    /\ Saw(w)
    /\ Finish(w)
    /\ UNCHANGED <<mode, clock, tokens, requests, build, fresh, exempt>>

\* The allowance of the window is spent, or the guard is bound otherwise.
RefuseRetry(w) ==
    /\ pc[w] = "retry"
    /\ ~Continues(w) /\ ~Retries(w)
    /\ Finish(w)
    /\ UNCHANGED <<mode, clock, tokens, requests, guards, build, history>>
-----------------------------------------------------------------------------
\* A request without a row: evaluate_retail_pre_payment_admission.
CheckNew(w) ==
    /\ pc[w] = "newmode"
    /\ IF mode = "controlled_proof" THEN Proceed(w, "token") ELSE Finish(w)
    /\ UNCHANGED <<mode, clock, tokens, requests, guards, build, history>>

\* Mutant of TakeToken: one request too many.
TakeOneMore(w) ==
    LET b == BucketOf[job[w].req]
    IN  /\ pc[w] = "token"
        /\ IF tokens[b][Slotted(w)] <= Limit
           THEN /\ tokens' = [tokens EXCEPT ![b][Slotted(w)] = @ + 1]
                /\ Proceed(w, "record")
           ELSE Finish(w) /\ UNCHANGED tokens
        /\ UNCHANGED <<mode, clock, requests, guards, build, history>>

\* consume_rate_limit, keyed by the window of observed_at.
TakeToken(w) ==
    LET b == BucketOf[job[w].req]
    IN  /\ pc[w] = "token"
        /\ IF tokens[b][Slotted(w)] < Limit
           THEN /\ tokens' = [tokens EXCEPT ![b][Slotted(w)] = @ + 1]
                /\ Proceed(w, "record")
           ELSE Finish(w) /\ UNCHANGED tokens
        /\ UNCHANGED <<mode, clock, requests, guards, build, history>>

\* Mutants of RecordRequest: any existing row counts as recorded (INSERT OR
\* IGNORE), or is replaced (INSERT OR REPLACE).
RecordUnlessKnown(w) ==
    /\ pc[w] = "record"
    /\ requests' = [requests EXCEPT ![job[w].req] =
                      IF @ = None THEN [binding |-> job[w].binding,
                                        admittedAt |-> job[w].at]
                                  ELSE @]
    /\ Proceed(w, "guard")
    /\ UNCHANGED <<mode, clock, tokens, guards, build, history>>
RecordAgain(w) ==
    /\ pc[w] = "record"
    /\ requests' = [requests EXCEPT ![job[w].req] =
                      [binding |-> job[w].binding, admittedAt |-> job[w].at]]
    /\ Proceed(w, "guard")
    /\ UNCHANGED <<mode, clock, tokens, guards, build, history>>

\* record_runtime_request: an identical row, admitted_at included, counts as
\* recorded; any other row of the request as request_reconciliation_failed.
RecordRequest(w) ==
    LET row == [binding |-> job[w].binding, admittedAt |-> job[w].at]
    IN  /\ pc[w] = "record"
        /\ IF requests[job[w].req] \in {None, row}
           THEN /\ requests' = [requests EXCEPT ![job[w].req] = row]
                /\ Proceed(w, "guard")
           ELSE Finish(w) /\ UNCHANGED requests
        /\ UNCHANGED <<mode, clock, tokens, guards, build, history>>

GuardRequest(w) ==
    /\ pc[w] = "guard"
    /\ IF GuardFits(w)
       THEN /\ InitializeGuard(w)
            /\ fresh' = [fresh EXCEPT
                           ![BucketOf[job[w].req]][Slotted(w)] = @ + 1]
            /\ Saw(w)
       ELSE UNCHANGED <<guards, fresh, seen>>
    /\ Finish(w)
    /\ UNCHANGED <<mode, clock, tokens, requests, build, exempt, retried>>
-----------------------------------------------------------------------------
\* A store call raised: its transaction rolled back and the attempt is
\* refused with control_store_unavailable.
StoreFails(w) ==
    /\ pc[w] # "idle"
    /\ Finish(w)
    /\ UNCHANGED <<mode, clock, tokens, requests, guards, build, history>>

\* A process dies and is started again, maybe with another registry.
Crash(w, b) ==
    /\ Finish(w)
    /\ build' = [build EXCEPT ![w] = b]
    /\ UNCHANGED <<mode, clock, tokens, requests, guards, history>>

\* retail_control_operator.py set-mode
SetMode(m) ==
    /\ mode' = m
    /\ UNCHANGED <<clock, tokens, requests, guards, pc, job, build, history>>

Tick ==
    /\ clock < MaxTime
    /\ clock' = clock + 1
    /\ UNCHANGED <<mode, tokens, requests, guards, pc, job, build, history>>

Attempt(w) ==
    \/ Lookup(w)
    \/ CheckOld(w) \/ SeekGuard(w) \/ RepairGuard(w)
    \/ UseContinuation(w) \/ UseRetry(w) \/ RefuseRetry(w)
    \/ CheckNew(w) \/ TakeToken(w) \/ RecordRequest(w) \/ GuardRequest(w)

Next ==
    \/ \E w \in Worker :
        \/ \E r \in Request, paid \in BOOLEAN : Receive(w, r, paid)
        \/ Attempt(w)
        \/ StoreFails(w)
        \/ \E b \in Build : Crash(w, b)
    \/ \E m \in Mode : SetMode(m)
    \/ Tick

Spec == Init /\ [][Next]_vars
-----------------------------------------------------------------------------
TypeOK ==
    /\ mode \in Mode
    /\ clock \in Time
    /\ tokens \in [Bucket -> [Slot -> Nat]]
    /\ requests \in [Request -> RequestRow \cup {None}]
    /\ guards \in [Request -> GuardRow \cup {None}]
    /\ pc \in [Worker -> Step]
    /\ job \in [Worker -> Job]
    /\ build \in [Worker -> Build]
    /\ fresh \in [Bucket -> [Slot -> Nat]]
    /\ exempt \in [Request -> Nat]
    /\ retried \in [Request -> [Slot -> Nat]]
    /\ seen \subseteq Request \X Binding

\* Rate limiting: in no window are more attempts passed on a token than the
\* bucket has requests counted, nor more counted than the limit, whatever
\* fails between taking a token and passing and however workers race.
FreshWithinLimit ==
    \A b \in Bucket, s \in Slot :
        fresh[b][s] <= tokens[b][s] /\ tokens[b][s] <= Limit

\* The continuation exemption (a paid attempt that is not counted as a
\* retry) passes one attempt of a request at most, across races, crashes
\* between request row and guard, and repairs.
ContinuationOnce == \A r \in Request : exempt[r] <= 1

\* The two tables agree: a guard exists only for a recorded request, and
\* both carry the one binding of every attempt of the request ever passed,
\* although processes may be started with different registries and a crash
\* may separate the request row from its guard.
GuardMatchesRequest ==
    /\ \A r \in Request : guards[r] # None =>
           requests[r] # None /\ guards[r].binding = requests[r].binding
    /\ \A p \in seen : guards[p[1]] # None /\ guards[p[1]].binding = p[2]

\* "bounded same-request retries" (runtime_guard.py).  The guard keeps the count
\* of one window only, and a process that was slow to come to it sets it back
\* to an earlier window: in a window fewer attempts than RetryLimit + 1 per
\* process are passed as retries, RetryLimit where one process serves.
RetriesBounded ==
    \A r \in Request, s \in Slot :
        retried[r][s] < (RetryLimit + 1) * Cardinality(Worker)

TakesNothingBack ==
    /\ \A r \in Request : requests[r] # None => requests'[r] = requests[r]
    /\ \A r \in Request : guards[r] # None =>
           /\ guards'[r] # None
           /\ guards'[r].binding = guards[r].binding
           /\ guards[r].used => guards'[r].used
    /\ \A b \in Bucket, s \in Slot : tokens[b][s] <= tokens'[b][s]

\* Durable decisions are never taken back: a request row or a guard's binding
\* never changes, a used continuation stays used, a token is never returned.
NothingTakenBack == [][TakesNothingBack]_vars
=============================================================================
