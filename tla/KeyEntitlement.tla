--------------------------- MODULE KeyEntitlement ---------------------------
(***************************************************************************)
(* Who may call what, and how often (app.py: load_key_registry,            *)
(* get_key_record, require_entitlement).                                   *)
(*                                                                         *)
(* The registry is put together anew for every call, from the environment, *)
(* from keys.json, which Stripe's events and the operator change at any    *)
(* time, and from two keys of the environment.  The rate limit is a fixed  *)
(* window in the memory of the process: a thread reads the clock, then the *)
(* window, and only then decides whether to start the window over, and     *)
(* another thread may run in between.  A call that is refused later, by    *)
(* the governance layers, looks its key up again when the answer is built. *)
(***************************************************************************)
EXTENDS Naturals, Sequences, FiniteSets

CONSTANTS
    Client,         \* threads of the process
    Path,           \* endpoints
    AdminOnly,      \* ADMIN_ONLY_ENDPOINTS
    TelemetryPath,  \* what the telemetry admin key may call
    DefaultPath,    \* what a key of keys.json may call unless it says so
    Kind,           \* keys by what the environment says of them: [env,
                    \* legacy, telemetry], env the record of NOVA_KEYS_JSON
    StoreRecord,    \* what keys.json may hold for the key, or NoRecord
    MaxEdits,       \* bound: changes of keys.json
    LastSecond      \* bound: seconds

NoRecord == [tier |-> "", status |-> "", paths |-> {}, window |-> 0, max |-> 0]

TierName == {"", "free", "emerging", "core", "enterprise", "admin", "other"}
StatusName == {"", "active", "suspended", "inactive", "other"}
KeyEntry == [tier : TierName, status : StatusName, paths : SUBSET Path,
           window : Nat, max : Nat]
ASSUME EndpointsAreKnown ==
    /\ AdminOnly \cup TelemetryPath \cup DefaultPath \subseteq Path
    /\ StoreRecord \subseteq KeyEntry
    /\ \A k \in Kind : /\ k.env \in KeyEntry
                       /\ {k.legacy, k.telemetry} \subseteq BOOLEAN
    /\ IsFiniteSet(Client)

VARIABLES
    kind,       \* which key it is
    store,      \* the key's record in keys.json
    second,     \* of the clock
    window,     \* RATE_LIMIT_STATE of the key: <<>> or <<[start, count]>>
    at, call,   \* next step and locals of each thread
    passed,     \* history: when calls passed the rate limit
    edits

gateVars == <<kind, store, second, window, at, call, passed, edits>>

NoCall == [path |-> "", record |-> NoRecord, now |-> 0, expired |-> FALSE,
           held |-> FALSE, end |-> ""]
-----------------------------------------------------------------------------
(* load_key_registry                                                       *)

\* What keys.json leaves out has a default; a tier it names is kept.
WithDefaults(r) ==
    [r EXCEPT !.tier = IF @ = "" THEN "free" ELSE @,
              !.status = IF @ = "" THEN "active" ELSE @,
              !.paths = IF @ = {} THEN DefaultPath ELSE @]

\* keys.json goes before the environment; the legacy key is added only when
\* neither knows it.
Merged(stored) ==
    IF stored # NoRecord THEN WithDefaults(stored)
    ELSE IF kind.env # NoRecord THEN kind.env
    ELSE IF kind.legacy
         THEN [NoRecord EXCEPT !.tier = "admin", !.status = "active",
                               !.paths = DefaultPath \cup AdminOnly]
    ELSE NoRecord

\* Mutant of RegistryRecord: the telemetry admin key is added where it is
\* missing, as the legacy key is.
AddedLikeLegacy(stored) ==
    IF kind.telemetry /\ Merged(stored) = NoRecord
    THEN [NoRecord EXCEPT !.tier = "admin", !.status = "active",
                          !.paths = TelemetryPath]
    ELSE Merged(stored)

\* The telemetry admin key is what the environment makes it, whatever its
\* record says; only the limits of the record remain.
RegistryRecord(stored) ==
    IF kind.telemetry
    THEN [Merged(stored) EXCEPT !.tier = "admin", !.status = "active",
                                !.paths = TelemetryPath]
    ELSE Merged(stored)

\* get_key_record: without a status a key is not active either.
Active(r) == r.status = "active"
Entitled(r, path) ==
    /\ Active(r) /\ path \in r.paths
    /\ path \in AdminOnly => r.tier = "admin"
Limited(r) == r.window > 0 /\ r.max > 0
-----------------------------------------------------------------------------
GateInit ==
    /\ kind \in Kind /\ store \in StoreRecord
    /\ second = 0
    /\ window = <<>>
    /\ at = [c \in Client |-> "idle"]
    /\ call = [c \in Client |-> NoCall]
    /\ passed = <<>> /\ edits = 0

Move(c, to) == at' = [at EXCEPT ![c] = to]
Respond(c, how) ==
    Move(c, "answered") /\ call' = [call EXCEPT ![c].end = how]

\* The registry is read and the path compared with it, without a pause that
\* matters: keys.json is read once.
Reject(c, path) ==
    /\ at[c] = "idle" /\ ~Entitled(RegistryRecord(store), path)
    /\ Move(c, "answered")
    /\ call' = [call EXCEPT ![c] = [NoCall EXCEPT !.path = path,
                                                  !.end = "403"]]
    /\ UNCHANGED <<kind, store, second, window, passed, edits>>

Accept(c, path) ==
    /\ at[c] = "idle" /\ Entitled(RegistryRecord(store), path)
    /\ Move(c, IF Limited(RegistryRecord(store)) THEN "clock" ELSE "serve")
    /\ call' = [call EXCEPT ![c] =
                  [NoCall EXCEPT !.path = path, !.held = TRUE,
                                 !.record = RegistryRecord(store)]]
    /\ UNCHANGED <<kind, store, second, window, passed, edits>>

\* now is read before the window.
ReadClock(c) ==
    /\ at[c] = "clock" /\ Move(c, "compare")
    /\ call' = [call EXCEPT ![c].now = second]
    /\ UNCHANGED <<kind, store, second, window, passed, edits>>

\* Beyond of ContextAccounting: a window that another thread started later
\* than now has not run out either.
Age(now, start) == IF now > start THEN now - start ELSE 0

\* The first call of the process makes the window.
Compare(c) ==
    /\ at[c] = "compare" /\ Move(c, "limit")
    /\ window' = IF window # <<>> THEN window
                 ELSE <<[start |-> call[c].now, count |-> 0]>>
    /\ call' = [call EXCEPT ![c].expired =
                  Age(call[c].now, window'[1].start)
                      >= call[c].record.window]
    /\ UNCHANGED <<kind, store, second, passed, edits>>

\* Mutant of Opened: the count is reset and the start of the window is not.
StartKept(c) ==
    IF call[c].expired THEN [window[1] EXCEPT !.count = 0] ELSE window[1]

\* The window the count is compared in, after the reset if there is one.
Opened(c) ==
    IF call[c].expired THEN [start |-> call[c].now, count |-> 0]
    ELSE window[1]

Overrun(c) ==
    /\ at[c] = "limit" /\ Opened(c).count >= call[c].record.max
    /\ window' = <<Opened(c)>>
    /\ Respond(c, "429")
    /\ UNCHANGED <<kind, store, second, passed, edits>>

Pass(c) ==
    /\ at[c] = "limit" /\ Opened(c).count < call[c].record.max
    /\ window' = <<[Opened(c) EXCEPT !.count = @ + 1]>>
    /\ passed' = Append(passed, second)
    /\ Move(c, "serve")
    /\ UNCHANGED <<kind, store, second, call, edits>>

Serve(c) ==
    /\ at[c] = "serve" /\ Respond(c, "served")
    /\ UNCHANGED <<kind, store, second, window, passed, edits>>

\* A refusal of the governance layers bills, and owns its proof, by the
\* record the key has now: none, when the key has lost it.
Deny(c) ==
    /\ at[c] = "serve" /\ call[c].path = "context"
    /\ Respond(c, IF Active(RegistryRecord(store)) THEN "denied with proof"
                 ELSE "403")
    /\ UNCHANGED <<kind, store, second, window, passed, edits>>

Hangup(c) ==
    /\ at[c] = "answered" /\ Move(c, "idle")
    /\ call' = [call EXCEPT ![c] = NoCall]
    /\ UNCHANGED <<kind, store, second, window, passed, edits>>

\* Stripe or the operator changes keys.json; a call under way is held
\* entitled as long as the key is at every moment of it.
EditStore(r) ==
    /\ edits < MaxEdits /\ edits' = edits + 1
    /\ r # store /\ store' = r
    /\ call' = [c \in Client |->
                  [call[c] EXCEPT !.held = @ /\ Entitled(RegistryRecord(r),
                                                         call[c].path)]]
    /\ UNCHANGED <<kind, second, window, at, passed>>

Tick ==
    /\ second < LastSecond /\ second' = second + 1
    /\ UNCHANGED <<kind, store, window, at, call, passed, edits>>

GateNext ==
    \/ \E c \in Client :
        \/ \E p \in Path : Reject(c, p) \/ Accept(c, p)
        \/ ReadClock(c) \/ Compare(c) \/ Overrun(c) \/ Pass(c)
        \/ Serve(c) \/ Deny(c) \/ Hangup(c)
    \/ \E r \in StoreRecord : EditStore(r)
    \/ Tick

GateSpec == GateInit /\ [][GateNext]_gateVars
-----------------------------------------------------------------------------
\* The records that set a limit, and the calls of the last span of seconds.
Limiting == {r \in StoreRecord \cup {k.env : k \in Kind} : Limited(r)}
PassedWithin(span) == {i \in DOMAIN passed : second < passed[i] + span}

\* No span of a whole window, the shortest of all, admits more calls than
\* T * (T + 3) / 2 times the highest limit, for T threads: each thread that saw a
\* window run out may start it over, late and with an old time, after which
\* each other thread may once more; a single thread gets the double of a
\* fixed window (require_entitlement, RATE_LIMIT_STATE).
RateOverrunBounded ==
    LET threads == Cardinality(Client)
    IN  \A least, most \in Limiting :
            (\A r \in Limiting : least.window <= r.window /\ r.max <= most.max)
              => 2 * Cardinality(PassedWithin(least.window))
                   <= most.max * (threads * (threads + 3))

\* The telemetry admin key opens its two endpoints and no other, whatever
\* keys.json and the environment say of it (load_key_registry).  And a call
\* the governance layers refuse ends without a proof only if its key lost
\* the entitlement while the call was under way (get_key_record, called
\* again by _build_structured_response).
GateHolds ==
    \A c \in Client : at[c] = "answered" =>
        /\ kind.telemetry /\ call[c].path \notin TelemetryPath =>
              call[c].end = "403"
        /\ call[c].end = "403" /\ call[c].record # NoRecord => ~call[c].held
=============================================================================
