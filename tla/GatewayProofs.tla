---------------------------- MODULE GatewayProofs ----------------------------
(***************************************************************************)
(* Proofs about the keys and the gates a call passes: KeyEntitlement, for  *)
(* any number of threads, any endpoints and records, and keys.json         *)
(* changing at any moment of a call; FeedGateway, for any number of        *)
(* threads, holders, payments, months and faults; and KeyLifecycle, for    *)
(* every set of events, in whatever order they are delivered, repeated or  *)
(* broken off, and any number of keys made by hand.                        *)
(***************************************************************************)
EXTENDS KeyEntitlement, FeedGateway, KeyLifecycle, FiniteSetTheorems,
        SequenceTheorems, TLAPS

Ending == {"", "403", "429", "served", "denied with proof"}
Call == [path : Path \cup {""}, record : KeyEntry, now : Nat, expired : BOOLEAN,
         held : BOOLEAN, end : Ending]
UnderWay == {"clock", "compare", "limit", "serve"}

GateTypes ==
    /\ kind \in Kind /\ store \in StoreRecord /\ second \in Nat
    /\ at \in [Client -> UnderWay \cup {"idle", "answered"}]
    /\ call \in [Client -> Call]

\* A call under way is held only while its key is entitled, and one of the
\* telemetry key is under way on its endpoints only.
CallOK(c) ==
    at[c] \in UnderWay =>
        /\ call[c].held => Entitled(RegistryRecord(store), call[c].path)
        /\ kind.telemetry => call[c].path \in TelemetryPath

GateInv == GateTypes /\ GateHolds /\ \A c \in Client : CallOK(c)
-----------------------------------------------------------------------------
LEMMA RecordTypes ==
    ASSUME NEW stored \in StoreRecord, kind \in Kind
    PROVE  /\ RegistryRecord(stored) \in KeyEntry
           /\ kind.telemetry => RegistryRecord(stored).paths = TelemetryPath
<1> DEFINE m == Merged(stored)
<1>0. stored \in KeyEntry /\ kind.env \in KeyEntry /\ NoRecord \in KeyEntry
  BY EndpointsAreKnown DEF NoRecord, KeyEntry, TierName, StatusName
<1>1. m \in KeyEntry
  <2>1. WithDefaults(stored) \in KeyEntry
    BY <1>0, EndpointsAreKnown DEF WithDefaults, KeyEntry, TierName, StatusName
  <2>2. [NoRecord EXCEPT !.tier = "admin", !.status = "active",
                         !.paths = DefaultPath \cup AdminOnly] \in KeyEntry
    BY <1>0, EndpointsAreKnown DEF KeyEntry, TierName, StatusName
  <2> QED
    BY <1>0, <2>1, <2>2 DEF Merged
<1> HIDE DEF m
<1>2. [m EXCEPT !.tier = "admin", !.status = "active", !.paths = TelemetryPath]
        \in KeyEntry
  BY <1>1, EndpointsAreKnown DEF KeyEntry, TierName, StatusName
<1>3. [m EXCEPT !.tier = "admin", !.status = "active",
                !.paths = TelemetryPath].paths = TelemetryPath
  BY <1>1 DEF KeyEntry
<1> QED
  BY <1>1, <1>2, <1>3 DEF RegistryRecord, m

LEMMA NoCallType == /\ NoCall \in Call
                    /\ NoCall.record = NoRecord
<1>1. NoRecord \in KeyEntry
  BY DEF NoRecord, KeyEntry, TierName, StatusName
<1> QED
  BY <1>1 DEF NoCall, Call, Ending

\* The other threads are where they were.
LEMMA OthersStand ==
    ASSUME GateInv, NEW c \in Client, NEW to \in UnderWay \cup {"idle", "answered"},
           NEW k \in Call, UNCHANGED <<kind, store>>, second' \in Nat,
           at' = [at EXCEPT ![c] = to], call' = [call EXCEPT ![c] = k],
           to \in UnderWay =>
               /\ k.held => Entitled(RegistryRecord(store), k.path)
               /\ kind.telemetry => k.path \in TelemetryPath,
           to = "answered" =>
               /\ kind.telemetry /\ k.path \notin TelemetryPath => k.end = "403"
               /\ k.end = "403" /\ k.record # NoRecord => ~k.held
    PROVE  GateInv'
<1>1. GateTypes'
  BY DEF GateInv, GateTypes
<1>2. at'[c] = to /\ call'[c] = k
      /\ \A d \in Client \ {c} : at'[d] = at[d] /\ call'[d] = call[d]
  BY DEF GateInv, GateTypes
<1>3. ASSUME NEW d \in Client PROVE CallOK(d)'
  <2>1. RegistryRecord(store)' = RegistryRecord(store)
    BY DEF RegistryRecord, Merged
  <2>2. CASE d = c
    BY <1>2, <2>1, <2>2 DEF CallOK, Entitled, Active
  <2>3. CASE d # c
    BY <1>2, <2>1, <2>3 DEF GateInv, CallOK, Entitled, Active
  <2> QED
    BY <2>2, <2>3
<1>4. GateHolds'
  BY <1>2 DEF GateInv, GateHolds
<1> QED
  BY <1>1, <1>3, <1>4 DEF GateInv

LEMMA GateStart == GateInit => GateInv
<1> SUFFICES ASSUME GateInit PROVE GateInv
  OBVIOUS
<1>1. GateTypes
  BY NoCallType DEF GateInit, GateTypes
<1>2. GateHolds /\ \A c \in Client : CallOK(c)
  BY DEF GateInit, GateHolds, CallOK, UnderWay
<1> QED
  BY <1>1, <1>2 DEF GateInv

LEMMA GateStep == GateInv /\ [GateNext]_gateVars => GateInv'
<1> SUFFICES ASSUME GateInv, [GateNext]_gateVars PROVE GateInv'
  OBVIOUS
<1>0. GateTypes /\ RegistryRecord(store) \in KeyEntry
      /\ \A c \in Client : call[c] \in Call
  BY RecordTypes DEF GateInv, GateTypes
<1>1. ASSUME NEW c \in Client, NEW p \in Path, Reject(c, p) PROVE GateInv'
  <2> DEFINE k == [NoCall EXCEPT !.path = p, !.end = "403"]
  <2>1. k \in Call /\ k.record = NoRecord /\ k.end = "403"
    BY NoCallType DEF Call, Ending
  <2>2. call' = [call EXCEPT ![c] = k] /\ at' = [at EXCEPT ![c] = "answered"]
        /\ UNCHANGED <<kind, store>> /\ second' \in Nat
    BY <1>0, <1>1 DEF Reject, Move, GateTypes
  <2> HIDE DEF k
  <2> QED
    BY <2>1, <2>2, OthersStand DEF UnderWay
<1>2. ASSUME NEW c \in Client, NEW p \in Path, Accept(c, p) PROVE GateInv'
  <2> DEFINE r == RegistryRecord(store)
             k == [NoCall EXCEPT !.path = p, !.held = TRUE, !.record = r]
  <2>1. k \in Call /\ k.path = p
    <3>1. r \in KeyEntry
      BY <1>0
    <3> HIDE DEF r
    <3>2. k \in Call
      BY <3>1, NoCallType DEF Call
    <3> QED
      BY <3>2, NoCallType DEF Call
  <2>2. PICK to \in {"clock", "serve"} :
            /\ call' = [call EXCEPT ![c] = k] /\ at' = [at EXCEPT ![c] = to]
            /\ UNCHANGED <<kind, store>> /\ second' \in Nat
    BY <1>0, <1>2 DEF Accept, Move, GateTypes
  <2>3. Entitled(RegistryRecord(store), p)
    BY <1>2 DEF Accept
  <2>4. kind.telemetry => p \in TelemetryPath
    BY <1>0, <2>3, RecordTypes DEF Entitled, GateTypes
  <2> HIDE DEF k
  <2> QED
    BY <2>1, <2>2, <2>3, <2>4, OthersStand DEF UnderWay
<1>3. ASSUME NEW c \in Client, ReadClock(c) PROVE GateInv'
  <2> DEFINE k == [call[c] EXCEPT !.now = second]
  <2>1. k \in Call /\ k.path = call[c].path /\ k.held = call[c].held
    BY <1>0 DEF Call, GateTypes
  <2>2. call' = [call EXCEPT ![c] = k] /\ at' = [at EXCEPT ![c] = "compare"]
        /\ UNCHANGED <<kind, store>> /\ second' \in Nat /\ at[c] = "clock"
    BY <1>0, <1>3 DEF ReadClock, Move, GateTypes
  <2>3. CallOK(c)
    BY DEF GateInv
  <2> HIDE DEF k
  <2> QED
    BY <2>1, <2>2, <2>3, OthersStand DEF UnderWay, CallOK
<1>4. ASSUME NEW c \in Client, Compare(c) PROVE GateInv'
  <2> DEFINE x == (Age(call[c].now, window'[1].start) >= call[c].record.window)
             k == [call[c] EXCEPT !.expired = x]
  <2>0. x \in BOOLEAN
    OBVIOUS
  <2> HIDE DEF x
  <2>1. k \in Call /\ k.path = call[c].path /\ k.held = call[c].held
    BY <1>0, <2>0 DEF Call, GateTypes
  <2>2. call' = [call EXCEPT ![c] = k] /\ at' = [at EXCEPT ![c] = "limit"]
        /\ UNCHANGED <<kind, store>> /\ second' \in Nat /\ at[c] = "compare"
    BY <1>0, <1>4 DEF Compare, Move, GateTypes, x
  <2>3. CallOK(c)
    BY DEF GateInv
  <2> HIDE DEF k
  <2> QED
    BY <2>1, <2>2, <2>3, OthersStand DEF UnderWay, CallOK
<1>5. ASSUME NEW c \in Client, Pass(c) PROVE GateInv'
  <2>1. call' = [call EXCEPT ![c] = call[c]] /\ at' = [at EXCEPT ![c] = "serve"]
        /\ UNCHANGED <<kind, store>> /\ second' \in Nat /\ at[c] = "limit"
    BY <1>0, <1>5 DEF Pass, Move, GateTypes
  <2>2. CallOK(c)
    BY DEF GateInv
  <2> QED
    BY <1>0, <2>1, <2>2, OthersStand DEF UnderWay, CallOK
<1>6. ASSUME NEW c \in Client, NEW how \in Ending, Respond(c, how),
             at[c] \in UnderWay, UNCHANGED <<kind, store, second>>,
             how = "403" => ~Entitled(RegistryRecord(store), call[c].path)
      PROVE  GateInv'
  <2> DEFINE k == [call[c] EXCEPT !.end = how]
  <2>1. k \in Call /\ k.path = call[c].path /\ k.held = call[c].held
        /\ k.end = how
    BY <1>0, <1>6 DEF Call
  <2>2. call' = [call EXCEPT ![c] = k] /\ at' = [at EXCEPT ![c] = "answered"]
        /\ second' \in Nat
    BY <1>0, <1>6 DEF Respond, Move, GateTypes
  <2>3. CallOK(c)
    BY DEF GateInv
  <2> HIDE DEF k
  <2> QED
    BY <1>6, <2>1, <2>2, <2>3, OthersStand DEF UnderWay, CallOK
<1>7. ASSUME NEW c \in Client, Overrun(c) \/ Serve(c) \/ Deny(c) PROVE GateInv'
  <2>1. at[c] \in UnderWay /\ UNCHANGED <<kind, store, second>>
    BY <1>7 DEF Overrun, Serve, Deny, UnderWay
  <2>2. \E how \in Ending :
            /\ Respond(c, how)
            /\ how = "403" => ~Entitled(RegistryRecord(store), call[c].path)
    BY <1>7 DEF Overrun, Serve, Deny, Entitled, Ending
  <2> QED
    BY <1>6, <2>1, <2>2
<1>8. ASSUME NEW c \in Client, Hangup(c) PROVE GateInv'
  <2>1. call' = [call EXCEPT ![c] = NoCall] /\ at' = [at EXCEPT ![c] = "idle"]
        /\ UNCHANGED <<kind, store>> /\ second' \in Nat
    BY <1>0, <1>8 DEF Hangup, Move, GateTypes
  <2> QED
    BY <2>1, NoCallType, OthersStand DEF UnderWay
<1>9. ASSUME NEW r \in StoreRecord, EditStore(r) PROVE GateInv'
  <2>0. store' = r /\ UNCHANGED <<kind, second, at>>
    BY <1>9 DEF EditStore
  <2>1. ASSUME NEW c \in Client
        PROVE  /\ call'[c] \in Call
               /\ call'[c].path = call[c].path /\ call'[c].record = call[c].record
               /\ call'[c].end = call[c].end
               /\ call'[c].held =
                    (call[c].held /\ Entitled(RegistryRecord(r), call[c].path))
    <3> DEFINE x == call[c].held /\ Entitled(RegistryRecord(r), call[c].path)
               k == [call[c] EXCEPT !.held = x]
    <3>0. x \in BOOLEAN
      BY <1>0 DEF Call
    <3>1. call'[c] = k
      BY <1>9 DEF EditStore
    <3> HIDE DEF x
    <3>2. k \in Call /\ k.path = call[c].path /\ k.record = call[c].record
          /\ k.end = call[c].end /\ k.held = x
      BY <1>0, <3>0 DEF Call
    <3> QED
      BY <3>1, <3>2 DEF x
  <2>2. GateTypes'
    <3>1. call' \in [Client -> Call]
      BY <1>9, <2>1 DEF EditStore
    <3> QED
      BY <1>0, <2>0, <3>1 DEF GateTypes
  <2>3. RegistryRecord(store)' = RegistryRecord(r)
    BY <2>0 DEF RegistryRecord, Merged
  <2>4. ASSUME NEW c \in Client PROVE CallOK(c)'
    <3>1. CallOK(c)
      BY DEF GateInv
    <3> QED
      BY <2>0, <2>1, <2>3, <3>1 DEF CallOK, Entitled, Active
  <2>5. GateHolds'
    BY <2>0, <2>1 DEF GateInv, GateHolds
  <2> QED
    BY <2>2, <2>4, <2>5 DEF GateInv
<1>10. CASE Tick \/ UNCHANGED gateVars
  <2>1. UNCHANGED <<kind, store, at, call>> /\ second' \in Nat
    BY <1>0, <1>10 DEF Tick, gateVars, GateTypes
  <2>2. GateTypes' /\ GateHolds'
    BY <2>1 DEF GateInv, GateTypes, GateHolds
  <2>3. ASSUME NEW c \in Client PROVE CallOK(c)'
    BY <2>1 DEF GateInv, CallOK, Entitled, Active, RegistryRecord, Merged
  <2> QED
    BY <2>2, <2>3 DEF GateInv
<1> QED
  BY <1>1, <1>2, <1>3, <1>4, <1>5, <1>7, <1>8, <1>9, <1>10 DEF GateNext

\* The telemetry key opens its endpoints and no other, and nobody whose key
\* stays entitled is refused as if it were not, whoever edits keys.json.
THEOREM GateAlwaysHolds == GateSpec => []GateHolds
<1>1. GateInv => GateHolds
  BY DEF GateInv
<1> QED
  BY <1>1, GateStart, GateStep, PTL DEF GateSpec

-----------------------------------------------------------------------------
(* The rate limit.  The budget of a span of seconds holds the calls let    *)
(* pass since it began, what the window at hand still takes, and a window  *)
(* for every time it may be started over.                                  *)

\* A bound on every limit there is.
Bounding(w, m) ==
    /\ w \in Nat \ {0} /\ m \in Nat
    /\ \A r \in Limiting : w <= r.window /\ r.max <= m

Bounded(record) ==
    \E r \in Limiting : record.window = r.window /\ record.max = r.max

\* What threads hold between the record and the decision.
LimitsHeld ==
    /\ \A c \in Client :
          /\ at[c] \in {"clock", "compare", "limit"} => Bounded(call[c].record)
          /\ at[c] \in {"compare", "limit"} => call[c].now <= second
          /\ at[c] = "limit" => window # <<>>
    /\ window # <<>> =>
          /\ window = <<[start |-> window[1].start, count |-> window[1].count]>>
          /\ window[1].start \in Nat /\ window[1].count \in Nat
    /\ passed \in Seq(Nat) /\ \A i \in DOMAIN passed : passed[i] <= second

Threads == Cardinality(Client)
Count == IF window = <<>> THEN 0 ELSE window[1].count

\* Seen from a second s: the calls let pass since, the threads that carry an
\* older time, and the others that have found the window run out.
Since(s) == {i \in DOMAIN passed : s <= passed[i]}
Old(s) == {c \in Client : at[c] \in {"compare", "limit"} /\ call[c].now < s}
Pending(s) == {c \in Client \ Old(s) : at[c] = "limit" /\ call[c].expired}

\* How often the others may start the window over before an old thread does.
Restarts(s) ==
    IF window = <<>> \/ window[1].start < s THEN Threads - Cardinality(Old(s))
    ELSE Cardinality(Pending(s))

\* Twice the windows that k old threads let in: each its own, and one of
\* every thread that is not old any more.
Opens(k) == k * (2 * Threads + 3 - k)

\* The calls since s and all that may still follow within the span.
Budget(s, m) ==
    \/ Cardinality(Since(s)) = 0
    \/ /\ Cardinality(Old(s)) < Threads
       /\ 2 * Cardinality(Since(s)) + 2 * (m - Count)
            + m * (2 * Restarts(s) + Opens(Cardinality(Old(s))))
            <= m * (Threads * (Threads + 3))

RateInv(w, m) ==
    /\ window # <<>> => window[1].count <= m
    /\ \A s \in Nat : s <= second /\ second < s + w => Budget(s, m)

-----------------------------------------------------------------------------
(* Arithmetic of the budget.                                               *)

LEMMA TimesGrows ==
    ASSUME NEW m \in Nat, NEW a \in Nat, NEW b \in Nat, NEW d \in Nat, a + d <= b
    PROVE  m * a + m * d <= m * b /\ m * a \in Nat /\ m * b \in Nat /\ m * d \in Nat
<1>1. SUFFICES ASSUME NEW e \in Nat, b = a + d + e PROVE m * a + m * d <= m * b
  <2>1. b - a - d \in Nat /\ b = a + d + (b - a - d)
    OBVIOUS
  <2>2. m * a \in Nat /\ m * b \in Nat /\ m * d \in Nat
    OBVIOUS
  <2> QED
    BY <1>1, <2>1, <2>2
<1>2. m * b = m * a + m * d + m * e /\ m * e \in Nat /\ m * a \in Nat /\ m * d \in Nat
  BY <1>1
<1> QED
  BY <1>2

LEMMA ThreadsNatural == Threads \in Nat
  BY FS_CardinalityType, EndpointsAreKnown DEF Threads

\* A thread that is not old any more costs what it opens, and no start with
\* fewer old threads than threads goes over the bound.
LEMMA OpensDown ==
    ASSUME NEW k \in 1..Threads
    PROVE  Opens(k) = Opens(k - 1) + 2 * (Threads - k) + 4
<1> SUFFICES ASSUME NEW T \in Nat, T = Threads, NEW i \in Nat, k = i + 1
             PROVE  Opens(k) = Opens(k - 1) + 2 * (Threads - k) + 4
  <2>1. k - 1 \in Nat /\ k = (k - 1) + 1
    BY ThreadsNatural
  <2> QED
    BY <2>1, ThreadsNatural
<1>1. Opens(k) = (i + 1) * (2 * T + 2 - i) /\ Opens(k - 1) = i * (2 * T + 3 - i)
  BY DEF Opens
<1>2. (i + 1) * (2 * T + 2 - i) = i * (2 * T + 2 - i) + 2 * T + 2 - i
  OBVIOUS
<1>3. i * (2 * T + 3 - i) = i * (2 * T + 2 - i) + i
  OBVIOUS
<1> QED
  BY <1>1, <1>2, <1>3

LEMMA OpensFit ==
    ASSUME NEW k \in Nat, NEW r \in Nat, k < Threads, r <= Threads - k
    PROVE  /\ 2 * r + Opens(k) + 2 <= Threads * (Threads + 3)
           /\ Opens(k) \in Nat
<1> SUFFICES ASSUME NEW T \in Nat, T = Threads, NEW j \in Nat, T = k + j + 1
             PROVE  2 * r + Opens(k) + 2 <= Threads * (Threads + 3) /\ Opens(k) \in Nat
  <2>1. Threads - k - 1 \in Nat /\ Threads = k + (Threads - k - 1) + 1
    BY ThreadsNatural
  <2> QED
    BY <2>1, ThreadsNatural
<1>1. Opens(k) = k * (k + 2 * j + 5)
  BY DEF Opens
<1>2. Threads * (Threads + 3) = (k + j + 1) * (k + j + 4)
  OBVIOUS
<1>3. k * (k + 2 * j + 5) = k * k + 2 * (k * j) + 5 * k
  OBVIOUS
<1>4. (k + j + 1) * (k + j + 4) = k * k + 2 * (k * j) + 5 * k + j * j + 5 * j + 4
  OBVIOUS
<1>5. j * j \in Nat /\ k * k \in Nat /\ k * j \in Nat
  OBVIOUS
<1> HIDE DEF Opens
<1> QED
  BY <1>1, <1>2, <1>3, <1>4, <1>5

\* What a budget says, in numbers: n calls since, a count, k old threads and
\* r restarts.
Fits(n, count, k, r, m) ==
    \/ n = 0
    \/ /\ k < Threads
       /\ 2 * n + 2 * (m - count) + m * (2 * r + Opens(k))
            <= m * (Threads * (Threads + 3))

\* The first call.
LEMMA FitsAtFirst ==
    ASSUME NEW m \in Nat, NEW n \in {0, 1}, NEW count \in 0..m, n <= count,
           NEW k \in Nat, k < Threads, NEW r \in Nat, r <= Threads - k
    PROVE  Fits(n, count, k, r, m)
<1> SUFFICES ASSUME NEW p \in Nat, p = 2 * r + Opens(k),
                    NEW q \in Nat, q = Threads * (Threads + 3)
             PROVE  Fits(n, count, k, r, m)
  <2>1. 2 * r + Opens(k) \in Nat
    BY OpensFit
  <2>2. Threads * (Threads + 3) \in Nat
    BY ThreadsNatural
  <2> QED
    BY <2>1, <2>2
<1>1. p + 2 <= q
  BY OpensFit
<1>2. m * p + m * 2 <= m * q /\ m * p \in Nat /\ m * q \in Nat
  BY <1>1, TimesGrows
<1>3. 2 * n + 2 * (m - count) + m * p <= m * q
  BY <1>2
<1> QED
  BY <1>3 DEF Fits

\* Another call in the same window, or the window of a restart.
LEMMA FitsOn ==
    ASSUME NEW m \in Nat, NEW n \in Nat, NEW i \in {0, 1},
           NEW count \in 0..m, NEW after \in 0..m, i <= after,
           NEW k \in Nat, NEW r \in Nat, k <= Threads, r <= Threads - k,
           NEW j \in Nat, NEW u \in Nat, j < Threads, u <= Threads - j,
           Fits(n, count, k, r, m),
           \/ i + count <= after /\ 2 * u + Opens(j) <= 2 * r + Opens(k)
           \/ 2 * u + Opens(j) + 2 <= 2 * r + Opens(k)
    PROVE  Fits(n + i, after, j, u, m)
<1>1. CASE n = 0
  <2>1. n + i = i
    BY <1>1
  <2> QED
    BY <2>1, FitsAtFirst
<1>2. CASE n # 0
  <2>1. SUFFICES ASSUME NEW p \in Nat, p = 2 * r + Opens(k),
                        NEW q \in Nat, q = 2 * u + Opens(j),
                        NEW b, b = m * (Threads * (Threads + 3))
                 PROVE  Fits(n + i, after, j, u, m)
    <3>1. k < Threads
      BY <1>2 DEF Fits
    <3>2. Opens(k) \in Nat /\ Opens(j) \in Nat
      BY <3>1, OpensFit
    <3>3. 2 * r + Opens(k) \in Nat /\ 2 * u + Opens(j) \in Nat
      BY <3>2
    <3> QED
      BY <3>3
  <2>2. 2 * n + 2 * (m - count) + m * p <= b
    BY <1>2, <2>1 DEF Fits
  <2>3. b \in Nat
    BY <2>1, ThreadsNatural
  <2>4. SUFFICES 2 * (n + i) + 2 * (m - after) + m * q <= b
    BY <2>1, <2>4 DEF Fits
  <2>5. CASE i + count <= after /\ q <= p
    <3>1. m * q + m * 0 <= m * p /\ m * q \in Nat /\ m * p \in Nat
      BY <2>5, TimesGrows
    <3> QED
      BY <2>2, <2>3, <2>5, <3>1
  <2>6. CASE q + 2 <= p
    <3>1. m * q + m * 2 <= m * p /\ m * q \in Nat /\ m * p \in Nat
      BY <2>6, TimesGrows
    <3> QED
      BY <2>2, <2>3, <2>6, <3>1
  <2> QED
    BY <2>1, <2>5, <2>6
<1> QED
  BY <1>1, <1>2

-----------------------------------------------------------------------------
(* The threads and calls counted.                                          *)

LEMMA Parts ==
    ASSUME NEW O \in SUBSET Client, NEW P \in SUBSET (Client \ O)
    PROVE  /\ Cardinality(O) \in Nat /\ Cardinality(P) \in Nat
           /\ Cardinality(O) <= Threads
           /\ Cardinality(P) <= Threads - Cardinality(O)
           /\ O # Client => Cardinality(O) < Threads
<1>1. IsFiniteSet(Client)
  BY EndpointsAreKnown
<1>2. IsFiniteSet(O) /\ IsFiniteSet(P) /\ IsFiniteSet(O \cup P)
  <2>1. P \in SUBSET Client /\ O \cup P \in SUBSET Client
    OBVIOUS
  <2> QED
    BY <1>1, <2>1, FS_Subset
<1>3. Cardinality(O \cup P) = Cardinality(O) + Cardinality(P)
  <2>1. Cardinality(O \cap P) = 0
    <3>1. O \cap P = {}
      OBVIOUS
    <3> QED
      BY <3>1, FS_EmptySet
  <2>2. Cardinality(O \cup P) =
          Cardinality(O) + Cardinality(P) - Cardinality(O \cap P)
    BY <1>2, FS_Union
  <2>3. Cardinality(O) \in Nat /\ Cardinality(P) \in Nat
    BY <1>2, FS_CardinalityType
  <2> QED
    BY <2>1, <2>2, <2>3
<1>4. Cardinality(O \cup P) <= Threads
  <2>1. O \cup P \in SUBSET Client
    OBVIOUS
  <2> QED
    BY <1>1, <2>1, FS_Subset DEF Threads
<1>5. Cardinality(O) <= Threads /\ (O # Client => Cardinality(O) # Threads)
  BY <1>1, FS_Subset DEF Threads
<1>6. Cardinality(O) \in Nat /\ Cardinality(P) \in Nat /\ Threads \in Nat
  BY <1>2, FS_CardinalityType, ThreadsNatural
<1> QED
  BY <1>3, <1>4, <1>5, <1>6

LEMMA SinceFinite ==
    ASSUME NEW calls \in Seq(Nat), NEW s,
           NEW S, S = {i \in DOMAIN calls : s <= calls[i]}
    PROVE  IsFiniteSet(S) /\ Cardinality(S) \in Nat
<1>1. IsFiniteSet(1..Len(calls))
  BY FS_Interval
<1>2. S \in SUBSET (1..Len(calls))
  OBVIOUS
<1> QED
  BY <1>1, <1>2, FS_Subset, FS_CardinalityType

LEMMA SinceGrows ==
    ASSUME passed \in Seq(Nat), NEW t \in Nat, passed' = Append(passed, t),
           NEW s \in Nat, s <= t
    PROVE  Cardinality(Since(s)') = Cardinality(Since(s)) + 1
<1> SUFFICES ASSUME NEW n \in Nat, n = Len(passed)
             PROVE  Cardinality(Since(s)') = Cardinality(Since(s)) + 1
  OBVIOUS
<1>1. /\ DOMAIN passed = 1..n /\ DOMAIN passed' = 1..(n + 1)
      /\ passed'[n + 1] = t /\ \A i \in 1..n : passed'[i] = passed[i]
  OBVIOUS
<1>2. Since(s)' = Since(s) \cup {n + 1} /\ n + 1 \notin Since(s)
  BY <1>1 DEF Since
<1>3. IsFiniteSet(Since(s))
  BY SinceFinite DEF Since
<1> QED
  BY <1>2, <1>3, FS_AddElement

\* What Budget says is what Fits says.
LEMMA BudgetFits ==
    ASSUME NEW s, NEW m,
           Fits(Cardinality(Since(s)), Count, Cardinality(Old(s)), Restarts(s), m)
    PROVE  Budget(s, m)
  BY DEF Fits, Budget

\* The threads that are about to be let pass or not.
AtGate(c) == at[c] \in {"compare", "limit"}

\* Nothing moves that the budget sees.
LEMMA BudgetStands ==
    ASSUME NEW s, NEW m, Budget(s, m), window' = window, passed' = passed,
           \A c \in Client : AtGate(c) \/ AtGate(c)' =>
               /\ at'[c] = at[c] /\ call'[c].now = call[c].now
               /\ call'[c].expired = call[c].expired
    PROVE  Budget(s, m)'
<1>1. Old(s)' = Old(s)
  BY DEF Old, AtGate
<1>2. Pending(s)' = Pending(s)
  BY <1>1 DEF Pending, AtGate
<1>3. Since(s)' = Since(s)
  BY DEF Since
<1>4. Restarts(s)' = Restarts(s) /\ Count' = Count
  BY <1>1, <1>2 DEF Restarts, Count
<1> QED
  BY <1>1, <1>3, <1>4 DEF Budget

\* A thread has decided, and whether it was let pass is known.
LEMMA BudgetSpent ==
    ASSUME GateTypes, LimitsHeld, NEW w, NEW m, Bounding(w, m), RateInv(w, m),
           NEW s \in Nat, s <= second, second < s + w,
           NEW c \in Client, at[c] = "limit",
           NEW to, to \notin {"compare", "limit"}, at' = [at EXCEPT ![c] = to],
           \A d \in Client \ {c} : call'[d] = call[d],
           NEW i \in {0, 1}, i = 0 => passed' = passed,
           i = 1 => passed' = Append(passed, second),
           Opened(c).count + i <= m,
           window' = <<[start |-> Opened(c).start, count |-> Opened(c).count + i]>>
    PROVE  Budget(s, m)'
<1>a. SUFFICES ASSUME NEW O, O = Old(s), NEW P, P = Pending(s),
                       NEW O2, O2 = Old(s)', NEW P2, P2 = Pending(s)',
                       NEW n, n = Cardinality(Since(s)), NEW t \in Nat, t = Threads,
                       NEW k, k = Cardinality(O), NEW r, r = Restarts(s),
                       NEW j, j = Cardinality(O2), NEW u, u = Restarts(s)'
                PROVE  Budget(s, m)'
  BY ThreadsNatural
<1>0. /\ m \in Nat /\ w \in Nat \ {0} /\ passed \in Seq(Nat) /\ second \in Nat
      /\ window # <<>> /\ window[1].start \in Nat /\ Count \in 0..m
      /\ Count = window[1].count /\ call[c].now \in Nat
  <2>1. m \in Nat /\ w \in Nat \ {0} /\ passed \in Seq(Nat) /\ second \in Nat
    BY DEF GateTypes, Bounding, LimitsHeld
  <2>2. call[c].now \in Nat
    <3>1. call[c] \in Call
      BY DEF GateTypes
    <3> QED
      BY <3>1 DEF Call
  <2>3. window # <<>> /\ window[1].start \in Nat /\ window[1].count \in Nat
        /\ window[1].count <= m
    BY DEF LimitsHeld, RateInv
  <2>4. Count = window[1].count
    BY <2>3 DEF Count
  <2> QED
    BY <2>1, <2>2, <2>3, <2>4
<1>1. /\ O \in SUBSET Client /\ P \in SUBSET (Client \ O)
      /\ O2 \in SUBSET Client /\ P2 \in SUBSET (Client \ O2)
  BY <1>a DEF Old, Pending
<1>2. /\ at'[c] = to
      /\ \A d \in Client \ {c} : at'[d] = at[d] /\ call'[d] = call[d]
  BY DEF GateTypes
<1>3. O2 = O \ {c} /\ P2 = P \ {c}
  <2>1. O2 = O \ {c}
    BY <1>a, <1>2 DEF Old
  <2> QED
    BY <1>a, <1>2, <2>1 DEF Pending
<1>4. c \in O <=> call[c].now < s
  BY <1>a DEF Old
<1>5. c \in P <=> c \notin O /\ call[c].expired
  BY <1>a DEF Pending
<1>6. /\ k \in Nat /\ k <= t /\ j \in Nat /\ j < t
      /\ Cardinality(P) \in Nat /\ Cardinality(P) <= t - k
      /\ Cardinality(P2) \in Nat /\ Cardinality(P2) <= t - j
  BY <1>a, <1>1, <1>3, Parts
<1>7. /\ c \in O => j = k - 1 /\ k \in 1..t /\ P2 = P
      /\ c \notin O => j = k
      /\ c \in P => Cardinality(P2) = Cardinality(P) - 1
      /\ c \notin P => P2 = P
  <2>1. IsFiniteSet(O) /\ IsFiniteSet(P)
    BY <1>1, EndpointsAreKnown, FS_Subset
  <2>2. c \in O => j = k - 1
    BY <1>a, <1>3, <2>1, FS_RemoveElement
  <2>3. c \in P => Cardinality(P2) = Cardinality(P) - 1
    BY <1>a, <1>3, <2>1, FS_RemoveElement
  <2>4. c \in O => k \in 1..t
    BY <1>6, <2>2
  <2>5. (c \notin O => O2 = O) /\ (c \notin P => P2 = P) /\ (c \in O => c \notin P)
    BY <1>1, <1>3
  <2> QED
    BY <1>a, <2>2, <2>3, <2>4, <2>5
<1>8. /\ r = IF window[1].start < s THEN t - k ELSE Cardinality(P)
      /\ r \in Nat /\ r <= t - k
  <2>1. r = IF window[1].start < s THEN t - k ELSE Cardinality(P)
    BY <1>a, <1>0 DEF Restarts
  <2> QED
    BY <1>0, <1>6, <2>1
<1>9. window' # <<>> /\ window'[1].start = Opened(c).start
      /\ window'[1].count = Opened(c).count + i /\ Count' = Opened(c).count + i
  BY DEF Count
<1>10. /\ u = IF Opened(c).start < s THEN t - j ELSE Cardinality(P2)
       /\ u \in Nat /\ u <= t - j
  <2>1. u = IF window'[1].start < s THEN t - j ELSE Cardinality(P2)
    BY <1>a, <1>9 DEF Restarts, Threads
  <2> QED
    BY <1>6, <1>9, <2>1
<1>11. n \in Nat /\ Cardinality(Since(s)') = n + i
  <2>1. n \in Nat
    BY <1>a, <1>0, SinceFinite DEF Since
  <2>2. CASE i = 0
    BY <1>a, <2>1, <2>2 DEF Since
  <2>3. CASE i = 1
    <3>1. passed' = Append(passed, second)
      BY <2>3
    <3>2. Cardinality(Since(s)') = Cardinality(Since(s)) + 1
      BY <1>0, <3>1, SinceGrows
    <3> QED
      BY <1>a, <2>1, <2>3, <3>2
  <2> QED
    BY <2>1, <2>2, <2>3
<1>12. Fits(n, Count, k, r, m)
  BY <1>a DEF RateInv, Budget, Fits
<1>13. \/ i + Count <= Count' /\ 2 * u + Opens(j) <= 2 * r + Opens(k)
       \/ 2 * u + Opens(j) + 2 <= 2 * r + Opens(k)
  <2>0. SUFFICES ASSUME NEW x \in Int, x = Opens(j), NEW y \in Int, y = Opens(k),
                        NEW q \in Nat, q = Cardinality(P)
                 PROVE  \/ i + Count <= Count' /\ 2 * u + x <= 2 * r + y
                        \/ 2 * u + x + 2 <= 2 * r + y
    <3>1. Opens(j) \in Int /\ Opens(k) \in Int
      BY <1>6, ThreadsNatural DEF Opens
    <3> QED
      BY <1>6, <3>1
  <2>1. k \in Nat /\ r \in Nat /\ u \in Nat /\ q <= t - k
    BY <1>6, <1>8, <1>10, <2>0
  <2>2. c \in O => y = x + 2 * (t - k) + 4 /\ k <= t
    BY <1>a, <1>7, <2>0, OpensDown
  <2>3. Opened(c) = IF call[c].expired THEN [start |-> call[c].now, count |-> 0]
                    ELSE window[1]
    BY DEF Opened
  <2>4. CASE c \notin O /\ ~call[c].expired
    <3>1. j = k /\ Cardinality(P2) = q /\ Opened(c) = window[1] /\ x = y
      BY <1>5, <1>7, <2>0, <2>3, <2>4
    <3>2. u = r
      BY <1>8, <1>10, <2>0, <3>1
    <3>3. i + Count <= Count'
      BY <1>0, <1>9, <3>1
    <3> QED
      BY <2>1, <3>1, <3>2, <3>3
  <2>5. CASE c \notin O /\ call[c].expired
    <3>1. /\ j = k /\ Cardinality(P2) = q - 1 /\ x = y
          /\ Opened(c).start = call[c].now /\ ~(call[c].now < s)
      BY <1>4, <1>5, <1>7, <2>0, <2>3, <2>5
    <3>2. u = q - 1 /\ r >= q
      BY <1>8, <1>10, <2>0, <2>1, <3>1
    <3> QED
      BY <2>1, <3>1, <3>2
  <2>6. CASE c \in O /\ ~call[c].expired
    <3>1. j = k - 1 /\ Cardinality(P2) = q /\ Opened(c) = window[1]
      BY <1>7, <2>0, <2>3, <2>6
    <3>2. u <= r + 1
      BY <1>0, <1>6, <1>8, <1>10, <2>0, <3>1
    <3>3. i + Count <= Count'
      BY <1>0, <1>9, <3>1
    <3>4. 2 * u + x <= 2 * r + y
      BY <2>1, <2>2, <2>6, <3>2
    <3> QED
      BY <3>3, <3>4
  <2>7. CASE c \in O /\ call[c].expired
    <3>1. j = k - 1 /\ Opened(c).start = call[c].now /\ call[c].now < s
      BY <1>4, <1>7, <2>3, <2>7
    <3>2. u = t - k + 1
      BY <1>10, <2>1, <3>1
    <3> QED
      BY <2>1, <2>2, <2>7, <3>2
  <2> QED
    BY <2>4, <2>5, <2>6, <2>7
<1>14. Count' \in 0..m /\ i <= Count'
  <2>1. Opened(c).count \in Nat
    BY <1>0 DEF Opened
  <2> QED
    BY <1>0, <1>9, <2>1
<1>15. Fits(n + i, Count', j, u, m)
  BY <1>a, <1>0, <1>6, <1>8, <1>10, <1>11, <1>12, <1>13, <1>14, FitsOn
<1> QED
  BY <1>a, <1>11, <1>15 DEF Fits, Budget, Threads, Opens

\* Whether the window has run out is compared.
LEMMA BudgetCompared ==
    ASSUME GateTypes, LimitsHeld, NEW w, NEW m, Bounding(w, m), RateInv(w, m),
           NEW s \in Nat, s <= second, second < s + w,
           NEW c \in Client, Compare(c)
    PROVE  Budget(s, m)'
<1>0. /\ m \in Nat /\ w \in Nat \ {0} /\ second \in Nat
      /\ call[c].now \in Nat /\ call[c].now <= second
      /\ call[c].record.window \in Nat /\ w <= call[c].record.window
  <2>1. /\ call[c] \in Call /\ second \in Nat /\ at[c] = "compare"
    BY DEF GateTypes, Compare
  <2>2. call[c].now \in Nat /\ call[c].record \in KeyEntry
    BY <2>1 DEF Call
  <2>3. call[c].record.window \in Nat
    BY <2>2 DEF KeyEntry
  <2>4. PICK o \in Limiting : call[c].record.window = o.window
    BY <2>1 DEF LimitsHeld, Bounded
  <2> QED
    BY <2>1, <2>2, <2>3, <2>4 DEF Bounding, LimitsHeld
<1>1. /\ at[c] = "compare" /\ at'[c] = "limit" /\ call'[c].now = call[c].now
      /\ call'[c].expired <=>
            Age(call[c].now, window'[1].start) >= call[c].record.window
      /\ \A d \in Client \ {c} : at'[d] = at[d] /\ call'[d] = call[d]
      /\ passed' = passed
  <2>1. call[c] \in Call
    BY DEF GateTypes
  <2>2. call[c].expired \in BOOLEAN /\ DOMAIN call[c] =
          {"path", "record", "now", "expired", "held", "end"}
    BY <2>1 DEF Call
  <2> QED
    BY <2>2 DEF GateTypes, Compare, Move
<1>2. Old(s)' = Old(s)
  BY <1>1 DEF Old
<1>3. Since(s)' = Since(s)
  BY <1>1 DEF Since
<1>4. CASE window # <<>>
  <2>1. window' = window /\ window[1].start \in Nat
    BY <1>4 DEF Compare, LimitsHeld
  <2>2. CASE window[1].start < s
    <3>1. Restarts(s)' = Restarts(s) /\ Count' = Count
      BY <1>2, <2>1, <2>2 DEF Restarts, Count, Threads
    <3> QED
      BY <1>2, <1>3, <3>1 DEF RateInv, Budget, Threads, Opens
  <2>3. CASE ~(window[1].start < s)
    <3>1. Age(call[c].now, window'[1].start) < w
      BY <1>0, <2>1, <2>3 DEF Age
    <3>2. Age(call[c].now, window'[1].start) \in Nat
      BY <1>0, <2>1 DEF Age
    <3>3. ~call'[c].expired
      <4>1. ~(Age(call[c].now, window'[1].start) >= call[c].record.window)
        BY <1>0, <3>1, <3>2
      <4> QED
        BY <1>1, <4>1
    <3>4. Pending(s)' = Pending(s)
      BY <1>1, <1>2, <3>3 DEF Pending
    <3>5. Restarts(s)' = Restarts(s) /\ Count' = Count
      BY <1>2, <2>1, <3>4 DEF Restarts, Count, Threads
    <3> QED
      BY <1>2, <1>3, <3>5 DEF RateInv, Budget, Threads, Opens
  <2> QED
    BY <2>2, <2>3
<1>5. CASE window = <<>>
  <2>0. SUFFICES ASSUME NEW O, O = Old(s), NEW P, P = Pending(s)',
                        NEW n, n = Cardinality(Since(s)), NEW t \in Nat, t = Threads,
                        NEW k, k = Cardinality(O), NEW u, u = Restarts(s)',
                        n # 0
                 PROVE  Budget(s, m)'
    BY <1>3, ThreadsNatural DEF Budget
  <2>1. Count = 0 /\ Count' = 0 /\ window' # <<>>
    BY <1>5 DEF Count, Compare
  <2>2. O \in SUBSET Client /\ P \in SUBSET (Client \ O)
    BY <1>2, <2>0 DEF Old, Pending
  <2>3. k \in Nat /\ Cardinality(P) \in Nat /\ Cardinality(P) <= t - k
    BY <2>0, <2>2, Parts
  <2>4. Restarts(s) = t - k
    BY <1>5, <2>0 DEF Restarts
  <2>5. u \in Nat /\ u <= t - k
    <3>1. u = t - k \/ u = Cardinality(P)
      BY <1>2, <2>0, <2>1 DEF Restarts, Threads
    <3>2. k < t
      BY <2>0 DEF RateInv, Budget
    <3> QED
      BY <2>3, <3>1, <3>2
  <2>6. k < t /\ Fits(n, 0, k, t - k, m)
    BY <2>0, <2>1, <2>4 DEF RateInv, Budget, Fits
  <2>7. n \in Nat /\ n + 0 = n
    <3>1. n \in Nat
      BY <2>0, SinceFinite DEF Since, LimitsHeld
    <3> QED
      BY <3>1
  <2>8. 2 * u + Opens(k) <= 2 * (t - k) + Opens(k)
    <3>1. Opens(k) \in Nat
      BY <2>0, <2>3, <2>6, OpensFit
    <3> QED
      BY <2>3, <2>5, <3>1
  <2>9. Fits(n + 0, 0, k, u, m)
    <3>1. SUFFICES ASSUME NEW r \in Nat, r = t - k PROVE Fits(n + 0, 0, k, u, m)
      BY <2>3, <2>6
    <3>2. SUFFICES ASSUME NEW z, z = 0 PROVE Fits(n + z, z, k, u, m)
      OBVIOUS
    <3>3. /\ m \in Nat /\ n \in Nat /\ z \in {0, 1} /\ z \in 0..m /\ z <= z
          /\ k \in Nat /\ r \in Nat /\ k <= Threads /\ r <= Threads - k
          /\ u \in Nat /\ k < Threads /\ u <= Threads - k
          /\ Fits(n, z, k, r, m)
          /\ z + z <= z /\ 2 * u + Opens(k) <= 2 * r + Opens(k)
      BY <1>0, <2>0, <2>3, <2>5, <2>6, <2>7, <2>8, <3>1, <3>2
    <3> QED
      BY <3>3, FitsOn
  <2> QED
    BY <1>2, <1>3, <2>0, <2>1, <2>7, <2>9 DEF Fits, Budget, Threads, Opens
<1> QED
  BY <1>4, <1>5

-----------------------------------------------------------------------------
(* Every step.                                                             *)

\* The limits a call is held to are those of a record there is.
LEMMA RecordBounded ==
    ASSUME kind \in Kind, store \in StoreRecord, Limited(RegistryRecord(store))
    PROVE  Bounded(RegistryRecord(store))
<1>0. store \in KeyEntry /\ kind.env \in KeyEntry /\ NoRecord \in KeyEntry
  BY EndpointsAreKnown DEF NoRecord, KeyEntry, TierName, StatusName
<1>1. /\ RegistryRecord(store).window = Merged(store).window
      /\ RegistryRecord(store).max = Merged(store).max
  <2>1. Merged(store) \in KeyEntry
    <3>1. WithDefaults(store) \in KeyEntry
      BY <1>0, EndpointsAreKnown DEF WithDefaults, KeyEntry, TierName, StatusName
    <3>2. [NoRecord EXCEPT !.tier = "admin", !.status = "active",
                           !.paths = DefaultPath \cup AdminOnly] \in KeyEntry
      BY <1>0, EndpointsAreKnown DEF KeyEntry, TierName, StatusName
    <3> QED
      BY <1>0, <3>1, <3>2 DEF Merged
  <2> QED
    BY <2>1 DEF RegistryRecord, KeyEntry
<1>2. /\ WithDefaults(store).window = store.window
      /\ WithDefaults(store).max = store.max
  BY <1>0 DEF WithDefaults, KeyEntry
<1>3. Limited(Merged(store))
  BY <1>1 DEF Limited
<1>4. ~Limited(NoRecord) /\ ~Limited([NoRecord EXCEPT !.tier = "admin",
            !.status = "active", !.paths = DefaultPath \cup AdminOnly])
  BY DEF Limited, NoRecord
<1>5. \/ Merged(store) = WithDefaults(store) \/ Merged(store) = kind.env
  BY <1>3, <1>4 DEF Merged
<1>6. CASE Merged(store) = WithDefaults(store)
  <2>1. store \in Limiting
    BY <1>2, <1>3, <1>6 DEF Limiting, Limited
  <2> QED
    BY <1>1, <1>2, <1>6, <2>1 DEF Bounded
<1>7. CASE Merged(store) = kind.env
  <2>1. kind.env \in Limiting
    BY <1>3, <1>7 DEF Limiting
  <2> QED
    BY <1>1, <1>7, <2>1 DEF Bounded
<1> QED
  BY <1>5, <1>6, <1>7

\* The window, its start and its count, and the calls let pass.
WindowHeld ==
    /\ window # <<>> =>
          /\ window = <<[start |-> window[1].start, count |-> window[1].count]>>
          /\ window[1].start \in Nat /\ window[1].count \in Nat
    /\ passed \in Seq(Nat) /\ \A i \in DOMAIN passed : passed[i] <= second

\* One thread moves.
LEMMA LimitsOfOne ==
    ASSUME GateTypes, LimitsHeld, NEW c \in Client, NEW to, NEW k,
           second' = second, WindowHeld', window # <<>> => window' # <<>>,
           at' = [at EXCEPT ![c] = to], call' = [call EXCEPT ![c] = k],
           to \in {"clock", "compare", "limit"} => Bounded(k.record),
           to \in {"compare", "limit"} => k.now <= second,
           to = "limit" => window' # <<>>
    PROVE  LimitsHeld'
<1>1. at'[c] = to /\ call'[c] = k
      /\ \A d \in Client \ {c} : at'[d] = at[d] /\ call'[d] = call[d]
  BY DEF GateTypes
<1> QED
  BY <1>1 DEF LimitsHeld, WindowHeld

\* No thread moves up to the gate.
LEMMA LimitsStand ==
    ASSUME GateTypes, LimitsHeld, second' \in Nat, second <= second',
           window' = window, passed' = passed,
           \A c \in Client : at'[c] \in {"clock", "compare", "limit"} =>
               /\ at'[c] = at[c] /\ call'[c].now = call[c].now
               /\ call'[c].record = call[c].record
    PROVE  LimitsHeld'
<1>1. ASSUME NEW c \in Client
      PROVE  /\ at'[c] \in {"clock", "compare", "limit"} => Bounded(call'[c].record)
             /\ at'[c] \in {"compare", "limit"} => call'[c].now <= second'
             /\ at'[c] = "limit" => window' # <<>>
  <2>1. call[c] \in Call
    BY DEF GateTypes
  <2>2. call[c].now \in Nat /\ second \in Nat
    BY <2>1 DEF Call, GateTypes
  <2> QED
    BY <2>2 DEF LimitsHeld
<1>2. WindowHeld'
  <2>1. \A i \in DOMAIN passed : passed[i] \in Nat /\ second \in Nat
    BY DEF LimitsHeld, GateTypes
  <2>2. \A i \in DOMAIN passed : passed[i] <= second'
    BY <2>1 DEF LimitsHeld
  <2> QED
    BY <2>2 DEF WindowHeld, LimitsHeld
<1> QED
  BY <1>1, <1>2 DEF LimitsHeld, WindowHeld

\* The steps of a call that stay away from the window.
Away ==
    \/ \E c \in Client, p \in Path : Reject(c, p)
    \/ \E c \in Client, p \in Path :
          Accept(c, p) /\ ~Limited(RegistryRecord(store))
    \/ \E c \in Client : Serve(c) \/ Deny(c) \/ Hangup(c)
    \/ \E r \in StoreRecord : EditStore(r)
    \/ UNCHANGED gateVars

LEMMA AwayMoves ==
    ASSUME GateTypes, Away
    PROVE  /\ window' = window /\ passed' = passed /\ second' = second
           /\ \A c \in Client :
                 \/ /\ at'[c] = at[c] /\ call'[c].now = call[c].now
                    /\ call'[c].record = call[c].record
                    /\ call'[c].expired = call[c].expired
                 \/ /\ at[c] \in {"idle", "serve", "answered"}
                    /\ at'[c] \in {"idle", "serve", "answered"}
<1>1. CASE \E r \in StoreRecord : EditStore(r)
  <2>1. \A c \in Client : /\ at'[c] = at[c] /\ call'[c].now = call[c].now
                          /\ call'[c].record = call[c].record
                          /\ call'[c].expired = call[c].expired
    <3>1. PICK r \in StoreRecord : EditStore(r)
      BY <1>1
    <3>2. ASSUME NEW c \in Client, NEW x
          PROVE  /\ [call[c] EXCEPT !.held = x].now = call[c].now
                 /\ [call[c] EXCEPT !.held = x].record = call[c].record
                 /\ [call[c] EXCEPT !.held = x].expired = call[c].expired
      <4>1. call[c] \in Call
        BY DEF GateTypes
      <4> QED
        BY <4>1 DEF Call
    <3>3. ASSUME NEW c \in Client
          PROVE  \E x : call'[c] = [call[c] EXCEPT !.held = x]
      BY <3>1, <3>3 DEF EditStore
    <3> QED
      BY <3>1, <3>2, <3>3 DEF EditStore
  <2> QED
    BY <1>1, <2>1 DEF EditStore
<1>2. CASE \E c \in Client : \E k :
              /\ at[c] \in {"idle", "serve", "answered"}
              /\ \E to \in {"idle", "serve", "answered"} :
                    at' = [at EXCEPT ![c] = to]
              /\ call' = [call EXCEPT ![c] = k]
              /\ UNCHANGED <<window, passed, second>>
  BY <1>2 DEF GateTypes
<1>3. CASE UNCHANGED gateVars
  BY <1>3 DEF gateVars
<1>4. ASSUME NEW c \in Client, NEW p \in Path, Reject(c, p)
      PROVE  \E k : /\ at[c] = "idle" /\ at' = [at EXCEPT ![c] = "answered"]
                    /\ call' = [call EXCEPT ![c] = k]
                    /\ UNCHANGED <<window, passed, second>>
  BY <1>4 DEF Reject, Move
<1>5. ASSUME NEW c \in Client, NEW p \in Path, Accept(c, p),
             ~Limited(RegistryRecord(store))
      PROVE  \E k : /\ at[c] = "idle" /\ at' = [at EXCEPT ![c] = "serve"]
                    /\ call' = [call EXCEPT ![c] = k]
                    /\ UNCHANGED <<window, passed, second>>
  BY <1>5 DEF Accept, Move
<1>6. ASSUME NEW c \in Client, Serve(c) \/ Deny(c)
      PROVE  \E k : /\ at[c] = "serve" /\ at' = [at EXCEPT ![c] = "answered"]
                    /\ call' = [call EXCEPT ![c] = k]
                    /\ UNCHANGED <<window, passed, second>>
  BY <1>6 DEF Serve, Deny, Respond, Move
<1>7. ASSUME NEW c \in Client, Hangup(c)
      PROVE  \E k : /\ at[c] = "answered" /\ at' = [at EXCEPT ![c] = "idle"]
                    /\ call' = [call EXCEPT ![c] = k]
                    /\ UNCHANGED <<window, passed, second>>
  BY <1>7 DEF Hangup, Move
<1> QED
  BY <1>1, <1>2, <1>3, <1>4, <1>5, <1>6, <1>7 DEF Away

RateAll ==
    /\ GateInv /\ LimitsHeld
    /\ \A w, m : Bounding(w, m) => RateInv(w, m)

\* The window a thread decides in, and what a call let pass leaves in it.
LEMMA OpenedTypes ==
    ASSUME GateTypes, LimitsHeld, NEW c \in Client, at[c] = "limit"
    PROVE  /\ Opened(c).count \in Nat /\ Opened(c).start \in Nat
           /\ Opened(c) = [start |-> Opened(c).start, count |-> Opened(c).count]
<1>1. call[c] \in Call
  BY DEF GateTypes
<1>2. call[c].now \in Nat
  BY <1>1 DEF Call
<1>3. /\ window # <<>> /\ window[1].start \in Nat /\ window[1].count \in Nat
      /\ window[1] = [start |-> window[1].start, count |-> window[1].count]
  BY DEF LimitsHeld
<1> QED
  BY <1>2, <1>3 DEF Opened

LEMMA UnderLimit ==
    ASSUME GateTypes, LimitsHeld, NEW w, NEW m, Bounding(w, m), RateInv(w, m),
           NEW c \in Client, at[c] = "limit",
           NEW i \in {0, 1}, i = 1 => Opened(c).count < call[c].record.max
    PROVE  Opened(c).count + i <= m
<1>1. call[c] \in Call
  BY DEF GateTypes
<1>2. call[c].now \in Nat /\ call[c].record.max \in Nat /\ Opened(c).count \in Nat
  BY <1>1, OpenedTypes DEF Call, KeyEntry
<1>3. /\ window # <<>> /\ window[1].count \in Nat
      /\ window[1].count <= m /\ m \in Nat
  BY DEF LimitsHeld, RateInv, Bounding
<1>4. call[c].record.max <= m
  <2>1. PICK o \in Limiting : call[c].record.max = o.max
    BY DEF LimitsHeld, Bounded
  <2> QED
    BY <2>1 DEF Bounding
<1>5. Opened(c).count <= m
  BY <1>2, <1>3 DEF Opened
<1> QED
  BY <1>2, <1>3, <1>4, <1>5

LEMMA RateStart == GateInit => RateAll
<1> SUFFICES ASSUME GateInit PROVE RateAll
  OBVIOUS
<1>1. LimitsHeld
  BY DEF GateInit, LimitsHeld
<1>2. ASSUME NEW s, NEW m PROVE Budget(s, m)
  <2>1. Since(s) = {}
    BY DEF GateInit, Since
  <2> QED
    BY <2>1, FS_EmptySet DEF Budget
<1>3. ASSUME NEW w, NEW m PROVE RateInv(w, m)
  BY <1>2 DEF RateInv, GateInit
<1> QED
  BY <1>1, <1>3, GateStart DEF RateAll

LEMMA RateStep == RateAll /\ [GateNext]_gateVars => RateAll'
<1> SUFFICES ASSUME RateAll, [GateNext]_gateVars PROVE RateAll'
  OBVIOUS
<1>0. GateTypes /\ LimitsHeld /\ second \in Nat /\ GateInv'
      /\ \A c \in Client : call[c] \in Call
  BY GateStep DEF RateAll, GateInv, GateTypes
<1>a. ASSUME NEW w, NEW m, Bounding(w, m) PROVE RateInv(w, m)
  BY <1>a DEF RateAll
\* Without a tick the spans are those of before.
<1>b. ASSUME LimitsHeld', second' = second,
             ASSUME NEW w, NEW m, Bounding(w, m)
             PROVE  /\ window' # <<>> => window'[1].count <= m
                    /\ \A s \in Nat : s <= second /\ second < s + w => Budget(s, m)'
      PROVE  RateAll'
  BY <1>0, <1>b DEF RateAll, RateInv
<1>1. CASE Away
  <2>1. LimitsHeld'
    <3>1. second <= second' /\ second' \in Nat
      BY <1>0, <1>1, AwayMoves
    <3> QED
      BY <1>0, <1>1, <3>1, AwayMoves, LimitsStand
  <2>2. ASSUME NEW w, NEW m, Bounding(w, m)
        PROVE  /\ window' # <<>> => window'[1].count <= m
               /\ \A s \in Nat : s <= second /\ second < s + w => Budget(s, m)'
    <3>1. RateInv(w, m) /\ window' = window /\ passed' = passed
      BY <1>0, <1>1, <1>a, <2>2, AwayMoves
    <3>2. \A c \in Client : AtGate(c) \/ AtGate(c)' =>
               /\ at'[c] = at[c] /\ call'[c].now = call[c].now
               /\ call'[c].expired = call[c].expired
      BY <1>0, <1>1, AwayMoves DEF AtGate
    <3> QED
      BY <3>1, <3>2, BudgetStands DEF RateInv
  <2>3. second' = second
    BY <1>0, <1>1, AwayMoves
  <2> QED
    BY <1>b, <2>1, <2>2, <2>3
<1>2. ASSUME NEW c \in Client, NEW p \in Path, Accept(c, p),
             Limited(RegistryRecord(store))
      PROVE  RateAll'
  <2> DEFINE k == [NoCall EXCEPT !.path = p, !.held = TRUE,
                                 !.record = RegistryRecord(store)]
  <2>1. /\ at[c] = "idle" /\ at' = [at EXCEPT ![c] = "clock"]
        /\ call' = [call EXCEPT ![c] = k] /\ k.record = RegistryRecord(store)
        /\ UNCHANGED <<second, window, passed>>
    BY <1>2 DEF Accept, Move, NoCall
  <2> HIDE DEF k
  <2>2. Bounded(k.record)
    BY <1>0, <1>2, <2>1, RecordBounded DEF GateTypes
  <2>3. WindowHeld'
    BY <1>0, <2>1 DEF LimitsHeld, WindowHeld
  <2>4. LimitsHeld'
    BY <1>0, <2>1, <2>2, <2>3, LimitsOfOne
  <2>5. \A d \in Client : AtGate(d) \/ AtGate(d)' =>
               /\ at'[d] = at[d] /\ call'[d].now = call[d].now
               /\ call'[d].expired = call[d].expired
    BY <1>0, <2>1 DEF AtGate, GateTypes
  <2> QED
    BY <1>a, <1>b, <2>1, <2>4, <2>5, BudgetStands DEF RateInv
<1>3. ASSUME NEW c \in Client, ReadClock(c) PROVE RateAll'
  <2> DEFINE k == [call[c] EXCEPT !.now = second]
  <2>1. /\ at[c] = "clock" /\ at' = [at EXCEPT ![c] = "compare"]
        /\ call' = [call EXCEPT ![c] = k]
        /\ k.record = call[c].record /\ k.now = second
        /\ UNCHANGED <<second, window, passed>>
    BY <1>0, <1>3 DEF ReadClock, Move, Call
  <2> HIDE DEF k
  <2>2. Bounded(k.record)
    BY <1>0, <2>1 DEF LimitsHeld
  <2>3. WindowHeld' /\ k.now <= second
    BY <1>0, <2>1 DEF LimitsHeld, WindowHeld
  <2>4. LimitsHeld'
    BY <1>0, <2>1, <2>2, <2>3, LimitsOfOne
  <2>5. /\ at'[c] = "compare" /\ call'[c].now = second
        /\ \A d \in Client \ {c} : at'[d] = at[d] /\ call'[d] = call[d]
    BY <1>0, <2>1 DEF GateTypes
  <2>6. ASSUME NEW s \in Nat, s <= second, NEW m, Budget(s, m) PROVE Budget(s, m)'
    <3>1. Old(s)' = Old(s)
      BY <1>0, <2>1, <2>5, <2>6 DEF Old
    <3>2. Pending(s)' = Pending(s)
      BY <2>1, <2>5, <3>1 DEF Pending
    <3>3. Since(s)' = Since(s) /\ Restarts(s)' = Restarts(s) /\ Count' = Count
      BY <2>1, <3>1, <3>2 DEF Since, Restarts, Count, Threads
    <3> QED
      BY <2>6, <3>1, <3>3 DEF Budget, Threads, Opens
  <2> QED
    BY <1>a, <1>b, <2>1, <2>4, <2>6 DEF RateInv
<1>4. ASSUME NEW c \in Client, Compare(c) PROVE RateAll'
  <2> DEFINE x == (Age(call[c].now, window'[1].start) >= call[c].record.window)
             k == [call[c] EXCEPT !.expired = x]
  <2>1. /\ at[c] = "compare" /\ at' = [at EXCEPT ![c] = "limit"]
        /\ call' = [call EXCEPT ![c] = k] /\ k.record = call[c].record
        /\ k.now = call[c].now /\ second' = second /\ passed' = passed
    BY <1>0, <1>4 DEF Compare, Move, Call
  <2>2. window' = IF window # <<>> THEN window
                  ELSE <<[start |-> call[c].now, count |-> 0]>>
    BY <1>4 DEF Compare
  <2> HIDE DEF k
  <2>3. Bounded(k.record) /\ k.now <= second /\ window' # <<>>
    BY <1>0, <2>1, <2>2 DEF LimitsHeld
  <2>4. WindowHeld'
    <3>1. call[c].now \in Nat
      BY <1>0 DEF Call
    <3>2. CASE window # <<>>
      BY <1>0, <2>1, <2>2, <3>2 DEF LimitsHeld, WindowHeld
    <3>3. CASE window = <<>>
      BY <1>0, <2>1, <2>2, <3>1, <3>3 DEF LimitsHeld, WindowHeld
    <3> QED
      BY <3>2, <3>3
  <2>5. LimitsHeld'
    BY <1>0, <2>1, <2>3, <2>4, LimitsOfOne
  <2>6. ASSUME NEW w, NEW m, Bounding(w, m)
        PROVE  /\ window' # <<>> => window'[1].count <= m
               /\ \A s \in Nat : s <= second /\ second < s + w => Budget(s, m)'
    <3>1. RateInv(w, m) /\ m \in Nat
      BY <1>a, <2>6 DEF Bounding
    <3>2. window'[1].count <= m
      BY <2>2, <3>1 DEF RateInv
    <3> QED
      BY <1>0, <1>4, <2>6, <3>1, <3>2, BudgetCompared
  <2> QED
    BY <1>b, <2>1, <2>5, <2>6
<1>5. ASSUME NEW c \in Client, Overrun(c) \/ Pass(c) PROVE RateAll'
  <2>0. at[c] = "limit" /\ second' = second
    BY <1>5 DEF Overrun, Pass
  <2>1. PICK to \in {"answered", "serve"} :
            /\ at' = [at EXCEPT ![c] = to]
            /\ \E k : call' = [call EXCEPT ![c] = k]
    <3>1. CASE Overrun(c)
      <4>1. call' = [call EXCEPT ![c] = [call[c] EXCEPT !.end = "429"]]
        BY <3>1, <1>0 DEF Overrun, Respond, GateTypes
      <4> QED
        BY <3>1, <4>1 DEF Overrun, Respond, Move
    <3>2. CASE Pass(c)
      <4>1. call' = [call EXCEPT ![c] = call[c]]
        BY <3>2, <1>0 DEF Pass, GateTypes
      <4> QED
        BY <3>2, <4>1 DEF Pass, Move
    <3> QED
      BY <1>5, <3>1, <3>2
  <2>k. PICK k : call' = [call EXCEPT ![c] = k]
    BY <2>1
  <2>2. /\ Opened(c).count \in Nat /\ Opened(c).start \in Nat
        /\ Opened(c) = [start |-> Opened(c).start, count |-> Opened(c).count]
    BY <1>0, <2>0, OpenedTypes
  <2>3. PICK i \in {0, 1} :
            /\ i = 0 => passed' = passed
            /\ i = 1 => /\ passed' = Append(passed, second)
                        /\ Opened(c).count < call[c].record.max
            /\ window' = <<[start |-> Opened(c).start,
                            count |-> Opened(c).count + i]>>
    <3>1. CASE Overrun(c)
      <4>1. Opened(c).count + 0 = Opened(c).count
        BY <2>2
      <4> QED
        BY <2>2, <3>1, <4>1 DEF Overrun
    <3>2. CASE Pass(c)
      <4>1. [Opened(c) EXCEPT !.count = @ + 1] =
              [start |-> Opened(c).start, count |-> Opened(c).count + 1]
        BY <2>2
      <4> QED
        BY <3>2, <4>1 DEF Pass
    <3> QED
      BY <1>5, <3>1, <3>2
  <2>4. WindowHeld' /\ window' # <<>>
    <3>1. /\ window' # <<>> /\ window'[1].start \in Nat /\ window'[1].count \in Nat
          /\ window' = <<[start |-> window'[1].start, count |-> window'[1].count]>>
      BY <2>2, <2>3
    <3>2. passed' \in Seq(Nat) /\ \A n \in DOMAIN passed' : passed'[n] <= second'
      <4>1. passed \in Seq(Nat) /\ \A n \in DOMAIN passed : passed[n] <= second
        BY <1>0 DEF LimitsHeld
      <4>2. CASE i = 0
        BY <2>0, <2>3, <4>1, <4>2
      <4>3. CASE i = 1
        <5>1. passed' = Append(passed, second) /\ second' = second /\ second \in Nat
          BY <1>0, <2>0, <2>3, <4>3
        <5>2. SUFFICES ASSUME NEW l \in Nat, l = Len(passed)
              PROVE  passed' \in Seq(Nat) /\ \A n \in DOMAIN passed' : passed'[n] <= second'
          BY <4>1
        <5>3. /\ passed' \in Seq(Nat) /\ DOMAIN passed' = 1..(l + 1)
              /\ DOMAIN passed = 1..l /\ passed'[l + 1] = second
              /\ \A n \in 1..l : passed'[n] = passed[n]
          BY <4>1, <5>1, <5>2
        <5>4. \A n \in 1..(l + 1) : n \in 1..l \/ n = l + 1
          BY <5>2
        <5> QED
          BY <4>1, <5>1, <5>3, <5>4
      <4> QED
        BY <4>2, <4>3
    <3> QED
      BY <3>1, <3>2 DEF WindowHeld
  <2>5. LimitsHeld'
    BY <1>0, <2>0, <2>1, <2>k, <2>4, LimitsOfOne
  <2>6. ASSUME NEW w, NEW m, Bounding(w, m)
        PROVE  /\ window' # <<>> => window'[1].count <= m
               /\ \A s \in Nat : s <= second /\ second < s + w => Budget(s, m)'
    <3>1. RateInv(w, m)
      BY <1>a, <2>6
    <3>2. \A d \in Client \ {c} : call'[d] = call[d]
      BY <1>0, <2>1, <2>k DEF GateTypes
    <3>3. Opened(c).count + i <= m
      BY <1>0, <2>0, <2>3, <2>6, <3>1, UnderLimit
    <3>4. to \notin {"compare", "limit"}
      OBVIOUS
    <3>5. ASSUME NEW s \in Nat, s <= second, second < s + w PROVE Budget(s, m)'
      BY <1>0, <2>0, <2>1, <2>k, <2>3, <2>6, <3>1, <3>2, <3>3, <3>4, <3>5, BudgetSpent
    <3> QED
      BY <2>3, <3>3, <3>5
  <2> QED
    BY <1>b, <2>0, <2>5, <2>6
<1>6. CASE Tick
  <2>1. /\ second' = second + 1 /\ UNCHANGED <<window, at, call, passed>>
    BY <1>6 DEF Tick
  <2>2. LimitsHeld'
    BY <1>0, <2>1, LimitsStand
  <2>3. ASSUME NEW w, NEW m, Bounding(w, m) PROVE RateInv(w, m)'
    <3>1. RateInv(w, m) /\ w \in Nat
      BY <1>a, <2>3 DEF Bounding
    <3>2. ASSUME NEW s \in Nat, s <= second, second < s + w PROVE Budget(s, m)'
      BY <2>1, <3>1, <3>2, BudgetStands DEF RateInv
    <3>3. ASSUME NEW s \in Nat, s = second + 1 PROVE Budget(s, m)'
      <4>1. \A i \in DOMAIN passed : passed[i] \in Nat /\ passed[i] <= second
        BY <1>0 DEF LimitsHeld
      <4>2. Since(s)' = {}
        BY <1>0, <2>1, <3>3, <4>1 DEF Since
      <4> QED
        BY <4>2, FS_EmptySet DEF Budget
    <3>4. ASSUME NEW s \in Nat, s <= second', second' < s + w PROVE Budget(s, m)'
      <4>1. (s <= second /\ second < s + w) \/ s = second + 1
        BY <1>0, <2>1, <3>1, <3>4
      <4> QED
        BY <3>2, <3>3, <4>1
    <3>5. (window # <<>> => window[1].count <= m)'
      BY <2>1, <3>1 DEF RateInv
    <3> QED
      BY <3>4, <3>5 DEF RateInv
  <2> QED
    BY <1>0, <2>2, <2>3 DEF RateAll
<1> QED
  BY <1>1, <1>2, <1>3, <1>4, <1>5, <1>6 DEF GateNext, Away

\* What the budgets leave for the span that is looked at.
LEMMA RateBounded == RateAll => RateOverrunBounded
<1> SUFFICES ASSUME RateAll, NEW o \in Limiting, NEW q \in Limiting,
                    \A r \in Limiting : o.window <= r.window /\ r.max <= q.max
             PROVE  2 * Cardinality(PassedWithin(o.window))
                      <= q.max * (Threads * (Threads + 3))
  BY DEF RateOverrunBounded, Threads
<1>1. SUFFICES ASSUME NEW w \in Nat \ {0}, w = o.window, NEW m \in Nat, m = q.max
               PROVE  2 * Cardinality(PassedWithin(w)) <= m * (Threads * (Threads + 3))
  <2>1. o \in KeyEntry /\ q \in KeyEntry /\ Limited(o)
    BY EndpointsAreKnown DEF Limiting
  <2> QED
    BY <2>1 DEF Limited, KeyEntry
<1>2. /\ RateInv(w, m) /\ LimitsHeld /\ second \in Nat /\ m \in Nat
      /\ Count \in 0..m
  <2>1. RateInv(w, m)
    BY <1>1 DEF RateAll, Bounding
  <2>2. LimitsHeld /\ second \in Nat
    BY DEF RateAll, GateInv, GateTypes
  <2> QED
    BY <2>1, <2>2 DEF Count, RateInv, LimitsHeld
<1>3. PICK s \in Nat : /\ s <= second /\ second < s + w
                       /\ \A p \in Nat : second < p + w <=> s <= p
  <2>1. CASE second < w
    <3>1. 0 \in Nat /\ 0 <= second /\ second < 0 + w
          /\ \A p \in Nat : second < p + w <=> 0 <= p
      BY <1>2, <2>1
    <3> QED
      BY <3>1
  <2>2. CASE second >= w
    <3>1. /\ second - w + 1 \in Nat /\ second - w + 1 <= second
          /\ second < second - w + 1 + w
          /\ \A p \in Nat : second < p + w <=> second - w + 1 <= p
      BY <1>2, <2>2
    <3> QED
      BY <3>1
  <2> QED
    BY <1>2, <2>1, <2>2
<1>4. PassedWithin(w) = Since(s)
  <2>1. \A i \in DOMAIN passed : passed[i] \in Nat
    BY <1>2 DEF LimitsHeld
  <2>2. \A i \in DOMAIN passed : second < passed[i] + w <=> s <= passed[i]
    BY <1>3, <2>1
  <2> QED
    BY <2>2 DEF PassedWithin, Since
<1>5. SUFFICES ASSUME NEW n, n = Cardinality(Since(s)),
                      NEW k, k = Cardinality(Old(s)), NEW r, r = Restarts(s),
                      NEW b, b = m * (Threads * (Threads + 3))
               PROVE  2 * n <= b
  BY <1>4
<1>6. n \in Nat /\ b \in Nat
  <2>1. passed \in Seq(Nat)
    BY <1>2 DEF LimitsHeld
  <2>2. n \in Nat
    BY <1>5, <2>1, SinceFinite DEF Since
  <2>3. m * (Threads * (Threads + 3)) \in Nat
    BY ThreadsNatural
  <2> QED
    BY <1>5, <2>2, <2>3
<1>7. CASE n = 0
  BY <1>6, <1>7
<1>8. CASE n # 0
  <2>1. k < Threads /\ 2 * n + 2 * (m - Count) + m * (2 * r + Opens(k)) <= b
    BY <1>2, <1>3, <1>5, <1>8 DEF RateInv, Budget
  <2>2. k \in Nat /\ r \in Nat /\ r <= Threads - k
    <3>1. Old(s) \in SUBSET Client /\ Pending(s) \in SUBSET (Client \ Old(s))
      BY DEF Old, Pending
    <3>2. /\ k \in Nat /\ Cardinality(Pending(s)) \in Nat
          /\ Cardinality(Pending(s)) <= Threads - k
      BY <1>5, <3>1, Parts
    <3>3. r = Threads - k \/ r = Cardinality(Pending(s))
      BY <1>5 DEF Restarts
    <3> QED
      BY <2>1, <3>2, <3>3, ThreadsNatural
  <2>3. m * (2 * r + Opens(k)) \in Nat
    <3>1. Opens(k) \in Nat
      BY <2>1, <2>2, OpensFit
    <3>2. 2 * r + Opens(k) \in Nat
      BY <2>2, <3>1
    <3> QED
      BY <1>2, <3>2
  <2> QED
    BY <1>2, <1>6, <2>1, <2>3
<1> QED
  BY <1>7, <1>8

\* However many threads share the window of a key, whatever times they carry
\* and whoever changes the limits meanwhile, a span admits no more
\* (require_entitlement).
THEOREM RateOverrunIsBounded == GateSpec => []RateOverrunBounded
  BY RateStart, RateStep, RateBounded, PTL DEF GateSpec

-----------------------------------------------------------------------------
(* The feed: its inductive invariant.                                      *)

Asked == [at : {"verify", "settle", "stamp"}, consumer : FeedConsumer,
          payment : SUBSET Payment]
Stamped == [at : {"meter"}, consumer : FeedConsumer, payment : SUBSET Payment,
            time : Nat]
Delivery == [consumer : FeedConsumer, month : Nat, payment : SUBSET Payment]

Identified(d) == d.consumer \in Holder \/ d.payment # {}
LineOK(d) ==
    \/ d = Waiting
    \/ d \in Asked /\ Identified(d)
    \/ d \in Stamped /\ Identified(d) /\ d.time <= instant

LinesOK ==
    /\ instant \in Nat
    /\ line = [t \in Line |-> line[t]]
    /\ \A t \in Line : LineOK(line[t])

\* The payment a line has settled and not yet served.
Bought(d) == IF d.at \in {"stamp", "meter"} THEN d.payment ELSE {}

PaymentsOK ==
    /\ \A t \in Line : Bought(line[t]) \subseteq chain
    /\ \A t, u \in Line : t # u => Bought(line[t]) \cap Bought(line[u]) = {}
    /\ \A t \in Line, i \in DOMAIN served :
          Bought(line[t]) \cap served[i].payment = {}

ServedOK ==
    /\ served \in Seq(Delivery)
    /\ \A i \in DOMAIN served : Identified(served[i]) /\ served[i].payment \subseteq chain
    /\ \A i, j \in DOMAIN served :
          served[i].payment \cap served[j].payment # {} => i = j

\* A usage record, of which only the month and the usage matter here.
Usage(r) ==
    /\ r = [month |-> r.month, usage |-> r.usage, billable |-> r.billable,
            calls |-> r.calls, last |-> r.last, recent |-> r.recent]
    /\ r.usage \in Nat /\ r.month \in Nat

\* A book, the meter or its file, that no delivery has escaped.
Counted(c, r) ==
    /\ r.usage >= Cardinality(Deliveries(c, r.month))
    /\ \A i \in DOMAIN served :
          served[i].consumer = c => served[i].month <= r.month
BookOK(book) ==
    /\ \A i \in DOMAIN served : served[i].consumer \in DOMAIN book
    /\ \A c \in DOMAIN book : Counted(c, book[c])
BookType(book) ==
    \A c \in DOMAIN book : Usage(book[c]) /\ book[c].month <= Month(instant)

BooksOK ==
    /\ BookType(meter) /\ BookType(meterFile)
    /\ ~reversed => BookOK(meter) /\ BookOK(meterFile)

FeedInv == LinesOK /\ PaymentsOK /\ ServedOK /\ BooksOK
-----------------------------------------------------------------------------
(* Months, and how many deliveries there are.                              *)

LEMMA MonthsAscend ==
    ASSUME NEW a \in Nat, NEW b \in Nat, a <= b
    PROVE  Month(a) <= Month(b) /\ Month(a) \in Nat /\ Month(b) \in Nat
<1>1. MonthLength \in Nat \ {0}
  BY FeedConstants
<1> QED
  BY <1>1 DEF Month

LEMMA DeliveriesFinite ==
    ASSUME ServedOK, NEW c, NEW m
    PROVE  IsFiniteSet(Deliveries(c, m)) /\ Cardinality(Deliveries(c, m)) \in Nat
<1>1. DOMAIN served = 1..Len(served) /\ Len(served) \in Nat
  BY DEF ServedOK
<1>2. IsFiniteSet(1..Len(served))
  BY <1>1, FS_Interval
<1>3. Deliveries(c, m) \subseteq 1..Len(served)
  BY <1>1 DEF Deliveries
<1> QED
  BY <1>2, <1>3, FS_Subset, FS_CardinalityType

LEMMA ServedMonths ==
    ASSUME ServedOK PROVE \A i \in DOMAIN served : served[i].month \in Nat
<1>1. \A i \in DOMAIN served : served[i] \in Delivery
  BY DEF ServedOK
<1> QED
  BY <1>1 DEF Delivery

LEMMA NoDeliveries ==
    ASSUME NEW c, NEW m,
           \A i \in DOMAIN served : served[i].consumer = c => served[i].month # m
    PROVE  Cardinality(Deliveries(c, m)) = 0
<1>1. Deliveries(c, m) = {}
  BY DEF Deliveries
<1> QED
  BY <1>1, FS_EmptySet

\* A delivery counts for its consumer and month, and for no other.
LEMMA OneMore ==
    ASSUME ServedOK, NEW d \in Delivery, served' = Append(served, d), NEW c, NEW m
    PROVE  /\ Cardinality(Deliveries(c, m)') =
                IF c = d.consumer /\ m = d.month
                THEN Cardinality(Deliveries(c, m)) + 1
                ELSE Cardinality(Deliveries(c, m))
<1> DEFINE n == Len(served) + 1
<1>1. /\ DOMAIN served = 1..Len(served) /\ Len(served) \in Nat
      /\ DOMAIN served' = 1..n
      /\ \A i \in DOMAIN served : served'[i] = served[i]
      /\ served'[n] = d
  BY DEF ServedOK
<1>2. DOMAIN served' = DOMAIN served \cup {n} /\ n \notin DOMAIN served
  BY <1>1
<1> HIDE DEF n
<1>3. n \notin Deliveries(c, m)
  BY <1>2 DEF Deliveries
<1>4. CASE c = d.consumer /\ m = d.month
  <2>1. Deliveries(c, m)' = Deliveries(c, m) \cup {n}
    BY <1>1, <1>2, <1>4 DEF Deliveries
  <2> QED
    BY <1>3, <1>4, <2>1, DeliveriesFinite, FS_AddElement
<1>5. CASE ~(c = d.consumer /\ m = d.month)
  <2>1. Deliveries(c, m)' = Deliveries(c, m)
    BY <1>1, <1>2, <1>5 DEF Deliveries
  <2> QED
    BY <1>5, <2>1
<1> QED
  BY <1>4, <1>5
-----------------------------------------------------------------------------
(* Payments.                                                               *)

LEMMA OneLine ==
    ASSUME LinesOK, NEW t \in Line, NEW d, line' = [line EXCEPT ![t] = d],
           LineOK(d)', instant' = instant
    PROVE  /\ LinesOK' /\ line'[t] = d
           /\ \A u \in Line : u # t => line'[u] = line[u]
<1>1. /\ line' = [u \in Line |-> line'[u]] /\ line'[t] = d
      /\ \A u \in Line : u # t => line'[u] = line[u]
  BY DEF LinesOK
<1>2. \A u \in Line : u # t => LineOK(line[u])'
  BY <1>1 DEF LinesOK, LineOK
<1> QED
  BY <1>1, <1>2 DEF LinesOK

\* A line moves without buying; the chain only grows.
LEMMA LineMoves ==
    ASSUME FeedInv, NEW t \in Line, NEW d, line' = [line EXCEPT ![t] = d],
           chain \subseteq chain', instant' = instant, served' = served,
           LineOK(d)', Bought(d) \subseteq Bought(line[t])
    PROVE  LinesOK' /\ PaymentsOK' /\ ServedOK'
<1>1. /\ LinesOK' /\ line'[t] = d
      /\ \A u \in Line : u # t => line'[u] = line[u]
  BY OneLine DEF FeedInv
<1>2. \A u \in Line : Bought(line'[u]) \subseteq Bought(line[u])
  BY <1>1
<1>3. PaymentsOK'
  <2>1. \A u \in Line : Bought(line'[u]) \subseteq chain'
    BY <1>2 DEF FeedInv, PaymentsOK
  <2>2. \A u, v \in Line : u # v => Bought(line'[u]) \cap Bought(line'[v]) = {}
    BY <1>2 DEF FeedInv, PaymentsOK
  <2>3. \A u \in Line, i \in DOMAIN served' :
           Bought(line'[u]) \cap served'[i].payment = {}
    BY <1>2 DEF FeedInv, PaymentsOK
  <2> QED
    BY <2>1, <2>2, <2>3 DEF PaymentsOK, Bought
<1>4. ServedOK'
  BY DEF FeedInv, ServedOK, Identified
<1> QED
  BY <1>1, <1>3, <1>4

\* A payment not on the chain is nobody's yet.
LEMMA LineBuys ==
    ASSUME FeedInv, NEW t \in Line, NEW d, line' = [line EXCEPT ![t] = d],
           NEW paid, paid \cap chain = {}, chain' = chain \cup paid,
           instant' = instant, served' = served, LineOK(d)', Bought(d) = paid
    PROVE  LinesOK' /\ PaymentsOK' /\ ServedOK'
<1>1. /\ LinesOK' /\ line'[t] = d
      /\ \A u \in Line : u # t => line'[u] = line[u]
  BY OneLine DEF FeedInv
<1>2. \A u \in Line : u # t => Bought(line'[u]) = Bought(line[u])
                               /\ Bought(line[u]) \subseteq chain
  BY <1>1 DEF FeedInv, PaymentsOK
<1>3. Bought(line'[t]) = paid
  BY <1>1
<1>4. \A i \in DOMAIN served : served[i].payment \subseteq chain
  BY DEF FeedInv, ServedOK
<1>5. PaymentsOK'
  <2>1. \A u \in Line : Bought(line'[u]) \subseteq chain'
    BY <1>2, <1>3
  <2>2. \A u, v \in Line : u # v => Bought(line'[u]) \cap Bought(line'[v]) = {}
    BY <1>2, <1>3 DEF FeedInv, PaymentsOK
  <2>3. \A u \in Line, i \in DOMAIN served' :
           Bought(line'[u]) \cap served'[i].payment = {}
    BY <1>2, <1>3, <1>4 DEF FeedInv, PaymentsOK
  <2> QED
    BY <2>1, <2>2, <2>3 DEF PaymentsOK, Bought
<1>6. ServedOK'
  BY DEF FeedInv, ServedOK, Identified
<1> QED
  BY <1>1, <1>5, <1>6

\* The books of a step that meters nothing.
LEMMA BooksStand ==
    ASSUME FeedInv, instant' = instant, meter' = meter, meterFile' = meterFile,
           served' = served, reversed' = reversed
    PROVE  BooksOK'
  BY DEF FeedInv, BooksOK, BookOK, BookType, Counted, Deliveries, Month

-----------------------------------------------------------------------------
(* The feed: its steps.                                                    *)

LEMMA AskKept ==
    ASSUME FeedInv, NEW t \in Line,
           (\E c \in Holder : AskAsHolder(t, c)) \/ (\E p \in Payment : AskPaying(t, p))
    PROVE  FeedInv'
<1>1. PICK d : /\ line' = [line EXCEPT ![t] = d]
               /\ d \in Asked /\ Identified(d) /\ Bought(d) = {}
  <2>1. ASSUME NEW c \in Holder, AskAsHolder(t, c)
        PROVE  \E d : /\ line' = [line EXCEPT ![t] = d]
                      /\ d \in Asked /\ Identified(d) /\ Bought(d) = {}
    <3> DEFINE d == [at |-> "stamp", consumer |-> c, payment |-> {}]
    <3>1. d \in Asked /\ Identified(d) /\ Bought(d) = {}
      BY DEF Asked, Identified, Bought, FeedConsumer
    <3> QED
      BY <2>1, <3>1 DEF AskAsHolder
  <2>2. ASSUME NEW p \in Payment, AskPaying(t, p)
        PROVE  \E d : /\ line' = [line EXCEPT ![t] = d]
                      /\ d \in Asked /\ Identified(d) /\ Bought(d) = {}
    <3> DEFINE d == [at |-> "verify", consumer |-> PayerOf[p], payment |-> {p}]
    <3>1. d \in Asked /\ Identified(d) /\ Bought(d) = {}
      BY DEF Asked, Identified, Bought, FeedConsumer
    <3> QED
      BY <2>2, <3>1 DEF AskPaying
  <2> QED
    BY <2>1, <2>2
<1>2. /\ instant' = instant /\ chain' = chain /\ meter' = meter
      /\ meterFile' = meterFile /\ served' = served /\ reversed' = reversed
  BY DEF AskAsHolder, AskPaying
<1>3. LineOK(d)'
  BY <1>1 DEF LineOK
<1> QED
  BY <1>1, <1>2, <1>3, LineMoves, BooksStand DEF FeedInv

\* A line that leaves buys nothing.
LEMMA LeaveKept ==
    ASSUME FeedInv, NEW t \in Line, Leave(t), chain \subseteq chain',
           instant' = instant, served' = served
    PROVE  LinesOK' /\ PaymentsOK' /\ ServedOK'
<1>1. LineOK(Waiting)' /\ Bought(Waiting) = {}
  BY DEF LineOK, Bought, Waiting
<1> QED
  BY <1>1, LineMoves DEF Leave

\* What a line at a step is.
LEMMA LineAt ==
    ASSUME FeedInv, NEW t \in Line
    PROVE  /\ line[t].at \in {"verify", "settle", "stamp"} =>
                 line[t] \in Asked /\ Identified(line[t])
           /\ line[t].at = "meter" =>
                 /\ line[t] \in Stamped /\ Identified(line[t])
                 /\ line[t].time <= instant
  BY DEF FeedInv, LinesOK, LineOK, Waiting, Asked, Stamped

LEMMA MovesOn ==
    ASSUME NEW d \in Asked, Identified(d), NEW to \in {"settle", "stamp"}
    PROVE  LET e == [d EXCEPT !.at = to]
           IN  /\ e \in Asked /\ Identified(e)
               /\ Bought(e) = IF to = "stamp" THEN d.payment ELSE {}
  BY DEF Asked, Identified, Bought

LEMMA VerifyKept == ASSUME FeedInv, NEW t \in Line, Verify(t) PROVE FeedInv'
<1>1. /\ line[t].at = "verify"
      /\ To(t, "settle") \/ Leave(t)
      /\ instant' = instant /\ chain' = chain /\ meter' = meter
      /\ meterFile' = meterFile /\ served' = served /\ reversed' = reversed
  BY DEF Verify
<1>2. LinesOK' /\ PaymentsOK' /\ ServedOK'
  <2>1. CASE Leave(t)
    BY <1>1, <2>1, LeaveKept
  <2>2. CASE To(t, "settle")
    <3> SUFFICES ASSUME NEW d, d = [line[t] EXCEPT !.at = "settle"]
                 PROVE  LinesOK' /\ PaymentsOK' /\ ServedOK'
      OBVIOUS
    <3>1. line' = [line EXCEPT ![t] = d]
      BY <2>2 DEF To
    <3>2. d \in Asked /\ Identified(d) /\ Bought(d) = {}
      BY <1>1, LineAt, MovesOn
    <3>3. LineOK(d)'
      BY <3>2 DEF LineOK
    <3> QED
      BY <1>1, <3>1, <3>2, <3>3, LineMoves
  <2> QED
    BY <1>1, <2>1, <2>2
<1> QED
  BY <1>1, <1>2, BooksStand DEF FeedInv

LEMMA SettleKept == ASSUME FeedInv, NEW t \in Line, Settle(t) PROVE FeedInv'
<1>1. /\ line[t].at = "settle"
      /\ \/ /\ line[t].payment \cap chain = {}
            /\ chain' = chain \cup line[t].payment /\ To(t, "stamp")
         \/ Leave(t) /\ chain' = chain
      /\ instant' = instant /\ meter' = meter
      /\ meterFile' = meterFile /\ served' = served /\ reversed' = reversed
  BY DEF Settle
<1>2. LinesOK' /\ PaymentsOK' /\ ServedOK'
  <2>1. CASE Leave(t) /\ chain' = chain
    BY <1>1, <2>1, LeaveKept
  <2>2. CASE /\ line[t].payment \cap chain = {}
             /\ chain' = chain \cup line[t].payment /\ To(t, "stamp")
    <3> SUFFICES ASSUME NEW d, d = [line[t] EXCEPT !.at = "stamp"]
                 PROVE  LinesOK' /\ PaymentsOK' /\ ServedOK'
      OBVIOUS
    <3>1. line' = [line EXCEPT ![t] = d]
      BY <2>2 DEF To
    <3>2. d \in Asked /\ Identified(d) /\ Bought(d) = line[t].payment
      BY <1>1, LineAt, MovesOn
    <3>3. LineOK(d)'
      BY <3>2 DEF LineOK
    <3> QED
      BY <1>1, <2>2, <3>1, <3>2, <3>3, LineBuys
  <2> QED
    BY <1>1, <2>1, <2>2
<1> QED
  BY <1>1, <1>2, BooksStand DEF FeedInv

LEMMA FailKept ==
    ASSUME FeedInv, NEW t \in Line, NEW settled \in BOOLEAN, FacilitatorFails(t, settled)
    PROVE  FeedInv'
<1>1. /\ Leave(t) /\ chain \subseteq chain'
      /\ instant' = instant /\ meter' = meter
      /\ meterFile' = meterFile /\ served' = served /\ reversed' = reversed
  BY DEF FacilitatorFails
<1> QED
  BY <1>1, LeaveKept, BooksStand DEF FeedInv

LEMMA StampKept == ASSUME FeedInv, NEW t \in Line, Stamp(t) PROVE FeedInv'
<1> SUFFICES ASSUME NEW d, d = [at |-> "meter", consumer |-> line[t].consumer,
                                payment |-> line[t].payment, time |-> instant]
             PROVE  FeedInv'
  OBVIOUS
<1>1. /\ line[t].at = "stamp" /\ line' = [line EXCEPT ![t] = d]
      /\ instant' = instant /\ chain' = chain /\ meter' = meter
      /\ meterFile' = meterFile /\ served' = served /\ reversed' = reversed
  BY DEF Stamp
<1>2. instant \in Nat
  BY DEF FeedInv, LinesOK
<1>3. /\ d \in Stamped /\ Identified(d) /\ d.time = instant
      /\ Bought(d) = line[t].payment /\ Bought(line[t]) = line[t].payment
  BY <1>1, <1>2, LineAt DEF Asked, Stamped, Identified, Bought
<1>4. LineOK(d)'
  BY <1>1, <1>2, <1>3 DEF LineOK
<1>5. LinesOK' /\ PaymentsOK' /\ ServedOK'
  BY <1>1, <1>3, <1>4, LineMoves
<1> QED
  BY <1>1, <1>5, BooksStand DEF FeedInv

LEMMA TickKept == ASSUME FeedInv, FeedTick PROVE FeedInv'
<1>1. /\ instant' = instant + 1 /\ line' = line /\ chain' = chain /\ meter' = meter
      /\ meterFile' = meterFile /\ served' = served /\ reversed' = reversed
      /\ instant \in Nat
  BY DEF FeedTick, FeedInv, LinesOK
<1>2. LinesOK'
  <2>1. \A d : LineOK(d) => LineOK(d)'
    BY <1>1 DEF LineOK, Stamped
  <2> QED
    BY <1>1, <2>1 DEF FeedInv, LinesOK
<1>3. PaymentsOK' /\ ServedOK'
  BY <1>1 DEF FeedInv, PaymentsOK, ServedOK, Bought, Identified
<1>4. Month(instant) <= Month(instant') /\ Month(instant) \in Nat
      /\ Month(instant') \in Nat
  BY <1>1, MonthsAscend
<1>5. BookType(meter)' /\ BookType(meterFile)'
  BY <1>1, <1>4 DEF FeedInv, BooksOK, BookType, Usage
<1>6. (~reversed => BookOK(meter) /\ BookOK(meterFile))'
  BY <1>1 DEF FeedInv, BooksOK, BookOK, Counted, Deliveries
<1> QED
  BY <1>2, <1>3, <1>5, <1>6 DEF FeedInv, BooksOK

LEMMA StopsKept == ASSUME FeedInv, NEW mode, FeedStops(mode) PROVE FeedInv'
<1>1. /\ line' = [t \in Line |-> Waiting] /\ instant' = instant /\ chain' = chain
      /\ meter' = meterFile /\ meterFile' = meterFile /\ served' = served
      /\ reversed' = reversed
  BY DEF FeedStops
<1>2. LinesOK'
  BY <1>1 DEF FeedInv, LinesOK, LineOK
<1>3. Bought(Waiting) = {}
  BY DEF Bought, Waiting
<1>4. \A t \in Line : Bought(line'[t]) = {}
  BY <1>1, <1>3
<1>5. PaymentsOK'
  BY <1>1, <1>4 DEF PaymentsOK, Bought
<1>6. ServedOK'
  BY <1>1 DEF FeedInv, ServedOK, Identified
<1>7. BookType(meter)' /\ BookType(meterFile)'
  BY <1>1 DEF FeedInv, BooksOK, BookType, Month
<1>8. (~reversed => BookOK(meter) /\ BookOK(meterFile))'
  BY <1>1 DEF FeedInv, BooksOK, BookOK, Counted, Deliveries
<1> QED
  BY <1>2, <1>5, <1>6, <1>7, <1>8 DEF FeedInv, BooksOK

-----------------------------------------------------------------------------
(* Metering.                                                               *)

LEMMA EnsuredUsage ==
    ASSUME FeedInv, NEW c, NEW time \in Nat
    PROVE  /\ Usage(Ensured(c, time)) /\ Ensured(c, time).month = Month(time)
           /\ Ensured(c, time).usage =
                IF c \in DOMAIN meter /\ meter[c].month = Month(time)
                THEN meter[c].usage ELSE 0
<1>1. Month(time) \in Nat
  BY MonthsAscend
<1>2. CASE c \notin DOMAIN meter
  BY <1>1, <1>2 DEF Ensured, NoUsage, Usage
<1>3. CASE c \in DOMAIN meter /\ meter[c].month # Month(time)
  <2>1. Usage(meter[c])
    BY <1>3 DEF FeedInv, BooksOK, BookType
  <2>2. Ensured(c, time) =
          [month |-> Month(time), usage |-> 0, billable |-> 0, calls |-> meter[c].calls,
           last |-> meter[c].last, recent |-> meter[c].recent]
    BY <1>3, <2>1 DEF Ensured, Usage
  <2> QED
    BY <1>1, <1>3, <2>2 DEF Usage
<1>4. CASE c \in DOMAIN meter /\ meter[c].month = Month(time)
  BY <1>4 DEF Ensured, FeedInv, BooksOK, BookType
<1> QED
  BY <1>2, <1>3, <1>4

LEMMA MeteredUsage ==
    ASSUME FeedInv, NEW c, NEW time \in Nat
    PROVE  /\ Usage(Metered(c, time)) /\ Metered(c, time).month = Month(time)
           /\ Metered(c, time).usage =
                IF c \in DOMAIN meter /\ meter[c].month = Month(time)
                THEN meter[c].usage + 1 ELSE 1
<1> SUFFICES ASSUME NEW r, r = Ensured(c, time), NEW b, b = Overage(c, r.usage + 1),
                    NEW w, w = Append(Within(r.recent, time), time)
             PROVE  /\ Usage(Metered(c, time)) /\ Metered(c, time).month = Month(time)
                    /\ Metered(c, time).usage =
                         IF c \in DOMAIN meter /\ meter[c].month = Month(time)
                         THEN meter[c].usage + 1 ELSE 1
  OBVIOUS
<1>1. /\ Usage(r) /\ r.month = Month(time)
      /\ r.usage = IF c \in DOMAIN meter /\ meter[c].month = Month(time)
                   THEN meter[c].usage ELSE 0
  BY EnsuredUsage
<1>2. Metered(c, time) =
        [r EXCEPT !.usage = @ + 1, !.billable = b, !.calls = @ + 1, !.last = time,
                  !.recent = w]
  BY DEF Metered
<1>3. Metered(c, time) =
        [month |-> r.month, usage |-> r.usage + 1, billable |-> b,
         calls |-> r.calls + 1, last |-> time, recent |-> w]
  BY <1>1, <1>2 DEF Usage
<1>4. /\ Usage(Metered(c, time)) /\ Metered(c, time).month = Month(time)
      /\ Metered(c, time).usage = r.usage + 1
  BY <1>1, <1>3 DEF Usage
<1> QED
  BY <1>1, <1>4

\* A request metered in order leaves room for its delivery.
LEMMA RoomToDeliver ==
    ASSUME FeedInv, BookOK(meter), NEW c, NEW time \in Nat, NEW m, m = Month(time),
           c \in DOMAIN meter => meter[c].month <= m
    PROVE  /\ Cardinality(Deliveries(c, m)) + 1 <= Metered(c, time).usage
           /\ \A i \in DOMAIN served :
                 served[i].consumer = c => served[i].month <= m
<1>1. /\ m \in Nat
      /\ Metered(c, time).usage = IF c \in DOMAIN meter /\ meter[c].month = m
                                  THEN meter[c].usage + 1 ELSE 1
  BY MonthsAscend, MeteredUsage
<1>2. /\ \A i \in DOMAIN served : served[i].month \in Nat
      /\ Cardinality(Deliveries(c, m)) \in Nat
  <2>1. ServedOK
    BY DEF FeedInv
  <2> QED
    BY <2>1, ServedMonths, DeliveriesFinite
<1>3. CASE c \notin DOMAIN meter
  <2>1. \A i \in DOMAIN served : served[i].consumer # c
    BY <1>3 DEF BookOK
  <2> QED
    BY <1>1, <1>3, <2>1, NoDeliveries
<1>4. CASE c \in DOMAIN meter
  <2>1. /\ meter[c].usage \in Nat /\ meter[c].month \in Nat /\ meter[c].month <= m
        /\ meter[c].usage >= Cardinality(Deliveries(c, meter[c].month))
        /\ \A i \in DOMAIN served :
              served[i].consumer = c => served[i].month <= meter[c].month
    BY <1>4 DEF FeedInv, BooksOK, BookType, Usage, BookOK, Counted
  <2>2. CASE meter[c].month = m
    BY <1>1, <1>2, <1>4, <2>1, <2>2
  <2>3. CASE meter[c].month < m
    <3>1. \A i \in DOMAIN served :
             served[i].consumer = c => served[i].month < m
      BY <1>1, <1>2, <2>1, <2>3
    <3>2. Cardinality(Deliveries(c, m)) = 0
      BY <1>2, <3>1, <1>1, NoDeliveries
    <3> QED
      BY <1>1, <1>2, <2>3, <3>1, <3>2
  <2> QED
    BY <1>1, <2>1, <2>2, <2>3
<1> QED
  BY <1>3, <1>4

\* The books of a request that is metered, delivered or not.
LEMMA MeterBooks ==
    ASSUME FeedInv, NEW c, NEW time \in Nat, time <= instant, instant' = instant,
           meter' = With(meter, c, Metered(c, time)), meterFile' \in {meter', meterFile},
           reversed' = (reversed \/ (c \in DOMAIN meter /\ Month(time) < meter[c].month)),
           \/ served' = served
           \/ /\ meterFile' = meter'
              /\ \E d \in Delivery : /\ d.consumer = c /\ d.month = Month(time)
                                     /\ served' = Append(served, d)
    PROVE  BooksOK'
<1> SUFFICES ASSUME NEW r, r = Metered(c, time), NEW now, now = Month(time)
             PROVE  BooksOK'
  OBVIOUS
<1>1. /\ Usage(r) /\ r.month = now /\ now <= Month(instant) /\ now \in Nat
  BY MeteredUsage, MonthsAscend DEF FeedInv, LinesOK
<1>2. /\ DOMAIN meter' = DOMAIN meter \cup {c} /\ meter'[c] = r
      /\ \A d \in DOMAIN meter : d # c => meter'[d] = meter[d]
  BY DEF With
<1>3. BookType(meter)' /\ BookType(meterFile)'
  <2>1. BookType(meter) /\ BookType(meterFile)
    BY DEF FeedInv, BooksOK
  <2>2. \A d \in DOMAIN meter' :
           Usage(meter'[d]) /\ meter'[d].month <= Month(instant)
    BY <1>1, <1>2, <2>1 DEF BookType
  <2>3. CASE meterFile' = meter'
    BY <2>2, <2>3 DEF BookType, Month
  <2>4. CASE meterFile' = meterFile
    BY <2>1, <2>2, <2>4 DEF BookType, Month
  <2> QED
    BY <2>3, <2>4
<1>4. ASSUME ~reversed' PROVE BookOK(meter)' /\ BookOK(meterFile)'
  <2>1. /\ BookOK(meter) /\ BookOK(meterFile)
        /\ c \in DOMAIN meter => meter[c].month <= now
    <3>1. ~reversed /\ ~(c \in DOMAIN meter /\ now < meter[c].month)
      BY <1>4
    <3>2. c \in DOMAIN meter => meter[c].month \in Nat
      BY DEF FeedInv, BooksOK, BookType, Usage
    <3> QED
      BY <1>1, <3>1, <3>2 DEF FeedInv, BooksOK
  <2>2. /\ Cardinality(Deliveries(c, now)) + 1 <= r.usage
        /\ \A i \in DOMAIN served : served[i].consumer = c => served[i].month <= now
    BY <2>1, RoomToDeliver
  <2>3. r.usage \in Nat /\ \A d, m : Cardinality(Deliveries(d, m)) \in Nat
    BY <1>1, DeliveriesFinite DEF FeedInv, Usage
  <2>4. CASE served' = served
    <3>1. ASSUME NEW e \in DOMAIN meter', NEW s, s = meter'[e], NEW m, m = s.month
          PROVE  /\ s.usage >= Cardinality(Deliveries(e, m)')
                 /\ \A i \in DOMAIN served' :
                       served'[i].consumer = e => served'[i].month <= m
      <4>1. Deliveries(e, m)' = Deliveries(e, m)
        BY <2>4 DEF Deliveries
      <4>2. CASE e = c
        BY <1>1, <1>2, <2>2, <2>3, <2>4, <3>1, <4>1, <4>2
      <4>3. CASE e # c
        BY <1>2, <2>1, <2>4, <3>1, <4>1, <4>3 DEF BookOK, Counted
      <4> QED
        BY <4>2, <4>3
    <3>2. \A i \in DOMAIN served' : served'[i].consumer \in DOMAIN meter'
      BY <1>2, <2>1, <2>4 DEF BookOK
    <3>3. BookOK(meter)'
      BY <3>1, <3>2 DEF BookOK, Counted, Deliveries
    <3>4. CASE meterFile' = meterFile
      BY <2>1, <2>4, <3>3, <3>4 DEF BookOK, Counted, Deliveries
    <3>5. CASE meterFile' = meter'
      BY <3>3, <3>5 DEF BookOK, Counted, Deliveries
    <3> QED
      BY <3>3, <3>4, <3>5
  <2>5. ASSUME NEW d \in Delivery, d.consumer = c, d.month = now,
               served' = Append(served, d), meterFile' = meter'
        PROVE  BookOK(meter)' /\ BookOK(meterFile)'
    <3>1. served \in Seq(Delivery)
      BY DEF FeedInv, ServedOK
    <3>2. /\ DOMAIN served' = DOMAIN served \cup {Len(served) + 1}
          /\ \A i \in DOMAIN served : served'[i] = served[i]
          /\ served'[Len(served) + 1] = d
      BY <2>5, <3>1
    <3>3. ASSUME NEW e \in DOMAIN meter', NEW s, s = meter'[e], NEW m, m = s.month
          PROVE  /\ s.usage >= Cardinality(Deliveries(e, m)')
                 /\ \A i \in DOMAIN served' :
                       served'[i].consumer = e => served'[i].month <= m
      <4>1. Cardinality(Deliveries(e, m)') =
              IF e = c /\ m = now THEN Cardinality(Deliveries(e, m)) + 1
              ELSE Cardinality(Deliveries(e, m))
        BY <2>5, OneMore DEF FeedInv
      <4>2. CASE e = c
        BY <1>1, <1>2, <2>2, <2>3, <2>5, <3>2, <3>3, <4>1, <4>2
      <4>3. CASE e # c
        <5>1. e \in DOMAIN meter /\ s = meter[e] /\ Counted(e, s)
          BY <1>2, <2>1, <3>3, <4>3 DEF BookOK
        <5>2. s.usage >= Cardinality(Deliveries(e, m)')
          BY <3>3, <4>1, <4>3, <5>1 DEF Counted
        <5>3. \A i \in DOMAIN served' :
                 served'[i].consumer = e => served'[i].month <= m
          BY <2>5, <3>2, <3>3, <4>3, <5>1 DEF Counted
        <5> QED
          BY <5>2, <5>3
      <4> QED
        BY <4>2, <4>3
    <3>4. \A i \in DOMAIN served' : served'[i].consumer \in DOMAIN meter'
      BY <1>2, <2>1, <2>5, <3>2 DEF BookOK
    <3>5. BookOK(meter)'
      BY <3>3, <3>4 DEF BookOK, Counted, Deliveries
    <3> QED
      BY <2>5, <3>5 DEF BookOK, Counted, Deliveries
  <2> QED
    BY <1>1, <2>4, <2>5
<1> QED
  BY <1>3, <1>4 DEF BooksOK

\* The payment of a line that is served passes from the line to the delivery.
LEMMA MeterKept ==
    ASSUME FeedInv, NEW t \in Line, NEW written \in BOOLEAN, Meter(t, written)
    PROVE  FeedInv'
<1> SUFFICES ASSUME NEW c, c = line[t].consumer, NEW time, time = line[t].time,
                    NEW d, d = [consumer |-> c, month |-> Month(time),
                                payment |-> line[t].payment]
             PROVE  FeedInv'
  OBVIOUS
<1>1. /\ line[t].at = "meter" /\ Leave(t)
      /\ meter' = With(meter, c, Metered(c, time))
      /\ reversed' = (reversed \/ (c \in DOMAIN meter /\ Month(time) < meter[c].month))
      /\ \/ meterFile' = meter' /\ served' \in {served, Append(served, d)}
         \/ meterFile' = meterFile /\ served' = served
      /\ instant' = instant /\ chain' = chain
  BY DEF Meter
<1>2. /\ time \in Nat /\ time <= instant
      /\ line[t] \in Stamped /\ Identified(line[t])
  BY <1>1, LineAt DEF Stamped
<1>3. /\ d \in Delivery /\ d.consumer = c /\ d.month = Month(time)
      /\ d.payment = line[t].payment /\ Identified(d)
      /\ Bought(line[t]) = line[t].payment
  BY <1>1, <1>2, MonthsAscend DEF Stamped, Delivery, Identified, Bought
<1>4. BooksOK'
  <2>1. CASE served' = served
    BY <1>1, <1>2, <2>1, MeterBooks
  <2>2. CASE served' = Append(served, d) /\ meterFile' = meter'
    BY <1>1, <1>2, <1>3, <2>2, MeterBooks
  <2> QED
    BY <1>1, <2>1, <2>2
<1>5. CASE served' = served
  BY <1>1, <1>4, <1>5, LeaveKept DEF FeedInv
<1>6. CASE served' = Append(served, d)
  <2>1. /\ LineOK(Waiting)' /\ Bought(Waiting) = {}
    BY DEF LineOK, Bought, Waiting
  <2>2. /\ LinesOK' /\ line'[t] = Waiting
        /\ \A u \in Line : u # t => line'[u] = line[u]
    BY <1>1, <2>1, OneLine DEF FeedInv, Leave
  <2>3. /\ served \in Seq(Delivery)
        /\ DOMAIN served' = DOMAIN served \cup {Len(served) + 1}
        /\ Len(served) + 1 \notin DOMAIN served
        /\ \A i \in DOMAIN served : served'[i] = served[i]
        /\ served'[Len(served) + 1] = d
        /\ served' \in Seq(Delivery)
    BY <1>3, <1>6 DEF FeedInv, ServedOK
  <2>4. \A u \in Line : u # t => Bought(line'[u]) \cap d.payment = {}
    BY <1>3, <2>2 DEF FeedInv, PaymentsOK
  <2>5. \A i \in DOMAIN served : served[i].payment \cap d.payment = {}
    BY <1>3 DEF FeedInv, PaymentsOK
  <2>6. d.payment \subseteq chain
    BY <1>3 DEF FeedInv, PaymentsOK
  <2>7. PaymentsOK'
    <3>1. \A u \in Line : Bought(line'[u]) \subseteq chain'
      BY <1>1, <2>1, <2>2 DEF FeedInv, PaymentsOK
    <3>2. \A u, v \in Line : u # v => Bought(line'[u]) \cap Bought(line'[v]) = {}
      BY <2>1, <2>2 DEF FeedInv, PaymentsOK
    <3>3. \A u \in Line, i \in DOMAIN served' :
             Bought(line'[u]) \cap served'[i].payment = {}
      BY <2>1, <2>2, <2>3, <2>4 DEF FeedInv, PaymentsOK
    <3> QED
      BY <3>1, <3>2, <3>3 DEF PaymentsOK, Bought
  <2>8. ServedOK'
    <3>1. \A i \in DOMAIN served' :
             Identified(served'[i]) /\ served'[i].payment \subseteq chain'
      BY <1>1, <1>3, <2>3, <2>6 DEF FeedInv, ServedOK
    <3>2. \A i, j \in DOMAIN served' :
             served'[i].payment \cap served'[j].payment # {} => i = j
      BY <2>3, <2>5 DEF FeedInv, ServedOK
    <3> QED
      BY <2>3, <3>1, <3>2 DEF ServedOK, Identified
  <2> QED
    BY <1>4, <2>2, <2>7, <2>8 DEF FeedInv
<1> QED
  BY <1>1, <1>5, <1>6

\* A month brought up to date has no deliveries yet.
LEMMA ReadKept == ASSUME FeedInv, NEW c, ReadUsage(c) PROVE FeedInv'
<1> SUFFICES ASSUME NEW e, e = Ensured(c, instant),
                    NEW w, w = Within(e.recent, instant),
                    NEW b, b = Overage(c, e.usage),
                    NEW r, r = [e EXCEPT !.recent = w, !.billable = b]
             PROVE  FeedInv'
  OBVIOUS
<1>1. /\ meter' = With(meter, c, r)
      /\ instant' = instant /\ chain' = chain /\ meterFile' = meterFile
      /\ line' = line /\ served' = served /\ reversed' = reversed
  BY DEF ReadUsage
<1>2. instant \in Nat /\ Month(instant) \in Nat
  BY MonthsAscend DEF FeedInv, LinesOK
<1>3. /\ Usage(e) /\ e.month = Month(instant)
      /\ e.usage = IF c \in DOMAIN meter /\ meter[c].month = Month(instant)
                   THEN meter[c].usage ELSE 0
  BY <1>2, EnsuredUsage
<1>4. r = [month |-> e.month, usage |-> e.usage, billable |-> b,
           calls |-> e.calls, last |-> e.last, recent |-> w]
  BY <1>3 DEF Usage
<1>5. Usage(r) /\ r.month = Month(instant) /\ r.usage = e.usage
  BY <1>3, <1>4 DEF Usage
<1>6. /\ DOMAIN meter' = DOMAIN meter \cup {c} /\ meter'[c] = r
      /\ \A d \in DOMAIN meter : d # c => meter'[d] = meter[d]
  BY <1>1 DEF With
<1>7. LinesOK' /\ PaymentsOK' /\ ServedOK'
  BY <1>1 DEF FeedInv, LinesOK, LineOK, PaymentsOK, ServedOK, Bought, Identified
<1>8. BookType(meter)' /\ BookType(meterFile)'
  <2>1. BookType(meter) /\ BookType(meterFile)
    BY DEF FeedInv, BooksOK
  <2>2. BookType(meterFile)'
    BY <1>1, <2>1 DEF BookType, Month
  <2>3. \A d \in DOMAIN meter' :
           Usage(meter'[d]) /\ meter'[d].month <= Month(instant)
    <3>1. ASSUME NEW d \in DOMAIN meter', d # c
          PROVE  Usage(meter'[d]) /\ meter'[d].month <= Month(instant)
      BY <1>6, <2>1, <3>1 DEF BookType
    <3>2. Usage(meter'[c]) /\ meter'[c].month <= Month(instant)
      BY <1>2, <1>5, <1>6
    <3> QED
      BY <3>1, <3>2
  <2> QED
    BY <1>1, <2>2, <2>3 DEF BookType, Month
<1>9. ASSUME ~reversed PROVE Counted(c, r)
  <2>1. BookOK(meter)
    BY <1>9 DEF FeedInv, BooksOK
  <2>2. /\ \A i \in DOMAIN served : served[i].month \in Nat
        /\ \A m : Cardinality(Deliveries(c, m)) \in Nat
    <3>1. ServedOK
      BY DEF FeedInv
    <3> QED
      BY <3>1, ServedMonths, DeliveriesFinite
  <2>3. CASE c \notin DOMAIN meter
    <3>1. \A i \in DOMAIN served : served[i].consumer # c
      BY <2>1, <2>3 DEF BookOK
    <3> QED
      BY <1>3, <1>5, <2>3, <3>1, NoDeliveries DEF Counted
  <2>4. CASE c \in DOMAIN meter
    <3>1. /\ meter[c].usage \in Nat /\ meter[c].month \in Nat
          /\ meter[c].month <= Month(instant) /\ Counted(c, meter[c])
      BY <2>1, <2>4 DEF FeedInv, BooksOK, BookType, Usage, BookOK
    <3>2. CASE meter[c].month = Month(instant)
      BY <1>3, <1>5, <2>4, <3>1, <3>2 DEF Counted
    <3>3. CASE meter[c].month < Month(instant)
      <4>1. \A i \in DOMAIN served :
               served[i].consumer = c => served[i].month < Month(instant)
        BY <1>2, <2>2, <3>1, <3>3 DEF Counted
      <4>2. Cardinality(Deliveries(c, Month(instant))) = 0
        BY <1>2, <2>2, <4>1, NoDeliveries
      <4> QED
        BY <1>2, <1>3, <1>5, <2>2, <3>3, <4>1, <4>2 DEF Counted
    <3> QED
      BY <1>2, <3>1, <3>2, <3>3
  <2> QED
    BY <2>3, <2>4
<1>10. (~reversed => BookOK(meter) /\ BookOK(meterFile))'
  <2> SUFFICES ASSUME ~reversed PROVE BookOK(meter)' /\ BookOK(meterFile)'
    BY <1>1
  <2>1. BookOK(meter) /\ BookOK(meterFile)
    BY DEF FeedInv, BooksOK
  <2>2. \A d \in DOMAIN meter' : Counted(d, meter'[d])
    BY <1>6, <1>9, <2>1 DEF BookOK
  <2>3. \A i \in DOMAIN served : served[i].consumer \in DOMAIN meter'
    BY <1>6, <2>1 DEF BookOK
  <2>4. BookOK(meter)'
    BY <1>1, <2>2, <2>3 DEF BookOK, Counted, Deliveries
  <2>5. BookOK(meterFile)'
    BY <1>1, <2>1 DEF BookOK, Counted, Deliveries
  <2> QED
    BY <2>4, <2>5
<1> QED
  BY <1>7, <1>8, <1>10 DEF FeedInv, BooksOK

LEMMA FeedStart == FeedInit => FeedInv
<1> SUFFICES ASSUME FeedInit PROVE FeedInv
  OBVIOUS
<1>1. /\ instant = 0 /\ line = [t \in Line |-> Waiting] /\ chain = {}
      /\ meter = <<>> /\ meterFile = <<>> /\ served = <<>>
  BY DEF FeedInit
<1>2. LinesOK
  BY <1>1 DEF LinesOK, LineOK
<1>3. \A t \in Line : Bought(line[t]) = {}
  BY <1>1 DEF Bought, Waiting
<1>4. PaymentsOK /\ ServedOK
  BY <1>1, <1>3 DEF PaymentsOK, ServedOK
<1>5. BooksOK
  BY <1>1 DEF BooksOK, BookType, BookOK
<1> QED
  BY <1>2, <1>4, <1>5 DEF FeedInv

LEMMA FeedStep == FeedInv /\ [FeedNext]_feedVars => FeedInv'
<1> SUFFICES ASSUME FeedInv, [FeedNext]_feedVars PROVE FeedInv'
  OBVIOUS
<1>1. CASE UNCHANGED feedVars
  <2>1. /\ instant' = instant /\ line' = line /\ chain' = chain /\ meter' = meter
        /\ meterFile' = meterFile /\ served' = served /\ reversed' = reversed
    BY <1>1 DEF feedVars
  <2>2. LinesOK' /\ PaymentsOK' /\ ServedOK'
    BY <2>1 DEF FeedInv, LinesOK, LineOK, PaymentsOK, ServedOK, Bought, Identified
  <2> QED
    BY <2>1, <2>2, BooksStand DEF FeedInv
<1>2. ASSUME NEW t \in Line,
             \/ \E c \in Holder : AskAsHolder(t, c)
             \/ \E p \in Payment : AskPaying(t, p)
             \/ Verify(t) \/ Settle(t) \/ Stamp(t)
             \/ \E settled \in BOOLEAN : FacilitatorFails(t, settled)
             \/ \E written \in BOOLEAN : Meter(t, written)
      PROVE  FeedInv'
  BY <1>2, AskKept, VerifyKept, SettleKept, StampKept, FailKept, MeterKept
<1>3. CASE FeedTick \/ (\E c \in FeedConsumer : ReadUsage(c))
           \/ (\E mode \in X402Mode : FeedStops(mode))
  BY <1>3, TickKept, ReadKept, StopsKept
<1> QED
  BY <1>1, <1>2, <1>3 DEF FeedNext

\* Nothing is delivered that the file does not count, unless a month was
\* counted backwards, and nothing without a key or a payment of its own, for
\* any number of threads, faults, months and payments.
THEOREM FeedIsPaidFor == FeedSpec => []DeliveriesMeteredAndPaid
<1>1. FeedInv => DeliveriesMeteredAndPaid
  <2> SUFFICES ASSUME FeedInv PROVE DeliveriesMeteredAndPaid
    OBVIOUS
  <2>1. ~reversed => \A c \in DOMAIN meterFile :
          meterFile[c].usage >= Cardinality(Deliveries(c, meterFile[c].month))
    BY DEF FeedInv, BooksOK, BookOK, Counted
  <2> QED
    BY <2>1 DEF FeedInv, ServedOK, Identified, DeliveriesMeteredAndPaid
<1> QED
  BY <1>1, FeedStart, FeedStep, PTL DEF FeedSpec
-----------------------------------------------------------------------------
(* The life of a key.                                                      *)

Owner == {OwnerOf(e) : e \in Event} \cup ManualOwner
KeyRow == [owner : Owner, customer : Customer \cup {""}, tier : Tier,
           status : Status]
StatusAskedFor == {"none", "active", "suspended", "inactive"}

HandlerTypes ==
    /\ seen \subseteq Event /\ seenFile \subseteq seen
    /\ step \in {"idle", "marked", "done"} /\ event \in Event
    /\ acted \in [Event -> Nat]
    /\ broken \subseteq Event /\ acked \subseteq Event

\* A marked event is on file before it is acted upon; what is seen was acted
\* upon, broke off, or is at hand.
HandlerInv ==
    /\ HandlerTypes
    /\ step = "marked" => event \in seenFile /\ acted[event] = 0
    /\ step = "done" => acted[event] = 1 \/ event \in broken
    /\ \A e \in Event :
          /\ acted[e] <= 1
          /\ acted[e] # 0 => e \in seenFile
          /\ e \in seen => \/ acted[e] = 1 \/ e \in broken
                           \/ step = "marked" /\ e = event
          /\ e \in acked => acted[e] = 1 \/ e \in broken

KeyTypes == keys \in Seq(KeyRow) /\ told \in [Customer -> StatusAskedFor]

\* A bound key has the owner some payment of its customer named.
BoundByPayment(k) ==
    keys[k].customer # "" =>
        \E e \in Event : /\ e.customer = keys[k].customer /\ e.kind \in Paying
                         /\ keys[k].owner = OwnerOf(e)

Distinct ==
    \A j, k \in DOMAIN keys :
        keys[j].customer # "" /\ keys[j].customer = keys[k].customer => j = k

Follows ==
    \A c \in Customer : Alone(c) => \A k \in KeysOf(c) : keys[k].status = told[c]

KeysInv == /\ KeyTypes /\ Distinct /\ Follows
           /\ \A k \in DOMAIN keys : BoundByPayment(k)

KeyInv == HandlerInv /\ KeysInv
-----------------------------------------------------------------------------
(* The handler.                                                            *)

LEMMA HandlerStart == KeyInit => HandlerInv
<1> SUFFICES ASSUME KeyInit PROVE HandlerInv
  OBVIOUS
<1>1. event \in Event
  BY EventsAreStripeEvents DEF KeyInit
<1> QED
  BY <1>1 DEF KeyInit, HandlerInv, HandlerTypes

LEMMA HandlerStep == HandlerInv /\ [KeyNext]_keyVars => HandlerInv'
<1> SUFFICES ASSUME HandlerInv, [KeyNext]_keyVars PROVE HandlerInv'
  OBVIOUS
<1> USE DEF HandlerInv, HandlerTypes
<1>1. ASSUME NEW e \in Event, Duplicate(e) PROVE HandlerInv'
  BY <1>1 DEF Duplicate, Known
<1>2. ASSUME NEW e \in Event, Mark(e) PROVE HandlerInv'
  BY <1>2 DEF Mark, Known
<1>3. ASSUME NEW e \in Event, MarkFails(e) PROVE HandlerInv'
  BY <1>3 DEF MarkFails, Known
<1>4. CASE Handled
  BY <1>4 DEF Handled, Close
<1>5. CASE LookupFails
  BY <1>5 DEF LookupFails, Close
<1>6. CASE HandlerRaises
  BY <1>6 DEF HandlerRaises
<1>7. CASE Acknowledge
  BY <1>7 DEF Acknowledge
<1>8. CASE StopHandler
  BY <1>8 DEF StopHandler
<1>9. ASSUME NEW owner \in ManualOwner, CreateManually(owner) PROVE HandlerInv'
  BY <1>9 DEF CreateManually
<1>10. CASE UNCHANGED keyVars
  BY <1>10 DEF keyVars
<1>11. Renew \/ Create \/ Suspend \/ Deactivate \/ Update \/ Ignore => Handled
  BY DEF Renew, Create, Suspend, Deactivate, Update, Ignore
<1> QED
  BY <1>1, <1>2, <1>3, <1>4, <1>5, <1>6, <1>7, <1>8, <1>9, <1>10, <1>11 DEF KeyNext
-----------------------------------------------------------------------------
(* The keys.                                                               *)

LEMMA AskedType == \A e \in Event : StatusAsked(e) \in StatusAskedFor
  BY DEF StatusAsked, StatusAskedFor

LEMMA ToldType ==
    ASSUME HandlerTypes, KeyTypes, Handled
    PROVE  /\ told' \in [Customer -> StatusAskedFor]
           /\ told'[event.customer] =
                 IF StatusAsked(event) = "none" THEN told[event.customer]
                 ELSE StatusAsked(event)
           /\ \A c \in Customer : c # event.customer => told'[c] = told[c]
  BY AskedType DEF HandlerTypes, KeyTypes, Handled, Customer

LEMMA KeyTyped ==
    ASSUME KeyTypes, NEW k \in DOMAIN keys
    PROVE  /\ k \in 1 .. Len(keys)
           /\ keys[k] \in KeyRow
           /\ keys[k].customer \in Customer \cup {""}
           /\ keys[k].status \in Status
<1>1. k \in 1 .. Len(keys) /\ keys[k] \in KeyRow
  BY LenProperties, ElementOfSeq DEF KeyTypes
<1> QED
  BY <1>1 DEF KeyRow

\* One key is made active for the customer of a payment or an update that
\* may do so.
LEMMA Activated ==
    ASSUME HandlerTypes, KeysInv, Handled, StatusAsked(event) = "active",
           TierOf(event.price) # "free",
           NEW k \in DOMAIN keys, Activate(k, event),
           k \in KeysOf(event.customer)
           \/ /\ KeysOf(event.customer) = {} /\ event.kind \in Paying
              /\ keys[k].owner = OwnerOf(event)
    PROVE  KeysInv'
<1> DEFINE e == event
           d == event.customer
           row == [keys[k] EXCEPT !.tier = TierOf(event.price),
                     !.status = "active",
                     !.customer = IF event.customer = "" THEN @ ELSE event.customer]
<1>1. e \in Event /\ d \in Customer
  BY DEF HandlerTypes, Customer
<1>2. keys \in Seq(KeyRow) /\ keys[k] \in KeyRow /\ k \in 1 .. Len(keys)
  BY KeyTyped DEF KeysInv, KeyTypes
<1>3. TierOf(event.price) \in Tier
  BY DEF TierOf
<1>4. /\ row \in KeyRow /\ row.owner = keys[k].owner /\ row.status = "active"
      /\ row.customer = IF d = "" THEN keys[k].customer ELSE d
  <2>1. row \in KeyRow
    BY <1>1, <1>2, <1>3 DEF KeyRow, Status
  <2> QED
    BY <1>2, <2>1 DEF KeyRow
<1>5. keys' = [keys EXCEPT ![k] = row]
  BY <1>2 DEF Activate
<1> HIDE DEF row
<1>6. /\ keys' \in Seq(KeyRow) /\ DOMAIN keys' = DOMAIN keys
      /\ keys'[k] = row
      /\ \A j \in DOMAIN keys : j # k => keys'[j] = keys[j]
  <2>1. keys' \in Seq(KeyRow) /\ Len(keys') = Len(keys)
    BY <1>2, <1>4, <1>5, ExceptSeq
  <2> QED
    BY <1>2, <1>5, <2>1
<1>7. /\ told'[d] = "active" /\ told' \in [Customer -> StatusAskedFor]
      /\ \A c \in Customer : c # d => told'[c] = told[c]
  BY ToldType DEF KeysInv
<1>8. KeyTypes'
  BY <1>6, <1>7 DEF KeyTypes
<1>9. \A j \in DOMAIN keys : j # k /\ d # "" => keys[j].customer # d
  BY <1>1 DEF KeysInv, Distinct, KeysOf
<1>10. Distinct'
  BY <1>4, <1>6, <1>9 DEF KeysInv, Distinct
<1>11. \A j \in DOMAIN keys' : BoundByPayment(j)'
  <2>1. ASSUME NEW j \in DOMAIN keys, j # k PROVE BoundByPayment(j)'
    BY <1>6, <2>1 DEF KeysInv, BoundByPayment
  <2>2. BoundByPayment(k)'
    <3>1. CASE d = "" \/ k \in KeysOf(d)
      <4>1. row.customer = keys[k].customer
        BY <1>4, <3>1 DEF KeysOf
      <4> QED
        BY <1>4, <1>6, <4>1 DEF KeysInv, BoundByPayment
    <3>2. CASE d # "" /\ k \notin KeysOf(d)
      BY <1>1, <1>4, <1>6, <3>2 DEF BoundByPayment
    <3> QED
      BY <3>1, <3>2
  <2> QED
    BY <1>6, <2>1, <2>2
<1>12. Follows'
  <2> SUFFICES ASSUME NEW c \in Customer, Alone(c), NEW j \in KeysOf(c)'
               PROVE  keys'[j].status = told'[c]
    BY DEF Follows, Alone
  <2>1. j \in DOMAIN keys /\ c # "" /\ keys'[j].customer = c
    BY <1>6 DEF KeysOf
  <2>2. CASE c = d
    <3>1. j = k
      BY <1>6, <1>9, <2>1, <2>2
    <3> QED
      BY <1>4, <1>6, <1>7, <2>2, <3>1
  <2>3. CASE c # d
    <3>1. ASSUME j = k PROVE FALSE
      <4>1. d = "" /\ keys[k].customer = c
        BY <1>4, <1>6, <2>1, <2>3, <3>1
      <4>2. event.kind \in Paying /\ keys[k].owner = OwnerOf(event)
        BY <4>1 DEF KeysOf
      <4>3. PICK f \in Event : f.customer = c /\ f.kind \in Paying
                               /\ keys[k].owner = OwnerOf(f)
        BY <2>1, <4>1 DEF KeysInv, BoundByPayment
      <4>4. f.email # "" /\ event.email # f.email
        BY <1>1, <2>3, <4>3 DEF Alone
      <4> QED
        BY <1>1, <4>2, <4>3, <4>4, EventsAreStripeEvents DEF OwnerOf
    <3>2. keys'[j] = keys[j] /\ j \in KeysOf(c)
      BY <1>6, <2>1, <3>1 DEF KeysOf
    <3> QED
      BY <1>7, <2>3, <3>2 DEF KeysInv, Follows
  <2> QED
    BY <2>2, <2>3
<1> QED
  BY <1>8, <1>10, <1>11, <1>12 DEF KeysInv

LEMMA RenewKeeps ==
    ASSUME HandlerTypes, KeysInv, Renew PROVE KeysInv'
<1>1. PICK k \in Renewable(event) : Activate(k, event)
  BY DEF Renew
<1>2. /\ k \in DOMAIN keys
      /\ \/ k \in KeysOf(event.customer)
         \/ KeysOf(event.customer) = {} /\ keys[k].owner = OwnerOf(event)
  BY DEF Renewable, Preferred, OwnedBy, KeysOf
<1>3. StatusAsked(event) = "active"
  BY DEF Renew, StatusAsked
<1> QED
  BY <1>1, <1>2, <1>3, Activated DEF Renew

LEMMA UpdateKeeps ==
    ASSUME HandlerTypes, KeysInv, Update PROVE KeysInv'
<1>1. PICK k \in KeysOf(event.customer) : Activate(k, event)
  BY DEF Update
<1>2. k \in DOMAIN keys /\ StatusAsked(event) = "active"
  BY DEF KeysOf, Update, StatusAsked
<1> QED
  BY <1>1, <1>2, Activated DEF Update

LEMMA Appended ==
    ASSUME NEW S, NEW q \in Seq(S), NEW e \in S, NEW r, r = Append(q, e)
    PROVE  /\ DOMAIN q = 1 .. Len(q)
           /\ DOMAIN r = (DOMAIN q) \cup {Len(q) + 1}
           /\ Len(q) + 1 \notin DOMAIN q
           /\ r[Len(q) + 1] = e
           /\ \A j \in DOMAIN q : r[j] = q[j]
<1>1. Len(q) \in Nat /\ DOMAIN q = 1 .. Len(q)
  BY LenProperties
<1>2. r \in Seq(S) /\ Len(r) = Len(q) + 1 /\ r[Len(q) + 1] = e
  BY AppendProperties
<1>3. \A j \in 1 .. Len(q) : r[j] = q[j]
  BY AppendProperties
<1>4. DOMAIN r = 1 .. Len(r)
  BY <1>2, LenProperties
<1>5. 1 .. Len(q) + 1 = (1 .. Len(q)) \cup {Len(q) + 1}
      /\ Len(q) + 1 \notin 1 .. Len(q)
  BY <1>1
<1> QED
  BY <1>1, <1>2, <1>3, <1>4, <1>5

LEMMA KeysAppended ==
    ASSUME NEW row \in KeyRow, keys \in Seq(KeyRow), keys' = Append(keys, row)
    PROVE  /\ DOMAIN keys' = (DOMAIN keys) \cup {Len(keys) + 1}
           /\ keys'[Len(keys) + 1] = row
           /\ Len(keys) + 1 \notin DOMAIN keys
           /\ \A j \in DOMAIN keys : keys'[j] = keys[j]
<1>1. DOMAIN keys' = (DOMAIN keys) \cup {Len(keys) + 1}
  BY Appended
<1>2. keys'[Len(keys) + 1] = row
  BY Appended
<1>3. Len(keys) + 1 \notin DOMAIN keys
  BY Appended
<1>4. \A j \in DOMAIN keys : keys'[j] = keys[j]
  BY Appended
<1> QED
  BY <1>1, <1>2, <1>3, <1>4

LEMMA BindingsAdded ==
    ASSUME KeysInv, NEW n, NEW row, n \notin DOMAIN keys, keys'[n] = row,
           DOMAIN keys' = (DOMAIN keys) \cup {n},
           \A j \in DOMAIN keys : keys'[j] = keys[j],
           \A j \in DOMAIN keys :
               row.customer # "" => keys[j].customer # row.customer,
           row.customer # "" => \E e \in Event : /\ e.customer = row.customer
                                                 /\ e.kind \in Paying
                                                 /\ row.owner = OwnerOf(e)
    PROVE  Distinct' /\ \A j \in DOMAIN keys' : BoundByPayment(j)'
<1>1. Distinct'
  BY DEF KeysInv, Distinct
<1>2. ASSUME NEW j \in DOMAIN keys PROVE BoundByPayment(j)'
  BY DEF KeysInv, BoundByPayment
<1>3. BoundByPayment(n)'
  BY DEF BoundByPayment
<1> QED
  BY <1>1, <1>2, <1>3

\* A key is added: bound by the event at hand, or bound to nobody.
LEMMA KeyAdded ==
    ASSUME KeysInv, NEW row \in KeyRow, keys' = Append(keys, row),
           KeyTypes',
           \/ row.customer = "" /\ UNCHANGED told
           \/ /\ event \in Event /\ event.kind \in Paying
              /\ row.customer = event.customer
              /\ row.owner = OwnerOf(event) /\ KeysOf(event.customer) = {}
              /\ row.status = told'[event.customer]
              /\ \A c \in Customer : c # event.customer => told'[c] = told[c]
    PROVE  KeysInv'
<1> DEFINE n == Len(keys) + 1
<1>1. /\ DOMAIN keys' = (DOMAIN keys) \cup {n} /\ keys'[n] = row
      /\ n \notin DOMAIN keys
      /\ \A j \in DOMAIN keys : keys'[j] = keys[j]
  BY KeysAppended DEF KeysInv, KeyTypes
<1> HIDE DEF n
<1>2. \A j \in DOMAIN keys : row.customer # "" => keys[j].customer # row.customer
  <2>1. KeysOf(event.customer) = {} /\ event.customer # "" =>
            \A j \in DOMAIN keys : keys[j].customer # event.customer
    BY DEF KeysOf
  <2> QED
    BY <2>1
<1>3. row.customer # "" => \E e \in Event : /\ e.customer = row.customer
                                           /\ e.kind \in Paying
                                           /\ row.owner = OwnerOf(e)
  OBVIOUS
<1>4. Distinct' /\ \A j \in DOMAIN keys' : BoundByPayment(j)'
  BY <1>1, <1>2, <1>3, BindingsAdded
<1>5. Follows'
  <2> SUFFICES ASSUME NEW c \in Customer, Alone(c), NEW j \in KeysOf(c)'
               PROVE  keys'[j].status = told'[c]
    BY DEF Follows, Alone
  <2>1. c # "" /\ keys'[j].customer = c /\ j \in DOMAIN keys'
    BY DEF KeysOf
  <2>2. CASE j = n
    BY <1>1, <2>1, <2>2
  <2>3. CASE j # n
    <3>1. j \in DOMAIN keys /\ keys'[j] = keys[j] /\ j \in KeysOf(c)
      BY <1>1, <2>1, <2>3 DEF KeysOf
    <3>2. told'[c] = told[c]
      BY <3>1
    <3> QED
      BY <3>1, <3>2 DEF KeysInv, Follows
  <2> QED
    BY <2>2, <2>3
<1> QED
  BY <1>4, <1>5 DEF KeysInv

LEMMA CreateKeeps ==
    ASSUME HandlerTypes, KeysInv, Create PROVE KeysInv'
<1> DEFINE row == [owner |-> OwnerOf(event), customer |-> event.customer,
                   tier |-> TierOf(event.price), status |-> "active"]
<1>1. Handled /\ keys' = Append(keys, row) /\ KeysOf(event.customer) = {}
      /\ event.kind \in Paying /\ StatusAsked(event) = "active"
  BY DEF Create, Renewable, Paying, StatusAsked
<1>2. row \in KeyRow /\ event \in Event
  BY DEF Create, HandlerTypes, KeyRow, Owner, Customer, TierOf, Status
<1>3. row.customer = event.customer /\ row.owner = OwnerOf(event)
      /\ row.status = "active"
  OBVIOUS
<1> HIDE DEF row
<1>4. told' \in [Customer -> StatusAskedFor] /\ told'[event.customer] = "active"
      /\ \A c \in Customer : c # event.customer => told'[c] = told[c]
  BY <1>1, ToldType DEF KeysInv
<1>5. KeyTypes'
  BY <1>1, <1>2, <1>4, AppendProperties DEF KeysInv, KeyTypes
<1> QED
  BY <1>1, <1>2, <1>3, <1>4, <1>5, KeyAdded

LEMMA ManualKeeps ==
    ASSUME KeysInv, NEW owner \in ManualOwner, CreateManually(owner)
    PROVE  KeysInv'
<1> DEFINE row == [owner |-> owner, customer |-> "", tier |-> "core",
                   status |-> "active"]
<1>1. keys' = Append(keys, row) /\ UNCHANGED told
  BY DEF CreateManually
<1>2. row \in KeyRow /\ row.customer = ""
  BY DEF KeyRow, Owner, Tier, Status
<1> HIDE DEF row
<1>3. KeyTypes'
  BY <1>1, <1>2, AppendProperties DEF KeysInv, KeyTypes
<1> QED
  BY <1>1, <1>2, <1>3, KeyAdded

\* Neither owners nor customers change.
LEMMA BindingsKept ==
    ASSUME KeysInv, DOMAIN keys' = DOMAIN keys,
           \A k \in DOMAIN keys : keys'[k].owner = keys[k].owner
                                  /\ keys'[k].customer = keys[k].customer
    PROVE  Distinct' /\ \A k \in DOMAIN keys' : BoundByPayment(k)'
<1>1. Distinct'
  BY DEF KeysInv, Distinct
<1>2. ASSUME NEW k \in DOMAIN keys PROVE BoundByPayment(k)'
  BY DEF KeysInv, BoundByPayment
<1> QED
  BY <1>1, <1>2

\* Statuses change, owners and customers do not: the keys of the customer
\* get what the event asks, and keys of others only by their owner.
LEMMA StatusesSet ==
    ASSUME HandlerTypes, KeysInv, Handled,
           NEW status \in {"suspended", "inactive"}, StatusAsked(event) = status,
           NEW Hit, KeysOf(event.customer) \subseteq Hit,
           keys' = [k \in DOMAIN keys |->
                       IF k \in Hit THEN [keys[k] EXCEPT !.status = status]
                                    ELSE keys[k]],
           \A c \in Customer \ {event.customer} : Alone(c) =>
               KeysOf(c) \cap Hit = {}
    PROVE  KeysInv'
<1>1. keys \in Seq(KeyRow) /\ DOMAIN keys = 1 .. Len(keys)
      /\ \A k \in DOMAIN keys : keys[k] \in KeyRow
  BY KeyTyped, LenProperties DEF KeysInv, KeyTypes
<1>2. ASSUME NEW k \in DOMAIN keys
      PROVE  /\ keys'[k] \in KeyRow /\ keys'[k].owner = keys[k].owner
             /\ keys'[k].customer = keys[k].customer
             /\ keys'[k].status = IF k \in Hit THEN status ELSE keys[k].status
  <2>1. keys[k] \in KeyRow /\ status \in Status
    BY <1>1 DEF Status
  <2>2. keys'[k] = IF k \in Hit THEN [keys[k] EXCEPT !.status = status]
                   ELSE keys[k]
    OBVIOUS
  <2> QED
    BY <2>1, <2>2 DEF KeyRow
<1>3. DOMAIN keys' = DOMAIN keys
  OBVIOUS
<1>4. keys' \in Seq(KeyRow)
  <2>1. keys' \in [1 .. Len(keys) -> KeyRow] /\ Len(keys) \in Nat
    BY <1>1, <1>2
  <2> QED
    BY <2>1
<1>5. /\ told' \in [Customer -> StatusAskedFor] /\ told'[event.customer] = status
      /\ \A c \in Customer : c # event.customer => told'[c] = told[c]
  BY ToldType DEF KeysInv
<1>6. KeyTypes'
  BY <1>4, <1>5 DEF KeyTypes
<1>61. \A k \in DOMAIN keys : keys'[k].owner = keys[k].owner
                             /\ keys'[k].customer = keys[k].customer
  BY <1>2
<1>7. Distinct' /\ \A k \in DOMAIN keys' : BoundByPayment(k)'
  BY <1>3, <1>61, BindingsKept
<1>9. Follows'
  <2> SUFFICES ASSUME NEW c \in Customer, Alone(c), NEW j \in KeysOf(c)'
               PROVE  keys'[j].status = told'[c]
    BY DEF Follows, Alone
  <2>1. j \in DOMAIN keys /\ j \in KeysOf(c)
    BY <1>2, <1>3 DEF KeysOf
  <2>2. CASE c = event.customer
    BY <1>2, <1>5, <2>1, <2>2
  <2>3. CASE c # event.customer
    <3>1. j \notin Hit
      BY <2>1, <2>3
    <3> QED
      BY <1>2, <1>5, <2>1, <2>3, <3>1 DEF KeysInv, Follows
  <2> QED
    BY <2>2, <2>3
<1> QED
  BY <1>6, <1>7, <1>9 DEF KeysInv

\* The owner another customer's event names owns no key of a customer alone.
LEMMA OthersOwner ==
    ASSUME HandlerTypes, KeysInv, NEW c \in Customer, Alone(c),
           c # event.customer, NEW k \in KeysOf(c)
    PROVE  keys[k].owner # OwnerOf(event) /\ keys[k].owner # event.email
<1>1. PICK f \in Event : f.customer = c /\ f.kind \in Paying
                         /\ keys[k].owner = OwnerOf(f)
  BY DEF KeysOf, KeysInv, BoundByPayment
<1>2. f.email # "" /\ event.email # f.email /\ event \in Event
  BY <1>1 DEF Alone, HandlerTypes
<1> QED
  BY <1>1, <1>2, EventsAreStripeEvents DEF OwnerOf

LEMMA SuspendKeeps ==
    ASSUME HandlerTypes, KeysInv, Suspend PROVE KeysInv'
<1> DEFINE Hit == {k \in DOMAIN keys :
                     \/ k \in KeysOf(event.customer)
                     \/ /\ KeysOf(event.customer) = {}
                        /\ k \in OwnedBy(OwnerOf(event))
                        /\ keys[k].status # "inactive"}
<1>1. Handled /\ StatusAsked(event) = "suspended"
      /\ keys' = [k \in DOMAIN keys |->
                    IF k \in Hit THEN [keys[k] EXCEPT !.status = "suspended"]
                                 ELSE keys[k]]
  BY DEF Suspend, StatusAsked, Paying
<1>2. KeysOf(event.customer) \subseteq Hit
  BY DEF KeysOf
<1>3. \A c \in Customer \ {event.customer} : Alone(c) => KeysOf(c) \cap Hit = {}
  <2> SUFFICES ASSUME NEW c \in Customer \ {event.customer}, Alone(c),
                      NEW k \in KeysOf(c) \cap Hit
               PROVE  FALSE
    OBVIOUS
  <2>1. keys[k].owner # OwnerOf(event)
    BY OthersOwner
  <2> QED
    BY <2>1 DEF KeysOf, OwnedBy
<1> HIDE DEF Hit
<1> QED
  BY <1>1, <1>2, <1>3, StatusesSet

LEMMA DeactivateKeeps ==
    ASSUME HandlerTypes, KeysInv, Deactivate PROVE KeysInv'
<1> DEFINE Hit == {k \in DOMAIN keys :
                     \/ k \in KeysOf(event.customer)
                     \/ /\ KeysOf(event.customer) = {} /\ event.email # ""
                        /\ k \in OwnedBy(event.email)}
<1>1. Handled /\ StatusAsked(event) = "inactive"
      /\ keys' = [k \in DOMAIN keys |->
                    IF k \in Hit THEN [keys[k] EXCEPT !.status = "inactive"]
                                 ELSE keys[k]]
  BY DEF Deactivate, StatusAsked, Paying
<1>2. KeysOf(event.customer) \subseteq Hit
  BY DEF KeysOf
<1>3. \A c \in Customer \ {event.customer} : Alone(c) => KeysOf(c) \cap Hit = {}
  <2> SUFFICES ASSUME NEW c \in Customer \ {event.customer}, Alone(c),
                      NEW k \in KeysOf(c) \cap Hit
               PROVE  FALSE
    OBVIOUS
  <2>1. keys[k].owner # event.email
    BY OthersOwner
  <2> QED
    BY <2>1 DEF KeysOf, OwnedBy
<1> HIDE DEF Hit
<1> QED
  BY <1>1, <1>2, <1>3, StatusesSet

\* An event that asks for an activation and finds no key, or asks nothing.
LEMMA IgnoreKeeps ==
    ASSUME HandlerTypes, KeysInv, Ignore PROVE KeysInv'
<1>1. Handled /\ UNCHANGED keys
  BY DEF Ignore
<1>2. /\ told' \in [Customer -> StatusAskedFor]
      /\ told'[event.customer] = IF StatusAsked(event) = "none"
                                 THEN told[event.customer] ELSE StatusAsked(event)
      /\ \A c \in Customer : c # event.customer => told'[c] = told[c]
  BY <1>1, ToldType DEF KeysInv
<1>3. StatusAsked(event) = "none" \/ KeysOf(event.customer) = {}
  BY DEF Ignore, StatusAsked, Renewable, Paying
<1>4. KeyTypes' /\ Distinct' /\ \A k \in DOMAIN keys' : BoundByPayment(k)'
  BY <1>1, <1>2 DEF KeysInv, KeyTypes, Distinct, BoundByPayment
<1>5. Follows'
  <2> SUFFICES ASSUME NEW c \in Customer, Alone(c), NEW j \in KeysOf(c)
               PROVE  keys[j].status = told'[c]
    BY <1>1 DEF Follows, Alone, KeysOf
  <2> QED
    BY <1>2, <1>3 DEF KeysInv, Follows
<1> QED
  BY <1>4, <1>5 DEF KeysInv

LEMMA KeysStep == HandlerInv /\ KeysInv /\ [KeyNext]_keyVars => KeysInv'
<1> SUFFICES ASSUME HandlerInv, KeysInv, [KeyNext]_keyVars PROVE KeysInv'
  OBVIOUS
<1>0. HandlerTypes
  BY DEF HandlerInv
<1>1. ASSUME UNCHANGED <<keys, told>> PROVE KeysInv'
  BY <1>1 DEF KeysInv, KeyTypes, Distinct, Follows, BoundByPayment, Alone, KeysOf
<1>2. (\E e \in Event : Duplicate(e) \/ Mark(e) \/ MarkFails(e))
      \/ LookupFails \/ HandlerRaises \/ Acknowledge \/ StopHandler
      \/ UNCHANGED keyVars
      => UNCHANGED <<keys, told>>
  BY DEF Duplicate, Mark, MarkFails, LookupFails, HandlerRaises, Acknowledge,
         StopHandler, keyVars
<1> QED
  BY <1>0, <1>1, <1>2, RenewKeeps, CreateKeeps, SuspendKeeps, DeactivateKeeps,
     UpdateKeeps, IgnoreKeeps, ManualKeeps DEF KeyNext

LEMMA KeysStart == KeyInit => KeysInv
  BY DEF KeyInit, KeysInv, KeyTypes, Distinct, Follows, BoundByPayment, KeysOf,
         StatusAskedFor

LEMMA KeyInvariance == KeySpec => []KeyInv
<1>1. KeyInit => KeyInv
  BY HandlerStart, KeysStart DEF KeyInv
<1>2. KeyInv /\ [KeyNext]_keyVars => KeyInv'
  BY HandlerStep, KeysStep DEF KeyInv
<1> QED
  BY <1>1, <1>2, PTL DEF KeySpec
-----------------------------------------------------------------------------
\* No event is acted upon twice, and none is dropped silently, however often
\* it is delivered and wherever the process stops.
THEOREM HandledOnce == KeySpec => []EventsHandledOnce
<1>1. KeyInv => EventsHandledOnce
  BY DEF KeyInv, HandlerInv, EventsHandledOnce
<1> QED
  BY <1>1, KeyInvariance, PTL

\* The key of a customer who shares no e-mail follows the customer's own
\* events, in the order they are delivered.
THEOREM KeysFollow == KeySpec => []KeyFollowsItsEvents
<1>1. KeyInv => KeyFollowsItsEvents
  BY DEF KeyInv, KeysInv, Follows, KeyFollowsItsEvents
<1> QED
  BY <1>1, KeyInvariance, PTL

\* No two keys are bound to one customer.
THEOREM CustomersHaveOneKey ==
    KeySpec => [](\A c \in Customer : \A j, k \in KeysOf(c) : j = k)
<1>1. KeyInv => \A c \in Customer : \A j, k \in KeysOf(c) : j = k
  BY DEF KeyInv, KeysInv, Distinct, KeysOf
<1> QED
  BY <1>1, KeyInvariance, PTL
=============================================================================
