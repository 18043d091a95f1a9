---------------------------- MODULE DecisionQueue ----------------------------
(***************************************************************************)
(* The decision queue of one API key (app.py, _evaluate_queue_governance): *)
(* every call to /v1/context is placed among the candidates that are still *)
(* live, the risk-reducing ones first.                                     *)
(*                                                                         *)
(* Handlers run in the server's thread pool and the queue has no lock, so  *)
(* a handler is modelled by the reads and writes of the shared queue it    *)
(* makes.  An entry leaves the queue by its age, its epoch or the cap,     *)
(* never because its call was answered.                                    *)
(***************************************************************************)
EXTENDS Naturals, Sequences, FiniteSets

CONSTANTS
    Thread,         \* threads of the pool that serve the key
    Decision,       \* what callers ask for: [rank, asset]; the rank is 0 for
                    \* a risk-reducing intent, 1 for an increasing one, else
                    \* 2, the asset is the conflict key
    QueueCap,       \* candidates a prune keeps (25 in the code)
    TimeToLive,     \* request_ttl_seconds of the key; 0 sets no expiry
    EpochLength,    \* clock ticks per epoch (an hour)
    MaxArrivals,    \* bound: calls
    MaxClock        \* bound: clock ticks

ASSUME QueueConstants ==
    /\ QueueCap \in Nat \ {0} /\ EpochLength \in Nat \ {0}
    /\ TimeToLive \in Nat /\ MaxArrivals \in Nat /\ MaxClock \in Nat
    /\ \A d \in Decision : d.rank \in 0..2

VARIABLES
    clock,
    queue,          \* state["entries"]: the calls it holds, by arrival
    nextSequence,   \* state["next_sequence"]
    caller,         \* per thread: [at the step, its call, what it has read]
    arrivals,       \* every call so far, in the order they were placed
    placed,         \* the last place told: [call, position, batch]
    raced           \* two threads have been in the queue at once

queueVars == <<clock, queue, nextSequence, caller, arrivals, placed, raced>>
-----------------------------------------------------------------------------
Epoch(time) == time \div EpochLength

\* Not expired, and of the present epoch.  The regime is fixed while the
\* process runs.
Live(entry, time) ==
    /\ TimeToLive = 0 \/ entry.time + TimeToLive > time
    /\ Epoch(entry.time) = Epoch(time)

\* An entry is appended when its call is recorded, so the list is in the
\* order of arrivals and the set of its calls says all of it.
LastOf(calls, n) == {i \in calls : Cardinality({j \in calls : j > i}) < n}

Pruned(calls, time) ==
    LastOf({i \in calls : Live(arrivals[i], time)}, QueueCap)

\* Mutant of PlaceOf: first come, first placed.
PlaceBySequence(calls, sequence) ==
    {1 + Cardinality({i \in calls : arrivals[i].sequence < sequence})}

\* The place of a sequence number in the order of rank, then sequence: the
\* first entry that carries it, {} when none does.
PlaceOf(calls, sequence) ==
    LET ranks == {arrivals[i].rank : i \in
                     {j \in calls : arrivals[j].sequence = sequence}}
    IN  {1 + Cardinality({i \in calls :
                \/ arrivals[i].rank < rank
                \/ arrivals[i].rank = rank /\ arrivals[i].sequence < sequence}) :
         rank \in {r \in ranks : \A other \in ranks : r <= other}}

Idle == [at |-> "idle"]
Step(t, at) == caller[t].at = at
Goto(t, record) == caller' = [caller EXCEPT ![t] = record]
-----------------------------------------------------------------------------
\* A call comes in; the clock is read before the queue.
Arrive(t, decision) ==
    /\ Step(t, "idle")
    /\ Cardinality({u \in Thread : ~Step(u, "idle")}) + Len(arrivals) < MaxArrivals
    /\ raced' = (raced \/ \E u \in Thread : ~Step(u, "idle"))
    /\ Goto(t, [at |-> "prune", decision |-> decision, time |-> clock])
    /\ UNCHANGED <<clock, queue, nextSequence, arrivals, placed>>

\* The live candidates are collected ...
Prune(t) ==
    /\ Step(t, "prune")
    /\ Goto(t, [at |-> "assign", decision |-> caller[t].decision,
                time |-> caller[t].time,
                kept |-> Pruned(queue, caller[t].time)])
    /\ UNCHANGED <<clock, queue, nextSequence, arrivals, placed, raced>>

\* ... and replace the queue, with all that was appended meanwhile; the
\* next sequence number is read.
Assign(t) ==
    /\ Step(t, "assign")
    /\ queue' = caller[t].kept
    /\ Goto(t, [at |-> "number", decision |-> caller[t].decision,
                time |-> caller[t].time, sequence |-> nextSequence])
    /\ UNCHANGED <<clock, nextSequence, arrivals, placed, raced>>

\* The number is taken and the candidate appended.
Enqueue(t) ==
    /\ Step(t, "number")
    /\ nextSequence' = caller[t].sequence + 1
    /\ arrivals' = Append(arrivals,
          [rank |-> caller[t].decision.rank, asset |-> caller[t].decision.asset,
           time |-> caller[t].time, sequence |-> caller[t].sequence])
    /\ queue' = queue \cup {Len(arrivals')}
    /\ Goto(t, [caller[t] EXCEPT !.at = "place"])
    /\ UNCHANGED <<clock, placed, raced>>

\* The call is told its place, and whether others wait on the same asset.
\* Without an entry of its number next() raises StopIteration: a 500.
Place(t) ==
    /\ Step(t, "place")
    /\ placed' = [call |-> Len(arrivals),
                  position |-> PlaceOf(queue, caller[t].sequence),
                  batch |-> Cardinality({i \in queue :
                                arrivals[i].asset = caller[t].decision.asset}) > 1]
    /\ Goto(t, Idle)
    /\ UNCHANGED <<clock, queue, nextSequence, arrivals, raced>>

QueueTick ==
    /\ clock < MaxClock /\ clock' = clock + 1
    /\ UNCHANGED <<queue, nextSequence, caller, arrivals, placed, raced>>
-----------------------------------------------------------------------------
QueueInit ==
    /\ clock = 0 /\ queue = {} /\ nextSequence = 1
    /\ caller = [t \in Thread |-> Idle]
    /\ arrivals = <<>> /\ raced = FALSE
    /\ placed = [call |-> 0, position |-> {}, batch |-> FALSE]

QueueNext ==
    \/ \E t \in Thread :
          \/ \E decision \in Decision : Arrive(t, decision)
          \/ Prune(t) \/ Assign(t) \/ Enqueue(t) \/ Place(t)
    \/ QueueTick

QueueSpec == QueueInit /\ [][QueueNext]_queueVars
-----------------------------------------------------------------------------
\* As long as calls come one at a time, each is told its rank among all
\* calls made so far that are still live (the last ones, up to the cap), and
\* that a batch review is due exactly when one of those has its asset.
\* With two threads at once a candidate may be lost, or numbered twice.
SerialCallsRanked ==
    ~raced /\ placed.call > 0 /\ placed.call = Len(arrivals)
      /\ (\A t \in Thread : Step(t, "idle")) =>
        LET own == arrivals[placed.call]
            live == Pruned(1..(placed.call - 1), own.time)
            ahead == {i \in live : arrivals[i].rank <= own.rank}
        IN  /\ placed.position = {1 + Cardinality(ahead)}
            /\ placed.batch <=> \E i \in live : arrivals[i].asset = own.asset
=============================================================================
