----------------------------- MODULE FeedGateway -----------------------------
(***************************************************************************)
(* The constraint-pressure feed: GET /v1/feeds/constraint_pressure         *)
(* (app.py) for holders of an API key and, without a key, for callers who  *)
(* pay per request by x402 (core/x402_middleware.py); its usage is metered *)
(* per consumer and month in memory and in a file (core/feed_metering.py). *)
(*                                                                         *)
(* Requests are served by a thread pool.  The time of a request is read    *)
(* before the lock of the meter is taken.  The facilitator verifies and    *)
(* settles payments; a settlement may succeed although its answer is lost. *)
(***************************************************************************)
EXTENDS Naturals, Sequences, FiniteSets

CONSTANTS
    Line,           \* threads of the pool
    Holder,         \* consumers with an API key
    Payment,        \* signed payment authorizations
    PayerOf,        \* [Payment -> the consumer who pays]
    TierAsked,      \* [Holder or payer -> feed tier]: of the key record, or
                    \* as the payment's own extension says
    Cadence,        \* [tier -> seconds between requests]
    Included,       \* [tier -> requests included in a month]
    MonthLength,    \* clock ticks in a month
    Rolling,        \* ROLLING_WINDOW_SECONDS
    MaxInstant,     \* bound: clock
    MaxServed,      \* bound: requests served in all, and metered per consumer
    MaxFaults       \* bound: failed writes, lost answers, process stops

FeedConsumer == Holder \cup {PayerOf[p] : p \in Payment}
FeedTier == {"developer", "growth", "enterprise"}

ASSUME FeedConstants ==
    /\ TierAsked \in [FeedConsumer -> FeedTier]
    /\ Cadence \in [FeedTier -> Nat] /\ Included \in [FeedTier -> Nat]
    /\ MonthLength \in Nat \ {0} /\ {Rolling, MaxInstant} \subseteq Nat

VARIABLES
    instant,        \* the clock
    x402,           \* how the process was started: x402 "off" or "on", or
                    \* without a wallet to be paid to
    line,           \* per thread: its request
    chain,          \* payments settled (on the chain)
    meter,          \* [consumer -> usage record]: _FEED_USAGE_STATE
    meterFile,      \* the file it is written to
    served,         \* history: [consumer, month, payment] of feeds delivered,
                    \* with their number
    reversed,       \* history: a request of one month was metered when the
                    \* count of the next had begun
    mischief        \* faults so far

feedVars == <<instant, x402, line, chain, meter, meterFile, served, reversed,
              mischief>>
-----------------------------------------------------------------------------
Month(time) == time \div MonthLength
Waiting == [at |-> "waiting"]
To(t, step) == line' = [line EXCEPT ![t].at = step]
Leave(t) == line' = [line EXCEPT ![t] = Waiting]
Blame == mischief < MaxFaults /\ mischief' = mischief + 1

\* _empty_record
NoUsage(time) == [month |-> Month(time), usage |-> 0, billable |-> 0, calls |-> 0,
                  last |-> 0, recent |-> <<>>]

\* _ensure_record_unlocked: a record of another month starts from nothing,
\* even when that month is the later one.
Ensured(c, time) ==
    IF c \notin DOMAIN meter THEN NoUsage(time)
    ELSE IF meter[c].month # Month(time)
         THEN [meter[c] EXCEPT !.month = Month(time), !.usage = 0, !.billable = 0]
         ELSE meter[c]

Overage(c, usage) ==
    IF usage > Included[TierAsked[c]] THEN usage - Included[TierAsked[c]] ELSE 0

\* Only reported: a request within the cadence is served all the same.
CadenceLimited(c, time) ==
    /\ c \in DOMAIN meter /\ meter[c].calls > 0
    /\ (IF time >= meter[c].last THEN time - meter[c].last ELSE 0)
           < Cadence[TierAsked[c]]

Within(times, time) == SelectSeq(times, LAMBDA s : time <= s + Rolling)

\* Mutant of Metered: a request within the cadence is not counted.
MeteredWhenDue(c, time) ==
    LET r == Ensured(c, time)
    IN  IF CadenceLimited(c, time) THEN [r EXCEPT !.last = time]
        ELSE [r EXCEPT !.usage = @ + 1, !.billable = Overage(c, r.usage + 1),
                       !.calls = @ + 1, !.last = time,
                       !.recent = Append(Within(@, time), time)]

\* record_feed_request
Metered(c, time) ==
    LET r == Ensured(c, time)
    IN  [r EXCEPT !.usage = @ + 1, !.billable = Overage(c, r.usage + 1),
                  !.calls = @ + 1, !.last = time,
                  !.recent = Append(Within(@, time), time)]

With(f, c, record) ==
    [d \in DOMAIN f \cup {c} |-> IF d = c THEN record ELSE f[d]]
-----------------------------------------------------------------------------
\* A caller with an API key that is entitled to the feed.
AskAsHolder(t, c) ==
    /\ line[t] = Waiting
    /\ line' = [line EXCEPT ![t] = [at |-> "stamp", consumer |-> c, payment |-> {}]]
    /\ UNCHANGED <<instant, x402, chain, meter, meterFile, served, reversed, mischief>>

\* authorize_x402_request: x402 must be enabled and payable to.
AskPaying(t, p) ==
    /\ line[t] = Waiting /\ x402 = "on"
    /\ line' = [line EXCEPT ![t] =
                  [at |-> "verify", consumer |-> PayerOf[p], payment |-> {p}]]
    /\ UNCHANGED <<instant, x402, chain, meter, meterFile, served, reversed, mischief>>

\* The facilitator refuses what is settled already.
Verify(t) ==
    /\ line[t].at = "verify"
    /\ IF line[t].payment \cap chain = {} THEN To(t, "settle") ELSE Leave(t)
    /\ UNCHANGED <<instant, x402, chain, meter, meterFile, served, reversed, mischief>>

\* Of requests with one authorization the facilitator settles one.
Settle(t) ==
    /\ line[t].at = "settle"
    /\ IF line[t].payment \cap chain = {}
       THEN chain' = chain \cup line[t].payment /\ To(t, "stamp")
       ELSE Leave(t) /\ UNCHANGED chain
    /\ UNCHANGED <<instant, x402, meter, meterFile, served, reversed, mischief>>

\* The facilitator cannot be reached or its answer is lost: payment required,
\* though the settlement may have happened.
FacilitatorFails(t, settled) ==
    /\ line[t].at \in {"verify", "settle"} /\ Blame
    /\ settled => line[t].at = "settle" /\ line[t].payment \cap chain = {}
    /\ chain' = IF settled THEN chain \cup line[t].payment ELSE chain
    /\ Leave(t)
    /\ UNCHANGED <<instant, x402, meter, meterFile, served, reversed>>

\* requested_at is read ...
Stamp(t) ==
    /\ line[t].at = "stamp"
    /\ line' = [line EXCEPT ![t] = [at |-> "meter", consumer |-> @.consumer,
                                    payment |-> @.payment, time |-> instant]]
    /\ UNCHANGED <<instant, x402, chain, meter, meterFile, served, reversed, mischief>>

\* ... and metered under the lock, which another thread may have had first.
\* When the file cannot be written the request fails, paid for or not; and
\* without a wallet every answer fails, once it is metered, for want of the
\* payment requirement that it should carry.
Meter(t, written) ==
    LET c == line[t].consumer
        time == line[t].time
    IN  /\ line[t].at = "meter"
        /\ Len(served) < MaxServed
        /\ c \in DOMAIN meter => meter[c].calls < MaxServed
        /\ meter' = With(meter, c, Metered(c, time))
        /\ reversed' = (reversed \/ (c \in DOMAIN meter /\ Month(time) < meter[c].month))
        /\ IF written
           THEN /\ meterFile' = meter'
                /\ served' = IF x402 = "no wallet" THEN served
                             ELSE Append(served, [consumer |-> c, month |-> Month(time),
                                                  payment |-> line[t].payment])
                /\ UNCHANGED mischief
           ELSE Blame /\ UNCHANGED <<meterFile, served>>
        /\ Leave(t)
        /\ UNCHANGED <<instant, x402, chain>>

\* GET /v1/feeds/usage: the month is brought up to date in memory only.
ReadUsage(c) ==
    /\ meter' = With(meter, c,
          LET r == Ensured(c, instant)
          IN  [r EXCEPT !.recent = Within(@, instant),
                        !.billable = Overage(c, r.usage)])
    /\ meter' # meter
    /\ UNCHANGED <<instant, x402, line, chain, meterFile, served, reversed, mischief>>

FeedStops(mode) ==
    /\ Blame
    /\ line' = [t \in Line |-> Waiting] /\ x402' = mode
    /\ meter' = meterFile
    /\ UNCHANGED <<instant, chain, meterFile, served, reversed>>

FeedTick ==
    /\ instant < MaxInstant /\ instant' = instant + 1
    /\ UNCHANGED <<x402, line, chain, meter, meterFile, served, reversed, mischief>>
-----------------------------------------------------------------------------
X402Mode == {"off", "no wallet", "on"}

FeedInit ==
    /\ instant = 0 /\ x402 \in X402Mode
    /\ line = [t \in Line |-> Waiting]
    /\ chain = {} /\ meter = <<>> /\ meterFile = <<>>
    /\ served = <<>> /\ reversed = FALSE /\ mischief = 0

FeedNext ==
    \/ \E t \in Line :
          \/ \E c \in Holder : AskAsHolder(t, c)
          \/ \E p \in Payment : AskPaying(t, p)
          \/ Verify(t) \/ Settle(t) \/ Stamp(t)
          \/ \E settled \in BOOLEAN : FacilitatorFails(t, settled)
          \/ \E written \in BOOLEAN : Meter(t, written)
    \/ \E c \in FeedConsumer : ReadUsage(c)
    \/ \E mode \in X402Mode : FeedStops(mode)
    \/ FeedTick

FeedSpec == FeedInit /\ [][FeedNext]_feedVars
-----------------------------------------------------------------------------
Deliveries(c, month) ==
    {i \in DOMAIN served : served[i].consumer = c /\ served[i].month = month}

\* No feed is delivered unmetered, and none to a caller without a key that
\* was not paid for by a payment of its own, whichever threads race and
\* wherever writes or the process fail: the file's usage of a month is at
\* least what was delivered in it, unless a request is metered after the
\* count of the next month began: around the turn of a month a thread that
\* was overtaken resets the count (record_feed_request, verify_and_settle).
DeliveriesMeteredAndPaid ==
    /\ ~reversed => \A c \in DOMAIN meterFile :
          meterFile[c].usage >= Cardinality(Deliveries(c, meterFile[c].month))
    /\ \A i \in DOMAIN served :
          /\ served[i].consumer \in Holder \/ served[i].payment # {}
          /\ served[i].payment \subseteq chain
          /\ \A j \in DOMAIN served :
                served[i].payment \cap served[j].payment # {} => i = j
=============================================================================
