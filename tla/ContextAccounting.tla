------------------------- MODULE ContextAccounting -------------------------
(***************************************************************************)
(* What one API key is counted, metered, charged and budgeted for its      *)
(* GET /v1/context calls (app.py, core/usage_meter.py,                     *)
(* core/billing_state.py). The handler is a plain def, which the server    *)
(* runs in a thread pool: the threads of one process share the counters,   *)
(* and some of these are read, changed and saved under different locks or  *)
(* under none. An action is what no other thread can cut in two: a block   *)
(* under one lock, or bytecode without a call in it (total_calls += 1).    *)
(*                                                                         *)
(* Billing enforcement is on, as it is in production, the counters live in *)
(* the process and in files (no Redis), and the model covers one UTC day.  *)
(* The governance layers between metering and budget only decide here      *)
(* whether the call goes on (Stop).                                        *)
(***************************************************************************)
EXTENDS Naturals, FiniteSets

CONSTANTS
    Caller,       \* threads of the process
    Quota,        \* monthly_quota of the key
    Free,         \* FREE_CONTEXT_CALL_LIMIT
    Funds,        \* prepaid_balance of the key, in cents
    Cost,         \* cost_this_request, in cents
    Limit,        \* permission budget of the day for the class of the intent
    Size,         \* sizes a call may ask for; 0 for a call without a size
    WritesFail,   \* whether saving a file may fail (errors are swallowed)
    MaxRestarts   \* bound on restarts of the process

ASSUME AccountingAssumption ==
    /\ IsFiniteSet(Caller) /\ Caller # {}
    /\ {Quota, Free, Funds, Cost, Limit, MaxRestarts} \subseteq Nat
    /\ Cost > 0
    /\ Size \subseteq Nat
    /\ WritesFail \in BOOLEAN

VARIABLES
    total, usageFile,     \* total_calls of USAGE_TRACKING, and as saved
    sharing,              \* threads whose open .tmp file another one opened
    calls, callsFile,     \* context_calls of the usage meter, and as saved
    billed, billedFile,   \* decisions_billed of the billing state, as saved
    ledger, ledgerFile,   \* the key's entry of BILLING_LEDGER, and as saved
    consumed,             \* budget_classes[class]["consumed"], never saved
    pc, job,              \* next step and locals of each thread
    made,                 \* history: calls metered
    admitted,             \* history: size admitted under the budget
    restarts

usage == <<total, usageFile, sharing>>
meter == <<calls, callsFile, made>>
dues == <<billed, billedFile>>
purse == <<ledger, ledgerFile>>
budget == <<consumed, admitted>>
vars == <<usage, meter, dues, purse, budget, pc, job, restarts>>

Step == {"idle", "quota", "track", "dump", "write", "meter", "sync",
         "govern", "spend", "balance", "compare", "debit"}
Job == [kind : {"context", "count", "summary", "unbilled"}, size : Nat,
        read : Nat]
NoJob == [kind |-> "count", size |-> 0, read |-> 0]
Account == [balance : Nat, debits : Nat]

Least(a, b) == IF a < b THEN a ELSE b
Beyond(a, b) == IF a > b THEN a - b ELSE 0   \* max(a - b, 0)
-----------------------------------------------------------------------------
Init ==
    /\ total = 0 /\ usageFile = 0 /\ sharing = {}
    /\ calls = 0 /\ callsFile = 0 /\ made = 0
    /\ billed = 0 /\ billedFile = 0
    /\ ledger = [balance |-> Funds, debits |-> 0] /\ ledgerFile = ledger
    /\ consumed = 0 /\ admitted = 0
    /\ pc = [c \in Caller |-> "idle"]
    /\ job = [c \in Caller |-> NoJob]
    /\ restarts = 0

Goto(c, step) == pc' = [pc EXCEPT ![c] = step]
Proceed(c, step) == Goto(c, step) /\ UNCHANGED job
Keep(c, step, value) ==
    Goto(c, step) /\ job' = [job EXCEPT ![c].read = value]
Unbilled(c) ==
    Goto(c, "balance") /\ job' = [job EXCEPT ![c].kind = "unbilled"]
Finish(c) == Goto(c, "idle") /\ job' = [job EXCEPT ![c] = NoJob]

\* The file holds the value in memory after a save that worked.
Saved(value, file) == {value} \cup (IF WritesFail THEN {file} ELSE {})
-----------------------------------------------------------------------------
\* GET /v1/context, or /v1/regime and /v1/epoch, which only count.
Receive(c, kind, size) ==
    /\ pc[c] = "idle"
    /\ Goto(c, "quota")
    /\ job' = [job EXCEPT ![c] = [kind |-> kind, size |-> size, read |-> 0]]
    /\ UNCHANGED <<usage, meter, dues, purse, budget, restarts>>

\* Mutant of CheckQuota: the last call of the quota is not refused.
CheckQuotaLate(c) ==
    /\ pc[c] = "quota"
    /\ IF total <= Quota THEN Proceed(c, "track") ELSE Finish(c)
    /\ UNCHANGED <<usage, meter, dues, purse, budget, restarts>>

CheckQuota(c) ==
    /\ pc[c] = "quota"
    /\ IF total < Quota THEN Proceed(c, "track") ELSE Finish(c)
    /\ UNCHANGED <<usage, meter, dues, purse, budget, restarts>>

\* Optional rate limit of the key, after the quota and before the count.
RateLimited(c) ==
    /\ pc[c] = "track"
    /\ Finish(c)
    /\ UNCHANGED <<usage, meter, dues, purse, budget, restarts>>

Track(c) ==
    /\ pc[c] = "track"
    /\ total' = total + 1
    /\ Proceed(c, "dump")
    /\ UNCHANGED <<usageFile, sharing, meter, dues, purse, budget, restarts>>

\* _write_usage_file takes no lock. It opens the one .tmp file all threads
\* use, which truncates it, and dumps the counters. A thread about to dump may
\* have opened the file already ...
DumpUsage(c) ==
    LET saving == {d \in Caller \ {c} : pc[d] \in {"dump", "write"}}
    IN  /\ pc[c] = "dump"
        /\ Keep(c, "write", total)
        /\ sharing' = IF saving = {} THEN sharing
                      ELSE sharing \cup saving \cup {c}
        /\ UNCHANGED <<total, usageFile, meter, dues, purse, budget, restarts>>

\* ... flushes the dump and renames the file. If another thread truncated,
\* overwrote or renamed it in between, the file may be left unreadable, and
\* then loads as no usage at all, hold the other's dump, or not be replaced.
Dumped == {job[d].read : d \in {e \in Caller : pc[e] = "write"}}
WriteUsage(c) ==
    /\ pc[c] = "write"
    /\ usageFile' \in Saved(job[c].read, usageFile)
                      \cup (IF c \in sharing THEN {0, usageFile} \cup Dumped
                                             ELSE {})
    /\ sharing' = sharing \ {c}
    /\ IF job[c].kind = "context" THEN Proceed(c, "meter") ELSE Finish(c)
    /\ UNCHANGED <<total, meter, dues, purse, budget, restarts>>
-----------------------------------------------------------------------------
\* increment_context_call, under the lock of the meter. A failed save keeps
\* the count in memory but returns nothing to synchronise.
Meter(c) ==
    /\ pc[c] = "meter"
    /\ calls' = calls + 1
    /\ made' = made + 1
    /\ \/ callsFile' = calls' /\ Keep(c, "sync", calls')
       \/ WritesFail /\ UNCHANGED callsFile /\ Proceed(c, "govern")
    /\ UNCHANGED <<usage, dues, purse, budget, restarts>>

\* GET /v1/billing/summary reads the meter, then synchronises as well.
Summary(c) ==
    /\ pc[c] = "idle"
    /\ Goto(c, "sync")
    /\ job' = [job EXCEPT ![c] = [kind |-> "summary", size |-> 0,
                                  read |-> calls]]
    /\ UNCHANGED <<usage, meter, dues, purse, budget, restarts>>

\* GET /v1/proof counts in the same meter, POST /v1/billing/bind_wallet
\* changes the same billing state: each saves all of its file.
CountProof(c) ==
    /\ pc[c] = "idle"
    /\ callsFile' \in Saved(calls, callsFile)
    /\ UNCHANGED <<usage, calls, made, dues, purse, budget, pc, job, restarts>>
BindWallet(c) ==
    /\ pc[c] = "idle"
    /\ billedFile' \in Saved(billed, billedFile)
    /\ UNCHANGED <<usage, meter, billed, purse, budget, pc, job, restarts>>

\* Mutant of Sync: the decisions are added to those billed before.
SyncAdds(c) ==
    /\ pc[c] = "sync"
    /\ billed' = billed + Beyond(job[c].read, Free)
    /\ billedFile' \in Saved(billed', billedFile)
    /\ IF job[c].kind = "summary" THEN Finish(c) ELSE Proceed(c, "govern")
    /\ UNCHANGED <<usage, meter, purse, budget, restarts>>

\* sync_context_usage, under the lock of the billing state, with a count
\* read under the meter's.
Sync(c) ==
    /\ pc[c] = "sync"
    /\ billed' = Beyond(job[c].read, Free)
    /\ billedFile' \in Saved(billed', billedFile)
    /\ IF job[c].kind = "summary" THEN Finish(c) ELSE Proceed(c, "govern")
    /\ UNCHANGED <<usage, meter, purse, budget, restarts>>
-----------------------------------------------------------------------------
\* A governance layer or a validation answers the call: neither budget nor
\* balance is touched.
Stop(c) ==
    /\ pc[c] = "govern"
    /\ Finish(c)
    /\ UNCHANGED <<usage, meter, dues, purse, budget, restarts>>

\* A vetoed decision takes no budget and is not billed.
Veto(c) ==
    /\ pc[c] = "govern"
    /\ Unbilled(c)
    /\ UNCHANGED <<usage, meter, dues, purse, budget, restarts>>

\* _evaluate_permission_budget: consumed_before is read ...
ReadBudget(c) ==
    /\ pc[c] = "govern"
    /\ IF job[c].size = 0 THEN Proceed(c, "balance")
       ELSE IF Beyond(Limit, consumed) = 0 THEN Finish(c)
       ELSE Keep(c, "spend", consumed)
    /\ UNCHANGED <<usage, meter, dues, purse, budget, restarts>>

\* Mutant of SpendBudget: the size is not cut to what remains.
SpendAll(c) ==
    /\ pc[c] = "spend"
    /\ consumed' = job[c].read + job[c].size
    /\ admitted' = admitted + job[c].size
    /\ Proceed(c, "balance")
    /\ UNCHANGED <<usage, meter, dues, purse, restarts>>

\* ... and written back later, without a lock, increased by what is admitted.
\* A call cut to what remains is a REDUCE, which is not billed.
SpendBudget(c) ==
    LET remaining == Beyond(Limit, job[c].read)
        granted == Least(job[c].size, remaining)
    IN  /\ pc[c] = "spend"
        /\ consumed' = job[c].read + granted
        /\ admitted' = admitted + granted
        /\ IF job[c].size > remaining THEN Unbilled(c)
                                      ELSE Proceed(c, "balance")
        /\ UNCHANGED <<usage, meter, dues, purse, restarts>>

\* _ensure_billing_account, under the lock of the ledger, saves it; a
\* decision that is not billable ends there.
OpenAccount(c) ==
    /\ pc[c] = "balance"
    /\ ledgerFile' \in Saved(ledger, ledgerFile)
    /\ IF job[c].kind = "unbilled" THEN Finish(c) ELSE Proceed(c, "compare")
    /\ UNCHANGED <<usage, meter, dues, ledger, budget, restarts>>

\* GET /v1/billing and /v1/balance save it too.
ShowBalance(c) ==
    /\ pc[c] = "idle"
    /\ ledgerFile' \in Saved(ledger, ledgerFile)
    /\ UNCHANGED <<usage, meter, dues, ledger, budget, pc, job, restarts>>

\* Mutant of CheckBalance: the balance is not compared with the cost.
ChargeAnyway(c) ==
    /\ pc[c] = "compare"
    /\ UNCHANGED ledgerFile
    /\ Keep(c, "debit", ledger.balance)
    /\ UNCHANGED <<usage, meter, dues, ledger, budget, restarts>>

\* _billing_result_for_decision compares the balance outside the lock. A
\* denial is recorded in the ledger, which is saved.
CheckBalance(c) ==
    /\ pc[c] = "compare"
    /\ IF ledger.balance < Cost
       THEN Finish(c) /\ ledgerFile' \in Saved(ledger, ledgerFile)
       ELSE Keep(c, "debit", ledger.balance) /\ UNCHANGED ledgerFile
    /\ UNCHANGED <<usage, meter, dues, ledger, budget, restarts>>

\* Mutant of Debit: the balance compared before is debited.
DebitCompared(c) ==
    /\ pc[c] = "debit"
    /\ ledger' = [balance |-> Beyond(job[c].read, Cost),
                  debits |-> ledger.debits + 1]
    /\ ledgerFile' \in Saved(ledger', ledgerFile)
    /\ Finish(c)
    /\ UNCHANGED <<usage, meter, dues, budget, restarts>>

\* _debit_balance, under the lock of the ledger: never below zero.
Debit(c) ==
    /\ pc[c] = "debit"
    /\ ledger' = [balance |-> Beyond(ledger.balance, Cost),
                  debits |-> ledger.debits + 1]
    /\ ledgerFile' \in Saved(ledger', ledgerFile)
    /\ Finish(c)
    /\ UNCHANGED <<usage, meter, dues, budget, restarts>>

\* The process stops and starts again from its files; the budget is lost.
Restart ==
    /\ restarts < MaxRestarts
    /\ restarts' = restarts + 1
    /\ total' = usageFile /\ sharing' = {} /\ calls' = callsFile
    /\ billed' = billedFile /\ ledger' = ledgerFile
    /\ consumed' = 0
    /\ pc' = [c \in Caller |-> "idle"]
    /\ job' = [c \in Caller |-> NoJob]
    /\ UNCHANGED <<usageFile, callsFile, billedFile, ledgerFile, made, admitted>>

Serve(c) ==
    \/ CheckQuota(c) \/ RateLimited(c) \/ Track(c)
    \/ DumpUsage(c) \/ WriteUsage(c)
    \/ Meter(c) \/ Summary(c) \/ Sync(c) \/ CountProof(c) \/ BindWallet(c)
    \/ Stop(c) \/ Veto(c) \/ ReadBudget(c) \/ SpendBudget(c)
    \/ OpenAccount(c) \/ ShowBalance(c) \/ CheckBalance(c) \/ Debit(c)

Next ==
    \/ \E c \in Caller :
        \/ \E size \in Size : Receive(c, "context", size)
        \/ Receive(c, "count", 0)
        \/ Serve(c)
    \/ Restart

Spec == Init /\ [][Next]_vars
-----------------------------------------------------------------------------
\* Counters are natural numbers and locals are what the steps leave there.
TypeOK ==
    /\ total \in Nat /\ usageFile \in Nat /\ sharing \subseteq Caller
    /\ calls \in Nat /\ callsFile \in Nat /\ made \in Nat
    /\ billed \in Nat /\ billedFile \in Nat
    /\ ledger \in Account /\ ledgerFile \in Account
    /\ consumed \in Nat /\ admitted \in Nat /\ restarts \in Nat
    /\ pc \in [Caller -> Step]
    /\ job \in [Caller -> Job]

\* The monthly quota is compared and counted in two steps, so that threads
\* may pass the comparison together; the overrun is less than their number,
\* and no restart from an old usage file makes it larger.
QuotaOverrunBounded == total <= Quota + Cardinality(Caller) - 1

\* Nobody is ever billed for more decisions than were metered beyond the
\* free allowance, however synchronisations are reordered, saves fail and
\* restarts bring back old counts.
NeverOverbilled ==
    billed <= Beyond(made, Free) /\ billedFile <= Beyond(made, Free)

\* The ledger tells one story: the balance is the funds less every debit of
\* the history, in memory and on disk, although the clamp hides an overdraft.
AddsUp(entry) == entry.balance = Beyond(Funds, entry.debits * Cost)
LedgerAddsUp == AddsUp(ledger) /\ AddsUp(ledgerFile)

\* A decision is debited only if the balance covered it when compared: what
\* threads that race past the comparison may overdraw is less than one
\* decision per thread, for ever.
OverdraftBounded ==
    ledger.debits * Cost < Funds + Cardinality(Caller) * Cost

\* Budgets and balances as the documents state them: the size admitted in a
\* day is within the daily budget, which a restart grants once more
\* (PERMISSION_BUDGET_STATE), and no decision is provided unfunded.
AdmittedWithinBudget == admitted <= Limit * (restarts + 1)
NoOverdraft == ledger.debits * Cost <= Funds

\* Once no call is being served, the account owes what the meter counted; a
\* call that a restart cut off between the two is owed with the next one.
BilledWhenQuiet ==
    (\A c \in Caller : pc[c] = "idle") =>
        /\ billed <= Beyond(calls, Free)
        /\ Beyond(calls, Free) <= billed + restarts
=============================================================================
