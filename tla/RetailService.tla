---------------------------- MODULE RetailService ----------------------------
(***************************************************************************)
(* The Retail Context Network runtime as a whole: handle_paid_resource     *)
(* (retail_context/service.py) is the admission of RetailAdmission followed*)
(* by the payment and delivery of RetailDelivery, in the same process and  *)
(* under the same operating mode.                                          *)
(*                                                                         *)
(* Past `await request.body()` nothing is awaited: a process works on one  *)
(* request at a time, and goes from passing admission to the facilitator   *)
(* without a store access in between, which makes that one step here.      *)
(***************************************************************************)
EXTENDS Naturals, FiniteSets

CONSTANTS
    Worker, Request, Binding, Build, SourceBinding, None,       \* of both
    Bucket, BucketOf, Window, Limit, RetryLimit, MaxTime,       \* admission
    Tx, Body, Rendering, Oversized                              \* delivery

VARIABLES
    mode, build,                                    \* of both
    clock, tokens, requests, guards,                \* admission
    step, attempt,                                  \*   its pc and job
    fresh, exempt, retried, seen,
    claims, evidence, settled, pc, job,             \* delivery
    released, refused, late,
    charged     \* history: settlements made since the last disable

Admission == INSTANCE RetailAdmission WITH pc <- step, job <- attempt
Delivery == INSTANCE RetailDelivery

ASSUME ServiceAssumption ==
    /\ BucketOf \in [Request -> Bucket]
    /\ SourceBinding \in [Build -> [Request -> Binding]]
    /\ Rendering \in [Build -> [Delivery!Uri -> Body \cup {Oversized}]]
    /\ {Window, Limit, RetryLimit} \subseteq Nat \ {0}
    /\ MaxTime \in Nat
    /\ None \notin Request \cup Binding \cup Nat
    /\ None \notin Admission!RequestRow \cup Admission!GuardRow
    /\ None \notin Body \cup Tx \cup Delivery!Uri
    /\ Oversized \notin Body
    /\ IsFiniteSet(Worker)

admissionOnly == <<clock, tokens, requests, guards, step, attempt,
                   fresh, exempt, retried, seen>>
deliveryOnly == <<claims, evidence, settled, pc, job, released, refused, late>>
serviceVars == <<mode, build, admissionOnly, deliveryOnly, charged>>
-----------------------------------------------------------------------------
ServiceInit == Admission!Init /\ Delivery!Init /\ charged = 0

\* The process has no request at hand.
Free(w) == step[w] = "idle" /\ pc[w] = "idle"

Ask(w, r, paid) ==
    /\ Free(w)
    /\ Admission!Receive(w, r, paid)
    /\ UNCHANGED <<deliveryOnly, charged>>

\* A step of _ensure_runtime_admission. An attempt that it passes without a
\* payment, or with one that cannot be decoded, is answered with a challenge
\* or an error.
Admit(w) == Admission!Attempt(w) /\ UNCHANGED <<deliveryOnly, charged>>

\* _ensure_runtime_admission returns None.
Passes(w) ==
    \/ Admission!UseContinuation(w) \/ Admission!UseRetry(w)
    \/ /\ step[w] = "guard"
       /\ IF Admission!GuardFits(w) THEN Admission!GuardRequest(w) ELSE FALSE

\* Mutant of Pay: a paid request settles once it has its token.
PayOnToken(w) ==
    /\ attempt[w].paid
    /\ step[w] = "record" /\ Admission!Finish(w)
    /\ Delivery!Receive(w, attempt[w].req)
    /\ UNCHANGED <<clock, tokens, requests, guards, fresh, exempt, retried,
                   seen, charged>>

\* With a payment, process_retail_x402_payment is next.
Pay(w) ==
    /\ attempt[w].paid
    /\ Passes(w)
    /\ Delivery!Receive(w, attempt[w].req)
    /\ UNCHANGED charged

\* The facilitator settles, whether the answer comes back or not.
Charge(w) ==
    /\ \E tx \in Tx : \/ Delivery!SettlementConfirmed(w, tx)
                      \/ Delivery!SettlementReplyLost(w, tx)
    /\ charged' = IF mode = "disabled" THEN charged + 1 ELSE charged
    /\ UNCHANGED admissionOnly

Deliver(w) ==
    /\ \/ Delivery!SettlementRefused(w)
       \/ Delivery!CheckMode(w) \/ Delivery!Claim(w) \/ Delivery!Resume(w)
       \/ Delivery!Render(w)
       \/ Delivery!ReadForFailure(w) \/ Delivery!MarkFailed(w)
       \/ Delivery!ReadClaim(w) \/ Delivery!MarkDelivered(w)
       \/ Delivery!ReadRaced(w) \/ Delivery!Respond(w)
    /\ UNCHANGED <<admissionOnly, charged>>

StoreFails(w) ==
    \/ Admission!StoreFails(w) /\ UNCHANGED <<deliveryOnly, charged>>
    \/ Delivery!StoreFails(w) /\ UNCHANGED <<admissionOnly, charged>>

Crash(w, b) ==
    Admission!Crash(w, b) /\ Delivery!Crash(w, b) /\ UNCHANGED charged

SetMode(m) ==
    /\ Admission!SetMode(m) /\ Delivery!SetMode(m)
    /\ charged' = IF m = mode THEN charged ELSE 0

Tick == Admission!Tick /\ UNCHANGED <<deliveryOnly, charged>>

ServiceNext ==
    \/ \E w \in Worker :
        \/ \E r \in Request, paid \in BOOLEAN : Ask(w, r, paid)
        \/ Admit(w) \/ Pay(w) \/ Charge(w) \/ Deliver(w)
        \/ StoreFails(w)
        \/ \E b \in Build : Crash(w, b)
    \/ \E m \in Admission!Mode : SetMode(m)
    \/ Tick

ServiceSpec == ServiceInit /\ [][ServiceNext]_serviceVars
-----------------------------------------------------------------------------
\* Nobody is charged for what was not admitted, nor answered without a
\* charge; and a request is only ever charged under the one source binding
\* it was admitted with, whatever registries the processes it is repeated to
\* were started with: a second payment never buys another resource.
ChargedAsAdmitted ==
    /\ \A s \in settled : s[1] \in seen
    /\ \A s, t \in settled : s[1][1] = t[1][1] => s[1] = t[1]
    /\ \A b \in released : <<b.uri, b.tx>> \in settled

\* The kill switch, for payer and operator: the mode is read before the
\* guard is consulted and again before the claim, neither in the transaction
\* that follows. While the service stays disabled each process may at most
\* once still settle a payment or claim one, not both.
DisabledStops ==
    mode = "disabled" => charged + Cardinality(late) <= Cardinality(Worker)
=============================================================================
