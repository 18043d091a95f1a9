------------------------- MODULE RetailDeliveryLive -------------------------
(***************************************************************************)
(* Progress of RetailDelivery after an outage. Until the outage ends       *)
(* anything may fail; afterwards (calm) the operator leaves the service    *)
(* enabled, the store works and processes stay up, but workers still race, *)
(* rendering may still fail and the facilitator may still refuse.          *)
(***************************************************************************)
EXTENDS RetailDelivery

VARIABLE calm   \* the outage is over

liveVars == <<vars, calm>>

LiveInit == Init /\ calm = FALSE

OutageEnds ==
    /\ ~calm /\ mode = "controlled_proof"
    /\ calm' = TRUE
    /\ UNCHANGED vars

LiveNext ==
    \/ ~calm /\ Next /\ UNCHANGED calm
    \/ OutageEnds
    \/ calm /\ (\E w \in Worker : Serve(w)) /\ UNCHANGED calm

\* The steps of a worker's handler: store transactions bounded by a busy
\* timeout, a facilitator call bounded by its own, straight-line code.
Advance(w) == calm /\ UNCHANGED calm /\
    (\/ Settle(w) \/ CheckMode(w) \/ Claim(w) \/ Resume(w) \/ Render(w)
     \/ ReadForFailure(w) \/ MarkFailed(w)
     \/ ReadClaim(w) \/ MarkDelivered(w) \/ ReadRaced(w) \/ Respond(w))

Retry(r) == calm /\ UNCHANGED calm /\ \E w \in Worker : Receive(w, r)

Resettle(u, tx) ==
    /\ calm /\ UNCHANGED calm
    /\ <<u, tx>> \in settled
    /\ \E w \in Worker : job[w].uri = u /\ SettlementConfirmed(w, tx)

\* A handler runs to its end. The environment is assumed to keep trying: the
\* payer repeats the request with its payment, and the facilitator answers a
\* settled payment with its settlement.
LiveSpec ==
    /\ LiveInit /\ [][LiveNext]_liveVars
    /\ \A w \in Worker : WF_liveVars(Advance(w))
    /\ \A r \in Request : SF_liveVars(Retry(r))
    /\ \A u \in Uri, tx \in Tx : SF_liveVars(Resettle(u, tx))

\* A payment settled on chain is not lost to a crash, a lost facilitator
\* answer, a disabled spell or a store failure: once the outage is over its
\* settlement ends in a delivered or failed claim.
SettledIsHonoured ==
    \A tx \in Tx : (calm /\ \E u \in Uri : <<u, tx>> \in settled)
        ~> (\E c \in claims : c.tx = tx /\ c.status # "pending")
=============================================================================
