----------------------------- MODULE MCServices -----------------------------
(***************************************************************************)
(* Instances of the components beside the core: Stripe's key lifecycle,    *)
(* the entitlement gate, the queue, decision evidence, the reflex          *)
(* governance records, the feed gateway, the accepted-state brief, the     *)
(* architect's brief, Retail context, reflex memory and the environment    *)
(* telemetry.  They share no variable, so one run explores them one after  *)
(* the other: a behaviour picks its scene first and only the component of  *)
(* the scene moves; the states add up and do not multiply.                 *)
(***************************************************************************)
EXTENDS KeyLifecycle, KeyEntitlement, DecisionQueue, DecisionEvidence,
        ReflexGovernance, FeedGateway, AcceptedState, ArchitectOperations,
        RetailContext, ReflexMemory, EnvironmentTelemetry

CONSTANTS t1, t2, o1, o2

VARIABLE scene

Scene == {"keys", "gate", "queue", "evidence", "reflex", "feed", "accepted",
          "architect", "retail", "memory", "telemetry"}

-----------------------------------------------------------------------------
(* Stripe: two customers, one of them without an e-mail; of the other a    *)
(* payment failure, an update and the end of the subscription come in any  *)
(* order, and its checkout may renew a key made by hand.                   *)
Stripe(id, about, customer, email, price) ==
    [id |-> id, kind |-> about, customer |-> customer, email |-> email,
     price |-> price]
MCEvent ==
    {Stripe(1, "checkout.session.completed", "c1", "a", "core"),
     Stripe(2, "checkout.session.completed", "c2", "", "core"),
     Stripe(3, "invoice.payment_failed", "c1", "a", ""),
     Stripe(4, "customer.subscription.deleted", "c1", "", ""),
     Stripe(5, "customer.subscription.updated", "c1", "", "enterprise")}

(* The gate: a limited key, a suspended and an unknown one; the legacy key *)
(* and a telemetry key that another record of the environment names.       *)
KeyRecord(tier, status, paths, span, max) ==
    [tier |-> tier, status |-> status, paths |-> paths, window |-> span,
     max |-> max]
MCLimited == KeyRecord("core", "active", {}, 2, 1)
MCStore == {MCLimited, KeyRecord("", "suspended", {}, 0, 0), NoRecord}
MCPlain == [env |-> NoRecord, legacy |-> TRUE, telemetry |-> FALSE]
MCKind == {MCPlain,
           [env |-> KeyRecord("core", "", {"context"}, 0, 0),
            legacy |-> FALSE, telemetry |-> TRUE]}

MCDecision == {[rank |-> 0, asset |-> "eth"], [rank |-> 1, asset |-> "eth"],
               [rank |-> 2, asset |-> "btc"]}

MCAsked == {[increases |-> TRUE, asset |-> "ETH", domains |-> {"validator"}],
            [increases |-> FALSE, asset |-> "ANY", domains |-> {}]}
MCRefusal == {[category |-> "loop_integrity", status |-> "PRESSURE_ESCALATED"]}

Seen(status, intervention, class, hash) ==
    [signature |-> "s", status |-> status, intervention |-> intervention,
     class |-> class, hash |-> hash, reflexes |-> {"r1"},
     registered |-> {"r1", "r2"}, mismatch |-> FALSE, memory |-> FALSE]
MCSeen == Seen("CONSTRAIN", "constraint", "fragility", "h2")
MCObserved == {MCSeen}
\* Two records, and what a third has made of them two days later.
MCBefore(days) == [i \in DOMAIN days |-> MCSeen @@ [day |-> days[i]]]
MCFound ==
    {[day |-> 1, records |-> MCBefore(<<0, 0>>), held |-> <<>>],
     [day |-> 2, records |-> MCBefore(<<0, 0, 2>>),
      held |-> [k \in {<<"overactive_reflex", "r1", 3>>,
                       <<"classification_compression", "fragility", 3>>} |->
                  [state |-> "pending_resolution", resolution |-> "none",
                   impact |-> TRUE]]]}

MCPayerOf == "p1" :> "payer"
MCTierAsked == [c \in {"holder", "payer"} |->
                  IF c = "payer" THEN "enterprise" ELSE "developer"]
MCCadence == [t \in {"developer", "growth", "enterprise"} |->
                IF t = "developer" THEN 2 ELSE 1]
MCIncluded == [t \in {"developer", "growth", "enterprise"} |-> 1]

Told(id, created, status, effect, attempted, complete) ==
    [id |-> id, created |-> created, status |-> status, effect |-> effect,
     attempted |-> attempted, complete |-> complete]
MCProofRecord ==
    {Told("p1", 1, "failed", "none", FALSE, TRUE),
     Told("p2", 2, "passed", "approve", TRUE, TRUE),
     Told("p3", 2, "failed", "none", FALSE, FALSE),
     Told("p4", 0, "unknown", "none", FALSE, TRUE),
     Told("p5", 3, "failed", "none", FALSE, TRUE)}
Evidence(id, flags) ==
    [id |-> id, flags |-> flags, class |-> "live", live |-> FALSE]
MCFixture ==
    {{Evidence("r1", {"execution_attempted", "provenance_complete"}),
      Evidence("r2", {"request", "link_failed"})},
     {Evidence("r1", {"authority_invalid", "context_created"}),
      Evidence("r2", {"provenance_complete", "replay_attempted"})}}

Says(scope, statement, status) ==
    [scope |-> scope, statement |-> statement, status |-> status]
Publishes(id, source, status, verification, age, material, claims) ==
    [id |-> id, source |-> source, status |-> status,
     verification |-> verification, age |-> age, material |-> material,
     claims |-> claims]
MCPublication ==
    {Publishes("o1", "A", "observed", "verified", 1, FALSE,
             {Says("price", "up", "observed")}),
     Publishes("o2", "A", "stale", "verified", 3, FALSE,
             {Says("price", "up", "observed"),
              Says("price", "down", "observed")}),
     Publishes("o3", "B", "observed", "verified", 2, FALSE,
             {Says("price", "down", "observed")}),
     Publishes("o4", "B", "observed", "present_unverified", 2, TRUE,
             {Says("price", "up", "unresolved")}),
     Publishes("o5", "B", "observed", "verified", 1, FALSE,
             {Says("price", "up", "observed"),
              Says("price", "up", "unresolved")})}
Lists(source, ready, namespace, access, terms) ==
    [source |-> source, ready |-> ready, namespace |-> namespace,
     access |-> access, terms |-> terms]
MCListing ==
    {Lists("A", TRUE, "retail_public_sources", "public", "none"),
     Lists("B", TRUE, "retail_licensed_sources", "retail_licensed",
           "retail_context"),
     Lists("B", FALSE, "retail_licensed_sources", "retail_licensed",
           "retail_context")}

Configured(admissible, age, staleAfter, ratio) ==
    [admissible |-> admissible, age |-> age, staleAfter |-> staleAfter,
     ratio |-> ratio]
Both == {"fragility_escalation", "liquidity_deterioration"}
MCHour == Configured(Both, 1800, 0, 0)
MCSetting == {MCHour, Configured(Both, 60, 60, 0), Configured({}, 0, 60, 90)}
MCRequest == {[intent |-> i, size |-> s] : i \in {"trade", "hold"}, s \in {0, 1}}
Fixed(id, effect, sound) == [id |-> id, effect |-> effect, sound |-> sound]
MCShelves ==
    <<<<Fixed("RM-1", "surface", TRUE), Fixed("RM-2", "flag", TRUE)>>,
      <<Fixed("RM-1", "surface", TRUE), Fixed("RM-2", "approve", FALSE)>>,
      <<Fixed("RM-2", "proof", TRUE)>>>>
MCShelf == {MCShelves[i] : i \in DOMAIN MCShelves}

Answered(status, state, loop, telemetry, temporal) ==
    [status |-> status, state |-> state, loop |-> loop,
     telemetry |-> telemetry, temporal |-> temporal, disagreement |-> FALSE]
MCOutcome ==
    {Answered("ALLOW", "NORMAL", 0, FALSE, FALSE),
     Answered("RETRY_DELAYED", "CONSTRAINED_OPERATION", 0, FALSE, FALSE),
     Answered("DENY", "PRESSURE_ELEVATED", 300, FALSE, FALSE),
     Answered("PRESSURE_ESCALATED", "PRESSURE_ELEVATED", 300, FALSE, FALSE),
     Answered("CAUTION", "NORMAL", 0, TRUE, TRUE)}
-----------------------------------------------------------------------------
MCInit ==
    /\ scene \in Scene
    /\ KeyInit /\ QueueInit /\ EvidenceInit /\ ReflexInit /\ AcceptedInit
    /\ ArchitectInit /\ RetailContextInit /\ TelemetryInit
    /\ GateInit /\ FeedInit /\ MemoryInit
    \* Where a component starts in one of several ways, the others' scenes
    \* fix one.
    /\ scene # "gate" => kind = MCPlain /\ store = MCLimited
    /\ scene # "feed" => x402 = "on"
    /\ originMain = 1
    /\ scene # "reflex" => day = 1
    /\ scene # "memory" => /\ regime = "Stress" /\ setting = MCHour
                           /\ shelf = MCShelves[1]

\* All components but the one of the scene stand still.
Still ==
    /\ IF scene = "keys" THEN TRUE ELSE UNCHANGED keyVars
    /\ IF scene = "gate" THEN TRUE ELSE UNCHANGED gateVars
    /\ IF scene = "queue" THEN TRUE ELSE UNCHANGED queueVars
    /\ IF scene = "evidence" THEN TRUE ELSE UNCHANGED evidenceVars
    /\ IF scene = "reflex" THEN TRUE ELSE UNCHANGED reflexVars
    /\ IF scene = "feed" THEN TRUE ELSE UNCHANGED feedVars
    /\ IF scene = "accepted" THEN TRUE ELSE UNCHANGED acceptedVars
    /\ IF scene = "architect" THEN TRUE ELSE UNCHANGED architectVars
    /\ IF scene = "retail" THEN TRUE ELSE UNCHANGED retailContextVars
    /\ IF scene = "memory" THEN TRUE ELSE UNCHANGED memoryVars
    /\ IF scene = "telemetry" THEN TRUE ELSE UNCHANGED telemetryVars
    /\ UNCHANGED scene

MCNext ==
    \/ scene = "keys" /\ KeyNext /\ Still
    \/ scene = "gate" /\ GateNext /\ Still
    \/ scene = "queue" /\ QueueNext /\ Still
    \/ scene = "evidence" /\ EvidenceNext /\ Still
    \/ scene = "reflex" /\ ReflexNext /\ Still
    \/ scene = "feed" /\ FeedNext /\ Still
    \/ scene = "accepted" /\ AcceptedNext /\ Still
    \/ scene = "architect" /\ ArchitectNext /\ Still
    \/ scene = "retail" /\ RetailContextNext /\ Still
    \/ scene = "memory" /\ MemoryNext /\ Still
    \/ scene = "telemetry" /\ TelemetryNext /\ Still

allVars == <<keyVars, gateVars, queueVars, evidenceVars, reflexVars, feedVars,
             acceptedVars, architectVars, retailContextVars, memoryVars,
             telemetryVars, scene>>
MCSpec == MCInit /\ [][MCNext]_allVars
=============================================================================
