------------------------ MODULE MCContextGovernance ------------------------
(***************************************************************************)
(* A small instance of ContextGovernance for TLC: calls that reach every   *)
(* evaluator, and keys configured with one or several of them.             *)
(***************************************************************************)
EXTENDS ContextGovernance

Number(cents) == [form |-> "number", cents |-> cents]
Text(form) == [form |-> form, cents |-> 0]

Plain == [intent |-> "trade", asset |-> "ETH", size |-> Number(150),
          venue |-> "none", strategy |-> {}, flags |-> {}, age |-> -1,
          reliability |-> 900, scores |-> {}, authority |-> FALSE,
          evidence |-> {}]

MCRequest ==
    {Plain,
     [Plain EXCEPT !.asset = "BTC", !.size = Number(30000000)],
     [Plain EXCEPT !.strategy = {"ignore", "rules"},
                   !.flags = {"bypass_attempt", "override_attempt"}],
     [Plain EXCEPT !.authority = TRUE, !.evidence = {"fresh", "review"},
                   !.scores = {600, 800}, !.reliability = -1],
     [Plain EXCEPT !.age = 61],
     [Plain EXCEPT !.scores = {100, 900}],
     [Plain EXCEPT !.size = Text("vague"), !.venue = "dex"],
     [Plain EXCEPT !.intent = "exit_position", !.size = Text("text")]}

Key(layers, haltThreshold, regime) ==
    [layers |-> layers, haltThreshold |-> haltThreshold, regime |-> regime]

MCAllLayers ==
    {Key({"temporal", "loop", "telemetry", "halt_release",
          "permission_budgeting"}, 0, "Stable")}

MCReleaseAlone == {Key({"halt_release", "billing"}, 0, "Elevated Fragility")}

MCDeployment ==
    MCAllLayers \cup MCReleaseAlone \cup
    {Key({"temporal", "halt_release"}, 2, "Stable"),
     Key({"loop", "halt_release"}, 0, "Elevated Fragility"),
     Key({"telemetry", "loop"}, 0, "Stress"),
     Key({"permission_budgeting", "billing"}, 0, "Elevated Fragility")}

MCMinReliability == [c \in Class |->
                        IF c = "risk_increasing" THEN 700 ELSE 0]
MCBudget == [c \in Class |-> IF c = "risk_increasing" THEN 250 ELSE 100]
MCEvidence == {"fresh", "review"}
=============================================================================
