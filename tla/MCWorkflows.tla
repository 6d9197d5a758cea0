---------------------------- MODULE MCWorkflows ----------------------------
(* Workflows with patterns of every kind: a chain that ends in a race, a     *)
(* race of a handler against a fan-out, a route to it, workers with a loop,  *)
(* a race within a race.                                                     *)
EXTENDS Workflows, TLC

MCKind ==
  "pipeline" :> "chain" @@ "search" :> "first" @@ "deep" :> "all"
  @@ "triage" :> "route" @@ "both" :> "all" @@ "poll" :> "vote"
  @@ "crew" :> "orchestrate" @@ "refine" :> "optimize"
  @@ "relay" :> "first" @@ "quick" :> "first"

MCParts ==
  "pipeline" :> <<"hop", "search">> @@ "search" :> <<"hop", "deep">>
  @@ "deep" :> <<"hop">> @@ "triage" :> <<"both", "poll">>
  @@ "both" :> <<"hop", "hop">> @@ "poll" :> <<"hop", "hop">>
  @@ "crew" :> <<"hop", "refine">> @@ "refine" :> <<>>
  @@ "relay" :> <<"hop", "quick">> @@ "quick" :> <<"hop">>

MCPlans == DOMAIN MCKind

MCPrograms == {"pipeline", "triage", "crew", "relay", "hop"}
=============================================================================
