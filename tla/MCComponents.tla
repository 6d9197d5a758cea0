---------------------------- MODULE MCComponents ----------------------------
(* The security package, the services around the bus, the bridges and the    *)
(* drivers of language models share no state but through their calls: a      *)
(* behaviour is that of one of them, the others stay as they begin.          *)
EXTENDS Authorization, Delegation, Authentication, Trail, Sessions, Contexts,
        Registry, Bridges, LLMDrivers, TLC

VARIABLE component

(* Policies with a rule at its limit before or after an open one, hours,     *)
(* constraints that fail and that raise; senders known and unknown.          *)
At(r, acts, cs, h, n) ==
  [resource |-> r, actions |-> acts, constraints |-> cs, hours |-> h, limit |-> n]
Need(f, op, v) == [field |-> f, op |-> op, value |-> v]

MCPolicySet ==
  { <<At("search", {"query"}, <<Need("level", "gte", 1)>>, None, 2),
      At(Star, {Star}, <<>>, [start |-> 1, end |-> 2], 1)>>,
    <<At(Star, {"query"}, <<Need("via", "ne", "a2a"), Need("level", "in", {1})>>, None, 0),
      At("search", {Star}, <<>>, None, 1)>> }

Msg(s, sk, me, ps, ch) ==
  [source |-> s, skill |-> sk, method |-> me, params |-> ps, chain |-> ch]
From(a, via) == [id |-> a, via |-> via]

MCMessages ==
  { Msg(From("a1", "aurc"), "search", "query", "level" :> 1, "accepted"),
    Msg(From("a1", "a2a"), "search", "query", "level" :> Text @@ "via" :> "aurc", "accepted"),
    Msg(From("a1", "aurc"), "search", "query", "level" :> 0, "rejected"),
    Msg(From("a1", "aurc"), None, "query", <<>>, "accepted"),
    Msg(None, "search", None, <<>>, "accepted") }

(* Hops of other processes: back, to itself, signed and forged.    *)
MCGrants == {{"read", "write"}, {"read"}, {"write"}}
Other(s) == { Hop(d[1], d[2], s, 0) : d \in {<<"b", "a">>, <<"a", "a">>} }
MCForwarded ==
  UNION {Other(s) : s \in MCGrants}
  \cup { Signed(Hop("a", "c", {"read"}, 1), k) : k \in KeyIds }
  \cup { [Signed(Hop("a", "c", {"read"}, 1), k) EXCEPT !.scopes = {"write"}] : k \in KeyIds }

Component == {"authorization", "delegation", "authentication", "trail", "sessions",
              "contexts", "registry", "bridges", "drivers"}

OthersStay ==
  /\ UNCHANGED component
  /\ component # "authorization" => UNCHANGED authzVars
  /\ component # "delegation" => UNCHANGED chainVars
  /\ component # "authentication" => UNCHANGED authVars
  /\ component # "trail" => UNCHANGED trailVars
  /\ component # "sessions" => UNCHANGED sessionVars
  /\ component # "contexts" => UNCHANGED contextVars
  /\ component # "registry" => UNCHANGED registryVars
  /\ component # "bridges" => UNCHANGED bridgeVars
  /\ component # "drivers" => UNCHANGED llmVars

vars == <<component, authzVars, chainVars, authVars, trailVars, sessionVars,
          contextVars, registryVars, bridgeVars, llmVars>>

(* What a component is given is chosen for the one that is looked at only.   *)
Init ==
  /\ component \in Component
  /\ AuthzInit /\ ChainInit /\ AuthInit /\ TrailInit /\ SessionsInit
  /\ ContextsInit /\ RegistryInit /\ BridgesInit /\ LLMInit
  /\ component # "authorization" => durable
  /\ component # "delegation" => strict
  /\ component # "trail" => sink = "audit"
  /\ component # "drivers" =>
       config = [backend |-> "auto", path |-> {}, handlers |-> FALSE,
                 long |-> FALSE, timeout |-> FALSE, library |-> FALSE]

Next ==
  /\ OthersStay
  /\ \/ component = "authorization"  /\ AuthzNext
     \/ component = "delegation"     /\ ChainNext
     \/ component = "authentication" /\ AuthNext
     \/ component = "trail"          /\ TrailNext
     \/ component = "sessions"       /\ SessionsNext
     \/ component = "contexts"       /\ ContextsNext
     \/ component = "registry"       /\ RegistryNext
     \/ component = "bridges"        /\ BridgesNext
     \/ component = "drivers"        /\ LLMNext

Spec == Init /\ [][Next]_vars

BridgesAlone == Spec /\ component = "bridges"
ContextsAlone == Spec /\ component = "contexts"
DriversAlone == Spec /\ component = "drivers"

ComponentsTypeOK ==
  /\ AuthzTypeOK /\ ChainTypeOK /\ AuthTypeOK /\ TrailTypeOK /\ SessionsTypeOK
  /\ ContextsTypeOK /\ RegistryTypeOK /\ BridgesTypeOK /\ LLMTypeOK
=============================================================================
