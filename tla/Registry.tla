------------------------------ MODULE Registry ------------------------------
(***************************************************************************)
(* The agent registry (registry/local.py): agents that register, give      *)
(* signs of life and are evicted when they give none, and the file the     *)
(* registry is exported to and imported from.                              *)
(*                                                                         *)
(* Of a descriptor only whether it lists skills matters: the file has no   *)
(* more of a skill than its id, which AgentDescriptor refuses, so that an  *)
(* agent with skills is not imported.  Searches are left out.              *)
(***************************************************************************)
EXTENDS Integers, FiniteSets

CONSTANTS
  Nodes,        \* agents
  Gone,
  Ttl,          \* ttl_seconds of evict_stale()
  LastMinute    \* bound: the clock

ASSUME RegistryConstantsOK == Ttl \in Nat \ {0} /\ LastMinute \in Nat /\ Gone \notin Nat

VARIABLES
  minute,    \* the clock
  entries,   \* last_heartbeat of each agent, or Gone
  skilled,   \* the agents whose descriptor lists skills
  exported,  \* what is in the file: agents, and which of them have skills
  sign       \* history: when each agent last registered or was heard of

registryVars == <<minute, entries, skilled, exported, sign>>

Listed == {a \in Nodes : entries[a] # Gone}

Entered(agents) ==
  /\ entries' = [a \in Nodes |-> IF a \in agents THEN minute ELSE entries[a]]
  /\ sign' = [a \in Nodes |-> IF a \in agents THEN minute ELSE sign[a]]

Taken(agents) == entries' = [a \in Nodes |-> IF a \in agents THEN Gone ELSE entries[a]]

\* An agent that is listed is refused.
Register(a, skills) ==
  /\ a \notin Listed
  /\ Entered({a})
  /\ skilled' = IF skills THEN skilled \cup {a} ELSE skilled \ {a}
  /\ UNCHANGED <<minute, exported>>

Unregister(a) ==
  /\ a \in Listed
  /\ Taken({a}) /\ sign' = [sign EXCEPT ![a] = Gone]
  /\ UNCHANGED <<minute, skilled, exported>>

UpdateDescriptor(a, skills) ==
  /\ a \in Listed
  /\ skilled' = IF skills THEN skilled \cup {a} ELSE skilled \ {a}
  /\ UNCHANGED <<minute, entries, exported, sign>>

\* A fault: only an agent that is already late is noted.
HeartbeatIfLate(a) ==
  /\ a \in Listed
  /\ entries' = [entries EXCEPT ![a] = IF @ + Ttl < minute THEN minute ELSE @]
  /\ sign' = [sign EXCEPT ![a] = minute]
  /\ UNCHANGED <<minute, skilled, exported>>

\* An agent that is not listed stays so, however often it is heard of.
Heartbeat(a) ==
  /\ a \in Listed
  /\ Entered({a})
  /\ UNCHANGED <<minute, skilled, exported>>

\* With a time to live of zero, or less, nothing is evicted.
EvictStale ==
  LET silent == {a \in Listed : entries[a] < minute - Ttl}
  IN  /\ silent # {}
      /\ Taken(silent) /\ UNCHANGED <<minute, skilled, exported, sign>>

Export ==
  /\ exported' = [agents |-> Listed, skilled |-> skilled \cap Listed]
  /\ UNCHANGED <<minute, entries, skilled, sign>>

\* One that is listed, or has skills, is logged and skipped.
Import ==
  LET new == exported.agents \ (exported.skilled \cup Listed)
  IN  /\ new # {}
      /\ Entered(new) /\ skilled' = skilled \ new
      /\ UNCHANGED <<minute, exported>>

\* A new process has an empty registry and the file.
StartAfresh ==
  /\ Taken(Nodes) /\ sign' = [a \in Nodes |-> Gone]
  /\ UNCHANGED <<minute, skilled, exported>>

MinutePasses == minute < LastMinute /\ minute' = minute + 1 /\ UNCHANGED <<entries, skilled, exported, sign>>

RegistryInit ==
  /\ minute = 0 /\ skilled = {} /\ exported = [agents |-> {}, skilled |-> {}]
  /\ entries = [a \in Nodes |-> Gone] /\ sign = [a \in Nodes |-> Gone]

RegistryNext ==
  \/ \E a \in Nodes, skills \in BOOLEAN : Register(a, skills) \/ UpdateDescriptor(a, skills)
  \/ \E a \in Nodes : Unregister(a) \/ Heartbeat(a)
  \/ EvictStale \/ Export \/ Import \/ StartAfresh \/ MinutePasses

RegistrySpec == RegistryInit /\ [][RegistryNext]_registryVars

-----------------------------------------------------------------------------

RegistryTypeOK ==
  /\ minute \in 0 .. LastMinute /\ skilled \subseteq Nodes
  /\ entries \in [Nodes -> 0 .. minute \cup {Gone}]
  /\ exported.skilled \subseteq exported.agents

\* An agent that registered, was imported or was heard of within the time to live is
\* listed, unless it unregistered or the process started afresh; and nobody is taken
\* for fresher than its last sign of life.
HeardOfIsListed ==
  \A a \in Nodes :
    /\ sign[a] # Gone /\ sign[a] + Ttl >= minute => a \in Listed
    /\ a \in Listed => entries[a] = sign[a]
=============================================================================
