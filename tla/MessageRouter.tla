--------------------------- MODULE MessageRouter ---------------------------
(***************************************************************************)
(* The message router (bus/router.py): where a message goes, what its TTL  *)
(* and the authorizer allow, and what the statistics say of it.            *)
(*                                                                         *)
(* route() runs without suspension up to the call of a handler, and then   *)
(* waits for it; any number of calls wait at the same time.  A handler is  *)
(* code of the agent: it may return, raise, or route a message itself, the *)
(* one it was given included (a relay), before or while it is waited for.  *)
(* The TTL is a field of the message OBJECT, so relays of one message, and *)
(* all subscribers of a broadcast, share it.                               *)
(*                                                                         *)
(* Handlers are anonymous: which function is registered is never looked at.*)
(* Not modelled: what handlers return, logging, has_handler and the other  *)
(* queries.                                                                *)
(***************************************************************************)
EXTENDS Naturals, Sequences, FiniteSets

CONSTANTS
  Messages,     \* AURCMessage objects
  Addresses,    \* targets and handler keys, as sequences of "/" segments
  Keys,         \* addresses that handlers are registered under
  Protocols,    \* names that forwarders are registered under
  Prefixes,     \* those route() looks for in a target: "mcp", "a2a", "acp"
  Star,         \* the segment "*"
  Scheme,       \* address -> what its first part names: a protocol, "group"
                \* or anything else ("local")
  TargetOf,     \* message -> its target
  InitTTL,      \* message -> routing.ttl_hops when it is first routed
  MaxDead,      \* _max_dead_letters
  Calls,        \* bound: route() calls that wait at the same time
  MaxSubs,      \* bound: subscriptions of a group
  MaxDrops      \* bound: calls that find the TTL used up, between resets

ASSUME RouterConstantsOK ==
  /\ Addresses \subseteq Seq(UNION {{a[i] : i \in DOMAIN a} : a \in Addresses})
  /\ Scheme \in [Addresses -> Protocols \cup {"group", "local"}]
  /\ Protocols \cap {"group", "local"} = {}
  /\ Keys \subseteq Addresses
  /\ TargetOf \in [Messages -> Addresses]
  /\ InitTTL \in [Messages -> Nat]
  /\ MaxDead \in Nat /\ MaxSubs \in Nat /\ MaxDrops \in Nat

VARIABLES
  handlers,    \* keys of _handlers
  forwarders,  \* keys of _bridge_forwarders
  subs,        \* group -> number of its subscriptions
  dead,        \* _dead_letter_queue
  stats,       \* RouterStats
  guarded,     \* an authorizer is attached
  policy,      \* what the authorizer would do with each message
  ttl,         \* routing.ttl_hops of each message
  calls,       \* the route() calls that wait for handlers
  \* History, read by properties only:
  hops,        \* how often each message was taken in
  crashes      \* checks that raised something else than a denial, since reset

settings == <<handlers, forwarders, subs, guarded, policy>>
vars == <<handlers, forwarders, subs, dead, stats, guarded, policy, ttl, calls,
          hops, crashes>>

-----------------------------------------------------------------------------

Bridged(m) == Scheme[TargetOf[m]] \in Prefixes \cap forwarders

Groups   == {a \in Addresses : Scheme[a] = "group"}
Verdicts == {"allow", "deny", "raise"}

\* _wildcard_match, of a key with a "*" in it.
Covers(pattern, target) ==
  /\ \E i \in DOMAIN pattern : pattern[i] = Star
  /\ Len(pattern) = Len(target)
  /\ \A i \in DOMAIN pattern : pattern[i] = Star \/ pattern[i] = target[i]

\* RouterStats.
Counters ==
  {"total", "direct", "bridged", "broadcast", "dead", "dropped", "errors", "denied"}

Zeroes == [k \in Counters |-> 0]

\* A waiting call: what it waits for, its message, the handlers that have not
\* finished and how many of the finished ones raised.
Idle == [phase |-> "idle"]
Waiting(phase, m, n) == [phase |-> phase, msg |-> m, left |-> n, bad |-> 0]

Free(c) == calls[c].phase = "idle"

\* A fault: the length is checked before the message is added.
EnqueuedOneMore(queue, m) ==
  Append(IF Len(queue) > MaxDead THEN Tail(queue) ELSE queue, m)

Enqueued(queue, m) ==
  LET longer == Append(queue, m)
  IN  IF Len(longer) > MaxDead THEN Tail(longer) ELSE longer

Counted(class) == [stats EXCEPT !.total = @ + 1, ![class] = @ + 1]

-----------------------------------------------------------------------------
(* Where a message goes, in the order route() tries.                       *)

ToHandler(c, m) ==
  /\ TargetOf[m] \in handlers
  /\ stats' = Counted("direct")
  /\ calls' = [calls EXCEPT ![c] = Waiting("direct", m, 1)]
  /\ UNCHANGED dead

ToBridge(c, m) ==
  /\ TargetOf[m] \notin handlers
  /\ Bridged(m)
  /\ stats' = Counted("bridged")
  /\ calls' = [calls EXCEPT ![c] = Waiting("bridged", m, 1)]
  /\ UNCHANGED dead

\* gather() of no coroutines does not suspend: the call is over at once.
ToGroup(c, m) ==
  /\ TargetOf[m] \in Groups \ handlers
  /\ stats' = Counted("broadcast")
  /\ calls' = IF subs[TargetOf[m]] = 0 THEN calls
              ELSE [calls EXCEPT ![c] = Waiting("broadcast", m, subs[TargetOf[m]])]
  /\ UNCHANGED dead

Unclaimed(m) ==
  /\ TargetOf[m] \notin handlers \cup Groups
  /\ ~ Bridged(m)

ToPattern(c, m) ==
  /\ Unclaimed(m)
  /\ \E p \in handlers : Covers(p, TargetOf[m])
  /\ stats' = Counted("direct")
  /\ calls' = [calls EXCEPT ![c] = Waiting("pattern", m, 1)]
  /\ UNCHANGED dead

ToDeadLetters(m) ==
  /\ Unclaimed(m)
  /\ \A p \in handlers : ~ Covers(p, TargetOf[m])
  /\ stats' = Counted("dead")
  /\ dead' = Enqueued(dead, m)
  /\ UNCHANGED calls

Dispatch(c, m) ==
  \/ ToHandler(c, m)
  \/ ToBridge(c, m)
  \/ ToGroup(c, m)
  \/ ToPattern(c, m)
  \/ ToDeadLetters(m)

-----------------------------------------------------------------------------
(* route(), up to its suspension.                                          *)

Drop(m) ==
  /\ ttl[m] = 0
  /\ stats.dropped < MaxDrops
  /\ stats' = [stats EXCEPT !.dropped = @ + 1]
  /\ UNCHANGED <<settings, dead, ttl, calls, hops, crashes>>

\* A fault: a message that is sent again keeps its last hop.
TakeInForever(m) ==
  /\ ttl[m] > 0
  /\ ttl' = [ttl EXCEPT ![m] = IF @ > 1 THEN @ - 1 ELSE @]
  /\ hops' = [hops EXCEPT ![m] = @ + 1]
  /\ UNCHANGED settings

TakeIn(m) ==
  /\ ttl[m] > 0
  /\ ttl' = [ttl EXCEPT ![m] = @ - 1]
  /\ hops' = [hops EXCEPT ![m] = @ + 1]
  /\ UNCHANGED settings

Deny(m) ==
  /\ TakeIn(m)
  /\ guarded /\ policy[m] = "deny"
  /\ stats' = Counted("denied")
  /\ UNCHANGED <<dead, calls, crashes>>

\* A constraint compares values that cannot be compared: the exception leaves
\* route() past the clause that counts denials.
CrashInGuard(m) ==
  /\ TakeIn(m)
  /\ guarded /\ policy[m] = "raise"
  /\ stats' = [stats EXCEPT !.total = @ + 1]
  /\ crashes' = crashes + 1
  /\ UNCHANGED <<dead, calls>>

\* A fault: what is not denied is let in.
AdmitUndenied(c, m) ==
  /\ Free(c)
  /\ TakeIn(m)
  /\ guarded => policy[m] # "deny"
  /\ Dispatch(c, m)
  /\ UNCHANGED crashes

Admit(c, m) ==
  /\ Free(c)
  /\ TakeIn(m)
  /\ guarded => policy[m] = "allow"
  /\ Dispatch(c, m)
  /\ UNCHANGED crashes

-----------------------------------------------------------------------------
(* What a waiting call sees of its handlers.                               *)

quiet == <<settings, dead, ttl, hops, crashes>>

HandlerReturns(c) ==
  /\ calls[c].phase \in {"direct", "bridged", "pattern"}
  /\ calls' = [calls EXCEPT ![c] = Idle]
  /\ UNCHANGED <<stats, quiet>>

\* Only the direct route counts an exception; each lets it out.
HandlerRaises(c) ==
  /\ calls[c].phase \in {"direct", "bridged", "pattern"}
  /\ calls' = [calls EXCEPT ![c] = Idle]
  /\ stats' = IF calls[c].phase = "direct"
              THEN [stats EXCEPT !.errors = @ + 1] ELSE stats
  /\ UNCHANGED quiet

\* gather() keeps exceptions until the last subscriber is done, and then they
\* are counted.  (A subscriber cancelled on its own is not an Exception.)
SubscriberEnds(c, raised) ==
  /\ calls[c].phase = "broadcast"
  /\ LET bad == calls[c].bad + raised
     IN  IF calls[c].left > 1
         THEN /\ calls' = [calls EXCEPT ![c].left = @ - 1, ![c].bad = bad]
              /\ UNCHANGED stats
         ELSE /\ calls' = [calls EXCEPT ![c] = Idle]
              /\ stats' = [stats EXCEPT !.errors = @ + bad]
  /\ UNCHANGED quiet

\* The task of the caller is cancelled: no clause of route() catches that.
CancelCall(c) ==
  /\ ~ Free(c)
  /\ calls' = [calls EXCEPT ![c] = Idle]
  /\ UNCHANGED <<stats, quiet>>

-----------------------------------------------------------------------------
(* Configuration, while calls wait.                                        *)

others == <<dead, stats, ttl, calls, hops, crashes>>

RegisterHandler(a) ==
  /\ handlers' = handlers \cup {a}
  /\ UNCHANGED <<forwarders, subs, guarded, policy, others>>

UnregisterHandler(a) ==
  /\ handlers' = handlers \ {a}
  /\ UNCHANGED <<forwarders, subs, guarded, policy, others>>

RegisterForwarder(p) ==
  /\ forwarders' = forwarders \cup {p}
  /\ UNCHANGED <<handlers, subs, guarded, policy, others>>

Subscribe(g) ==
  /\ subs[g] < MaxSubs
  /\ subs' = [subs EXCEPT ![g] = @ + 1]
  /\ UNCHANGED <<handlers, forwarders, guarded, policy, others>>

Unsubscribe(g) ==
  /\ subs[g] > 0
  /\ subs' = [subs EXCEPT ![g] = @ - 1]
  /\ UNCHANGED <<handlers, forwarders, guarded, policy, others>>

SetAuthorizer ==
  /\ guarded' = TRUE
  /\ UNCHANGED <<handlers, forwarders, subs, policy, others>>

\* The engine behind the authorizer gets another policy.
ChangePolicy(m, v) ==
  /\ policy' = [policy EXCEPT ![m] = v]
  /\ UNCHANGED <<handlers, forwarders, subs, guarded, others>>

ClearDeadLetters ==
  /\ dead' = <<>>
  /\ UNCHANGED <<settings, stats, ttl, calls, hops, crashes>>

\* A fault: the breakdown is cleared, the total is not.
ResetBreakdown ==
  /\ stats' = [Zeroes EXCEPT !.total = stats.total]
  /\ crashes' = 0
  /\ UNCHANGED <<settings, dead, ttl, calls, hops>>

ResetStats ==
  /\ stats' = Zeroes
  /\ crashes' = 0
  /\ UNCHANGED <<settings, dead, ttl, calls, hops>>

-----------------------------------------------------------------------------

Init ==
  /\ handlers = {} /\ forwarders = {}
  /\ subs = [g \in Groups |-> 0]
  /\ dead = <<>>
  /\ stats = Zeroes
  /\ guarded = FALSE
  /\ policy \in [Messages -> Verdicts]
  /\ ttl = InitTTL
  /\ calls = [c \in Calls |-> Idle]
  /\ hops = [m \in Messages |-> 0]
  /\ crashes = 0

Configure ==
  \/ \E a \in Keys : RegisterHandler(a) \/ UnregisterHandler(a)
  \/ \E p \in Protocols : RegisterForwarder(p)
  \/ \E g \in Groups : Subscribe(g) \/ Unsubscribe(g)
  \/ SetAuthorizer
  \/ \E m \in Messages, v \in Verdicts : ChangePolicy(m, v)
  \/ ClearDeadLetters
  \/ ResetStats

Route ==
  \/ \E m \in Messages : Drop(m) \/ Deny(m) \/ CrashInGuard(m)
  \/ \E c \in Calls, m \in Messages : Admit(c, m)

HandlerStep ==
  \E c \in Calls :
    \/ HandlerReturns(c) \/ HandlerRaises(c) \/ CancelCall(c)
    \/ \E raised \in {0, 1} : SubscriberEnds(c, raised)

Next == Configure \/ Route \/ HandlerStep

Spec == Init /\ [][Next]_vars

-----------------------------------------------------------------------------
(* Properties.                                                             *)

Waits ==
  {Idle} \cup
  [phase : {"direct", "bridged", "pattern", "broadcast"}, msg : Messages,
   left : Nat, bad : Nat]

TypeOK ==
  /\ handlers \subseteq Keys /\ forwarders \subseteq Protocols
  /\ subs \in [Groups -> Nat]
  /\ dead \in Seq(Messages) /\ Len(dead) <= MaxDead
  /\ stats \in [Counters -> Nat]
  /\ guarded \in BOOLEAN
  /\ policy \in [Messages -> Verdicts]
  /\ ttl \in [Messages -> Nat] /\ hops \in [Messages -> Nat]
  /\ calls \in [Calls -> Waits]
  /\ crashes \in Nat

\* A message object is taken in at most as often as its TTL allowed when it
\* was new, however many handlers relay it, whatever subscribers of the same
\* broadcast do with it at the same time, and however often its sender tries
\* again after a denial or an exception (route(), the TTL check: loops of
\* relaying agents end).
HopsWithinTTL == \A m \in Messages : hops[m] <= InitTTL[m]

\* Every message route() took in is in exactly one class of the statistics,
\* except those whose check raised (RouterStats, read by the dashboard and the
\* metrics exporter at any moment, across resets).
EveryRouteCounted ==
  stats.total =
    stats.direct + stats.bridged + stats.broadcast + stats.dead + stats.denied
      + crashes

\* While an authorizer is attached, a message it does not allow reaches no
\* handler, forwarder, subscriber or dead-letter queue, also when an earlier
\* hop of it was let in and still waits (route(), "fail-closed").
UnallowedGoesNowhere ==
  [][\A m \in Messages :
       guarded /\ policy[m] # "allow" /\ hops'[m] # hops[m]
         => UNCHANGED <<calls, dead>>]_vars

=============================================================================
