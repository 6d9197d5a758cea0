--------------------------- MODULE Authorization ---------------------------
(***************************************************************************)
(* The authorization engine (security/authz.py) with its policy store and  *)
(* hourly rate windows, and the two guards that ask it about a message:    *)
(* the router's (security/message_authz.py), which also writes the audit   *)
(* log, and the one that wraps a bridge (bridges/authz_guard.py).  Each    *)
(* call is one step: nothing in them suspends.                             *)
(*                                                                         *)
(* A message is its sender, skill, method and parameters; what the         *)
(* delegation validator says of its chain is part of it (see Delegation).  *)
(* An attribute is a number, or Text, which a number cannot be compared    *)
(* with.  Not modelled: policy objects that are changed after they were    *)
(* stored, malformed time windows and regular expressions.                 *)
(***************************************************************************)
EXTENDS Integers, Sequences, FiniteSets

CONSTANTS
  Agents, Resources,
  Star,       \* "*"
  None, Text,
  PolicySet,  \* the lists of rules an agent may be given
  Messages,   \* the messages that reach a guard
  Hour, Day,  \* in ticks of the clock
  MaxTime,    \* bound: the last tick
  MaxAsked    \* bound: the decisions of the guards and of the engine

ASSUME AuthorizationConstantsOK ==
  /\ None \notin PolicySet /\ Text # None
  /\ Hour \in Nat \ {0} /\ Day \in Nat \ {0}
  /\ MaxTime \in Nat /\ MaxAsked \in Nat
  /\ \A rules \in PolicySet :
       DOMAIN rules = 1 .. Len(rules) /\ \A i \in DOMAIN rules : rules[i].limit \in Int

Guards == {"route", "bridge"}

VARIABLES
  durable,   \* the policy store is the SQLite one
  policies,  \* what it holds of each agent
  clock,
  window,    \* RateLimiter._windows: for each key times, under the numbers of their grants
  allowed,   \* _allowed_count of each guard
  denied,    \* _denied_count
  trail,     \* the route guard's audit log: attached, entries, lines in its file
  passed,    \* history: messages the route guard let through
  grants,    \* history: rated grants of each key since its window was reset
  asked      \* history: decisions so far

counts == <<allowed, denied, trail, passed>>
authzVars == <<durable, policies, clock, window, counts, grants, asked>>

-----------------------------------------------------------------------------
(* The request a guard derives from a message.                             *)

AgentOf(m)    == IF m.source = None THEN "unknown" ELSE m.source.id
ResourceOf(m) == IF m.skill # None THEN m.skill
                 ELSE IF m.method # None THEN m.method ELSE "unknown"
ActionOf(m)   == IF m.method # None THEN m.method ELSE "invoke"

\* A parameter called "via" does not hide how the message came.
Attributes(m) == [f \in DOMAIN m.params \cup {"via"} |->
                    IF f # "via" THEN m.params[f]
                    ELSE IF m.source = None THEN None ELSE m.source.via]

-----------------------------------------------------------------------------
(* A rule: resource, actions, constraints in their order, hours, limit.    *)

Covers(rule, m) ==
  /\ rule.resource \in {ResourceOf(m), Star}
  /\ rule.actions \cap {ActionOf(m), Star} # {}

\* Hours that go past midnight never hold.
InHours(rule) ==
  rule.hours # None => clock % Day \in rule.hours.start .. rule.hours.end

\* For a pattern, or a part, the value is the set of attributes it fits.
Evaluate(c, v) ==
  CASE c.op = "eq"     -> v = c.value
    [] c.op = "ne"     -> v # c.value
    [] c.op = "gt"     -> v > c.value
    [] c.op = "lt"     -> v < c.value
    [] c.op = "gte"    -> v >= c.value
    [] c.op = "lte"    -> v <= c.value
    [] c.op = "not_in" -> v \notin c.value
    [] c.op \in {"in", "matches", "contains"} -> v \in c.value
    [] OTHER           -> FALSE

Verdict(c, attributes) ==
  LET v == IF c.field \in DOMAIN attributes THEN attributes[c.field] ELSE None
  IN  IF v = None THEN "unmet"
      ELSE IF \/ v = Text /\ c.op \in {"gt", "lt", "gte", "lte"}
              \/ v # Text /\ c.op = "contains" THEN "raises"
      ELSE IF Evaluate(c, v) THEN "met" ELSE "unmet"

First(S) == CHOOSE i \in S : \A j \in S : i <= j

\* The first constraint that is not met, or that raises, decides.
Conditions(rule, m) ==
  LET verdict == [i \in DOMAIN rule.constraints |->
                    Verdict(rule.constraints[i], Attributes(m))]
      stops   == {i \in DOMAIN verdict : verdict[i] # "met"}
  IN  IF stops = {} THEN "met" ELSE verdict[First(stops)]

-----------------------------------------------------------------------------
(* RateLimiter.check() and AuthorizationEngine.authorize().                *)

\* The times of the last hour.
Recent(key) == {n \in DOMAIN window[key] : window[key][n] + Hour > clock}

\* A granted request is numbered after those before it.
Metered(key, limit, verdict) ==
  LET number == Len(grants[key]) + 1
      kept   == IF verdict = "allow" THEN Recent(key) \cup {number} ELSE Recent(key)
  IN  /\ window' = [window EXCEPT ![key] =
                      [n \in kept |-> IF n = number THEN clock ELSE window[key][n]]]
      /\ grants' = IF verdict = "deny" THEN grants
                   ELSE [grants EXCEPT ![key] = Append(@, [at |-> clock, limit |-> limit])]

\* A fault: the limit is passed by one.
MeterLate(key, limit, verdict) ==
  /\ verdict = IF Cardinality(Recent(key)) > limit THEN "deny" ELSE "allow"
  /\ Metered(key, limit, verdict)

Meter(key, limit, verdict) ==
  /\ verdict = IF Cardinality(Recent(key)) >= limit THEN "deny" ELSE "allow"
  /\ Metered(key, limit, verdict)

\* The first rule that is open decides; at its limit no later rule is tried.
Authorize(m, verdict) ==
  LET key   == <<AgentOf(m), ResourceOf(m)>>
      rules == IF AgentOf(m) \in Agents THEN policies[AgentOf(m)] ELSE None
      open  == IF rules = None THEN {}
               ELSE {i \in DOMAIN rules : /\ Covers(rules[i], m) /\ InHours(rules[i])
                                          /\ Conditions(rules[i], m) # "unmet"}
      rule  == rules[First(open)]
      found == IF open = {} THEN "unmet" ELSE Conditions(rule, m)
  IN  \/ verdict = "deny"  /\ found = "unmet"  /\ UNCHANGED <<window, grants>>
      \/ verdict = "raise" /\ found = "raises" /\ UNCHANGED <<window, grants>>
      \/ /\ verdict = "allow" /\ found = "met" /\ rule.limit = 0
         /\ UNCHANGED <<window, grants>>
      \/ /\ verdict # "raise" /\ found = "met" /\ rule.limit # 0
         /\ Meter(key, rule.limit, verdict)

\* A caller of the engine itself; authorize_scopes() gets here when the granted
\* scopes cover the required ones, and changes nothing when they do not.
AskEngine(m) ==
  /\ \E verdict \in {"allow", "deny", "raise"} : Authorize(m, verdict)
  /\ UNCHANGED counts

-----------------------------------------------------------------------------
(* The guards.                                                             *)

Judge(m, verdict) ==
  \/ m.chain = "rejected" /\ verdict = "deny" /\ UNCHANGED <<window, grants>>
  \/ m.chain # "rejected" /\ Authorize(m, verdict)

Counted(g, verdict) ==
  /\ allowed' = [allowed EXCEPT ![g] = IF verdict = "allow" THEN @ + 1 ELSE @]
  /\ denied'  = [denied EXCEPT ![g] = IF verdict = "deny" THEN @ + 1 ELSE @]

GuardBridge(m) ==
  /\ \E verdict \in {"allow", "deny", "raise"} :
       Judge(m, verdict) /\ Counted("bridge", verdict)
  /\ UNCHANGED <<trail, passed>>

\* AuditLog.log(): the entry is in memory when the write to the file fails and
\* the caller gets the error.
Recorded(verdict, written) ==
  IF ~ trail.attached \/ verdict = "raise" THEN UNCHANGED trail
  ELSE trail' = [trail EXCEPT !.entries[verdict] = @ + 1,
                              !.lines[verdict] = IF written THEN @ + 1 ELSE @]

\* A fault: a failed write does not stop the message.
GuardRouteRegardless(m) ==
  \E verdict \in {"allow", "deny", "raise"} :
    /\ Judge(m, verdict)
    /\ Counted("route", verdict)
    /\ \E written \in BOOLEAN :
         /\ Recorded(verdict, written)
         /\ passed' = IF verdict = "allow" THEN passed + 1 ELSE passed

GuardRoute(m) ==
  \E verdict \in {"allow", "deny", "raise"} :
    /\ Judge(m, verdict)
    /\ Counted("route", verdict)
    /\ \E written \in BOOLEAN :
         /\ Recorded(verdict, written)
         /\ passed' = IF verdict = "allow" /\ (trail.attached => written)
                      THEN passed + 1 ELSE passed

Decide(m) ==
  /\ asked < MaxAsked /\ asked' = asked + 1
  /\ AskEngine(m) \/ GuardBridge(m) \/ GuardRoute(m)
  /\ UNCHANGED <<durable, policies, clock>>

-----------------------------------------------------------------------------

Nothing == [k \in (Agents \cup {"unknown"}) \X (Resources \cup {"unknown"}) |-> <<>>]
NoTrail == [attached |-> FALSE, entries |-> [v \in {"allow", "deny"} |-> 0],
            lines |-> [v \in {"allow", "deny"} |-> 0],
            before |-> [allow |-> 0, deny |-> 0, passed |-> 0]]

\* Nothing happens when there is one.  What was decided before is remembered
\* for the properties only.
AttachAudit ==
  /\ ~ trail.attached
  /\ trail' = [trail EXCEPT !.attached = TRUE,
                  !.before = [allow |-> allowed["route"], deny |-> denied["route"],
                              passed |-> passed]]
  /\ UNCHANGED <<durable, policies, clock, window, allowed, denied, passed, grants, asked>>

SetPolicy(a, p) ==
  /\ policies' = [policies EXCEPT ![a] = p]
  /\ UNCHANGED <<durable, clock, window, counts, grants, asked>>

RemovePolicy(a) == policies[a] # None /\ SetPolicy(a, None)

ResetRates(agents) ==
  /\ window' = [k \in DOMAIN window |-> IF k[1] \in agents THEN <<>> ELSE window[k]]
  /\ grants' = [k \in DOMAIN grants |-> IF k[1] \in agents THEN <<>> ELSE grants[k]]
  /\ UNCHANGED <<durable, policies, clock, counts, asked>>

\* The process starts anew: of all this only the SQLite store is left.
Restart ==
  /\ policies' = IF durable THEN policies ELSE [a \in Agents |-> None]
  /\ window' = Nothing /\ grants' = Nothing
  /\ allowed' = [g \in Guards |-> 0] /\ denied' = [g \in Guards |-> 0]
  /\ trail' = NoTrail /\ passed' = 0
  /\ UNCHANGED <<durable, clock, asked>>

Tick ==
  /\ clock < MaxTime /\ clock' = clock + 1
  /\ UNCHANGED <<durable, policies, window, counts, grants, asked>>

AuthzInit ==
  /\ durable \in BOOLEAN /\ policies = [a \in Agents |-> None]
  /\ clock = 0 /\ window = Nothing /\ grants = Nothing
  /\ allowed = [g \in Guards |-> 0] /\ denied = [g \in Guards |-> 0]
  /\ trail = NoTrail /\ passed = 0 /\ asked = 0

AuthzNext ==
  \/ \E m \in Messages : Decide(m)
  \/ \E a \in Agents, p \in PolicySet : SetPolicy(a, p)
  \/ \E a \in Agents : RemovePolicy(a) \/ ResetRates({a})
  \/ ResetRates(Agents \cup {"unknown"})
  \/ AttachAudit \/ Restart \/ Tick

-----------------------------------------------------------------------------

AuthzTypeOK ==
  /\ durable \in BOOLEAN /\ policies \in [Agents -> PolicySet \cup {None}]
  /\ clock \in 0 .. MaxTime /\ asked \in 0 .. MaxAsked /\ passed \in 0 .. MaxAsked
  /\ \A k \in DOMAIN window : \A n \in DOMAIN window[k] : window[k][n] \in 0 .. clock
  /\ \A g \in Guards : allowed[g] + denied[g] <= asked

\* In no span of an hour does an agent get more rated grants on a resource than
\* the limit under which the last of them was given, whichever rules, guards and
\* changes of policy were involved (RateLimiter.check: "max operations per hour"),
\* as long as nobody resets the limiter or restarts the process.
NoHourExceedsTheLimit ==
  \A k \in DOMAIN grants : \A i \in DOMAIN grants[k] :
    Cardinality({j \in 1 .. i : grants[k][j].at + Hour > grants[k][i].at})
      <= grants[k][i].limit

\* Once a log is attached, with log_grants as it is by default, every message the route
\* guard lets through has its line in the audit file, and every decision its entry in the
\* log, also when writing the line fails: such a message is counted as allowed and goes
\* nowhere.
NothingPassesUnrecorded ==
  trail.attached =>
    /\ trail.lines["allow"] + trail.before.passed = passed
    /\ trail.entries["allow"] + trail.before.allow = allowed["route"]
    /\ trail.entries["deny"] + trail.before.deny = denied["route"]
=============================================================================
