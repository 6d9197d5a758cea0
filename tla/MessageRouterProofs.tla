------------------------ MODULE MessageRouterProofs ------------------------
(***************************************************************************)
(* What holds of MessageRouter for all messages, addresses, TTLs and queue *)
(* lengths.                                                                *)
(*                                                                         *)
(* HopsWithinTTL is not inductive: nothing in it relates what is left of a *)
(* TTL to what was used.  TTLLedger does, and needs the types only.        *)
(***************************************************************************)
EXTENDS MessageRouter, TLAPS

\* A counted message changes one class and the total, and the record stays one
\* of numbers.
LEMMA CountedType ==
  ASSUME stats \in [Counters -> Nat],
         NEW class \in {"direct", "bridged", "broadcast", "dead", "denied"}
  PROVE  Counted(class) \in [Counters -> Nat]
<1>1. stats["total"] + 1 \in Nat /\ stats[class] + 1 \in Nat
  BY DEF Counters
<1> QED BY <1>1 DEF Counted, Counters

\* A counter that grows stays one.
LEMMA CountUp ==
  ASSUME stats \in [Counters -> Nat], NEW k \in Counters, NEW n \in Nat
  PROVE  [stats EXCEPT ![k] = @ + n] \in [Counters -> Nat]
<1>1. stats[k] + n \in Nat
  OBVIOUS
<1> QED BY <1>1

\* The dead-letter queue stays a sequence of messages within its bound.
LEMMA EnqueuedType ==
  ASSUME dead \in Seq(Messages), Len(dead) <= MaxDead, NEW m \in Messages
  PROVE  Enqueued(dead, m) \in Seq(Messages) /\ Len(Enqueued(dead, m)) <= MaxDead
<1> DEFINE longer == Append(dead, m)
<1>1. longer \in Seq(Messages) /\ Len(longer) = Len(dead) + 1
  OBVIOUS
<1>2. CASE Len(longer) > MaxDead
  <2>1. Tail(longer) \in Seq(Messages) /\ Len(Tail(longer)) = Len(longer) - 1
    BY <1>1
  <2> QED BY <1>1, <1>2, <2>1, RouterConstantsOK DEF Enqueued, RouterConstantsOK
<1>3. CASE ~ (Len(longer) > MaxDead)
  BY <1>1, <1>3, RouterConstantsOK DEF Enqueued, RouterConstantsOK
<1> QED BY <1>2, <1>3

\* What Dispatch does to the types it touches.
LEMMA DispatchType ==
  ASSUME TypeOK, NEW c \in Calls, NEW m \in Messages, Dispatch(c, m)
  PROVE  /\ stats' \in [Counters -> Nat]
         /\ calls' \in [Calls -> Waits]
         /\ dead' \in Seq(Messages) /\ Len(dead') <= MaxDead
<1> USE DEF TypeOK
<1>1. \A phase \in {"direct", "bridged", "pattern", "broadcast"}, n \in Nat :
        [calls EXCEPT ![c] = Waiting(phase, m, n)] \in [Calls -> Waits]
  BY DEF Waiting, Waits
<1>2. CASE ToHandler(c, m)
  BY <1>1, <1>2, CountedType DEF ToHandler
<1>3. CASE ToBridge(c, m)
  BY <1>1, <1>3, CountedType DEF ToBridge
<1>4. CASE ToGroup(c, m)
  <2>1. subs[TargetOf[m]] \in Nat
    BY <1>4 DEF ToGroup
  <2> QED BY <1>1, <1>4, <2>1, CountedType DEF ToGroup
<1>5. CASE ToPattern(c, m)
  BY <1>1, <1>5, CountedType DEF ToPattern
<1>6. CASE ToDeadLetters(m)
  BY <1>6, CountedType, EnqueuedType DEF ToDeadLetters
<1> QED BY <1>2, <1>3, <1>4, <1>5, <1>6 DEF Dispatch

\* What taking a message in does to the types it touches.
LEMMA TakeInType ==
  ASSUME TypeOK, NEW m \in Messages, TakeIn(m)
  PROVE  ttl' \in [Messages -> Nat] /\ hops' \in [Messages -> Nat]
<1>1. ttl[m] - 1 \in Nat /\ hops[m] + 1 \in Nat
  BY DEF TypeOK, TakeIn
<1> QED BY <1>1 DEF TypeOK, TakeIn

-----------------------------------------------------------------------------

LEMMA InitTypeOK == Init => TypeOK
<1> SUFFICES ASSUME Init PROVE TypeOK
  OBVIOUS
<1>1. Zeroes \in [Counters -> Nat]
  BY DEF Zeroes
<1>2. <<>> \in Seq(Messages) /\ Len(<<>>) <= MaxDead
  BY RouterConstantsOK DEF RouterConstantsOK
<1>3. Idle \in Waits
  BY DEF Waits
<1> QED BY <1>1, <1>2, <1>3, RouterConstantsOK DEF Init, TypeOK, RouterConstantsOK

LEMMA NextTypeOK == TypeOK /\ [Next]_vars => TypeOK'
<1> SUFFICES ASSUME TypeOK, [Next]_vars PROVE TypeOK'
  OBVIOUS
<1> USE DEF TypeOK
<1>1. ASSUME NEW a \in Keys, RegisterHandler(a) \/ UnregisterHandler(a)
      PROVE  TypeOK'
  BY <1>1 DEF RegisterHandler, UnregisterHandler, others
<1>2. ASSUME NEW p \in Protocols, RegisterForwarder(p)
      PROVE  TypeOK'
  BY <1>2 DEF RegisterForwarder, others
<1>3. ASSUME NEW g \in Groups, Subscribe(g) \/ Unsubscribe(g)
      PROVE  TypeOK'
  <2>1. subs' \in [Groups -> Nat]
    <3>1. CASE Subscribe(g)
      <4>1. subs[g] + 1 \in Nat
        OBVIOUS
      <4> QED BY <3>1, <4>1 DEF Subscribe
    <3>2. CASE Unsubscribe(g)
      <4>1. subs[g] - 1 \in Nat
        BY <3>2 DEF Unsubscribe
      <4> QED BY <3>2, <4>1 DEF Unsubscribe
    <3> QED BY <1>3, <3>1, <3>2
  <2> QED BY <1>3, <2>1 DEF Subscribe, Unsubscribe, others
<1>4. CASE SetAuthorizer
  BY <1>4 DEF SetAuthorizer, others
<1>5. ASSUME NEW m \in Messages, NEW v \in Verdicts, ChangePolicy(m, v)
      PROVE  TypeOK'
  BY <1>5 DEF ChangePolicy, others
<1>6. CASE ClearDeadLetters
  BY <1>6, RouterConstantsOK DEF ClearDeadLetters, settings, RouterConstantsOK
<1>7. CASE ResetStats
  BY <1>7 DEF ResetStats, settings, Zeroes
<1>8. ASSUME NEW m \in Messages, Drop(m)
      PROVE  TypeOK'
  <2>1. stats' \in [Counters -> Nat]
    BY <1>8, CountUp DEF Drop, Counters
  <2> QED BY <1>8, <2>1 DEF Drop, settings
<1>9. ASSUME NEW m \in Messages, Deny(m)
      PROVE  TypeOK'
  BY <1>9, TakeInType, CountedType DEF Deny, TakeIn, settings
<1>10. ASSUME NEW m \in Messages, CrashInGuard(m)
       PROVE  TypeOK'
  <2>1. stats' \in [Counters -> Nat]
    BY <1>10, CountUp DEF CrashInGuard, Counters
  <2>2. ttl' \in [Messages -> Nat] /\ hops' \in [Messages -> Nat]
    BY <1>10, TakeInType DEF CrashInGuard
  <2>3. crashes' \in Nat /\ UNCHANGED <<settings, dead, calls>>
    BY <1>10 DEF CrashInGuard, TakeIn
  <2> QED BY <2>1, <2>2, <2>3 DEF settings
<1>11. ASSUME NEW c \in Calls, NEW m \in Messages, Admit(c, m)
       PROVE  TypeOK'
  <2>1. TakeIn(m) /\ Dispatch(c, m) /\ UNCHANGED crashes
    BY <1>11 DEF Admit
  <2>2. /\ stats' \in [Counters -> Nat]
        /\ calls' \in [Calls -> Waits]
        /\ dead' \in Seq(Messages) /\ Len(dead') <= MaxDead
    BY <2>1, DispatchType
  <2>3. ttl' \in [Messages -> Nat] /\ hops' \in [Messages -> Nat]
    BY <2>1, TakeInType
  <2> QED BY <2>1, <2>2, <2>3 DEF TakeIn, settings
<1>12. ASSUME NEW c \in Calls, HandlerReturns(c) \/ HandlerRaises(c) \/ CancelCall(c)
       PROVE  TypeOK'
  <2>1. calls' \in [Calls -> Waits]
    BY <1>12 DEF HandlerReturns, HandlerRaises, CancelCall, Waits
  <2>2. stats' \in [Counters -> Nat]
    <3>1. stats' = stats \/ stats' = [stats EXCEPT !["errors"] = @ + 1]
      BY <1>12 DEF HandlerReturns, HandlerRaises, CancelCall
    <3>2. [stats EXCEPT !["errors"] = @ + 1] \in [Counters -> Nat]
      BY CountUp DEF Counters
    <3> QED BY <3>1, <3>2
  <2> QED BY <1>12, <2>1, <2>2
          DEF HandlerReturns, HandlerRaises, CancelCall, quiet, settings
<1>13. ASSUME NEW c \in Calls, NEW raised \in {0, 1}, SubscriberEnds(c, raised)
       PROVE  TypeOK'
  <2> DEFINE bad == calls[c].bad + raised
  <2>1. calls[c] \in [phase : {"direct", "bridged", "pattern", "broadcast"},
                      msg : Messages, left : Nat, bad : Nat]
    BY <1>13 DEF SubscriberEnds, Waits, Idle
  <2>2. bad \in Nat
    BY <2>1
  <2> HIDE DEF bad
  <2>3. CASE calls[c].left > 1
    <3>1. calls' = [calls EXCEPT ![c].left = @ - 1, ![c].bad = bad]
      BY <1>13, <2>3 DEF SubscriberEnds, bad
    <3>2. calls[c].left - 1 \in Nat
      BY <2>1, <2>3
    <3>3. [calls[c] EXCEPT !.left = @ - 1, !.bad = bad] \in Waits
      BY <2>1, <2>2, <3>2 DEF Waits
    <3>4. calls' \in [Calls -> Waits]
      BY <3>1, <3>3
    <3> QED BY <1>13, <2>3, <3>4 DEF SubscriberEnds, quiet, settings
  <2>4. CASE ~ (calls[c].left > 1)
    <3>1. /\ calls' = [calls EXCEPT ![c] = Idle]
          /\ stats' = [stats EXCEPT !.errors = @ + bad]
      BY <1>13, <2>4 DEF SubscriberEnds, bad
    <3>2. stats' \in [Counters -> Nat]
      BY <2>2, <3>1, CountUp DEF Counters
    <3>3. calls' \in [Calls -> Waits]
      BY <3>1 DEF Waits
    <3> QED BY <1>13, <3>2, <3>3 DEF SubscriberEnds, quiet, settings
  <2> QED BY <2>3, <2>4
<1>14. CASE UNCHANGED vars
  BY <1>14 DEF vars
<1> QED
  BY <1>1, <1>2, <1>3, <1>4, <1>5, <1>6, <1>7, <1>8, <1>9, <1>10, <1>11, <1>12,
     <1>13, <1>14
  DEF Next, Configure, Route, HandlerStep

\* The router's variables always have their types; in particular the
\* dead-letter queue never outgrows its bound (route(), step 5).
THEOREM RouterTypeCorrect == Spec => []TypeOK
<1> QED BY InitTypeOK, NextTypeOK, PTL DEF Spec
-----------------------------------------------------------------------------
(* The TTL.                                                                *)

\* Every hop is paid for: what a message used and what is left of its TTL add
\* up to the TTL it came with.
TTLLedger == \A m \in Messages : hops[m] + ttl[m] = InitTTL[m]

LEMMA TakeInLedger ==
  ASSUME TypeOK, TTLLedger, NEW m \in Messages, TakeIn(m)
  PROVE  TTLLedger'
<1> SUFFICES ASSUME NEW n \in Messages PROVE hops'[n] + ttl'[n] = InitTTL[n]
  BY DEF TTLLedger
<1>1. /\ ttl[n] \in Nat /\ hops[n] \in Nat
      /\ hops[n] + ttl[n] = InitTTL[n]
  BY DEF TypeOK, TTLLedger
<1>2. CASE n = m
  <2>1. ttl'[n] = ttl[n] - 1 /\ hops'[n] = hops[n] + 1
    BY <1>2 DEF TypeOK, TakeIn
  <2> QED BY <1>1, <2>1
<1>3. CASE n # m
  <2>1. ttl'[n] = ttl[n] /\ hops'[n] = hops[n]
    BY <1>3 DEF TypeOK, TakeIn
  <2> QED BY <1>1, <2>1
<1> QED BY <1>2, <1>3

\* Steps that take no message in touch neither a TTL nor a hop count.
LEMMA OnlyTakeInHops ==
  ASSUME [Next]_vars
  PROVE  \/ UNCHANGED <<ttl, hops>>
         \/ \E m \in Messages : Deny(m) \/ CrashInGuard(m)
         \/ \E c \in Calls, m \in Messages : Admit(c, m)
<1>1. CASE Configure
  BY <1>1 DEF Configure, RegisterHandler, UnregisterHandler, RegisterForwarder,
              Subscribe, Unsubscribe, SetAuthorizer, ChangePolicy,
              ClearDeadLetters, ResetStats, others
<1>2. CASE Route
  BY <1>2 DEF Route, Drop
<1>3. CASE HandlerStep
  BY <1>3 DEF HandlerStep, HandlerReturns, HandlerRaises, CancelCall,
              SubscriberEnds, quiet
<1>4. CASE UNCHANGED vars
  BY <1>4 DEF vars
<1> QED BY <1>1, <1>2, <1>3, <1>4 DEF Next

\* No message object is taken in more often than its TTL allows, over all
\* relays, subscribers and retries (route(), the TTL check).
THEOREM HopsBounded == Spec => []HopsWithinTTL
<1>1. Init => TTLLedger
  BY RouterConstantsOK DEF Init, TTLLedger, RouterConstantsOK
<1>2. TypeOK /\ TTLLedger /\ [Next]_vars => TTLLedger'
  <2> SUFFICES ASSUME TypeOK, TTLLedger, [Next]_vars PROVE TTLLedger'
    OBVIOUS
  <2>1. CASE UNCHANGED <<ttl, hops>>
    BY <2>1 DEF TTLLedger
  <2>2. ASSUME NEW m \in Messages, TakeIn(m) PROVE TTLLedger'
    BY <2>2, TakeInLedger
  <2> QED BY <2>1, <2>2, OnlyTakeInHops DEF Deny, CrashInGuard, Admit
<1>3. TypeOK /\ TTLLedger => HopsWithinTTL
  <2> SUFFICES ASSUME TypeOK, TTLLedger, NEW m \in Messages
               PROVE  hops[m] <= InitTTL[m]
    BY DEF HopsWithinTTL
  <2>1. /\ hops[m] \in Nat /\ ttl[m] \in Nat
        /\ hops[m] + ttl[m] = InitTTL[m]
    BY DEF TypeOK, TTLLedger
  <2> QED BY <2>1
<1>4. Spec => []TypeOK
  BY RouterTypeCorrect
<1> QED BY <1>1, <1>2, <1>3, <1>4, PTL DEF Spec

-----------------------------------------------------------------------------
(* The statistics.                                                         *)

\* A message that is counted in a class keeps the books even.
LEMMA CountedBooks ==
  ASSUME TypeOK, EveryRouteCounted,
         NEW class \in {"direct", "bridged", "broadcast", "dead", "denied"},
         stats' = Counted(class), crashes' = crashes
  PROVE  EveryRouteCounted'
<1>1. /\ stats["total"] \in Nat /\ stats["direct"] \in Nat
      /\ stats["bridged"] \in Nat /\ stats["broadcast"] \in Nat
      /\ stats["dead"] \in Nat /\ stats["denied"] \in Nat /\ crashes \in Nat
  BY DEF TypeOK, Counters
<1>2. /\ stats'["total"] = stats["total"] + 1
      /\ stats'[class] = stats[class] + 1
      /\ \A k \in Counters \ {"total", class} : stats'[k] = stats[k]
  BY DEF Counted, TypeOK, Counters
<1>3. /\ class # "direct" => stats'["direct"] = stats["direct"]
      /\ class # "bridged" => stats'["bridged"] = stats["bridged"]
      /\ class # "broadcast" => stats'["broadcast"] = stats["broadcast"]
      /\ class # "dead" => stats'["dead"] = stats["dead"]
      /\ class # "denied" => stats'["denied"] = stats["denied"]
  BY <1>2 DEF Counters
<1> QED BY <1>1, <1>2, <1>3 DEF EveryRouteCounted

\* At any moment the classes of the statistics add up to the messages taken
\* in, less those whose check raised (RouterStats).
THEOREM RoutesCounted == Spec => []EveryRouteCounted
<1>1. Init => EveryRouteCounted
  BY DEF Init, EveryRouteCounted, Zeroes, Counters
<1>2. TypeOK /\ EveryRouteCounted /\ [Next]_vars => EveryRouteCounted'
  <2> SUFFICES ASSUME TypeOK, EveryRouteCounted, [Next]_vars
               PROVE  EveryRouteCounted'
    OBVIOUS
  <2>1. ASSUME NEW k \in {"dropped", "errors"}, NEW n \in Nat, crashes' = crashes,
               stats' = [stats EXCEPT ![k] = @ + n]
        PROVE  EveryRouteCounted'
    <3>1. \A f \in Counters \ {k} : stats'[f] = stats[f]
      BY <2>1 DEF TypeOK
    <3> QED BY <2>1, <3>1 DEF EveryRouteCounted, Counters
  <2>2. CASE UNCHANGED <<stats, crashes>>
    BY <2>2 DEF EveryRouteCounted
  <2>3. CASE Configure
    <3>1. CASE ResetStats
      BY <3>1 DEF ResetStats, EveryRouteCounted, Zeroes, Counters
    <3>2. CASE ~ ResetStats
      BY <2>2, <2>3, <3>2
      DEF Configure, RegisterHandler, UnregisterHandler, RegisterForwarder,
          Subscribe, Unsubscribe, SetAuthorizer, ChangePolicy, ClearDeadLetters,
          others
    <3> QED BY <3>1, <3>2
  <2>4. ASSUME NEW m \in Messages, Drop(m)
        PROVE  EveryRouteCounted'
    BY <2>1, <2>4 DEF Drop
  <2>5. ASSUME NEW m \in Messages, Deny(m)
        PROVE  EveryRouteCounted'
    BY <2>5, CountedBooks DEF Deny
  <2>6. ASSUME NEW m \in Messages, CrashInGuard(m)
        PROVE  EveryRouteCounted'
    <3>1. /\ stats["total"] \in Nat /\ stats["direct"] \in Nat
          /\ stats["bridged"] \in Nat /\ stats["broadcast"] \in Nat
          /\ stats["dead"] \in Nat /\ stats["denied"] \in Nat
          /\ crashes \in Nat
      BY DEF TypeOK, Counters
    <3>2. /\ stats'["total"] = stats["total"] + 1
          /\ \A f \in Counters \ {"total"} : stats'[f] = stats[f]
          /\ crashes' = crashes + 1
      BY <2>6 DEF CrashInGuard, TypeOK, Counters
    <3> QED BY <3>1, <3>2 DEF EveryRouteCounted, Counters
  <2>7. ASSUME NEW c \in Calls, NEW m \in Messages, Admit(c, m)
        PROVE  EveryRouteCounted'
    <3>1. \E class \in {"direct", "bridged", "broadcast", "dead"} :
            stats' = Counted(class)
      BY <2>7 DEF Admit, Dispatch, ToHandler, ToBridge, ToGroup, ToPattern,
                  ToDeadLetters
    <3> QED BY <2>7, <3>1, CountedBooks DEF Admit
  <2>8. ASSUME NEW c \in Calls, HandlerReturns(c) \/ HandlerRaises(c) \/ CancelCall(c)
        PROVE  EveryRouteCounted'
    <3>1. crashes' = crashes
      BY <2>8 DEF HandlerReturns, HandlerRaises, CancelCall, quiet
    <3>2. stats' = stats \/ stats' = [stats EXCEPT !["errors"] = @ + 1]
      BY <2>8 DEF HandlerReturns, HandlerRaises, CancelCall
    <3> QED BY <2>1, <2>2, <3>1, <3>2
  <2>9. ASSUME NEW c \in Calls, NEW raised \in {0, 1}, SubscriberEnds(c, raised)
        PROVE  EveryRouteCounted'
    <3> DEFINE bad == calls[c].bad + raised
    <3>1. calls[c].bad \in Nat
      BY <2>9 DEF SubscriberEnds, TypeOK, Waits, Idle
    <3>2. bad \in Nat
      BY <3>1
    <3>3. crashes' = crashes
      BY <2>9 DEF SubscriberEnds, quiet
    <3>4. stats' = stats \/ stats' = [stats EXCEPT !["errors"] = @ + bad]
      BY <2>9 DEF SubscriberEnds
    <3> HIDE DEF bad
    <3> QED BY <2>1, <2>2, <3>2, <3>3, <3>4
  <2>10. CASE UNCHANGED vars
    BY <2>2, <2>10 DEF vars
  <2> QED BY <2>3, <2>4, <2>5, <2>6, <2>7, <2>8, <2>9, <2>10
          DEF Next, Route, HandlerStep
<1>3. Spec => []TypeOK
  BY RouterTypeCorrect
<1> QED BY <1>1, <1>2, <1>3, PTL DEF Spec

-----------------------------------------------------------------------------
(* The authorizer.                                                         *)

\* A message the attached authorizer does not allow goes nowhere (route(),
\* "fail-closed").
THEOREM RouterFailsClosed == Spec => UnallowedGoesNowhere
<1> DEFINE Contained ==
      \A m \in Messages :
        guarded /\ policy[m] # "allow" /\ hops'[m] # hops[m]
          => UNCHANGED <<calls, dead>>
<1>1. TypeOK /\ [Next]_vars => [Contained]_vars
  <2> SUFFICES ASSUME TypeOK, [Next]_vars,
                      NEW m \in Messages, guarded, policy[m] # "allow",
                      hops'[m] # hops[m]
               PROVE  UNCHANGED <<calls, dead>>
    OBVIOUS
  <2>1. ASSUME NEW n \in Messages, TakeIn(n) PROVE n = m
    BY <2>1 DEF TakeIn, TypeOK
  <2>2. ASSUME NEW n \in Messages, Deny(n) \/ CrashInGuard(n)
        PROVE  UNCHANGED <<calls, dead>>
    BY <2>2 DEF Deny, CrashInGuard
  <2>3. ASSUME NEW c \in Calls, NEW n \in Messages, Admit(c, n)
        PROVE  FALSE
    BY <2>1, <2>3 DEF Admit
  <2>4. ~ UNCHANGED <<ttl, hops>>
    OBVIOUS
  <2> QED BY <2>2, <2>3, <2>4, OnlyTakeInHops
<1>2. Spec => []TypeOK
  BY RouterTypeCorrect
<1> QED BY <1>1, <1>2, PTL DEF Spec, UnallowedGoesNowhere

=============================================================================
