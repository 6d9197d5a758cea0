----------------------- MODULE WebSocketClientProofs -----------------------
(***************************************************************************)
(* What holds of the WebSocket client for any number of connections and    *)
(* tasks, whatever the program calls and the network loses.                *)
(*                                                                         *)
(* Each property is about all tasks, the code looks at the two it keeps in *)
(* _listener_task and _heartbeat_task.  The invariant says that these are  *)
(* the ones that count: no other listener is alive, and a heartbeat that   *)
(* is cancelled lives only while close() waits for it.                     *)
(***************************************************************************)
EXTENDS WebSocketClient, TLAPS

ListenerAt ==
  [pc : {"done", "begin", "sleep", "connecting", "recv", "handling"},
   on : Conns \cup {None}, cancelled : BOOLEAN]

BeatAt ==
  [pc : {"done", "begin", "sleep", "ping"}, on : Conns \cup {None}, cancelled : BOOLEAN]

\* The listener that lives is the one the client knows.
OnlyTheTask == \A l \in Listeners : LiveListener(l) => l = listenerTask

\* While close() waits for the connection, and when it has returned, none lives.
NoneAfterClose ==
  /\ shut \/ caller.pc = "close_ws" => ~ Listening
  /\ caller.pc = "subscribing" => ~ shut

\* close() waits for every heartbeat it cancels.
CancelledInClose ==
  \A b \in Beats : LiveBeat(b) /\ beat[b].cancelled => caller.pc = "close_beat"

Inv == TypeOK /\ OnlyTheTask /\ NoneAfterClose /\ CancelledInClose /\ BeatWhileConnected

\* The parts of the invariant that are about the listeners, and about the heartbeats.
OfListeners == OnlyTheTask /\ NoneAfterClose
OfBeats == CancelledInClose /\ BeatWhileConnected

-----------------------------------------------------------------------------
(* What the pieces of the steps do.                                        *)

LEMMA StartBeatKeeps ==
  ASSUME TypeOK, CancelledInClose, StartBeat,
         caller.pc = "close_beat" => caller'.pc = "close_beat"
  PROVE  /\ beat' \in [Beats -> BeatAt] /\ beatTask' \in Beats \cup {None}
         /\ \A b \in Beats : beat'[b].pc = "ping" => beat'[b].on # None
         /\ CancelledInClose'
         /\ \E b \in Beats : LiveBeat(b)'
<1>1. beat \in [Beats -> BeatAt] /\ None \notin Beats
  BY ClientConstantsOK DEF TypeOK, BeatAt, ClientConstantsOK
<1>2. CASE LiveBeat(beatTask)
  <2>1. beat' = beat /\ beatTask' = beatTask /\ beatTask \in Beats
    BY <1>2 DEF StartBeat, LiveBeat, TypeOK
  <2> QED BY <1>1, <1>2, <2>1 DEF TypeOK, CancelledInClose, LiveBeat
<1>3. CASE ~ LiveBeat(beatTask)
  <2>1. PICK n \in Beats : beat' = [beat EXCEPT ![n] = At("begin", None)] /\ beatTask' = n
    BY <1>3 DEF StartBeat
  <2>2. At("begin", None) \in BeatAt
    BY DEF At, BeatAt
  <2>3. beat'[n] = At("begin", None) /\ \A b \in Beats \ {n} : beat'[b] = beat[b]
    BY <1>1, <2>1
  <2> QED BY <1>1, <2>1, <2>2, <2>3 DEF TypeOK, CancelledInClose, LiveBeat, At
<1> QED BY <1>2, <1>3

LEMMA EstablishKeeps ==
  ASSUME TypeOK, CancelledInClose, NEW c \in Conns, Establish(c),
         caller.pc = "close_beat" => caller'.pc = "close_beat"
  PROVE  /\ net' \in [Conns -> {"closed", "open", "lost"}]
         /\ ws' = c /\ connected' = TRUE /\ closing' = FALSE
         /\ beat' \in [Beats -> BeatAt] /\ beatTask' \in Beats \cup {None}
         /\ \A b \in Beats : beat'[b].pc = "ping" => beat'[b].on # None
         /\ OfBeats'
BY StartBeatKeeps DEF Establish, TypeOK, OfBeats, BeatWhileConnected

\* The listener moves on, or ends.
LEMMA ToLoopTopKeeps ==
  ASSUME TypeOK, NEW l \in Listeners, NEW up \in BOOLEAN, ToLoopTop(l, up), up => connected
  PROVE  /\ connected' \in BOOLEAN
         /\ connected' => closing \/ connected
         /\ \E at \in ListenerAt : /\ listener' = [listener EXCEPT ![l] = at]
                                   /\ at.pc = "recv" => at.on # None
<1> DEFINE at == IF closing THEN Ended
                 ELSE IF up /\ ws # None /\ ~ BeingRead(ws) THEN At("recv", ws)
                 ELSE IF Reconnect THEN At("sleep", None) ELSE Ended
<1>1. at \in ListenerAt /\ (at.pc = "recv" => at.on # None)
  BY DEF TypeOK, ListenerAt, At, Ended
<1>2. listener' = [listener EXCEPT ![l] = at]
  BY DEF ToLoopTop, TypeOK
<1>3. connected' \in BOOLEAN /\ (connected' => closing \/ connected)
  BY DEF ToLoopTop
<1> HIDE DEF at
<1> QED BY <1>1, <1>2, <1>3

\* A listener that was alive goes somewhere.
LEMMA ListenerMoves ==
  ASSUME TypeOK, OfListeners, NEW l \in Listeners, LiveListener(l), NEW at \in ListenerAt,
         listener' = [listener EXCEPT ![l] = at], at.pc = "recv" => at.on # None,
         UNCHANGED <<listenerTask, caller, shut>>
  PROVE  /\ OfListeners'
         /\ listener' \in [Listeners -> ListenerAt]
         /\ \A k \in Listeners : listener'[k].pc = "recv" => listener'[k].on # None
<1>1. listener \in [Listeners -> ListenerAt]
  BY DEF TypeOK, ListenerAt
<1>2. listener'[l] = at /\ \A k \in Listeners \ {l} : listener'[k] = listener[k]
  BY <1>1
<1>3. l = listenerTask /\ Listening
  BY DEF OfListeners, OnlyTheTask, Listening
<1>4. OnlyTheTask'
  BY <1>2, <1>3 DEF OfListeners, OnlyTheTask, LiveListener
<1>5. NoneAfterClose'
  BY <1>3 DEF OfListeners, NoneAfterClose
<1> QED BY <1>1, <1>2, <1>4, <1>5 DEF OfListeners, TypeOK

\* A heartbeat that was alive goes somewhere, or ends when it is not needed.
LEMMA BeatMoves ==
  ASSUME Inv, NEW b \in Beats, NEW at \in BeatAt,
         beat' = [beat EXCEPT ![b] = at], at.pc = "ping" => at.on # None, ~ at.cancelled,
         UNCHANGED <<net, ws, closing, listener, listenerTask, beatTask, caller, shut>>,
         connected' \in BOOLEAN, connected' => connected,
         at.pc # "done" \/ ~ connected' \/ closing \/ ws = None \/ caller.pc \in InClose
  PROVE  Inv'
<1>1. beat \in [Beats -> BeatAt]
  BY DEF Inv, TypeOK, BeatAt
<1>2. beat'[b] = at /\ \A d \in Beats \ {b} : beat'[d] = beat[d]
  BY <1>1
<1>3. beat' \in [Beats -> BeatAt]
  BY <1>1
<1>4. TypeOK'
  BY <1>2, <1>3 DEF Inv, TypeOK, BeatAt
<1>5. CancelledInClose'
  BY <1>2 DEF Inv, CancelledInClose, LiveBeat
<1>6. BeatWhileConnected'
  BY <1>2, ClientConstantsOK DEF Inv, BeatWhileConnected, LiveBeat, ClientConstantsOK
<1> QED BY <1>4, <1>5, <1>6 DEF Inv, OnlyTheTask, NoneAfterClose, Listening, LiveListener

-----------------------------------------------------------------------------
(* The steps.                                                              *)

LEMMA BeatKeeps ==
  ASSUME Inv, NEW b \in Beats, BeatStep(b)
  PROVE  Inv'
<1>1. Ended \in BeatAt /\ At("sleep", None) \in BeatAt /\ At("ping", ws) \in BeatAt
      /\ Ended.pc = "done" /\ At("sleep", None).pc = "sleep" /\ At("ping", ws).pc = "ping"
      /\ ~ Ended.cancelled /\ ~ At("sleep", None).cancelled /\ ~ At("ping", ws).cancelled
      /\ At("ping", ws).on = ws
  BY DEF Inv, TypeOK, BeatAt, At, Ended
<1>2. connected \in BOOLEAN
  BY DEF Inv, TypeOK
<1>3. CASE BeatBegins(b) \/ PingSent(b)
  <2> DEFINE at == IF BeatOn THEN At("sleep", None) ELSE Ended
  <2>1. beat' = [beat EXCEPT ![b] = at]
        /\ UNCHANGED <<net, flags, listener, listenerTask, beatTask, caller, shut>>
    BY <1>3 DEF BeatBegins, PingSent
  <2>2. at \in BeatAt /\ at.pc # "ping" /\ ~ at.cancelled
        /\ (at.pc # "done" \/ ~ connected \/ closing \/ ws = None)
    BY <1>1 DEF BeatOn
  <2> HIDE DEF at
  <2> QED BY <1>2, <2>1, <2>2, BeatMoves DEF flags
<1>4. CASE BeatPings(b)
  <2> DEFINE at == IF BeatOn THEN At("ping", ws) ELSE Ended
  <2>1. beat' = [beat EXCEPT ![b] = at]
        /\ UNCHANGED <<net, flags, listener, listenerTask, beatTask, caller, shut>>
    BY <1>4 DEF BeatPings
  <2>2. at \in BeatAt /\ (at.pc = "ping" => at.on # None) /\ ~ at.cancelled
        /\ (at.pc # "done" \/ ~ connected \/ closing \/ ws = None)
    BY <1>1 DEF BeatOn
  <2> HIDE DEF at
  <2> QED BY <1>2, <2>1, <2>2, BeatMoves DEF flags
<1>5. CASE PingFails(b)
  BY <1>1, <1>5, BeatMoves DEF PingFails
<1>6. CASE BeatCancelled(b)
  <2>1. caller.pc \in InClose
    BY <1>6 DEF BeatCancelled, Inv, CancelledInClose, InClose
  <2> QED BY <1>1, <1>2, <1>6, <2>1, BeatMoves DEF BeatCancelled, flags
<1> QED BY <1>3, <1>4, <1>5, <1>6 DEF BeatStep

LEMMA ListenerKeeps ==
  ASSUME Inv, NEW l \in Listeners, ListenerStep(l)
  PROVE  Inv'
<1>1. LiveListener(l)
  BY ClientConstantsOK
  DEF ListenerStep, ListenerBegins, ListenerDials, ListenerCannotConnect, ListenerConnects,
      ListenerGetsMessage, ListenerSkips, ListenerLosesConnection, ListenerHandled,
      ListenerCancelled, LiveListener, ClientConstantsOK
<1>2. TypeOK /\ OfListeners /\ connected \in BOOLEAN /\ listener \in [Listeners -> ListenerAt]
  BY DEF Inv, OfListeners, TypeOK, ListenerAt
<1>3. ASSUME NEW at \in ListenerAt, listener' = [listener EXCEPT ![l] = at],
             at.pc = "recv" => at.on # None, UNCHANGED same,
             connected' \in BOOLEAN, connected' => closing \/ connected
      PROVE  Inv'
  <2>1. UNCHANGED <<net, ws, closing, listenerTask, beat, beatTask, caller, shut>>
    BY <1>3 DEF same
  <2>2. /\ OfListeners'
        /\ listener' \in [Listeners -> ListenerAt]
        /\ \A k \in Listeners : listener'[k].pc = "recv" => listener'[k].on # None
    BY <1>1, <1>2, <1>3, <2>1, ListenerMoves
  <2>3. TypeOK'
    BY <1>2, <1>3, <2>1, <2>2 DEF TypeOK, ListenerAt
  <2>4. OfBeats'
    BY <1>3, <2>1 DEF Inv, OfBeats, CancelledInClose, BeatWhileConnected, LiveBeat, InClose
  <2> QED BY <2>2, <2>3, <2>4 DEF Inv, OfListeners, OfBeats
<1>4. ASSUME NEW up \in BOOLEAN, ToLoopTop(l, up), up => connected, UNCHANGED same PROVE Inv'
  BY <1>2, <1>3, <1>4, ToLoopTopKeeps
<1>5. CASE \/ ListenerBegins(l) \/ ListenerCannotConnect(l) \/ ListenerHandled(l)
           \/ ListenerLosesConnection(l)
  BY <1>2, <1>4, <1>5
  DEF ListenerBegins, ListenerCannotConnect, ListenerHandled, ListenerLosesConnection
<1>6. CASE ListenerSkips(l)
  <2>1. CASE UNCHANGED <<listener, connected>>
    <3>1. listener' = [listener EXCEPT ![l] = listener[l]] /\ listener[l] \in ListenerAt
          /\ (listener[l].pc = "recv" => listener[l].on # None)
      BY <1>2, <2>1 DEF TypeOK
    <3> QED BY <1>2, <1>3, <1>6, <2>1, <3>1 DEF ListenerSkips
  <2>2. CASE ToLoopTop(l, connected)
    BY <1>2, <1>4, <1>6, <2>2 DEF ListenerSkips
  <2> QED BY <1>6, <2>1, <2>2 DEF ListenerSkips
<1>7. CASE ListenerDials(l)
  <2> DEFINE at == [listener[l] EXCEPT !.pc = "connecting"]
  <2>1. at \in ListenerAt /\ at.pc # "recv"
    BY <1>2 DEF ListenerAt
  <2>2. listener' = [listener EXCEPT ![l] = at]
    BY <1>7 DEF ListenerDials
  <2> HIDE DEF at
  <2> QED BY <1>2, <1>3, <1>7, <2>1, <2>2 DEF ListenerDials
<1>8. CASE ListenerGetsMessage(l)
  <2>1. At("handling", None) \in ListenerAt /\ At("handling", None).pc # "recv"
    BY DEF At, ListenerAt
  <2> QED BY <1>2, <1>3, <1>8, <2>1 DEF ListenerGetsMessage
<1>9. CASE ListenerCancelled(l)
  <2>1. Ended \in ListenerAt /\ Ended.pc # "recv"
    BY DEF At, Ended, ListenerAt
  <2> QED BY <1>2, <1>3, <1>9, <2>1 DEF ListenerCancelled
<1>10. CASE ListenerConnects(l)
  <2>1. PICK c \in Conns : Establish(c) /\ listener' = [listener EXCEPT ![l] = At("recv", c)]
    BY <1>10 DEF ListenerConnects
  <2>2. UNCHANGED <<listenerTask, caller, shut>>
    BY <1>10 DEF ListenerConnects
  <2>3. At("recv", c) \in ListenerAt /\ (At("recv", c).pc = "recv" => At("recv", c).on # None)
    BY ClientConstantsOK DEF At, ListenerAt, ClientConstantsOK
  <2>4. /\ OfListeners'
        /\ listener' \in [Listeners -> ListenerAt]
        /\ \A k \in Listeners : listener'[k].pc = "recv" => listener'[k].on # None
    BY <1>1, <1>2, <2>1, <2>2, <2>3, ListenerMoves
  <2>5. /\ net' \in [Conns -> {"closed", "open", "lost"}]
        /\ ws' = c /\ connected' = TRUE /\ closing' = FALSE
        /\ beat' \in [Beats -> BeatAt] /\ beatTask' \in Beats \cup {None}
        /\ \A b \in Beats : beat'[b].pc = "ping" => beat'[b].on # None
        /\ OfBeats'
    BY <2>1, <2>2, EstablishKeeps DEF Inv
  <2>6. TypeOK'
    BY <1>2, <2>2, <2>4, <2>5 DEF TypeOK, ListenerAt, BeatAt
  <2> QED BY <2>4, <2>5, <2>6 DEF Inv, OfListeners, OfBeats
<1> QED BY <1>5, <1>6, <1>7, <1>8, <1>9, <1>10 DEF ListenerStep

\* A new listener starts only when the one the client knows has ended.
LEMMA NewListenerKeeps ==
  ASSUME TypeOK, OnlyTheTask, ~ LiveListener(listenerTask), NewListener, ~ shut'
  PROVE  /\ listener' \in [Listeners -> ListenerAt] /\ listenerTask' \in Listeners
         /\ \A l \in Listeners : listener'[l].pc = "recv" => listener'[l].on # None
         /\ OfListeners'
         /\ caller' = [pc |-> "idle", on |-> None]
<1>1. listener \in [Listeners -> ListenerAt]
  BY DEF TypeOK, ListenerAt
<1>2. PICK n \in Listeners : listener' = [listener EXCEPT ![n] = At("begin", None)]
                             /\ listenerTask' = n
  BY DEF NewListener
<1>3. At("begin", None) \in ListenerAt /\ At("begin", None).pc = "begin"
  BY DEF At, ListenerAt
<1>4. listener'[n] = At("begin", None) /\ \A l \in Listeners \ {n} : listener'[l] = listener[l]
  BY <1>1, <1>2
<1>5. \A l \in Listeners : ~ LiveListener(l)
  BY DEF OnlyTheTask
<1>6. OnlyTheTask'
  BY <1>2, <1>4, <1>5 DEF OnlyTheTask, LiveListener
<1>7. caller' = [pc |-> "idle", on |-> None]
  BY DEF NewListener, Goto
<1>8. NoneAfterClose'
  BY <1>7 DEF NoneAfterClose
<1> QED BY <1>1, <1>2, <1>3, <1>4, <1>6, <1>7, <1>8 DEF TypeOK, OfListeners

\* A listener that is cancelled is as alive as before.
LEMMA CancelListenerKeeps ==
  ASSUME TypeOK, OnlyTheTask, LiveListener(listenerTask),
         listener' = Cancelled(listener, listenerTask), listenerTask' = listenerTask
  PROVE  /\ listener' \in [Listeners -> ListenerAt]
         /\ \A l \in Listeners : listener'[l].pc = "recv" => listener'[l].on # None
         /\ OnlyTheTask'
<1>1. listener \in [Listeners -> ListenerAt] /\ listenerTask \in Listeners
  BY DEF TypeOK, ListenerAt, LiveListener
<1>2. \A l \in Listeners : listener'[l].pc = listener[l].pc /\ listener'[l].on = listener[l].on
  BY <1>1 DEF Cancelled, ListenerAt
<1>3. listener' \in [Listeners -> ListenerAt]
  BY <1>1 DEF Cancelled, ListenerAt
<1> QED BY <1>2, <1>3 DEF OnlyTheTask, LiveListener, TypeOK

\* close(), from the connection on: no listener lives.
LEMMA CloseConnectionKeeps ==
  ASSUME TypeOK, CloseConnection, ws' = ws
  PROVE  /\ shut' \in BOOLEAN
         /\ caller' \in [pc : {"idle", "close_ws"}, on : Conns \cup {None}]
         /\ caller'.pc = "close_ws" => caller'.on # None
         /\ caller'.pc \notin InClose => ws' = None
<1>1. CASE ws # None
  <2>1. caller' = [pc |-> "close_ws", on |-> ws] /\ shut' = shut
    BY <1>1 DEF CloseConnection, Goto
  <2> QED BY <1>1, <2>1 DEF TypeOK, InClose
<1>2. CASE ws = None
  <2>1. caller' = [pc |-> "idle", on |-> None] /\ shut' = TRUE
    BY <1>2 DEF CloseConnection, Goto
  <2> QED BY <1>2, <2>1 DEF InClose
<1> QED BY <1>1, <1>2

\* close(), from the listener on.
LEMMA CloseListenerKeeps ==
  ASSUME TypeOK, OfListeners, CloseListener, UNCHANGED <<ws, listenerTask>>,
         caller.pc \in {"idle", "close_beat"}
  PROVE  /\ shut' \in BOOLEAN
         /\ caller' \in [pc : {"idle"} \cup InClose, on : Conns \cup {None}]
         /\ caller'.pc = "close_ws" => caller'.on # None
         /\ caller'.pc \notin InClose => ws' = None
         /\ listener' \in [Listeners -> ListenerAt]
         /\ \A l \in Listeners : listener'[l].pc = "recv" => listener'[l].on # None
         /\ OfListeners'
         /\ caller'.pc # "close_beat"
<1>1. CASE LiveListener(listenerTask)
  <2>1. /\ listener' = Cancelled(listener, listenerTask) /\ shut' = shut
        /\ caller' = [pc |-> "close_listener", on |-> None]
    BY <1>1 DEF CloseListener, Goto
  <2>2. listenerTask \in Listeners /\ Listening
    BY <1>1 DEF LiveListener, TypeOK, Listening
  <2>3. ~ shut
    BY <2>2 DEF OfListeners, NoneAfterClose
  <2>4. /\ listener' \in [Listeners -> ListenerAt]
        /\ \A l \in Listeners : listener'[l].pc = "recv" => listener'[l].on # None
        /\ OnlyTheTask'
    BY <1>1, <2>1, CancelListenerKeeps DEF OfListeners
  <2>5. NoneAfterClose'
    BY <2>1, <2>3 DEF NoneAfterClose
  <2> QED BY <2>1, <2>3, <2>4, <2>5 DEF OfListeners, InClose, TypeOK
<1>2. CASE ~ LiveListener(listenerTask)
  <2>1. CloseConnection /\ listener' = listener
    BY <1>2 DEF CloseListener
  <2>2. /\ shut' \in BOOLEAN
        /\ caller' \in [pc : {"idle", "close_ws"}, on : Conns \cup {None}]
        /\ caller'.pc = "close_ws" => caller'.on # None
        /\ caller'.pc \notin InClose => ws' = None
    BY <2>1, CloseConnectionKeeps
  <2>3. \A l \in Listeners : ~ LiveListener(l)
    BY <1>2 DEF OfListeners, OnlyTheTask
  <2>4. OfListeners'
    BY <2>1, <2>2, <2>3 DEF OfListeners, OnlyTheTask, NoneAfterClose, Listening, LiveListener
  <2> QED BY <2>1, <2>2, <2>4 DEF TypeOK, ListenerAt, InClose
<1> QED BY <1>1, <1>2

\* connect(), send() and receive(): no listener is touched, and heartbeats only start.
LEMMA CallKeeps ==
  ASSUME Inv,
         \/ ConnectBegins \/ ConnectSucceeds \/ ConnectFails \/ SendBegins
         \/ SendUnencodable \/ ReceiveBegins \/ TransferEnds \/ TransferFails
  PROVE  Inv'
<1> USE DEF ConnectBegins, ConnectSucceeds, ConnectFails, SendBegins, SendUnencodable,
            ReceiveBegins, TransferEnds, TransferFails
<1>1. caller.pc \in {"idle", "connecting", "sending", "receiving"}
  OBVIOUS
<1>2. listener' = listener /\ listenerTask' = listenerTask
      /\ (shut' => shut) /\ shut' \in BOOLEAN
  <2>1. listener' = listener /\ listenerTask' = listenerTask
    OBVIOUS
  <2>2. shut' = shut \/ shut' = FALSE
    OBVIOUS
  <2>3. shut' \in BOOLEAN
    <3>1. shut \in BOOLEAN
      BY DEF Inv, TypeOK
    <3> QED BY <2>2, <3>1
  <2>4. CASE shut' = shut
    BY <2>1, <2>3, <2>4
  <2>5. CASE shut' = FALSE
    BY <2>1, <2>5
  <2> QED BY <2>2, <2>4, <2>5
<1>3. \/ caller' = caller
      \/ \E pc \in {"idle", "connecting"} : caller' = [pc |-> pc, on |-> None]
      \/ /\ ws # None
         /\ \E pc \in {"sending", "receiving"} : caller' = [pc |-> pc, on |-> ws]
  <2>1. CASE ReceiveBegins
    <3>1. CASE BeingRead(ws)
      BY <2>1, <3>1
    <3>2. CASE ~ BeingRead(ws)
      <4>1. ws # None /\ caller' = [pc |-> "receiving", on |-> ws]
        BY <2>1, <3>2 DEF Goto
      <4> QED BY <4>1
    <3> QED BY <3>1, <3>2
  <2>2. CASE SendBegins
    <3>1. ws # None /\ caller' = [pc |-> "sending", on |-> ws]
      BY <2>2 DEF Goto
    <3> QED BY <3>1
  <2>3. CASE ConnectBegins
    <3>1. caller' = [pc |-> "connecting", on |-> None]
      BY <2>3 DEF Goto
    <3> QED BY <3>1
  <2>4. CASE ConnectSucceeds \/ ConnectFails \/ TransferEnds \/ TransferFails
    <3>1. caller' = [pc |-> "idle", on |-> None]
      BY <2>4 DEF Goto
    <3> QED BY <3>1
  <2>5. CASE SendUnencodable
    BY <2>5
  <2> QED BY <2>1, <2>2, <2>3, <2>4, <2>5
<1>4. /\ caller' \in [pc : {"idle", "connecting", "sending", "receiving"}, on : Conns \cup {None}]
      /\ caller'.pc \in {"sending", "receiving"} => caller'.on # None
  <2>1. CASE caller' = caller
    BY <1>1, <2>1 DEF Inv, TypeOK
  <2>2. CASE caller' # caller
    <3>1. ws \in Conns \cup {None}
      BY DEF Inv, TypeOK
    <3> QED BY <1>3, <2>2, <3>1
  <2> QED BY <2>1, <2>2
<1> USE DEF InClose
<1>5. listener' = listener /\ listenerTask' = listenerTask
      /\ caller.pc \notin InClose \cup {"subscribing"}
      /\ caller'.pc \in {"idle", "connecting", "sending", "receiving"}
      /\ (shut' => shut) /\ shut' \in BOOLEAN
  BY <1>1, <1>2, <1>4
<1>6. OfListeners'
  BY <1>5 DEF Inv, OfListeners, OnlyTheTask, NoneAfterClose, Listening, LiveListener
<1>7. CASE ConnectSucceeds
  <2>1. PICK c \in Conns : Establish(c)
    BY <1>7 DEF ConnectSucceeds
  <2>2. caller' = [pc |-> "idle", on |-> None]
    BY <1>7 DEF ConnectSucceeds, Goto
  <2>3. /\ net' \in [Conns -> {"closed", "open", "lost"}]
        /\ ws' = c /\ connected' = TRUE /\ closing' = FALSE
        /\ beat' \in [Beats -> BeatAt] /\ beatTask' \in Beats \cup {None}
        /\ \A b \in Beats : beat'[b].pc = "ping" => beat'[b].on # None
        /\ OfBeats'
    BY <1>5, <2>1, EstablishKeeps DEF Inv, InClose
  <2>4. TypeOK'
    BY <1>5, <2>2, <2>3 DEF Inv, TypeOK, BeatAt
  <2> QED BY <1>6, <2>3, <2>4 DEF Inv, OfListeners, OfBeats
<1>8. CASE \/ ConnectBegins \/ ConnectFails \/ SendBegins
           \/ SendUnencodable \/ ReceiveBegins \/ TransferEnds \/ TransferFails
  <2>1. /\ UNCHANGED <<net, ws, closing, beat, beatTask>>
        /\ connected' = connected \/ connected' = FALSE
    BY <1>8 DEF flags
  <2>2. TypeOK'
    BY <1>4, <1>5, <2>1 DEF Inv, TypeOK
  <2>3. OfBeats'
    BY <1>5, <2>1 DEF Inv, OfBeats, CancelledInClose, BeatWhileConnected, LiveBeat, InClose
  <2> QED BY <1>6, <2>2, <2>3 DEF Inv, OfListeners, OfBeats
<1> QED BY <1>7, <1>8

LEMMA SubscribeKeeps ==
  ASSUME Inv, SubscribeBegins \/ SubscribeEnds
  PROVE  Inv'
<1>1. /\ UNCHANGED <<net, flags, beat, beatTask>>
      /\ caller.pc \in {"idle", "subscribing"} /\ shut' = FALSE
  BY DEF SubscribeBegins, SubscribeEnds, Inv, NoneAfterClose, TypeOK
<1>2. /\ listener' \in [Listeners -> ListenerAt] /\ listenerTask' \in Listeners \cup {None}
      /\ \A l \in Listeners : listener'[l].pc = "recv" => listener'[l].on # None
      /\ OfListeners'
      /\ caller' \in [pc : {"idle", "subscribing"}, on : {None}]
  <2>1. CASE LiveListener(listenerTask)
    <3>1. /\ listener' = Cancelled(listener, listenerTask) /\ listenerTask' = listenerTask
          /\ caller' = [pc |-> "subscribing", on |-> None]
      BY <2>1 DEF SubscribeBegins, SubscribeEnds, Goto
    <3>2. OnlyTheTask' /\ listener' \in [Listeners -> ListenerAt]
          /\ \A l \in Listeners : listener'[l].pc = "recv" => listener'[l].on # None
      BY <2>1, <3>1, CancelListenerKeeps DEF Inv
    <3> QED BY <1>1, <3>1, <3>2 DEF Inv, TypeOK, OfListeners, NoneAfterClose
  <2>2. CASE ~ LiveListener(listenerTask)
    <3>1. NewListener
      BY <2>2 DEF SubscribeBegins, SubscribeEnds
    <3> QED BY <1>1, <2>2, <3>1, NewListenerKeeps DEF Inv
  <2> QED BY <2>1, <2>2
<1>3. TypeOK'
  BY <1>1, <1>2 DEF Inv, TypeOK, ListenerAt, flags
<1>4. OfBeats'
  BY <1>1, <1>2 DEF Inv, OfBeats, CancelledInClose, BeatWhileConnected, LiveBeat, InClose, flags
<1> QED BY <1>2, <1>3, <1>4 DEF Inv, OfListeners, OfBeats

LEMMA CloseKeeps ==
  ASSUME Inv, CloseBegins \/ CloseStep
  PROVE  Inv'
<1>1. TypeOK /\ OfListeners /\ OfBeats
  BY DEF Inv, OfListeners, OfBeats
<1>2. beat \in [Beats -> BeatAt] /\ None \notin Beats
  BY <1>1, ClientConstantsOK DEF TypeOK, BeatAt, ClientConstantsOK
<1>3. CASE CloseBegins /\ LiveBeat(beatTask)
  <2>1. /\ beat' = Cancelled(beat, beatTask) /\ caller' = [pc |-> "close_beat", on |-> None]
        /\ closing' = TRUE /\ connected' = FALSE
        /\ UNCHANGED <<net, ws, listener, listenerTask, beatTask, shut>>
    BY <1>3 DEF CloseBegins, Goto
  <2>2. beatTask \in Beats
    BY <1>1, <1>3 DEF LiveBeat, TypeOK
  <2>3. beat' \in [Beats -> BeatAt]
        /\ \A b \in Beats : beat'[b].pc = beat[b].pc /\ beat'[b].on = beat[b].on
    BY <1>2, <2>1, <2>2 DEF Cancelled, BeatAt
  <2>4. TypeOK'
    BY <1>1, <2>1, <2>3 DEF TypeOK, BeatAt, InClose
  <2>5. OfListeners'
    BY <1>1, <2>1 DEF OfListeners, OnlyTheTask, NoneAfterClose, Listening, LiveListener
  <2>6. OfBeats'
    BY <2>1 DEF OfBeats, CancelledInClose, BeatWhileConnected
  <2> QED BY <2>4, <2>5, <2>6 DEF Inv, OfListeners, OfBeats
<1>4. CASE (CloseBegins /\ ~ LiveBeat(beatTask)) \/ CloseAfterBeat
  <2>1. /\ CloseListener /\ beat' = beat /\ UNCHANGED <<net, ws, listenerTask>>
        /\ caller.pc \in {"idle", "close_beat"} /\ beatTask' \in {beatTask, None}
        /\ closing' \in BOOLEAN /\ connected' \in BOOLEAN
    BY <1>1, <1>4 DEF CloseBegins, CloseAfterBeat, flags, TypeOK
  <2>2. /\ shut' \in BOOLEAN
        /\ caller' \in [pc : {"idle"} \cup InClose, on : Conns \cup {None}]
        /\ caller'.pc = "close_ws" => caller'.on # None
        /\ caller'.pc \notin InClose => ws' = None
        /\ listener' \in [Listeners -> ListenerAt]
        /\ \A l \in Listeners : listener'[l].pc = "recv" => listener'[l].on # None
        /\ OfListeners'
    BY <1>1, <2>1, CloseListenerKeeps
  <2>3. \A b \in Beats : ~ (LiveBeat(b) /\ beat[b].cancelled)
    BY <1>1, <1>4 DEF CloseBegins, CloseAfterBeat, OfBeats, CancelledInClose
  <2>4. OfBeats'
    BY <2>1, <2>2, <2>3 DEF OfBeats, CancelledInClose, BeatWhileConnected, LiveBeat
  <2>5. TypeOK'
    BY <1>1, <2>1, <2>2 DEF TypeOK, ListenerAt, InClose
  <2> QED BY <2>2, <2>4, <2>5 DEF Inv, OfListeners, OfBeats
<1>5. CASE CloseAfterListener
  <2>1. /\ caller.pc = "close_listener" /\ ~ LiveListener(listenerTask)
        /\ listenerTask' = None /\ CloseConnection
        /\ UNCHANGED <<net, ws, connected, closing, listener, beat, beatTask>>
    BY <1>5 DEF CloseAfterListener, flags
  <2>2. /\ shut' \in BOOLEAN
        /\ caller' \in [pc : {"idle", "close_ws"}, on : Conns \cup {None}]
        /\ caller'.pc = "close_ws" => caller'.on # None
        /\ caller'.pc \notin InClose => ws' = None
    BY <1>1, <2>1, CloseConnectionKeeps
  <2>3. \A l \in Listeners : ~ LiveListener(l)
    BY <1>1, <2>1 DEF OfListeners, OnlyTheTask
  <2>4. OfListeners'
    BY <2>1, <2>2, <2>3 DEF OfListeners, OnlyTheTask, NoneAfterClose, Listening, LiveListener
  <2>5. OfBeats'
    BY <1>1, <2>1, <2>2 DEF OfBeats, CancelledInClose, BeatWhileConnected, LiveBeat, InClose
  <2>6. TypeOK'
    BY <1>1, <2>1, <2>2 DEF TypeOK, InClose
  <2> QED BY <2>4, <2>5, <2>6 DEF Inv, OfListeners, OfBeats
<1>6. CASE CloseEnds
  <2>1. /\ caller.pc = "close_ws" /\ ws' = None /\ shut' = TRUE
        /\ caller' = [pc |-> "idle", on |-> None]
        /\ net' = [net EXCEPT ![caller.on] = "closed"]
        /\ UNCHANGED <<connected, closing, listener, listenerTask, beat, beatTask>>
    BY <1>6 DEF CloseEnds, Goto
  <2>2. TypeOK'
    BY <1>1, <2>1 DEF TypeOK
  <2>3. OfListeners'
    BY <1>1, <2>1 DEF OfListeners, OnlyTheTask, NoneAfterClose, Listening, LiveListener
  <2>4. OfBeats'
    BY <1>1, <2>1 DEF OfBeats, CancelledInClose, BeatWhileConnected, LiveBeat
  <2> QED BY <2>2, <2>3, <2>4 DEF Inv, OfListeners, OfBeats
<1> QED BY <1>3, <1>4, <1>5, <1>6 DEF CloseStep

-----------------------------------------------------------------------------

LEMMA InitInv == Init => Inv
<1> SUFFICES ASSUME Init PROVE Inv
  OBVIOUS
<1>1. TypeOK
  BY DEF Init, TypeOK, At, Ended
<1>2. OnlyTheTask /\ NoneAfterClose
  BY DEF Init, OnlyTheTask, NoneAfterClose, Listening, LiveListener, At, Ended
<1>3. CancelledInClose /\ BeatWhileConnected
  BY DEF Init, CancelledInClose, BeatWhileConnected, LiveBeat, At, Ended
<1> QED BY <1>1, <1>2, <1>3 DEF Inv

LEMMA NextInv == Inv /\ [Next]_vars => Inv'
<1> SUFFICES ASSUME Inv, [Next]_vars PROVE Inv'
  OBVIOUS
<1>1. ASSUME NEW c \in Conns, Lose(c) PROVE Inv'
  <2>1. TypeOK'
    BY <1>1 DEF Lose, flags, Inv, TypeOK
  <2> QED
    BY <1>1, <2>1 DEF Lose, flags, Inv, OnlyTheTask, NoneAfterClose, CancelledInClose,
                      BeatWhileConnected, Listening, LiveListener, LiveBeat, InClose
<1>2. CASE UNCHANGED vars
  <2>1. TypeOK'
    BY <1>2 DEF vars, flags, Inv, TypeOK
  <2> QED
    BY <1>2, <2>1 DEF vars, flags, Inv, OnlyTheTask, NoneAfterClose, CancelledInClose,
                      BeatWhileConnected, Listening, LiveListener, LiveBeat, InClose
<1>3. CASE CallerStep
  BY <1>3, CallKeeps, SubscribeKeeps, CloseKeeps DEF CallerStep
<1> QED BY <1>1, <1>2, <1>3, BeatKeeps, ListenerKeeps DEF Next

LEMMA Invariant == Spec => []Inv
BY InitInv, NextInv, PTL DEF Spec

\* The variables of the client keep their types.
THEOREM TypeCorrect == Spec => []TypeOK
<1>1. Inv => TypeOK
  BY DEF Inv
<1> QED BY Invariant, <1>1, PTL

\* However often subscribe() is called, one listener reads the connection.
THEOREM NeverTwoListeners == Spec => []OneListener
<1>1. Inv => OneListener
  BY DEF Inv, OnlyTheTask, OneListener
<1> QED BY Invariant, <1>1, PTL

\* When close() has returned no listener is left, whatever it was doing meanwhile.
THEOREM NobodyListensAfterClose == Spec => []ShutStopsListening
<1>1. Inv => ShutStopsListening
  BY DEF Inv, NoneAfterClose, ShutStopsListening
<1> QED BY Invariant, <1>1, PTL

\* Every connection, also one that replaces another, is kept alive by a heartbeat.
THEOREM ConnectionsAreKeptAlive == Spec => []BeatWhileConnected
<1>1. Inv => BeatWhileConnected
  BY DEF Inv
<1> QED BY Invariant, <1>1, PTL
=============================================================================
