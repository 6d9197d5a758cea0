-------------------------- MODULE WebSocketClient --------------------------
(***************************************************************************)
(* The WebSocket client (transport/websocket.py): one connection that is   *)
(* replaced when it breaks, and three kinds of asyncio tasks that share    *)
(* it: the background listener of subscribe(), the heartbeat, and the      *)
(* program, which calls connect(), send(), receive(), subscribe() and      *)
(* close(), one at a time.                                                 *)
(*                                                                         *)
(* One step is what a task runs between two suspensions.  cancel() takes   *)
(* effect when the cancelled task runs next, whatever it was waiting for;  *)
(* until then other tasks may run.                                         *)
(*                                                                         *)
(* Not modelled: message contents, delays (a sleep ends at some time, but  *)
(* see Settled), the server, handlers that call the client they serve.     *)
(***************************************************************************)
EXTENDS Naturals, FiniteSets

CONSTANTS
  Conns,      \* connection objects; those nobody refers to are used again
  Listeners,  \* tasks that run _listen_and_reconnect()
  Beats,      \* tasks that run _heartbeat_loop()
  None,
  Reconnect,  \* the reconnect option
  Polite      \* the program calls connect() and receive() only while no
              \* listener runs, and connect() only when not connected, as in
              \* the usage example of the class

ASSUME ClientConstantsOK ==
  /\ None \notin Conns \cup Listeners \cup Beats
  /\ Reconnect \in BOOLEAN /\ Polite \in BOOLEAN

VARIABLES
  net,           \* what has become of each connection
  ws,            \* _ws
  connected,     \* _connected
  closing,       \* _closing
  listener,      \* the listener tasks
  listenerTask,  \* _listener_task
  beat,          \* the heartbeat tasks
  beatTask,      \* _heartbeat_task
  caller,        \* the program: the call it is in, the connection that uses
  shut           \* history: close() has returned, and neither connect() nor
                 \* subscribe() was called since it was

flags == <<ws, connected, closing>>
vars == <<net, ws, connected, closing, listener, listenerTask, beat, beatTask,
          caller, shut>>

-----------------------------------------------------------------------------
(* Tasks: where each is, the connection it uses, whether it is cancelled.  *)

At(pc, c) == [pc |-> pc, on |-> c, cancelled |-> FALSE]
Ended == At("done", None)

LiveListener(l) == l # None /\ listener[l].pc # "done"
LiveBeat(b)     == b # None /\ beat[b].pc # "done"

\* Task.cancel()
Cancelled(tasks, t) == [tasks EXCEPT ![t].cancelled = TRUE]

Broken(c) == net[c] # "open"

\* Connections that a variable or a task holds; nothing sees the others, and
\* they may stand for new ones.
Held ==
  {ws} \cup {listener[l].on : l \in Listeners} \cup {beat[b].on : b \in Beats}
       \cup {caller.on}

Fresh == Conns \ Held

\* Only one task may wait in recv() of a connection; a second call raises.
BeingRead(c) ==
  \/ \E l \in Listeners : listener[l].pc = "recv" /\ listener[l].on = c
  \/ caller.pc = "receiving" /\ caller.on = c

\* Nobody has a callback ready: whoever waits on a connection that broke was
\* told, and close() does not wait for a cancelled task.  The listener sleeps for
\* a second and more before it dials.
Settled ==
  /\ \A b \in Beats : /\ beat[b].pc # "begin"
                      /\ beat[b].pc = "ping" => ~ Broken(beat[b].on)
  /\ caller.pc \in {"sending", "receiving"} => ~ Broken(caller.on)
  /\ caller.pc \notin {"close_beat", "close_listener"}

-----------------------------------------------------------------------------
(* connect(), from its suspension on, as part of a step of its caller.     *)

\* A fault: the heartbeat is started only once.
StartBeatOnce ==
  IF beatTask # None THEN UNCHANGED <<beat, beatTask>>
  ELSE \E b \in Beats : /\ ~ LiveBeat(b)
                        /\ beat' = [beat EXCEPT ![b] = At("begin", None)]
                        /\ beatTask' = b

StartBeat ==
  IF LiveBeat(beatTask) THEN UNCHANGED <<beat, beatTask>>
  ELSE \E b \in Beats : /\ ~ LiveBeat(b)
                        /\ beat' = [beat EXCEPT ![b] = At("begin", None)]
                        /\ beatTask' = b

\* A fault: a connection that replaces another is not noted as one.
EstablishQuietly(c) ==
  /\ c \in Fresh
  /\ net' = [net EXCEPT ![c] = "open"]
  /\ ws' = c
  /\ connected' = (connected \/ ws = None)
  /\ closing' = FALSE
  /\ StartBeat

Establish(c) ==
  /\ c \in Fresh
  /\ net' = [net EXCEPT ![c] = "open"]
  /\ ws' = c
  /\ connected' = TRUE
  /\ closing' = FALSE
  /\ StartBeat

-----------------------------------------------------------------------------
(* The heartbeat.                                                          *)

BeatOn == connected /\ ~ closing /\ ws # None

BeatBegins(b) ==
  /\ beat[b].pc = "begin" /\ ~ beat[b].cancelled
  /\ beat' = [beat EXCEPT ![b] = IF BeatOn THEN At("sleep", None) ELSE Ended]
  /\ UNCHANGED <<net, flags, listener, listenerTask, beatTask, caller, shut>>

BeatPings(b) ==
  /\ beat[b].pc = "sleep" /\ ~ beat[b].cancelled
  /\ beat' = [beat EXCEPT ![b] = IF BeatOn THEN At("ping", ws) ELSE Ended]
  /\ UNCHANGED <<net, flags, listener, listenerTask, beatTask, caller, shut>>

PingSent(b) ==
  /\ beat[b].pc = "ping" /\ ~ beat[b].cancelled /\ ~ Broken(beat[b].on)
  /\ beat' = [beat EXCEPT ![b] = IF BeatOn THEN At("sleep", None) ELSE Ended]
  /\ UNCHANGED <<net, flags, listener, listenerTask, beatTask, caller, shut>>

PingFails(b) ==
  /\ beat[b].pc = "ping" /\ ~ beat[b].cancelled /\ Broken(beat[b].on)
  /\ connected' = FALSE
  /\ beat' = [beat EXCEPT ![b] = Ended]
  /\ UNCHANGED <<net, ws, closing, listener, listenerTask, beatTask, caller, shut>>

BeatCancelled(b) ==
  /\ LiveBeat(b) /\ beat[b].cancelled
  /\ beat' = [beat EXCEPT ![b] = Ended]
  /\ UNCHANGED <<net, flags, listener, listenerTask, beatTask, caller, shut>>

BeatStep(b) ==
  BeatBegins(b) \/ BeatPings(b) \/ PingSent(b) \/ PingFails(b) \/ BeatCancelled(b)

-----------------------------------------------------------------------------
(* The listener.                                                           *)

\* The top of its loop, with _connected being up: where it suspends next and
\* what it leaves in _connected.
ToLoopTop(l, up) ==
  \/ /\ closing
     /\ listener' = [listener EXCEPT ![l] = Ended]
     /\ connected' = up
  \/ /\ ~ closing
     /\ up /\ ws # None /\ ~ BeingRead(ws)
     /\ listener' = [listener EXCEPT ![l] = At("recv", ws)]
     /\ connected' = TRUE
  \/ /\ ~ closing
     /\ up /\ ws # None => BeingRead(ws)
     /\ listener' = [listener EXCEPT ![l] = IF Reconnect THEN At("sleep", None) ELSE Ended]
     /\ connected' = FALSE

same == <<net, ws, closing, listenerTask, beat, beatTask, caller, shut>>

ListenerBegins(l) ==
  /\ listener[l].pc = "begin" /\ ~ listener[l].cancelled
  /\ ToLoopTop(l, connected)
  /\ UNCHANGED same

ListenerDials(l) ==
  /\ listener[l].pc = "sleep" /\ ~ listener[l].cancelled
  /\ Settled
  /\ listener' = [listener EXCEPT ![l].pc = "connecting"]
  /\ UNCHANGED <<connected, same>>

\* The loop goes on to recv() without looking at _closing again.
ListenerConnects(l) ==
  /\ listener[l].pc = "connecting" /\ ~ listener[l].cancelled
  /\ \E c \in Conns :
       /\ Establish(c)
       /\ listener' = [listener EXCEPT ![l] = At("recv", c)]
  /\ UNCHANGED <<listenerTask, caller, shut>>

ListenerCannotConnect(l) ==
  /\ listener[l].pc = "connecting" /\ ~ listener[l].cancelled
  /\ ToLoopTop(l, connected)
  /\ UNCHANGED same

ListenerGetsMessage(l) ==
  /\ listener[l].pc = "recv" /\ ~ listener[l].cancelled /\ ~ Broken(listener[l].on)
  /\ listener' = [listener EXCEPT ![l] = At("handling", None)]
  /\ UNCHANGED <<connected, same>>

\* A message that is not JSON is skipped.
ListenerSkips(l) ==
  /\ listener[l].pc = "recv" /\ ~ listener[l].cancelled /\ ~ Broken(listener[l].on)
  /\ \/ /\ connected /\ ~ closing /\ ws = listener[l].on
        /\ UNCHANGED <<listener, connected>>
     \/ /\ ~ (connected /\ ~ closing /\ ws = listener[l].on)
        /\ ToLoopTop(l, connected)
  /\ UNCHANGED same

ListenerLosesConnection(l) ==
  /\ listener[l].pc = "recv" /\ ~ listener[l].cancelled /\ Broken(listener[l].on)
  /\ ToLoopTop(l, FALSE)
  /\ UNCHANGED same

\* The handler returns or raises; a response is sent, or that fails: both are
\* logged only.
ListenerHandled(l) ==
  /\ listener[l].pc = "handling" /\ ~ listener[l].cancelled
  /\ ToLoopTop(l, connected)
  /\ UNCHANGED same

\* A fault: a listener that is cancelled while it connects tries again.
ListenerCancelledLate(l) ==
  /\ LiveListener(l) /\ listener[l].cancelled
  /\ listener' = [listener EXCEPT ![l] =
                    IF @.pc = "connecting" THEN At("sleep", None) ELSE Ended]
  /\ UNCHANGED <<connected, same>>

ListenerCancelled(l) ==
  /\ LiveListener(l) /\ listener[l].cancelled
  /\ listener' = [listener EXCEPT ![l] = Ended]
  /\ UNCHANGED <<connected, same>>

ListenerStep(l) ==
  \/ ListenerBegins(l) \/ ListenerDials(l) \/ ListenerCannotConnect(l)
  \/ ListenerConnects(l) \/ ListenerGetsMessage(l) \/ ListenerSkips(l)
  \/ ListenerLosesConnection(l) \/ ListenerHandled(l) \/ ListenerCancelled(l)

-----------------------------------------------------------------------------
(* The tasks of the program.                                               *)

InClose == {"close_beat", "close_listener", "close_ws"}

Goto(pc, c) == caller' = [pc |-> pc, on |-> c]
Listening == \E l \in Listeners : LiveListener(l)

ConnectBegins ==
  /\ caller.pc = "idle"
  /\ Polite => ~ connected /\ ~ Listening
  /\ Goto("connecting", None)
  /\ shut' = FALSE
  /\ UNCHANGED <<net, flags, listener, listenerTask, beat, beatTask>>

ConnectSucceeds ==
  /\ caller.pc = "connecting"
  /\ \E c \in Conns : Establish(c)
  /\ Goto("idle", None)
  /\ UNCHANGED <<listener, listenerTask, shut>>

ConnectFails ==
  /\ caller.pc = "connecting"
  /\ Goto("idle", None)
  /\ UNCHANGED <<net, flags, listener, listenerTask, beat, beatTask, shut>>

\* A fault: only the flag is looked at.
SendIfConnected ==
  /\ caller.pc = "idle"
  /\ connected
  /\ Goto("sending", ws)
  /\ UNCHANGED <<net, flags, listener, listenerTask, beat, beatTask, shut>>

SendBegins ==
  /\ caller.pc = "idle"
  /\ connected /\ ws # None
  /\ Goto("sending", ws)
  /\ UNCHANGED <<net, flags, listener, listenerTask, beat, beatTask, shut>>

\* A message json.dumps() refuses counts as a lost connection too.
SendUnencodable ==
  /\ caller.pc = "idle"
  /\ connected /\ ws # None
  /\ connected' = FALSE
  /\ UNCHANGED <<net, ws, closing, listener, listenerTask, beat, beatTask, caller, shut>>

ReceiveBegins ==
  /\ caller.pc = "idle"
  /\ Polite => ~ Listening
  /\ connected /\ ws # None
  /\ IF BeingRead(ws)
     THEN connected' = FALSE /\ UNCHANGED caller
     ELSE Goto("receiving", ws) /\ UNCHANGED connected
  /\ UNCHANGED <<net, ws, closing, listener, listenerTask, beat, beatTask, shut>>

TransferEnds ==
  /\ caller.pc \in {"sending", "receiving"}
  /\ ~ Broken(caller.on)
  /\ Goto("idle", None)
  /\ UNCHANGED <<net, flags, listener, listenerTask, beat, beatTask, shut>>

\* The connection broke, or what receive() got is not JSON.
TransferFails ==
  /\ \/ caller.pc = "sending" /\ Broken(caller.on)
     \/ caller.pc = "receiving"
  /\ connected' = FALSE
  /\ Goto("idle", None)
  /\ UNCHANGED <<net, ws, closing, listener, listenerTask, beat, beatTask, shut>>

-----------------------------------------------------------------------------
(* subscribe() and close().                                                *)

\* A new listener in the tasks as they are.
NewListener ==
  /\ \E l \in Listeners :
       /\ ~ LiveListener(l)
       /\ listener' = [listener EXCEPT ![l] = At("begin", None)]
       /\ listenerTask' = l
  /\ Goto("idle", None)

\* A fault: the old listener is left alone.
SubscribeAnyway ==
  /\ caller.pc = "idle"
  /\ NewListener
  /\ shut' = FALSE
  /\ UNCHANGED <<net, flags, beat, beatTask>>

SubscribeBegins ==
  /\ caller.pc = "idle"
  /\ IF LiveListener(listenerTask)
     THEN /\ listener' = Cancelled(listener, listenerTask)
          /\ Goto("subscribing", None)
          /\ UNCHANGED listenerTask
     ELSE NewListener
  /\ shut' = FALSE
  /\ UNCHANGED <<net, flags, beat, beatTask>>

\* The listener it waited for is gone; _listener_task still names it.
SubscribeEnds ==
  /\ caller.pc = "subscribing"
  /\ ~ LiveListener(listenerTask)
  /\ NewListener
  /\ UNCHANGED <<net, flags, beat, beatTask, shut>>

\* close(), from the listener on, and from the connection on.
CloseConnection ==
  IF ws # None
  THEN Goto("close_ws", ws) /\ UNCHANGED shut
  ELSE Goto("idle", None) /\ shut' = TRUE

CloseListener ==
  IF LiveListener(listenerTask)
  THEN /\ listener' = Cancelled(listener, listenerTask)
       /\ Goto("close_listener", None)
       /\ UNCHANGED shut
  ELSE CloseConnection /\ UNCHANGED listener

CloseBegins ==
  /\ caller.pc = "idle"
  /\ closing' = TRUE
  /\ connected' = FALSE
  /\ IF LiveBeat(beatTask)
     THEN /\ beat' = Cancelled(beat, beatTask)
          /\ Goto("close_beat", None)
          /\ UNCHANGED <<listener, shut>>
     ELSE CloseListener /\ UNCHANGED beat
  /\ UNCHANGED <<net, ws, listenerTask, beatTask>>

CloseAfterBeat ==
  /\ caller.pc = "close_beat"
  /\ \A b \in Beats : beat[b].cancelled => ~ LiveBeat(b)
  /\ beatTask' = None
  /\ CloseListener
  /\ UNCHANGED <<net, flags, listenerTask, beat>>

\* A fault: the listener is cancelled but not waited for.
CloseHastily ==
  /\ caller.pc = "close_listener"
  /\ listenerTask' = None
  /\ CloseConnection
  /\ UNCHANGED <<net, flags, listener, beat, beatTask>>

CloseAfterListener ==
  /\ caller.pc = "close_listener"
  /\ ~ LiveListener(listenerTask)
  /\ listenerTask' = None
  /\ CloseConnection
  /\ UNCHANGED <<net, flags, listener, beat, beatTask>>

\* _ws is dropped, whichever connection it is by now.
CloseEnds ==
  /\ caller.pc = "close_ws"
  /\ net' = [net EXCEPT ![caller.on] = "closed"]
  /\ ws' = None
  /\ Goto("idle", None)
  /\ shut' = TRUE
  /\ UNCHANGED <<connected, closing, listener, listenerTask, beat, beatTask>>

CloseStep == CloseAfterBeat \/ CloseAfterListener \/ CloseEnds

CallerStep ==
  \/ ConnectBegins \/ ConnectSucceeds \/ ConnectFails
  \/ SendBegins \/ SendUnencodable \/ ReceiveBegins
  \/ TransferEnds \/ TransferFails
  \/ SubscribeBegins \/ SubscribeEnds
  \/ CloseBegins \/ CloseStep

-----------------------------------------------------------------------------

\* The peer goes away or the network drops the connection.
Lose(c) ==
  /\ net[c] = "open"
  /\ net' = [net EXCEPT ![c] = "lost"]
  /\ UNCHANGED <<flags, listener, listenerTask, beat, beatTask, caller, shut>>

Init ==
  /\ net = [c \in Conns |-> "closed"]
  /\ ws = None /\ connected = FALSE /\ closing = FALSE
  /\ listener = [l \in Listeners |-> Ended] /\ listenerTask = None
  /\ beat = [b \in Beats |-> Ended] /\ beatTask = None
  /\ caller = [pc |-> "idle", on |-> None]
  /\ shut = FALSE

Next ==
  \/ \E b \in Beats : BeatStep(b)
  \/ \E l \in Listeners : ListenerStep(l)
  \/ CallerStep
  \/ \E c \in Conns : Lose(c)

Spec == Init /\ [][Next]_vars

\* The event loop runs whoever is ready, timers fire, handlers return, what is
\* sent is sent or fails, and a server that is dialled again and again is
\* reached at some time.  Nothing makes a message arrive.
Fairness ==
  /\ \A b \in Beats : WF_vars(BeatStep(b))
  /\ \A l \in Listeners :
       /\ WF_vars(ListenerBegins(l)) /\ WF_vars(ListenerDials(l))
       /\ WF_vars(ListenerCannotConnect(l)) /\ SF_vars(ListenerConnects(l))
       /\ WF_vars(ListenerLosesConnection(l))
       /\ WF_vars(ListenerHandled(l)) /\ WF_vars(ListenerCancelled(l))
  /\ WF_vars(ConnectFails) /\ WF_vars(TransferEnds) /\ WF_vars(TransferFails)
  /\ WF_vars(SubscribeEnds) /\ WF_vars(CloseStep)

FairSpec == Spec /\ Fairness

-----------------------------------------------------------------------------
(* Properties                                                              *)

TypeOK ==
  /\ net \in [Conns -> {"closed", "open", "lost"}]
  /\ ws \in Conns \cup {None}
  /\ connected \in BOOLEAN /\ closing \in BOOLEAN /\ shut \in BOOLEAN
  /\ listener \in [Listeners ->
       [pc : {"done", "begin", "sleep", "connecting", "recv", "handling"},
        on : Conns \cup {None}, cancelled : BOOLEAN]]
  /\ beat \in [Beats ->
       [pc : {"done", "begin", "sleep", "ping"},
        on : Conns \cup {None}, cancelled : BOOLEAN]]
  /\ caller \in
       [pc : {"idle", "connecting", "sending", "receiving", "subscribing"} \cup InClose,
        on : Conns \cup {None}]
  /\ listenerTask \in Listeners \cup {None}
  /\ beatTask \in Beats \cup {None}
  /\ \A l \in Listeners : listener[l].pc = "recv" => listener[l].on # None
  /\ \A b \in Beats : beat[b].pc = "ping" => beat[b].on # None
  /\ caller.pc \in {"sending", "receiving", "close_ws"} => caller.on # None

\* However often subscribe() is called, and whatever its predecessors are
\* doing, one listener reads the connection (subscribe() cancels and waits).
OneListener ==
  \A k, l \in Listeners : LiveListener(k) /\ LiveListener(l) => k = l

\* A connection in use is kept alive: every reconnection, also one that finds
\* the heartbeat of the last connection still asleep or just ended, leaves a
\* heartbeat running, unless close() is under way (_start_heartbeat).
BeatWhileConnected ==
  connected /\ ~ closing /\ ws # None /\ caller.pc \notin InClose
    => \E b \in Beats : LiveBeat(b)

\* When close() has returned, nothing reads the connection any more, not even a
\* listener that was reconnecting meanwhile (close() waits for it).
ShutStopsListening == shut => ~ Listening

\* After close() the client says it is not connected ("Whether the client is
\* currently connected").
ClosedIsDisconnected == shut => ~ connected

\* A lost connection is replaced as long as a listener runs and the client is
\* not being closed (_listen_and_reconnect, "automatic reconnection").
LossIsRepaired ==
  (ws # None /\ net[ws] = "lost" /\ Listening /\ Reconnect)
    ~> (closing \/ ~ Listening \/ (connected /\ ws # None /\ net[ws] = "open"))

\* close() returns, whatever the listener and the heartbeat are doing.
CloseReturns == caller.pc \in InClose ~> caller.pc = "idle"

=============================================================================
