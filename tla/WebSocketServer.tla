--------------------------- MODULE WebSocketServer ---------------------------
(***************************************************************************)
(* The WebSocket server (transport/websocket.py, first half): start(), the *)
(* handler of each connection, broadcast() and stop(), which all work on   *)
(* one set of clients and wait for the network in between.                 *)
(*                                                                         *)
(* The library websockets is external: it accepts connections, runs the    *)
(* handler for each, raises at a send on a lost one, and on close() of the *)
(* server closes what is left and waits for the handlers.                  *)
(***************************************************************************)
EXTENDS Naturals, Sequences, FiniteSets

CONSTANTS
  Sockets,      \* connections ever accepted
  MaxMessages   \* bound: the messages the handlers receive in all

ASSUME WSServerConstantsOK == MaxMessages \in Nat

VARIABLES
  open,       \* the connection stands
  handling,   \* each handler: "none", "waiting", "busy", "sending", "gone"
  clients,    \* _clients
  messages,   \* the messages received
  casting,    \* broadcast() is under way
  sent,       \* its send to each client: "no", "begun", "done", "failed"
  binding,    \* start(): "no", "binding", "serving", "failed", "done"
  running,    \* _running
  leaving,    \* the clients stop() has yet to close, in its order
  halting     \* stop(): "no", "clients", "server", "returned", "too early"

castVars == <<casting, sent>>
stopVars == <<leaving, halting>>
wsServerVars == <<open, handling, clients, messages, castVars, binding, running, stopVars>>

Alive == {peer \in Sockets : handling[peer] \in {"waiting", "busy", "sending"}}

-----------------------------------------------------------------------------
(* A connection and its handler.                                           *)

Accept(peer) ==
  /\ binding = "serving" /\ handling[peer] = "none"
  /\ open' = [open EXCEPT ![peer] = TRUE]
  /\ handling' = [handling EXCEPT ![peer] = "waiting"]
  /\ clients' = clients \cup {peer}
  /\ UNCHANGED <<messages, castVars, binding, running, stopVars>>

Drop(peer) ==
  /\ open[peer] /\ open' = [open EXCEPT ![peer] = FALSE]
  /\ UNCHANGED <<handling, clients, messages, castVars, binding, running, stopVars>>

\* A message, on a lost connection too when it arrived before; text that is not JSON,
\* and no handler, is answered at once.
Take(peer) ==
  /\ handling[peer] = "waiting" /\ messages < MaxMessages
  /\ messages' = messages + 1
  /\ \E next \in {"busy", "sending"} : handling' = [handling EXCEPT ![peer] = next]
  /\ UNCHANGED <<open, clients, castVars, binding, running, stopVars>>

\* The handler set by the program has an answer or an error to send, or nothing.
Handled(peer) ==
  /\ handling[peer] = "busy"
  /\ \E next \in {"sending", "waiting"} : handling' = [handling EXCEPT ![peer] = next]
  /\ UNCHANGED <<open, clients, messages, castVars, binding, running, stopVars>>

Reply(peer) ==
  /\ handling[peer] = "sending" /\ open[peer]
  /\ handling' = [handling EXCEPT ![peer] = "waiting"]
  /\ UNCHANGED <<open, clients, messages, castVars, binding, running, stopVars>>

\* The loop ends, or the send raises.
Leave(peer) ==
  /\ handling[peer] \in {"waiting", "sending"} /\ ~ open[peer]
  /\ handling' = [handling EXCEPT ![peer] = "gone"]
  /\ clients' = clients \ {peer}
  /\ UNCHANGED <<open, messages, castVars, binding, running, stopVars>>

-----------------------------------------------------------------------------
(* broadcast(), one at a time.                                             *)

Broadcast ==
  /\ ~ casting /\ clients # {}
  /\ casting' = TRUE
  /\ sent' = [peer \in Sockets |-> IF peer \in clients THEN "begun" ELSE "no"]
  /\ UNCHANGED <<open, handling, clients, messages, binding, running, stopVars>>

\* _safe_send()
SafeSend(peer) ==
  /\ sent[peer] = "begun"
  /\ sent' = [sent EXCEPT ![peer] = IF open[peer] THEN "done" ELSE "failed"]
  /\ UNCHANGED <<open, handling, clients, messages, casting, binding, running, stopVars>>

Failed == {peer \in Sockets : sent[peer] = "failed"}

CastOver ==
  /\ casting /\ \A peer \in Sockets : sent[peer] # "begun"
  /\ casting' = FALSE /\ sent' = [peer \in Sockets |-> "no"]
  /\ UNCHANGED <<open, handling, messages, binding, running, stopVars>>

\* A fault: those that were reached become the new set of clients.
CastReplaces == clients' = {peer \in Sockets : sent[peer] = "done"} /\ CastOver

CastEnds == clients' = clients \ Failed /\ CastOver

-----------------------------------------------------------------------------
(* start() and stop().                                                     *)

StartBinding ==
  /\ binding = "no"
  /\ binding' = "binding" /\ running' = TRUE
  /\ UNCHANGED <<open, handling, clients, messages, castVars, stopVars>>

\* _server is set, or OSError; a stop() in between has found no server to close.
Bound ==
  /\ binding = "binding"
  /\ \/ binding' = "serving" /\ UNCHANGED running
     \/ binding' = "failed" /\ running' = FALSE
  /\ UNCHANGED <<open, handling, clients, messages, castVars, stopVars>>

\* It closes a copy of the set, one client after the other.
StopBegins ==
  /\ halting = "no" /\ running' = FALSE
  /\ halting' = IF binding \in {"no", "binding"} THEN "too early" ELSE "clients"
  /\ leaving' = clients
  /\ UNCHANGED <<open, handling, clients, messages, castVars, binding>>

CloseOne(peer) ==
  /\ halting = "clients" /\ peer \in leaving
  /\ leaving' = leaving \ {peer}
  /\ open' = [open EXCEPT ![peer] = FALSE]
  /\ UNCHANGED <<handling, clients, messages, castVars, binding, running, halting>>

\* _clients is emptied; server.close() closes whoever came meanwhile.
CloseServer ==
  /\ halting = "clients" /\ leaving = {}
  /\ clients' = {} /\ halting' = "server"
  /\ binding' = IF binding = "serving" THEN "done" ELSE binding
  /\ open' = [peer \in Sockets |-> FALSE]
  /\ UNCHANGED <<handling, messages, castVars, running, leaving>>

\* wait_closed() waits for the handlers.
StopEnds ==
  /\ halting = "server" /\ Alive = {}
  /\ halting' = "returned"
  /\ UNCHANGED <<open, handling, clients, messages, castVars, binding, running, leaving>>

-----------------------------------------------------------------------------

WSServerInit ==
  /\ open = [peer \in Sockets |-> FALSE] /\ handling = [peer \in Sockets |-> "none"]
  /\ clients = {} /\ messages = 0 /\ casting = FALSE
  /\ sent = [peer \in Sockets |-> "no"]
  /\ binding = "no" /\ running = FALSE /\ leaving = {} /\ halting = "no"

WSServerNext ==
  \/ \E peer \in Sockets : Accept(peer) \/ Drop(peer) \/ Take(peer) \/ Handled(peer) \/ Reply(peer)
                         \/ Leave(peer) \/ SafeSend(peer) \/ CloseOne(peer)
  \/ Broadcast \/ CastEnds \/ StartBinding \/ Bound
  \/ StopBegins \/ CloseServer \/ StopEnds

WSServerSpec == WSServerInit /\ [][WSServerNext]_wsServerVars

-----------------------------------------------------------------------------

WSServerTypeOK ==
  /\ clients \subseteq Alive /\ leaving \subseteq Sockets /\ messages <= MaxMessages
  /\ running => binding \in {"binding", "serving", "done"}

\* A broadcast reaches every connection that stands, whatever joins and drops out
\* while another broadcast waits, and stop() leaves no connection, no handler and no
\* client behind, those that came while it closed the others included.
ClientsAreKnown ==
  /\ halting \in {"no", "too early", "clients"} =>
       \A peer \in Alive : open[peer] => peer \in clients
  /\ halting = "returned" =>
       clients = {} /\ \A peer \in Sockets : ~ open[peer] /\ peer \notin Alive
=============================================================================
