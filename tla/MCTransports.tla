---------------------------- MODULE MCTransports ----------------------------
(* The transports share nothing: a behaviour is that of the WebSocket client, *)
(* the WebSocket server or the two ends of HTTP, the others stay as they begin. *)
EXTENDS WebSocketClient, WebSocketServer, HTTPTransport, TLC

VARIABLE transport

OnlyClient == transport = "client" /\ UNCHANGED <<transport, wsServerVars, httpVars>>
OnlyServer == transport = "server" /\ UNCHANGED <<transport, vars, httpVars>>
OnlyHTTP   == transport = "http"   /\ UNCHANGED <<transport, vars, wsServerVars>>

transportVars == <<transport, vars, wsServerVars, httpVars>>

TransportsInit ==
  /\ transport \in {"client", "server", "http"}
  /\ Init /\ WSServerInit /\ HTTPInit
  /\ transport # "http" => httpx /\ path = [c \in Calls |-> "aurc"]

TransportsNext ==
  \/ OnlyClient /\ Next
  \/ OnlyServer /\ WSServerNext
  \/ OnlyHTTP /\ HTTPNext

(* Where a transport is not looked at nothing of it can go on, and its       *)
(* fairness asks for nothing.                                                *)
FairTransports ==
  TransportsInit /\ [][TransportsNext]_transportVars /\ Fairness /\ HTTPFairness

TransportsTypeOK == TypeOK /\ WSServerTypeOK /\ HTTPTypeOK
=============================================================================
