------------------------------- MODULE Bridges -------------------------------
(***************************************************************************)
(* Messages across protocols (bridges/base.py, a2a.py, acp.py): a node     *)
(* forwards an AURC message through a BridgeConnector (connector.py), that *)
(* is, it translates it, posts it and builds a response from the answer.   *)
(* The peer is a foreign server, or another node whose bridge translates   *)
(* what it gets, has it handled, and translates the response back, as      *)
(* main.py does.  Foreign clients post to a node as well.                  *)
(*                                                                         *)
(* Of a message its type, method, correlation id and whether it carries an *)
(* error are kept.  Not modelled: parameters, skills guessed from words,   *)
(* the mapping of capabilities.                                            *)
(***************************************************************************)
EXTENDS Naturals, FiniteSets

CONSTANTS
  Exchanges,  \* each of them is one message and what comes of it
  Numbers,    \* correlation ids and request ids; a number comes back as text
  NoId        \* none, and 0 and "", which count as none

\* A message has an id.
ASSUME BridgesConstantsOK == NoId \notin Numbers \cup Exchanges

VARIABLES
  stage,     \* "idle", "posted", "received", "answered", "returned", "raised"
  sent,      \* the message the node forwards, or what the client posts
  payload,   \* what is posted
  received,  \* the AURC message of the peer
  fails,     \* the handler of the peer fails
  reply,     \* the body of the answer
  response   \* what forward() returns

bridgeVars == <<stage, sent, payload, received, fails, reply, response>>

Protocols == {"mcp", "a2a", "acp"}

-----------------------------------------------------------------------------
(* The translations.                                                       *)

\* translate_to_aurc(): an external method, the type and the method it becomes.
MCPInward ==
  { <<"tools/call", "REQUEST", "invoke">>,
    <<"tools/list", "REQUEST", "list_capabilities">>,
    <<"resources/read", "REQUEST", "load_context">>,
    <<"initialize", "NOTIFICATION", "mcp_server_initialized">> }

A2AInward ==
  { <<"tasks/send", "DELEGATION", "invoke">>,
    <<"tasks/sendSubscribe", "DELEGATION", "invoke">>,
    <<"tasks/get", "REQUEST", "query_task_status">>,
    <<"tasks/cancel", "NOTIFICATION", "task_cancelled">>,
    <<"tasks/pushNotification/set", "NOTIFICATION", "push_notification_configured">> }

ACPInward ==
  { <<"invoke", "DELEGATION", "invoke">>,
    <<"get-task", "REQUEST", "query_task_status">>,
    <<"list-tasks", "REQUEST", "list_tasks">>,
    <<"cancel", "NOTIFICATION", "task_cancelled">>,
    <<"set-task", "NOTIFICATION", "task_state_updated">> }

Inward(p) == CASE p = "mcp" -> MCPInward [] p = "a2a" -> A2AInward [] p = "acp" -> ACPInward

\* Another method is a request of that name; a notification drops the id.
ToAURC(p, body) ==
  LET rows == {row \in Inward(p) : row[1] = body.method}
      row  == IF rows = {} THEN <<body.method, "REQUEST", body.method>> ELSE CHOOSE r \in rows : TRUE
  IN  [type |-> row[2], method |-> row[3],
       corr |-> IF row[2] = "NOTIFICATION" THEN NoId ELSE body.id]

\* correlation_id or message_id
Tag(e, m) == IF m.corr = NoId THEN e ELSE m.corr

\* translate_from_aurc().  A type the protocol has no request for is posted without an
\* id, with a method that no table has: a notification, a part of a stream, an error.
Unasked == [method |-> "other", id |-> NoId]

ToMCP(e, m) ==
  LET rows == {row \in MCPInward : row[2] = "REQUEST" /\ row[3] = m.method}
  IN  IF m.type # "REQUEST" THEN Unasked
      ELSE [method |-> IF rows = {} THEN m.method ELSE (CHOOSE r \in rows : TRUE)[1],
            id |-> Tag(e, m)]

ToA2A(e, m) ==
  IF m.type = "DELEGATION" THEN [method |-> "tasks/send", id |-> Tag(e, m)] ELSE Unasked

ToACP(e, m) ==
  IF m.type = "DELEGATION" THEN [method |-> "invoke", id |-> Tag(e, m)] ELSE Unasked

FromAURC(e, p, m) ==
  CASE p = "mcp" -> ToMCP(e, m) [] p = "a2a" -> ToA2A(e, m) [] p = "acp" -> ToACP(e, m)

\* A response: A2A has a state for a failure and no error, ACP has both fields always.
Translated(p, corr, failed) ==
  [id |-> corr, error |-> IF failed /\ p # "a2a" THEN "object" ELSE "none",
   result |-> IF failed /\ p = "mcp" THEN FALSE ELSE TRUE]

-----------------------------------------------------------------------------
(* BridgeConnector.forward().                                              *)

Nowhere == [id |-> NoId, error |-> "none", result |-> FALSE]

Came(e, failed) ==
  /\ stage' = [stage EXCEPT ![e] = "returned"]
  /\ response' = [response EXCEPT ![e] = [corr |-> Tag(e, sent[e]), failed |-> failed]]

\* The resolver knows no URL for the target.
ForwardNowhere(e, m) ==
  /\ stage[e] = "idle"
  /\ sent' = [sent EXCEPT ![e] = m]
  /\ stage' = [stage EXCEPT ![e] = "returned"]
  /\ response' = [response EXCEPT ![e] = [corr |-> Tag(e, m), failed |-> TRUE]]
  /\ UNCHANGED <<payload, received, fails, reply>>

Forward(e, m) ==
  /\ stage[e] = "idle"
  /\ sent' = [sent EXCEPT ![e] = m]
  /\ payload' = [payload EXCEPT ![e] = FromAURC(e, m.protocol, m)]
  /\ stage' = [stage EXCEPT ![e] = "posted"]
  /\ UNCHANGED <<received, fails, reply, response>>

\* A network error, a bad status or a body that is not JSON, before the peer has the
\* message or after.
PostFails(e) ==
  /\ stage[e] \in {"posted", "received", "answered"} /\ sent[e].by = "node"
  /\ Came(e, TRUE)
  /\ UNCHANGED <<sent, payload, received, fails, reply>>

\* A foreign server answers as it likes; ACP gives its errors as text (acp.py:242).
ForeignAnswer(e, error) ==
  /\ stage[e] = "posted" /\ sent[e].by = "node"
  /\ reply' = [reply EXCEPT ![e] = [id |-> payload[e].id, error |-> error, result |-> error = "none"]]
  /\ stage' = [stage EXCEPT ![e] = "answered"]
  /\ UNCHANGED <<sent, payload, received, fails, response>>

\* A fault: the result is looked for first.
BuildResponseOfResult(e) ==
  /\ stage[e] = "answered" /\ sent[e].by = "node"
  /\ IF ~ reply[e].result /\ reply[e].error = "text"
     THEN stage' = [stage EXCEPT ![e] = "raised"] /\ UNCHANGED response
     ELSE Came(e, ~ reply[e].result)
  /\ UNCHANGED <<sent, payload, received, fails, reply>>

\* _build_response(): it asks an error for its code, which a text does not have.
BuildResponse(e) ==
  /\ stage[e] = "answered" /\ sent[e].by = "node"
  /\ IF reply[e].error = "text"
     THEN stage' = [stage EXCEPT ![e] = "raised"] /\ UNCHANGED response
     ELSE Came(e, reply[e].error # "none")
  /\ UNCHANGED <<sent, payload, received, fails, reply>>

-----------------------------------------------------------------------------
(* The node at the other end.                                              *)

\* A foreign client posts to it.
ClientPosts(e, p, method, id) ==
  /\ stage[e] = "idle"
  /\ sent' = [sent EXCEPT ![e] = [by |-> "client", protocol |-> p, type |-> "none", method |-> method,
                                  corr |-> id]]
  /\ payload' = [payload EXCEPT ![e] = [method |-> method, id |-> id]]
  /\ stage' = [stage EXCEPT ![e] = "posted"]
  /\ UNCHANGED <<received, fails, reply, response>>

Receive(e) ==
  /\ stage[e] = "posted"
  /\ received' = [received EXCEPT ![e] = ToAURC(sent[e].protocol, payload[e])]
  /\ stage' = [stage EXCEPT ![e] = "received"]
  /\ UNCHANGED <<sent, payload, fails, reply, response>>

\* correlation_id, or the message_id that the message got here
Answering(e) == IF received[e].corr = NoId THEN "minted" ELSE received[e].corr

\* A result, or an error, becomes a response (create_response()) and is translated.
Handle(e, failed) ==
  /\ stage[e] = "received"
  /\ fails' = [fails EXCEPT ![e] = failed]
  /\ reply' = [reply EXCEPT ![e] = Translated(sent[e].protocol, Answering(e), failed)]
  /\ stage' = [stage EXCEPT ![e] = "answered"]
  /\ UNCHANGED <<sent, payload, received, response>>

-----------------------------------------------------------------------------

Types == {"REQUEST", "DELEGATION", "NOTIFICATION", "STREAM"}
Outgoing ==
  [by : {"node"}, protocol : Protocols, type : Types,
   method : {"invoke", "list_capabilities", "load_context", "other"}, corr : Numbers \cup {NoId}]

Methods == {row[1] : row \in UNION {Inward(p) : p \in Protocols}} \cup {"other"}

BridgesInit ==
  /\ stage = [e \in Exchanges |-> "idle"]
  /\ sent = [e \in Exchanges |-> [by |-> "nobody"]]
  /\ payload = [e \in Exchanges |-> [method |-> "none", id |-> NoId]]
  /\ received = [e \in Exchanges |-> [type |-> "none", method |-> "none", corr |-> NoId]]
  /\ fails = [e \in Exchanges |-> FALSE]
  /\ reply = [e \in Exchanges |-> Nowhere]
  /\ response = [e \in Exchanges |-> [corr |-> NoId, failed |-> FALSE]]

BridgesNext ==
  \E e \in Exchanges :
    \/ \E m \in Outgoing : Forward(e, m) \/ ForwardNowhere(e, m)
    \/ \E p \in Protocols, method \in Methods, id \in Numbers \cup {NoId} : ClientPosts(e, p, method, id)
    \/ \E error \in {"none", "object", "text"} : ForeignAnswer(e, error)
    \/ \E failed \in BOOLEAN : Handle(e, failed)
    \/ PostFails(e) \/ BuildResponse(e) \/ Receive(e)

-----------------------------------------------------------------------------

BridgesTypeOK ==
  /\ stage \in [Exchanges -> {"idle", "posted", "received", "answered", "returned", "raised"}]
  /\ \A e \in Exchanges : payload[e].id \in Numbers \cup {e, NoId}

\* A delegation over A2A and ACP, and a request over MCP, arrives at the other node as
\* what it was, and what becomes of it comes back: the answer has the id of the
\* request, and a failure of the handler is a failure for the sender, but over A2A.
\* A foreign client that numbers its request, and expects an answer, gets its number.
ExchangeKeepsItsMeaning ==
  \A e \in Exchanges :
    LET m == sent[e]
        native == /\ m.by = "node"
                  /\ m.type = (IF m.protocol = "mcp" THEN "REQUEST" ELSE "DELEGATION")
                  /\ m.protocol = "mcp" \/ m.method = "invoke"
        handled == received[e].type # "none"
        numbered == m.by = "client" /\ m.corr # NoId
    IN  handled =>
          /\ native =>
               received[e] = [type |-> m.type, method |-> m.method, corr |-> Tag(e, m)]
          /\ stage[e] = "answered" /\ (native \/ numbered) =>
               received[e].type = "NOTIFICATION" \/ reply[e].id = Tag(e, m)
          /\ stage[e] = "returned" =>
               /\ fails[e] /\ m.protocol # "a2a" => response[e].failed
               /\ response[e].corr = Tag(e, m)

\* forward() returns a response for every failure "rather than raising" (connector.py:80),
\* the ones that a server reports with an error that is a text among them.
ForwardReturns == \A e \in Exchanges : stage[e] # "raised"
=============================================================================
