--------------------------- MODULE TransportProofs ---------------------------
(***************************************************************************)
(* What the WebSocket server and the HTTP transport promise, and the types *)
(* of all three transports.                                                *)
(***************************************************************************)
EXTENDS MCTransports, WebSocketClientProofs, FiniteSetTheorems

-----------------------------------------------------------------------------
(***************************************************************************)
(* What the WebSocket server promises, for any connections and however     *)
(* handlers, broadcasts, start() and stop() take turns.                    *)
(*                                                                         *)
(* The set of clients is written by all of them.  The invariant says what  *)
(* each may rely on when it resumes: a send that failed was to a           *)
(* connection that is gone for good, and behind a closed server no         *)
(* connection comes.                                                       *)
(***************************************************************************)

ServerTypes ==
  /\ open \in [Sockets -> BOOLEAN]
  /\ handling \in [Sockets -> {"none", "waiting", "busy", "sending", "gone"}]
  /\ sent \in [Sockets -> {"no", "begun", "done", "failed"}]
  /\ clients \subseteq Alive
  /\ binding \in {"no", "binding", "serving", "failed", "done"}
  /\ halting \in {"no", "clients", "server", "returned", "too early"}

\* A broadcast sends to connections that were accepted, and fails for lost ones only.
Sends ==
  \A peer \in Sockets :
    /\ sent[peer] # "no" => handling[peer] # "none"
    /\ sent[peer] = "failed" => ~ open[peer]

\* Until the server is closed the set has all connections that stand.
Known ==
  halting \in {"no", "too early", "clients"} =>
    \A peer \in Alive : open[peer] => peer \in clients

\* stop() got beyond the first line only if there is a server; after close() nothing
\* stands and nothing comes.
Halts ==
  /\ halting = "clients" => binding \in {"serving", "failed", "done"}
  /\ halting \in {"server", "returned"} =>
       /\ binding \in {"failed", "done"} /\ clients = {}
       /\ \A peer \in Sockets : ~ open[peer]
  /\ halting = "returned" => Alive = {}

ServerInv == ServerTypes /\ Sends /\ Known /\ Halts

LEMMA ServerInvInit == WSServerInit => ServerInv
BY DEF WSServerInit, ServerInv, ServerTypes, Sends, Known, Halts, Alive

\* The steps of one connection and of its handler.
LEMMA HandlerKeeps ==
  ASSUME ServerInv, NEW peer \in Sockets,
         Accept(peer) \/ Drop(peer) \/ Take(peer) \/ Handled(peer) \/ Reply(peer) \/ Leave(peer)
  PROVE  ServerInv'
<1> USE DEF ServerInv, ServerTypes, Alive
<1>1. CASE Accept(peer)
  <2>1. ServerTypes'
    BY <1>1 DEF Accept, castVars, stopVars
  <2>2. sent[peer] = "no"
    BY <1>1 DEF Accept, Sends
  <2>3. Sends'
    BY <1>1, <2>2 DEF Accept, castVars, Sends
  <2>4. Known'
    BY <1>1 DEF Accept, Known, stopVars
  <2>5. Halts'
    BY <1>1 DEF Accept, Halts, stopVars
  <2> QED BY <2>1, <2>3, <2>4, <2>5
<1>2. CASE Drop(peer)
  BY <1>2 DEF Drop, castVars, stopVars, Sends, Known, Halts
<1>3. CASE Take(peer) \/ Handled(peer) \/ Reply(peer)
  <2>1. /\ UNCHANGED <<open, clients, castVars, binding, stopVars>>
        /\ \E next \in {"waiting", "busy", "sending"} :
             handling' = [handling EXCEPT ![peer] = next]
        /\ peer \in Alive
    BY <1>3 DEF Take, Handled, Reply
  <2>2. Alive' = Alive
    BY <2>1
  <2>3. ServerTypes'
    BY <2>1 DEF castVars, stopVars
  <2>4. Sends'
    BY <2>1 DEF castVars, Sends
  <2>5. Known' /\ Halts'
    BY <2>1, <2>2 DEF Known, Halts, stopVars
  <2> QED BY <2>3, <2>4, <2>5
<1>4. CASE Leave(peer)
  <2>1. ServerTypes'
    BY <1>4 DEF Leave, castVars, stopVars
  <2>2. Sends'
    BY <1>4 DEF Leave, castVars, Sends
  <2>3. Known' /\ Halts'
    BY <1>4 DEF Leave, Known, Halts, stopVars
  <2> QED BY <2>1, <2>2, <2>3
<1> QED BY <1>1, <1>2, <1>3, <1>4

\* The steps of broadcast().
LEMMA BroadcastKeeps ==
  ASSUME ServerInv, Broadcast \/ CastEnds \/ \E peer \in Sockets : SafeSend(peer)
  PROVE  ServerInv'
<1> USE DEF ServerInv, ServerTypes, Alive
<1>1. CASE Broadcast
  <2>1. Sends'
    BY <1>1 DEF Broadcast, Sends
  <2> QED BY <1>1, <2>1 DEF Broadcast, Known, Halts, stopVars
<1>2. ASSUME NEW peer \in Sockets, SafeSend(peer) PROVE ServerInv'
  <2>1. Sends'
    BY <1>2 DEF SafeSend, Sends
  <2> QED BY <1>2, <2>1 DEF SafeSend, Known, Halts, stopVars
<1>3. CASE CastEnds
  <2>1. \A peer \in Failed : ~ open[peer]
    BY DEF Failed, Sends
  <2>2. /\ clients' = clients \ Failed /\ sent' = [peer \in Sockets |-> "no"]
        /\ UNCHANGED <<open, handling, binding, stopVars>>
    BY <1>3 DEF CastEnds, CastOver
  <2>3. Known'
    BY <2>1, <2>2 DEF Known, stopVars
  <2> QED BY <2>2, <2>3 DEF Sends, Halts, stopVars
<1> QED BY <1>1, <1>2, <1>3

\* The steps of start() and stop().
LEMMA ServerKeeps ==
  ASSUME ServerInv, StartBinding \/ Bound \/ StopBegins \/ CloseServer \/ StopEnds
              \/ \E peer \in Sockets : CloseOne(peer)
  PROVE  ServerInv'
<1> USE DEF ServerInv, ServerTypes, Alive, castVars, stopVars
<1>1. CASE StartBinding \/ Bound
  BY <1>1 DEF StartBinding, Bound, Sends, Known, Halts
<1>2. CASE StopBegins
  BY <1>2 DEF StopBegins, Sends, Known, Halts
<1>3. ASSUME NEW peer \in Sockets, CloseOne(peer) PROVE ServerInv'
  BY <1>3 DEF CloseOne, Sends, Known, Halts
<1>4. CASE CloseServer
  BY <1>4 DEF CloseServer, Sends, Known, Halts
<1>5. CASE StopEnds
  BY <1>5 DEF StopEnds, Sends, Known, Halts
<1> QED BY <1>1, <1>2, <1>3, <1>4, <1>5

LEMMA ServerInvStep == ServerInv /\ [WSServerNext]_wsServerVars => ServerInv'
<1> SUFFICES ASSUME ServerInv, [WSServerNext]_wsServerVars PROVE ServerInv'
  OBVIOUS
<1>1. CASE UNCHANGED wsServerVars
  BY <1>1 DEF wsServerVars, castVars, stopVars, ServerInv, ServerTypes, Sends, Known, Halts, Alive
<1> QED
  BY <1>1, HandlerKeeps, BroadcastKeeps, ServerKeeps DEF WSServerNext

\* A broadcast misses no connection that stands, and stop() leaves none behind.
THEOREM ClientsStayKnown == WSServerSpec => []ClientsAreKnown
<1>1. ServerInv => ClientsAreKnown
  BY DEF ServerInv, ServerTypes, Known, Halts, ClientsAreKnown
<1> QED
  BY ServerInvInit, ServerInvStep, <1>1, PTL DEF WSServerSpec

-----------------------------------------------------------------------------
(***************************************************************************)
(* What the HTTP transport promises about repeated messages, for any       *)
(* calls, any number of retries, any network and any server that starts,   *)
(* drains and stops at any time.                                           *)
(*                                                                         *)
(* That a handler ran twice says nothing about which answers were lost.    *)
(* The invariant says how a call goes that was never left without an       *)
(* answer: one attempt, whose request and runs go together.                *)
(***************************************************************************)

Attempts == 0 .. MaxRetries

HTTPTypes ==
  /\ path \in [Calls -> Paths]
  /\ phase \in [Calls -> {"idle", "posting", "waiting", "answered", "raised"}]
  /\ attempt \in [Calls -> Nat]
  /\ request \in [Calls -> [Attempts -> {"none", "sent", "running", "200", "404", "500"}]]
  /\ runs \in [Calls -> Nat]

\* A call of a client that was never left alone.
Heard(c) == path[c] = "aurc" /\ c \notin silent \cup mute

\* It is at its first attempt, and no other was made.
OneAttempt(c) ==
  /\ attempt[c] = 0 /\ phase[c] # "waiting" /\ request[c][0] # "500"
  /\ \A n \in Attempts \ {0} : request[c][n] = "none"

\* The handler ran at most once, for that attempt.
OneRun(c) ==
  /\ runs[c] <= 1
  /\ request[c][0] \in {"none", "sent"} => runs[c] = 0
  /\ phase[c] = "idle" => request[c][0] = "none"
  /\ phase[c] \in {"answered", "raised"} => request[c][0] \notin {"sent", "running"}

HTTPInv == HTTPTypes /\ \A c \in Calls : Heard(c) => OneAttempt(c) /\ OneRun(c)

\* What a step does not touch of a call stays true of it.
LEMMA Untouched ==
  ASSUME NEW c \in Calls, Heard(c) => OneAttempt(c) /\ OneRun(c),
         path' = path, silent \subseteq silent', mute \subseteq mute',
         phase'[c] = phase[c], attempt'[c] = attempt[c], request'[c] = request[c], runs'[c] = runs[c]
  PROVE  (Heard(c) => OneAttempt(c) /\ OneRun(c))'
BY DEF Heard, OneAttempt, OneRun

LEMMA HTTPInvInit == HTTPInit => HTTPInv
<1> SUFFICES ASSUME HTTPInit PROVE HTTPInv
  OBVIOUS
<1>1. HTTPTypes
  BY DEF HTTPInit, HTTPTypes, Attempts
<1>2. ASSUME NEW c \in Calls PROVE OneAttempt(c) /\ OneRun(c)
  BY HTTPConstantsOK DEF HTTPInit, OneAttempt, OneRun, Attempts, HTTPConstantsOK
<1> QED BY <1>1, <1>2 DEF HTTPInv

\* The steps of send().
LEMMA ClientKeeps ==
  ASSUME HTTPInv, NEW c \in Calls, Send(c) \/ ClientNext(c)
  PROVE  HTTPInv'
<1>1. 0 \in Attempts
  BY HTTPConstantsOK DEF Attempts, HTTPConstantsOK
<1>2. /\ path' = path /\ silent \subseteq silent' /\ mute' = mute /\ runs' = runs
      /\ \A d \in Calls \ {c} : phase'[d] = phase[d] /\ attempt'[d] = attempt[d] /\ request'[d] = request[d]
  BY DEF Send, ClientNext, Answer, NoAnswer, Retry, Fails, fixed, pastVars, HTTPInv, HTTPTypes
<1>3. CASE Send(c)
  <2>1. HTTPTypes'
    BY <1>1, <1>3 DEF Send, HTTPInv, HTTPTypes, fixed, pastVars
  <2>2. (Heard(c) => OneAttempt(c) /\ OneRun(c))'
    BY <1>1, <1>3
    DEF Send, HTTPInv, HTTPTypes, fixed, pastVars, Heard, OneAttempt, OneRun, Attempts
  <2> QED BY <1>2, <2>1, <2>2, Untouched DEF HTTPInv
<1>4. CASE Answer(c)
  <2>1. HTTPTypes'
    BY <1>4 DEF Answer, Fails, HTTPInv, HTTPTypes, fixed, pastVars
  <2>2. (Heard(c) => OneAttempt(c) /\ OneRun(c))'
    <3> SUFFICES ASSUME Heard(c) PROVE OneAttempt(c)' /\ OneRun(c)'
      BY <1>4 DEF Answer, Heard, fixed, pastVars
    <3>1. OneAttempt(c) /\ OneRun(c)
      BY DEF HTTPInv
    <3>2. request[c][0] \notin {"sent", "running", "500"}
      BY <1>4, <3>1 DEF Answer, OneAttempt
    <3>3. phase' = [phase EXCEPT ![c] = "answered"] \/ phase' = [phase EXCEPT ![c] = "raised"]
      BY <1>4, <3>1, <3>2 DEF Answer, Fails, Retryable, OneAttempt
    <3>4. phase'[c] \in {"answered", "raised"}
      BY <3>3 DEF HTTPInv, HTTPTypes
    <3> QED BY <1>4, <3>1, <3>2, <3>4 DEF Answer, OneAttempt, OneRun, pastVars
  <2> QED BY <1>2, <2>1, <2>2, Untouched DEF HTTPInv
<1>5. CASE NoAnswer(c)
  <2>1. HTTPTypes'
    BY <1>5 DEF NoAnswer, Fails, HTTPInv, HTTPTypes, fixed
  <2>2. ~ Heard(c)'
    BY <1>5 DEF NoAnswer, Heard
  <2> QED BY <1>2, <2>1, <2>2, Untouched DEF HTTPInv
<1>6. CASE Retry(c)
  <2>1. ~ Heard(c)'
    BY <1>6 DEF Retry, HTTPInv, Heard, OneAttempt, fixed, pastVars
  <2>2. HTTPTypes'
    <3>1. attempt[c] + 1 \in Nat
      BY DEF HTTPInv, HTTPTypes
    <3>2. request' \in [Calls -> [Attempts -> {"none", "sent", "running", "200", "404", "500"}]]
      BY <1>6 DEF Retry, HTTPInv, HTTPTypes
    <3> QED BY <1>6, <3>1, <3>2 DEF Retry, HTTPInv, HTTPTypes, fixed, pastVars
  <2> QED BY <1>2, <2>1, <2>2, Untouched DEF HTTPInv
<1> QED BY <1>3, <1>4, <1>5, <1>6 DEF ClientNext

\* The steps of the application.
LEMMA ApplicationKeeps ==
  ASSUME HTTPInv, NEW c \in Calls, NEW n \in Attempts, Receive(c, n) \/ Finish(c, n)
  PROVE  HTTPInv'
<1>1. 0 \in Attempts
  BY HTTPConstantsOK DEF Attempts, HTTPConstantsOK
<1>2. /\ path' = path /\ silent' = silent /\ mute \subseteq mute'
      /\ phase' = phase /\ attempt' = attempt
      /\ \A d \in Calls \ {c} : request'[d] = request[d] /\ runs'[d] = runs[d]
  BY DEF Receive, Finish, Give, fixed, callVars, HTTPInv, HTTPTypes
<1>3. \A status \in Statuses(c) : status \in {"200", "404", "500"}
  BY DEF Statuses
<1>4. HTTPTypes'
  <2>1. runs[c] + 1 \in Nat
    BY DEF HTTPInv, HTTPTypes
  <2>2. runs' \in [Calls -> Nat]
    BY <2>1 DEF Receive, Finish, HTTPInv, HTTPTypes
  <2>3. PICK status \in {"running", "200", "404", "500"} : Give(c, n, status)
    BY <1>3 DEF Receive, Finish
  <2>4. request' \in [Calls -> [Attempts -> {"none", "sent", "running", "200", "404", "500"}]]
    BY <2>3 DEF Give, HTTPInv, HTTPTypes
  <2> QED BY <1>2, <2>2, <2>4 DEF HTTPInv, HTTPTypes
<1>5. (Heard(c) => OneAttempt(c) /\ OneRun(c))'
  <2> SUFFICES ASSUME Heard(c)' PROVE OneAttempt(c)' /\ OneRun(c)'
    OBVIOUS
  <2>1. Heard(c) /\ OneAttempt(c) /\ OneRun(c)
    BY <1>2 DEF Heard, HTTPInv
  <2>2. n = 0
    BY <2>1 DEF Receive, Finish, OneAttempt
  <2>3. Statuses(c) = {"200"}
    BY <2>1 DEF Heard, Statuses
  <2>4. ASSUME NEW status, Give(c, n, status)
        PROVE  request'[c][0] = status /\ \A m \in Attempts \ {0} : request'[c][m] = request[c][m]
    BY <1>1, <2>2, <2>4 DEF Give, HTTPInv, HTTPTypes
  <2>5. CASE Receive(c, n)
    <3>1. request[c][0] = "sent" /\ runs[c] = 0
      BY <2>1, <2>2, <2>5 DEF Receive, OneRun
    <3>2. phase[c] = "posting" /\ attempt[c] = 0
      BY <2>1, <3>1 DEF OneRun, OneAttempt, HTTPInv, HTTPTypes
    <3>3. \/ Give(c, n, "running") /\ runs'[c] = 1
          \/ Give(c, n, "200") /\ runs'[c] = 0
      BY <2>2, <2>3, <2>5, <3>1, <3>2 DEF Receive, HTTPInv, HTTPTypes
    <3> QED BY <1>2, <2>1, <2>4, <3>2, <3>3 DEF OneAttempt, OneRun
  <2>6. CASE Finish(c, n)
    <3>1. request[c][0] = "running"
      BY <2>2, <2>6 DEF Finish
    <3>2. phase[c] = "posting"
      BY <2>1, <3>1 DEF OneRun, OneAttempt, HTTPInv, HTTPTypes
    <3>3. Give(c, n, "200") /\ runs' = runs
      BY <2>3, <2>6 DEF Finish, Heard
    <3> QED BY <1>2, <2>1, <2>4, <3>2, <3>3 DEF OneAttempt, OneRun
  <2> QED BY <2>5, <2>6
<1> QED BY <1>2, <1>4, <1>5, Untouched DEF HTTPInv

LEMMA HTTPInvStep == HTTPInv /\ [HTTPNext]_httpVars => HTTPInv'
<1> SUFFICES ASSUME HTTPInv, [HTTPNext]_httpVars PROVE HTTPInv'
  OBVIOUS
<1>1. ASSUME UNCHANGED <<fixed, callVars, request, pastVars>> PROVE HTTPInv'
  BY <1>1 DEF HTTPInv, HTTPTypes, Heard, OneAttempt, OneRun, fixed, callVars, pastVars
<1>2. ASSUME NEW c \in Calls, NEW n \in 0 .. MaxRetries, Receive(c, n) \/ Finish(c, n)
      PROVE  HTTPInv'
  BY <1>2, ApplicationKeeps DEF Attempts
<1> QED
  BY <1>1, <1>2, ClientKeeps
  DEF HTTPNext, Mount, CloseClient, StartServer, Drain, StopServer, StopNext, ServeEnds,
      StopTimesOut, StopReturns, ServerStep, httpVars

\* A message for an agent runs more than once only when its sender was left without an
\* answer, or its result has no JSON.
THEOREM RepeatedOnlyIfUnanswered == HTTPSpec => []AnsweredRunsOnce
<1>1. HTTPInv => AnsweredRunsOnce
  BY DEF HTTPInv, HTTPTypes, AnsweredRunsOnce, Heard, OneRun
<1> QED
  BY HTTPInvInit, HTTPInvStep, <1>1, PTL DEF HTTPSpec
-----------------------------------------------------------------------------
(***************************************************************************)
(* The types of the two, which for HTTP are more than types: a call makes  *)
(* no more attempts than it may, and its handler runs once for each at     *)
(* most.  The second is a count: no more runs than requests that were      *)
(* begun, and none was begun for an attempt that is still to come.         *)
(***************************************************************************)

Begun(c) == {n \in Attempts : request[c][n] \notin {"none", "sent"}}

Counts(c) ==
  /\ attempt[c] <= LastAttempt
  /\ phase[c] = "waiting" => attempt[c] < LastAttempt
  /\ \A n \in Attempts : n > attempt[c] \/ phase[c] = "idle" => request[c][n] = "none"
  /\ runs[c] <= Cardinality(Begun(c))

PoolTypes ==
  /\ httpx \in BOOLEAN /\ pools \in Nat /\ pool \in {0, pools} /\ holds \in [Calls -> 0 .. pools]
  /\ serve = "done" => exiting # "no"

HTTPTypesInv == HTTPTypes /\ PoolTypes /\ \A c \in Calls : Counts(c)

\* What a step does not touch of a call is counted as before.
LEMMA SameCounts ==
  ASSUME NEW c \in Calls, Counts(c), httpx' = httpx, phase'[c] = phase[c],
         attempt'[c] = attempt[c], request'[c] = request[c], runs'[c] = runs[c]
  PROVE  Counts(c)'
<1>1. Begun(c)' = Begun(c)
  BY DEF Begun
<1> QED BY <1>1 DEF Counts, LastAttempt

LEMMA AttemptsAreNumbers ==
  /\ Attempts \in SUBSET Nat /\ 0 \in Attempts /\ IsFiniteSet(Attempts)
  /\ LastAttempt \in Nat /\ LastAttempt <= MaxRetries /\ MaxRetries \in Nat
<1>1. MaxRetries \in Nat
  BY HTTPConstantsOK DEF HTTPConstantsOK
<1>2. IsFiniteSet(0 .. MaxRetries)
  BY <1>1, FS_Interval
<1> QED BY <1>1, <1>2 DEF Attempts, LastAttempt

LEMMA BegunIsCounted ==
  ASSUME HTTPTypes, NEW c \in Calls
  PROVE  IsFiniteSet(Begun(c)) /\ Cardinality(Begun(c)) \in Nat
<1>1. IsFiniteSet(Begun(c))
  BY AttemptsAreNumbers, FS_Subset DEF Begun
<1> QED BY <1>1, FS_CardinalityType

LEMMA HTTPTypesInit == HTTPInit => HTTPTypesInv
<1> SUFFICES ASSUME HTTPInit PROVE HTTPTypesInv
  OBVIOUS
<1>1. HTTPTypes /\ PoolTypes
  BY DEF HTTPInit, HTTPTypes, PoolTypes, Attempts
<1>2. ASSUME NEW c \in Calls PROVE Counts(c)
  <2>1. /\ attempt[c] = 0 /\ phase[c] = "idle" /\ runs[c] = 0
        /\ \A n \in Attempts : request[c][n] = "none"
    BY DEF HTTPInit, Attempts
  <2>2. Cardinality(Begun(c)) \in Nat
    BY <1>1, BegunIsCounted
  <2> QED BY <2>1, <2>2, AttemptsAreNumbers DEF Counts
<1> QED BY <1>1, <1>2 DEF HTTPTypesInv

\* The steps of send(): an attempt more is made only where one is left.
LEMMA SendCounts ==
  ASSUME HTTPTypesInv, NEW c \in Calls, Send(c) \/ ClientNext(c)
  PROVE  HTTPTypesInv'
<1>1. /\ path' = path /\ httpx' = httpx /\ runs' = runs /\ serve' = serve /\ exiting' = exiting
      /\ \A d \in Calls \ {c} : /\ phase'[d] = phase[d] /\ attempt'[d] = attempt[d]
                               /\ request'[d] = request[d] /\ runs'[d] = runs[d]
  BY DEF Send, ClientNext, Answer, NoAnswer, Retry, Fails, fixed, pastVars, serverVars,
         HTTPTypesInv, HTTPTypes
<1>2. /\ Counts(c) /\ attempt[c] \in Nat /\ runs[c] \in Nat
      /\ request[c] \in [Attempts -> {"none", "sent", "running", "200", "404", "500"}]
  BY DEF HTTPTypesInv, HTTPTypes
<1>3. PoolTypes'
  <2>1. CASE Send(c)
    <3>1. /\ pools' \in Nat /\ pool' \in {0, pools'} /\ 0 .. pools \subseteq 0 .. pools'
          /\ pool' \in 0 .. pools'
      BY <2>1 DEF Send, GetClient, HTTPTypesInv, PoolTypes
    <3>2. holds' \in [Calls -> 0 .. pools']
      BY <2>1, <3>1 DEF Send, HTTPTypesInv, PoolTypes
    <3> QED BY <1>1, <3>1, <3>2 DEF HTTPTypesInv, PoolTypes
  <2>2. CASE ClientNext(c)
    <3>1. UNCHANGED <<pool, pools, holds>>
      BY <2>2 DEF ClientNext, Answer, NoAnswer, Retry
    <3> QED BY <1>1, <3>1 DEF HTTPTypesInv, PoolTypes
  <2> QED BY <2>1, <2>2
<1>4. ASSUME HTTPTypes', Counts(c)' PROVE HTTPTypesInv'
  <2>1. ASSUME NEW d \in Calls \ {c} PROVE Counts(d)'
    BY <1>1, SameCounts DEF HTTPTypesInv
  <2> QED BY <1>3, <1>4, <2>1 DEF HTTPTypesInv
<1>5. CASE Send(c)
  <2>1. HTTPTypes'
    BY <1>5, AttemptsAreNumbers DEF Send, HTTPTypesInv, HTTPTypes, fixed, pastVars
  <2>2. /\ phase[c] = "idle" /\ phase'[c] = "posting" /\ attempt'[c] = attempt[c]
        /\ request'[c] = [request[c] EXCEPT ![0] = "sent"]
    BY <1>5 DEF Send, HTTPTypesInv, HTTPTypes
  <2>3. \A n \in Attempts : request'[c][n] = IF n = 0 THEN "sent" ELSE request[c][n]
    BY <1>2, <2>2, AttemptsAreNumbers
  <2>4. Begun(c)' = Begun(c)
    <3>1. \A n \in Attempts : request[c][n] = "none"
      BY <1>2, <2>2 DEF Counts
    <3> QED BY <2>3, <3>1 DEF Begun
  <2>5. ASSUME NEW n \in Attempts, n > attempt[c] PROVE request'[c][n] = "none"
    <3>1. n # 0
      BY <1>2, <2>5, AttemptsAreNumbers
    <3>2. request[c][n] = "none"
      BY <1>2, <2>5 DEF Counts
    <3> QED BY <2>3, <3>1, <3>2
  <2>6. Counts(c)'
    BY <1>1, <1>2, <2>2, <2>4, <2>5 DEF Counts, LastAttempt
  <2> QED BY <1>4, <2>1, <2>6
<1>6. CASE Answer(c) \/ NoAnswer(c)
  <2>1. /\ request' = request /\ attempt' = attempt /\ phase[c] = "posting"
        /\ phase' = [phase EXCEPT ![c] = "answered"] \/ Fails(c, TRUE) \/ Fails(c, FALSE)
    BY <1>6 DEF Answer, NoAnswer, Fails
  <2>2. HTTPTypes'
    BY <1>1, <2>1 DEF Fails, HTTPTypesInv, HTTPTypes
  <2>3. /\ phase'[c] # "idle"
        /\ phase'[c] = "waiting" => attempt[c] < LastAttempt
    BY <2>1 DEF Fails, HTTPTypesInv, HTTPTypes
  <2>4. Begun(c)' = Begun(c)
    BY <2>1 DEF Begun
  <2>5. Counts(c)'
    BY <1>1, <1>2, <2>1, <2>3, <2>4 DEF Counts, LastAttempt
  <2> QED BY <1>4, <2>2, <2>5
<1>7. CASE Retry(c)
  <2> DEFINE a == attempt[c] + 1
  <2>1. /\ a \in Nat /\ a <= LastAttempt /\ a \in Attempts /\ a > attempt[c]
        /\ request[c][a] = "none" /\ attempt'[c] = a /\ phase'[c] \in {"posting", "raised"}
    <3>1. attempt[c] < LastAttempt /\ attempt[c] \in Nat
      BY <1>2, <1>7 DEF Retry, Counts
    <3>2. a \in Nat /\ a <= LastAttempt /\ a \in Attempts /\ a > attempt[c]
      BY <3>1, AttemptsAreNumbers DEF Attempts
    <3>3. request[c][a] = "none"
      BY <1>2, <3>2 DEF Counts
    <3> QED BY <1>7, <3>2, <3>3 DEF Retry, HTTPTypesInv, HTTPTypes
  <2> HIDE DEF a
  <2>2. HTTPTypes'
    <3>1. request' \in [Calls -> [Attempts -> {"none", "sent", "running", "200", "404", "500"}]]
      <4> DEFINE row == [request[c] EXCEPT ![a] = "sent"]
      <4>1. row \in [Attempts -> {"none", "sent", "running", "200", "404", "500"}]
        BY <1>2
      <4>2. request' = request \/ request' = [request EXCEPT ![c] = row]
        BY <1>7 DEF Retry, a
      <4> HIDE DEF row
      <4> QED BY <4>1, <4>2 DEF HTTPTypesInv, HTTPTypes
    <3>2. attempt' \in [Calls -> Nat]
      BY <1>7, <2>1 DEF Retry, HTTPTypesInv, HTTPTypes, a
    <3> QED BY <1>1, <1>7, <3>1, <3>2 DEF Retry, HTTPTypesInv, HTTPTypes
  <2>3. \/ request' = request
        \/ request'[c] = [request[c] EXCEPT ![a] = "sent"]
    BY <1>7 DEF Retry, HTTPTypesInv, HTTPTypes, a
  <2>4. \A n \in Attempts : /\ n # a => request'[c][n] = request[c][n]
                           /\ request'[c][a] \in {"none", "sent"}
    BY <1>2, <2>1, <2>3
  <2>5. Begun(c)' = Begun(c)
    BY <2>1, <2>4 DEF Begun
  <2>6. ASSUME NEW n \in Attempts, n > a PROVE request'[c][n] = "none"
    <3>1. n # a /\ n > attempt[c]
      BY <1>2, <2>1, <2>6, AttemptsAreNumbers
    <3> QED BY <1>2, <2>4, <3>1 DEF Counts
  <2>7. Counts(c)'
    BY <1>1, <1>2, <2>1, <2>5, <2>6 DEF Counts, LastAttempt
  <2> QED BY <1>4, <2>2, <2>7
<1> QED BY <1>5, <1>6, <1>7 DEF ClientNext

\* The steps of the application: a request is begun once.
LEMMA ApplicationCounts ==
  ASSUME HTTPTypesInv, NEW c \in Calls, NEW n \in Attempts, Receive(c, n) \/ Finish(c, n)
  PROVE  HTTPTypesInv'
<1>1. /\ path' = path /\ httpx' = httpx /\ phase' = phase /\ attempt' = attempt
      /\ UNCHANGED <<holds, pool, pools, serve, exiting>>
      /\ \A d \in Calls \ {c} : request'[d] = request[d] /\ runs'[d] = runs[d]
  BY DEF Receive, Finish, Give, fixed, callVars, serverVars, HTTPTypesInv, HTTPTypes
<1>2. /\ Counts(c) /\ attempt[c] \in Nat /\ runs[c] \in Nat
      /\ request[c] \in [Attempts -> {"none", "sent", "running", "200", "404", "500"}]
  BY DEF HTTPTypesInv, HTTPTypes
<1>3. PICK status \in {"running", "200", "404", "500"} : Give(c, n, status)
  BY DEF Receive, Finish, Statuses
<1>4. /\ request' \in [Calls -> [Attempts -> {"none", "sent", "running", "200", "404", "500"}]]
      /\ request'[c][n] = status /\ \A m \in Attempts \ {n} : request'[c][m] = request[c][m]
  BY <1>3 DEF Give, HTTPTypesInv, HTTPTypes
<1>5. /\ runs' = runs \/ runs' = [runs EXCEPT ![c] = @ + 1]
      /\ request[c][n] = "sent" \/ (request[c][n] = "running" /\ runs' = runs)
  BY DEF Receive, Finish
<1>6. runs' \in [Calls -> Nat] /\ runs'[c] \in {runs[c], runs[c] + 1}
  <2>1. runs[c] + 1 \in Nat
    BY <1>2
  <2> QED BY <1>5, <2>1 DEF HTTPTypesInv, HTTPTypes
<1>7. HTTPTypes' /\ PoolTypes'
  BY <1>1, <1>4, <1>6 DEF HTTPTypesInv, HTTPTypes, PoolTypes
<1>8. Begun(c)' = Begun(c) \cup {n}
  BY <1>4 DEF Begun
<1>9. runs'[c] <= Cardinality(Begun(c)')
  <2>1. IsFiniteSet(Begun(c)) /\ Cardinality(Begun(c)) \in Nat /\ runs[c] <= Cardinality(Begun(c))
    BY <1>2, BegunIsCounted DEF HTTPTypesInv, Counts
  <2>2. CASE request[c][n] = "sent"
    <3>1. n \notin Begun(c)
      BY <2>2 DEF Begun
    <3>2. Cardinality(Begun(c) \cup {n}) = Cardinality(Begun(c)) + 1
      BY <2>1, <3>1, FS_AddElement
    <3> QED BY <1>2, <1>6, <1>8, <2>1, <3>2
  <2>3. CASE request[c][n] = "running" /\ runs' = runs
    <3>1. Begun(c) \cup {n} = Begun(c)
      BY <2>3 DEF Begun
    <3> QED BY <1>8, <2>1, <2>3, <3>1
  <2> QED BY <1>5, <2>2, <2>3
<1>10. Counts(c)'
  <2>1. ASSUME NEW m \in Attempts, m > attempt[c] \/ phase[c] = "idle" PROVE request'[c][m] = "none"
    <3>1. request[c][m] = "none"
      BY <1>2, <2>1 DEF Counts
    <3>2. m # n
      BY <1>5, <3>1
    <3> QED BY <1>4, <3>1, <3>2
  <2> QED BY <1>1, <1>2, <1>9, <2>1 DEF Counts, LastAttempt
<1>11. ASSUME NEW d \in Calls \ {c} PROVE Counts(d)'
  BY <1>1, SameCounts DEF HTTPTypesInv
<1> QED BY <1>7, <1>10, <1>11 DEF HTTPTypesInv

LEMMA HTTPTypesStep == HTTPTypesInv /\ [HTTPNext]_httpVars => HTTPTypesInv'
<1> SUFFICES ASSUME HTTPTypesInv, [HTTPNext]_httpVars PROVE HTTPTypesInv'
  OBVIOUS
<1>1. ASSUME UNCHANGED <<fixed, callVars, request, pastVars>>, PoolTypes' PROVE HTTPTypesInv'
  <2>1. HTTPTypes'
    BY <1>1 DEF HTTPTypesInv, HTTPTypes, fixed, callVars, pastVars
  <2>2. ASSUME NEW c \in Calls PROVE Counts(c)'
    BY <1>1, SameCounts DEF HTTPTypesInv, fixed, callVars, pastVars
  <2> QED BY <1>1, <2>1, <2>2 DEF HTTPTypesInv
<1>2. ASSUME NEW c \in Calls, NEW n \in 0 .. MaxRetries, Receive(c, n) \/ Finish(c, n)
      PROVE  HTTPTypesInv'
  BY <1>2, ApplicationCounts DEF Attempts
<1>3. CASE CloseClient \/ UNCHANGED httpVars \/ \E what \in {"handler", "route", "dashboard"} : Mount(what)
  <2>1. PoolTypes'
    BY <1>3 DEF CloseClient, Mount, httpVars, fixed, callVars, serverVars, HTTPTypesInv, PoolTypes
  <2> QED BY <1>1, <1>3, <2>1 DEF CloseClient, Mount, httpVars
<1>4. CASE StartServer \/ Drain \/ StopServer \/ StopNext
  <2>1. /\ UNCHANGED <<fixed, callVars, request, pastVars, pool, pools>>
        /\ exiting' = exiting \/ exiting' # "no"
        /\ serve' = serve \/ serve' = "serving" \/ (serve' = "done" /\ exiting' = exiting /\ exiting # "no")
    BY <1>4 DEF StartServer, Drain, StopServer, StopNext, ServeEnds, StopTimesOut, StopReturns, ServerStep
  <2>2. PoolTypes'
    BY <2>1 DEF HTTPTypesInv, PoolTypes, fixed, callVars
  <2> QED BY <1>1, <2>1, <2>2
<1> QED
  BY <1>2, <1>3, <1>4, SendCounts DEF HTTPNext

LEMMA HTTPTypesAre == HTTPTypesInv => HTTPTypeOK
<1> SUFFICES ASSUME HTTPTypesInv PROVE HTTPTypeOK
  OBVIOUS
<1>1. ASSUME NEW c \in Calls PROVE attempt[c] <= LastAttempt /\ runs[c] <= attempt[c] + 1
  <2>1. Counts(c) /\ attempt[c] \in Nat /\ runs[c] \in Nat
    BY DEF HTTPTypesInv, HTTPTypes
  <2>2. Begun(c) \in SUBSET (0 .. attempt[c])
    <3>1. ASSUME NEW n \in Begun(c) PROVE n \in Nat /\ ~ (n > attempt[c])
      BY <2>1, AttemptsAreNumbers DEF Begun, Counts
    <3>2. ASSUME NEW n \in Begun(c) PROVE n \in 0 .. attempt[c]
      BY <2>1, <3>1
    <3> QED BY <3>2
  <2>3. IsFiniteSet(0 .. attempt[c]) /\ Cardinality(0 .. attempt[c]) = attempt[c] + 1
    <3> DEFINE last == attempt[c]
    <3>1. last \in Int /\ last >= 0 /\ 0 \in Int
      BY <2>1
    <3> HIDE DEF last
    <3>2. /\ IsFiniteSet(0 .. last)
          /\ Cardinality(0 .. last) = IF 0 > last THEN 0 ELSE last - 0 + 1
      BY ONLY <3>1, FS_Interval
    <3>3. Cardinality(0 .. last) = last + 1
      BY <3>1, <3>2
    <3> QED BY <3>2, <3>3 DEF last
  <2>4. Cardinality(Begun(c)) <= attempt[c] + 1 /\ Cardinality(Begun(c)) \in Nat
    BY <2>2, <2>3, FS_Subset, BegunIsCounted DEF HTTPTypesInv
  <2> QED BY <2>1, <2>4 DEF Counts
<1> QED BY <1>1 DEF HTTPTypesInv, PoolTypes, HTTPTypeOK

\* No call makes more attempts than max_retries allows, and the server runs its handler
\* once for each at most; what a send holds was made before, and the server is over only
\* when it was told to leave.
THEOREM HTTPTypeCorrect == HTTPSpec => []HTTPTypeOK
BY HTTPTypesInit, HTTPTypesStep, HTTPTypesAre, PTL DEF HTTPSpec
-----------------------------------------------------------------------------
(***************************************************************************)
(* The three of them.  A step of one leaves the others as they are, so     *)
(* that each keeps its own invariant.                                      *)
(***************************************************************************)

ServerTypesInv == ServerInv /\ messages \in Nat /\ WSServerTypeOK

LEMMA ServerTypesInit == WSServerInit => ServerTypesInv
<1> SUFFICES ASSUME WSServerInit PROVE ServerTypesInv
  OBVIOUS
<1>1. ServerInv
  BY ServerInvInit
<1> QED BY <1>1, WSServerConstantsOK
        DEF WSServerInit, ServerTypesInv, WSServerTypeOK, Alive, WSServerConstantsOK

LEMMA ServerTypesStep == ServerTypesInv /\ [WSServerNext]_wsServerVars => ServerTypesInv'
<1> SUFFICES ASSUME ServerTypesInv, [WSServerNext]_wsServerVars PROVE ServerTypesInv'
  OBVIOUS
<1>1. ServerInv'
  BY ServerInvStep DEF ServerTypesInv
<1>2. messages' \in Nat /\ messages' <= MaxMessages
  <2>1. messages' = messages \/ (messages < MaxMessages /\ messages' = messages + 1)
    BY DEF WSServerNext, wsServerVars, Accept, Drop, Take, Handled, Reply, Leave, SafeSend, CloseOne,
           Broadcast, CastEnds, CastOver, StartBinding, Bound, StopBegins, CloseServer, StopEnds
  <2>2. messages \in Nat /\ messages <= MaxMessages /\ MaxMessages \in Nat
    BY WSServerConstantsOK DEF ServerTypesInv, WSServerTypeOK, WSServerConstantsOK
  <2> QED BY <2>1, <2>2
<1>3. leaving' \subseteq Sockets
  <2>1. leaving' \subseteq leaving \/ leaving' = clients
    BY DEF WSServerNext, wsServerVars, stopVars, Accept, Drop, Take, Handled, Reply, Leave, SafeSend,
           CloseOne, Broadcast, CastEnds, CastOver, StartBinding, Bound, StopBegins, CloseServer, StopEnds
  <2> QED BY <2>1 DEF ServerTypesInv, WSServerTypeOK, Alive
<1>4. running' => binding' \in {"binding", "serving", "done"}
  <2>1. running => binding \in {"binding", "serving", "done"}
    BY DEF ServerTypesInv, WSServerTypeOK
  <2>2. \/ running' = running /\ binding' = binding
        \/ running' = TRUE /\ binding' = "binding"
        \/ running' = running /\ binding' \in {"serving", "done"}
        \/ running' = FALSE
    BY DEF WSServerNext, wsServerVars, Accept, Drop, Take, Handled, Reply, Leave, SafeSend, CloseOne,
           Broadcast, CastEnds, CastOver, StartBinding, Bound, StopBegins, CloseServer, StopEnds
  <2> QED BY <2>1, <2>2
<1>5. clients' \subseteq Alive'
  BY <1>1 DEF ServerInv, ServerTypes
<1> QED BY <1>1, <1>2, <1>3, <1>4, <1>5 DEF ServerTypesInv, WSServerTypeOK

TransportsInv == Inv /\ ServerTypesInv /\ HTTPTypesInv

LEMMA TransportsStep == TransportsInv /\ [TransportsNext]_transportVars => TransportsInv'
<1>1. \/ ~ [TransportsNext]_transportVars
      \/ [Next]_vars /\ [WSServerNext]_wsServerVars /\ [HTTPNext]_httpVars
  BY DEF TransportsNext, OnlyClient, OnlyServer, OnlyHTTP, transportVars
<1> QED BY <1>1, NextInv, ServerTypesStep, HTTPTypesStep DEF TransportsInv

\* Whichever transport is looked at, it keeps its types and its bounds.
THEOREM TransportsTypeCorrect == FairTransports => []TransportsTypeOK
<1>1. TransportsInit => TransportsInv
  BY InitInv, ServerTypesInit, HTTPTypesInit DEF TransportsInit, TransportsInv
<1>2. HTTPTypesInv => HTTPTypeOK
  BY HTTPTypesAre
<1>3. TransportsInv => TransportsTypeOK
  BY <1>2 DEF TransportsInv, Inv, ServerTypesInv, TransportsTypeOK
<1> QED
  BY <1>1, <1>3, TransportsStep, PTL DEF FairTransports
=============================================================================
