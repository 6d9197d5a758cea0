---------------------------- MODULE HTTPTransport ----------------------------
(***************************************************************************)
(* The HTTP transport (transport/http.py): a client that repeats its POST  *)
(* over a network that loses requests and answers, the ASGI application    *)
(* behind uvicorn, and the start and stop of that server.  What answers    *)
(* POST /aurc is http_handler() of the AURC server (server.py).            *)
(*                                                                         *)
(* Every attempt of a send is a request of its own; the server may run it  *)
(* long after the client gave it up.  httpx and uvicorn are external.      *)
(***************************************************************************)
EXTENDS Naturals, FiniteSets

CONSTANTS
  Calls,       \* calls of send()
  Paths,       \* what they post to: "aurc", "route", "dashboard", "other"
  MaxRetries,  \* max_retries
  MaxPools     \* bound: the httpx clients ever made

ASSUME HTTPConstantsOK == MaxRetries \in Nat /\ MaxPools \in Nat

VARIABLES
  httpx,     \* the client library is installed
  path,      \* the path of each send()
  phase,     \* each send(): "idle", "posting", "waiting", "answered", "raised"
  attempt,   \* the attempt it is at
  holds,     \* the httpx client it took
  pool,      \* _client, 0 for None; every client made before it is closed
  pools,     \* the clients that were made
  request,   \* every attempt: "none", "sent", "running" or the status it was given
  runs,      \* history: how often the handler ran for a call
  silent,    \* history: calls with an attempt that had no answer
  mute,      \* history: calls with a result that JSON does not express
  mounted,   \* what set_handler(), set_route(), set_dashboard_api() put in place
  captured,  \* _create_app() found a handler
  serve,     \* the serve task: "none", "serving", "done"
  exiting,   \* uvicorn: "no", should_exit is "soon", force_exit is "now"
  stopping   \* stop(): "no", "waiting", "forced", "returned"

fixed == <<httpx, path>>
callVars == <<phase, attempt, holds>>
pastVars == <<runs, silent, mute>>
serverVars == <<mounted, captured, serve, exiting, stopping>>
httpVars == <<fixed, callVars, pool, pools, request, pastVars, serverVars>>

-----------------------------------------------------------------------------
(* The client.                                                             *)

\* The fallback to urllib makes one attempt.
LastAttempt == IF httpx THEN MaxRetries ELSE 0

\* _is_retryable() of an answer (5xx and 429); for errors without one see NoAnswer.
Retryable(status) == status = "500"

\* _get_client()
GetClient ==
  IF httpx /\ pool = 0 THEN pools < MaxPools /\ pool' = pools + 1 /\ pools' = pools + 1
  ELSE UNCHANGED <<pool, pools>>

Send(c) ==
  /\ phase[c] = "idle" /\ GetClient
  /\ phase' = [phase EXCEPT ![c] = "posting"]
  /\ holds' = [holds EXCEPT ![c] = pool']
  /\ request' = [request EXCEPT ![c][0] = "sent"]
  /\ UNCHANGED <<fixed, attempt, pastVars, serverVars>>

\* An attempt has failed: another one after the backoff, or the end.
Fails(c, again) ==
  phase' = [phase EXCEPT ![c] =
              IF again /\ attempt[c] < LastAttempt THEN "waiting" ELSE "raised"]

\* The answer arrives; a body that is not JSON raises ("raised", not retryable).
Answer(c) ==
  LET status == request[c][attempt[c]]
  IN  /\ phase[c] = "posting" /\ status \notin {"sent", "running"}
      /\ IF status = "200" THEN phase' = [phase EXCEPT ![c] = "answered"]
         ELSE Fails(c, Retryable(status))
      /\ UNCHANGED <<fixed, attempt, holds, pool, pools, request, pastVars, serverVars>>

\* Refused, lost, late or cut off: most of the errors of httpx are repeated.
NoAnswer(c) ==
  /\ phase[c] = "posting"
  /\ Fails(c, TRUE) \/ Fails(c, FALSE)
  /\ silent' = silent \cup {c}
  /\ UNCHANGED <<fixed, attempt, holds, pool, pools, request, runs, mute, serverVars>>

\* After the backoff; a client that was closed meanwhile refuses to post.
Retry(c) ==
  /\ phase[c] = "waiting"
  /\ attempt' = [attempt EXCEPT ![c] = @ + 1]
  /\ IF holds[c] = pool
     THEN /\ phase' = [phase EXCEPT ![c] = "posting"]
          /\ request' = [request EXCEPT ![c][attempt[c] + 1] = "sent"]
     ELSE phase' = [phase EXCEPT ![c] = "raised"] /\ UNCHANGED request
  /\ UNCHANGED <<fixed, holds, pool, pools, pastVars, serverVars>>

CloseClient ==
  /\ pool # 0 /\ pool' = 0
  /\ UNCHANGED <<fixed, callVars, pools, request, pastVars, serverVars>>

-----------------------------------------------------------------------------
(* The application.  Only the handler of /aurc is fixed when it is made.   *)

Runs(c) == \/ path[c] = "aurc" /\ captured
           \/ path[c] = "route" /\ "route" \in mounted

\* A fault: a refusal and an error of the router are raised to the transport.
StatusesOfRaising(c) ==
  IF Runs(c) THEN {"200", "500"}
  ELSE IF path[c] = "aurc" THEN {"200"}
  ELSE IF path[c] = "dashboard" /\ "dashboard" \in mounted THEN {"200", "404"}
  ELSE {"404"}

\* http_handler() turns every failure into a body, a route may raise.
Statuses(c) ==
  IF path[c] = "aurc" THEN {"200"}
  ELSE IF Runs(c) THEN {"200", "500"}
  ELSE IF path[c] = "dashboard" /\ "dashboard" \in mounted THEN {"200", "404"}
  ELSE {"404"}

Give(c, n, status) == request' = [request EXCEPT ![c][n] = status]

\* A request whose sender hung up before the body was read runs nothing.
Receive(c, n) ==
  /\ request[c][n] = "sent" /\ serve = "serving" /\ exiting = "no"
  /\ IF Runs(c)
     THEN \/ Give(c, n, "running") /\ runs' = [runs EXCEPT ![c] = @ + 1]
          \/ (n < attempt[c] \/ phase[c] # "posting") /\ Give(c, n, "500") /\ UNCHANGED runs
     ELSE (\E status \in Statuses(c) : Give(c, n, status)) /\ UNCHANGED runs
  /\ UNCHANGED <<fixed, callVars, pool, pools, silent, mute, serverVars>>

\* What json.dumps() cannot encode is a 500 after the handler has run.
Finish(c, n) ==
  /\ request[c][n] = "running"
  /\ \/ (\E status \in Statuses(c) : Give(c, n, status)) /\ UNCHANGED mute
     \/ Give(c, n, "500") /\ mute' = mute \cup {c}
  /\ UNCHANGED <<fixed, callVars, pool, pools, runs, silent, serverVars>>

Mount(what) ==
  /\ mounted' = mounted \cup {what}
  /\ UNCHANGED <<fixed, callVars, pool, pools, request, pastVars, captured, serve, exiting, stopping>>

-----------------------------------------------------------------------------
(* start(), the signal handlers and stop().                                *)

StartServer ==
  /\ serve = "none"
  /\ serve' = "serving" /\ captured' = ("handler" \in mounted)
  /\ UNCHANGED <<fixed, callVars, pool, pools, request, pastVars, mounted, exiting, stopping>>

ServerStep == UNCHANGED <<fixed, callVars, pool, pools, request, pastVars, mounted, captured>>

Drain == serve = "serving" /\ exiting = "no" /\ exiting' = "soon"
         /\ UNCHANGED <<serve, stopping>> /\ ServerStep

\* uvicorn leaves when nothing runs any more, or at once.
ServeEnds ==
  /\ serve = "serving"
  /\ \/ exiting = "soon" /\ \A c \in Calls : \A n \in DOMAIN request[c] : request[c][n] # "running"
     \/ exiting = "now"
  /\ serve' = "done" /\ UNCHANGED <<exiting, stopping>> /\ ServerStep

StopServer ==
  /\ stopping = "no" /\ serve # "none"
  /\ exiting' = IF exiting = "no" THEN "soon" ELSE exiting
  /\ stopping' = IF serve = "done" THEN "returned" ELSE "waiting"
  /\ UNCHANGED serve /\ ServerStep

\* A fault: the time runs out and stop() waits on.
StopTimesOutOnly ==
  /\ stopping = "waiting" /\ serve # "done"
  /\ stopping' = "forced" /\ UNCHANGED <<serve, exiting>> /\ ServerStep

StopTimesOut ==
  /\ stopping = "waiting" /\ serve # "done"
  /\ stopping' = "forced" /\ exiting' = "now" /\ UNCHANGED serve /\ ServerStep

StopReturns ==
  /\ stopping \in {"waiting", "forced"} /\ serve = "done"
  /\ stopping' = "returned" /\ UNCHANGED <<serve, exiting>> /\ ServerStep

-----------------------------------------------------------------------------

HTTPInit ==
  /\ httpx \in BOOLEAN /\ path \in [Calls -> Paths] /\ pool = 0 /\ pools = 0
  /\ phase = [c \in Calls |-> "idle"] /\ attempt = [c \in Calls |-> 0]
  /\ holds = [c \in Calls |-> 0]
  /\ request = [c \in Calls |-> [n \in 0 .. MaxRetries |-> "none"]]
  /\ runs = [c \in Calls |-> 0] /\ silent = {} /\ mute = {}
  /\ mounted = {} /\ captured = FALSE
  /\ serve = "none" /\ exiting = "no" /\ stopping = "no"

ClientNext(c) == Answer(c) \/ NoAnswer(c) \/ Retry(c)
StopNext == ServeEnds \/ StopTimesOut \/ StopReturns

HTTPNext ==
  \/ \E c \in Calls : Send(c) \/ ClientNext(c)
  \/ \E c \in Calls, n \in 0 .. MaxRetries : Receive(c, n) \/ Finish(c, n)
  \/ \E what \in {"handler", "route", "dashboard"} : Mount(what)
  \/ CloseClient \/ StartServer \/ Drain \/ StopServer \/ StopNext

HTTPSpec == HTTPInit /\ [][HTTPNext]_httpVars

\* The steps of send() go on: httpx ends every attempt, at the latest by its read
\* timeout.  So do those of uvicorn and of stop(); a handler may hang.
HTTPFairness ==
  /\ \A c \in Calls : WF_httpVars(ClientNext(c))
  /\ WF_httpVars(ServeEnds) /\ WF_httpVars(StopTimesOut \/ StopReturns)

-----------------------------------------------------------------------------

HTTPTypeOK ==
  /\ \A c \in Calls : attempt[c] <= LastAttempt /\ runs[c] <= attempt[c] + 1
  /\ holds \in [Calls -> 0 .. pools] /\ pool \in {0, pools}
  /\ serve = "done" => exiting # "no"

\* A message for an agent runs again only when the client was left without an answer
\* or the result has no JSON: whatever fails at the server comes back as a body with
\* status 200 ("on any failure returns an error envelope so the HTTP layer always
\* produces a 200", server.py:129), and that is not repeated.
AnsweredRunsOnce ==
  \A c \in Calls : path[c] = "aurc" /\ runs[c] > 1 => c \in silent \cup mute

\* Every send() ends, and stop() returns although a handler may never come back
\* ("callers are never blocked indefinitely", http.py:102).
HTTPEnds ==
  /\ \A c \in Calls : phase[c] # "idle" ~> phase[c] \in {"answered", "raised"}
  /\ stopping # "no" ~> stopping = "returned"
=============================================================================
