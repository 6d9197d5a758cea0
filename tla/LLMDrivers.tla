----------------------------- MODULE LLMDrivers -----------------------------
(***************************************************************************)
(* The loops that drive a language model (integrations/claude.py,          *)
(* claude_cli.py, codex_cli.py): agentic_loop() hands a prompt to the CLI  *)
(* of a vendor, a subprocess whose stream of events becomes one response,  *)
(* or runs the built-in loop of API calls and tools; converse() keeps a    *)
(* history of its own over several calls.                                  *)
(*                                                                         *)
(* The process, the API and the tools are external.  Text, usage and the   *)
(* arguments of the command line are left out.                             *)
(***************************************************************************)
EXTENDS Naturals, Sequences, FiniteSets

CONSTANTS
  Loops,       \* calls of agentic_loop()
  Talks,       \* calls of converse()
  MaxTurns,    \* max_turns of the built-in loop
  MaxPrinted   \* bound: the lines a process prints

ASSUME LLMConstantsOK == MaxTurns \in Nat /\ MaxPrinted \in Nat /\ IsFiniteSet(Talks)

VARIABLES
  config,   \* what agentic_loop() looks at: backend, the CLIs on PATH, tools, prompt
  loop,     \* each loop: "idle", "claude", "codex", "builtin", "tools", "done"
  turn,     \* turns of the built-in loop
  process,  \* the process of each loop: "none", "running", "ended", "failed", "killed",
            \* or "stray": it runs on since it could not be killed
  printed,  \* the lines it printed
  result,   \* the stop_reason of the response, "raised", or "none"
  talk,     \* each converse(): "idle", "asking", "done"
  history   \* _conversation_history: the roles

cliVars == <<process, printed>>
talkVars == <<talk, history>>
llmVars == <<config, loop, turn, cliVars, result, talkVars>>

\* A line of a stream: "noise" is not JSON, "bare" is JSON without content (system,
\* thread.started, a number).  The stop_reason of an assistant's line is often none;
\* "tool_use" stands for all but end_turn.
Results == {"clean", "wrong", "turns"}
Events ==
  [kind : Results \cup {"text", "tool", "bare", "noise"}, reason : {"none"}]
  \cup [kind : {"text", "tool", "bare"}, reason : {"end_turn", "tool_use"}]

Said(r, kind) == \E i \in DOMAIN printed[r] : printed[r][i].kind = kind

\* No line is an event.
Silent(r) == \A i \in DOMAIN printed[r] : printed[r][i].kind = "noise"

-----------------------------------------------------------------------------
(* The choice of the backend.                                              *)

OnPath(cli) == cli \in config.path

Backend ==
  IF config.handlers \/ config.long THEN "builtin"
  ELSE IF config.backend = "auto"
       THEN IF OnPath("codex") THEN "codex" ELSE IF OnPath("claude") THEN "claude" ELSE "builtin"
  ELSE IF OnPath(config.backend) THEN config.backend ELSE "builtin"

\* The CLI is started by the same step; spawning may fail and raises.
StartLoop(r) ==
  /\ loop[r] = "idle"
  /\ \/ /\ loop' = [loop EXCEPT ![r] = Backend]
        /\ process' = [process EXCEPT ![r] = IF Backend = "builtin" THEN "none" ELSE "running"]
        /\ UNCHANGED result
     \/ /\ Backend # "builtin"
        /\ loop' = [loop EXCEPT ![r] = "done"] /\ result' = [result EXCEPT ![r] = "raised"]
        /\ UNCHANGED process
  /\ UNCHANGED <<config, turn, printed, talkVars>>

Returns(r, reason) ==
  /\ loop' = [loop EXCEPT ![r] = "done"]
  /\ result' = [result EXCEPT ![r] = reason]
  /\ UNCHANGED <<config, talkVars>>

-----------------------------------------------------------------------------
(* The CLI loops.                                                          *)

\* claude prints one result event at most; codex says nothing of turns.
PrintLine(r, event) ==
  /\ process[r] = "running" /\ Len(printed[r]) < MaxPrinted
  /\ IF loop[r] = "codex" THEN event.kind # "turns" /\ event.reason = "none"
     ELSE event.kind \in Results => \A said \in Results : ~ Said(r, said)
  /\ printed' = [printed EXCEPT ![r] = Append(@, event)]
  /\ UNCHANGED <<config, loop, turn, process, result, talkVars>>

ProcessEnds(r) ==
  /\ process[r] \in {"running", "stray"}
  /\ \E how \in {"ended", "failed"} : process' = [process EXCEPT ![r] = how]
  /\ UNCHANGED <<config, loop, turn, printed, result, talkVars>>

\* The last stop_reason an assistant's line gave is not end_turn.
Unfinished(r) ==
  \E i \in DOMAIN printed[r] :
    /\ printed[r][i].reason = "tool_use"
    /\ \A j \in DOMAIN printed[r] : j > i => printed[r][j].reason # "end_turn"

\* _parse_event_stream(): the last stop_reason of claude stands when there is no result;
\* codex knows neither it nor a turn limit.
Parsed(r) ==
  IF Said(r, "turns") THEN "max_turns"
  ELSE IF Said(r, "wrong") THEN "error"
  ELSE IF ~ Said(r, "clean") /\ Unfinished(r) THEN "tool_use"
  ELSE "end_turn"

\* A fault: what the process printed counts, whatever became of it.
ReadTrusting(r) ==
  /\ process[r] \in {"ended", "failed"} /\ loop[r] \in {"claude", "codex"}
  /\ Returns(r, IF Silent(r) THEN "error" ELSE Parsed(r))
  /\ UNCHANGED <<turn, cliVars>>

\* communicate() returns when the process has ended.
Read(r) ==
  /\ process[r] \in {"ended", "failed"} /\ loop[r] \in {"claude", "codex"}
  /\ Returns(r, IF process[r] = "failed" \/ Silent(r) THEN "error" ELSE Parsed(r))
  /\ UNCHANGED <<turn, cliVars>>

\* _kill() of a process that has ended does nothing; an OSError is logged, and the
\* process runs on.
Killed(r) ==
  IF process[r] = "running"
  THEN \E how \in {"killed", "stray"} : process' = [process EXCEPT ![r] = how]
  ELSE UNCHANGED process

TimesOut(r) ==
  /\ loop[r] \in {"claude", "codex"} /\ config.timeout
  /\ Killed(r) /\ Returns(r, "error") /\ UNCHANGED <<turn, printed>>

\* Cancelled, or communicate() raises.
BreaksOff(r) ==
  /\ loop[r] \in {"claude", "codex", "builtin", "tools"}
  /\ Killed(r) /\ Returns(r, "raised") /\ UNCHANGED <<turn, printed>>

-----------------------------------------------------------------------------
(* The built-in loop.  Every answer but end_turn counts as a request for   *)
(* tools; one tool that fails, or is unknown, is a result like any other.  *)

NoLibrary(r) ==
  /\ loop[r] = "builtin" /\ turn[r] = 0 /\ ~ config.library
  /\ Returns(r, "error") /\ UNCHANGED <<turn, cliVars>>

ModelAnswers(r, reason) ==
  /\ loop[r] = "builtin" /\ config.library /\ turn[r] < MaxTurns
  /\ turn' = [turn EXCEPT ![r] = @ + 1]
  /\ IF reason = "end_turn" THEN Returns(r, "end_turn")
     ELSE loop' = [loop EXCEPT ![r] = "tools"] /\ UNCHANGED <<config, result, talkVars>>
  /\ UNCHANGED cliVars

ToolsRan(r) ==
  /\ loop[r] = "tools"
  /\ loop' = [loop EXCEPT ![r] = "builtin"]
  /\ UNCHANGED <<config, turn, cliVars, result, talkVars>>

OutOfTurns(r) ==
  /\ loop[r] = "builtin" /\ config.library /\ turn[r] = MaxTurns
  /\ Returns(r, "max_turns") /\ UNCHANGED <<turn, cliVars>>

-----------------------------------------------------------------------------
(* converse().                                                             *)

Quiet == UNCHANGED <<config, loop, turn, cliVars, result>>

Ask(k) ==
  /\ talk[k] = "idle"
  /\ talk' = [talk EXCEPT ![k] = IF config.library THEN "asking" ELSE "done"]
  /\ history' = Append(history, "user")
  /\ Quiet

Answered(k) ==
  /\ talk[k] = "asking"
  /\ talk' = [talk EXCEPT ![k] = "done"]
  /\ history' = Append(history, "assistant")
  /\ Quiet

\* The message stays in the history.
AskFails(k) ==
  /\ talk[k] = "asking"
  /\ talk' = [talk EXCEPT ![k] = "done"]
  /\ UNCHANGED history /\ Quiet

ClearHistory == history # <<>> /\ history' = <<>> /\ UNCHANGED talk /\ Quiet

-----------------------------------------------------------------------------

Configs == [backend : {"claude", "codex", "auto"}, path : SUBSET {"claude", "codex"},
            handlers : BOOLEAN, long : BOOLEAN, timeout : BOOLEAN, library : BOOLEAN]

LLMInit ==
  /\ config \in Configs
  /\ loop = [r \in Loops |-> "idle"] /\ turn = [r \in Loops |-> 0]
  /\ process = [r \in Loops |-> "none"] /\ printed = [r \in Loops |-> <<>>]
  /\ result = [r \in Loops |-> "none"]
  /\ talk = [k \in Talks |-> "idle"] /\ history = <<>>

LLMNext ==
  \/ \E r \in Loops : \/ StartLoop(r) \/ ProcessEnds(r) \/ Read(r) \/ TimesOut(r) \/ BreaksOff(r)
                      \/ NoLibrary(r) \/ ToolsRan(r) \/ OutOfTurns(r)
                      \/ \E event \in Events : PrintLine(r, event)
                      \/ \E reason \in {"end_turn", "tool_use"} : ModelAnswers(r, reason)
  \/ \E k \in Talks : Ask(k) \/ Answered(k) \/ AskFails(k)
  \/ ClearHistory

-----------------------------------------------------------------------------

LLMTypeOK ==
  /\ config \in Configs /\ \A r \in Loops : turn[r] <= MaxTurns
  /\ \A r \in Loops : loop[r] \in {"builtin", "tools"} => process[r] = "none"
  /\ Len(history) <= 2 * Cardinality(Talks)

\* A loop that is over, however it ended, leaves no process running but one it tried to
\* kill and could not ("Best-effort terminate the subprocess", claude_cli.py:169).  A turn
\* that counts as clean had a process that ended well and printed an event, an error
\* least of all, and that did not break off, without a result, where a tool was asked for.
LoopsEndHonestly ==
  \A r \in Loops : loop[r] = "done" =>
    /\ process[r] # "running"
    /\ result[r] = "end_turn" /\ process[r] # "none" =>
         /\ process[r] = "ended" /\ ~ Silent(r) /\ ~ Said(r, "wrong")
         /\ ~ Said(r, "clean") => printed[r][Len(printed[r])].reason # "tool_use"

\* A CLI that told nothing is a "silent failure (wrong output format, CLI banner, schema
\* drift). Do NOT mask it as a successful empty turn." (claude_cli.py:368): a clean turn has
\* a result, a content or a stop_reason.
CleanTurnWasTold ==
  \A r \in Loops :
    result[r] = "end_turn" /\ process[r] # "none" =>
      \E i \in DOMAIN printed[r] :
        printed[r][i].kind \notin {"noise", "bare"} \/ printed[r][i].reason # "none"
=============================================================================
