-------------------------- MODULE IntegrationProofs --------------------------
(***************************************************************************)
(* What the parts that speak with the outside promise: the loops that      *)
(* drive a language model, and the bridges to other protocols.  And what   *)
(* all parts of MCComponents promise side by side.                         *)
(***************************************************************************)
EXTENDS MCComponents, SecurityProofs, StoreProofs

-----------------------------------------------------------------------------
(***************************************************************************)
(* What agentic_loop() promises, for any loops at once, any configuration, *)
(* whatever the process prints and however it ends.                        *)
(*                                                                         *)
(* The verdict is given in one step, from what was printed before; so the  *)
(* invariant says who has a process at all, and that after the verdict     *)
(* none is left to print more.                                             *)
(***************************************************************************)

Stages    == {"idle", "claude", "codex", "builtin", "tools", "done"}
Fates     == {"none", "running", "ended", "failed", "killed", "stray"}
Verdicts  == {"none", "end_turn", "max_turns", "tool_use", "error", "raised"}

LoopTypes ==
  /\ config \in Configs
  /\ loop \in [Loops -> Stages] /\ process \in [Loops -> Fates]
  /\ result \in [Loops -> Verdicts] /\ printed \in [Loops -> Seq(Events)]

\* Only a loop that handed its prompt to a CLI has a process; what outlives the loop
\* could not be killed.
ProcessOf(r) ==
  /\ loop[r] \in {"idle", "builtin", "tools"} => process[r] = "none"
  /\ loop[r] = "done" => process[r] # "running"
  /\ process[r] = "stray" => loop[r] = "done"

\* A clean turn of a CLI.
Honest(r) ==
  result[r] = "end_turn" /\ process[r] # "none" =>
    /\ process[r] = "ended" /\ ~ Silent(r) /\ ~ Said(r, "wrong")
    /\ ~ Said(r, "clean") => printed[r][Len(printed[r])].reason # "tool_use"

LoopsInv ==
  LoopTypes /\ \A r \in Loops : ProcessOf(r) /\ (loop[r] = "done" => Honest(r))

LEMMA LoopsInvInit == LLMInit => LoopsInv
<1>1. <<>> \in Seq(Events)
  OBVIOUS
<1> QED BY <1>1 DEF LLMInit, LoopsInv, LoopTypes, ProcessOf, Honest, Stages, Fates, Verdicts

\* A step of one loop leaves the others as they are.
Moves(r) ==
  /\ config' = config
  /\ loop' = [loop EXCEPT ![r] = loop'[r]] /\ process' = [process EXCEPT ![r] = process'[r]]
  /\ result' = [result EXCEPT ![r] = result'[r]] /\ printed' = [printed EXCEPT ![r] = printed'[r]]

LEMMA OneLoopMoves ==
  ASSUME LoopsInv, NEW r \in Loops, Moves(r),
         loop'[r] \in Stages, process'[r] \in Fates, result'[r] \in Verdicts,
         printed'[r] \in Seq(Events),
         ProcessOf(r)', (loop[r] = "done" => Honest(r))'
  PROVE  LoopsInv'
<1>1. LoopTypes'
  BY DEF LoopsInv, LoopTypes, Moves
<1>2. ASSUME NEW s \in Loops, s # r PROVE ProcessOf(s)' /\ (loop[s] = "done" => Honest(s))'
  <2>1. /\ loop'[s] = loop[s] /\ process'[s] = process[s]
        /\ result'[s] = result[s] /\ printed'[s] = printed[s]
    BY <1>2 DEF LoopsInv, LoopTypes, Moves
  <2>2. ProcessOf(s) /\ (loop[s] = "done" => Honest(s))
    BY DEF LoopsInv
  <2> QED BY <2>1, <2>2 DEF ProcessOf, Honest, Said, Silent
<1> QED BY <1>1, <1>2 DEF LoopsInv

\* A stream whose last line asks for a tool is unfinished.
LEMMA BreaksOffUnfinished ==
  ASSUME NEW r \in Loops, printed[r] \in Seq(Events), ~ Silent(r),
         printed[r][Len(printed[r])].reason = "tool_use"
  PROVE  Unfinished(r)
<1> DEFINE n == Len(printed[r])
<1>1. n \in Nat /\ DOMAIN printed[r] = 1 .. n
  OBVIOUS
<1>2. n \in DOMAIN printed[r]
  BY <1>1 DEF Silent
<1>3. \A j \in DOMAIN printed[r] : ~ j > n
  BY <1>1
<1> QED BY <1>2, <1>3 DEF Unfinished

\* The verdict on what a process printed.
LEMMA ParsedIsHonest ==
  ASSUME NEW r \in Loops
  PROVE  /\ Parsed(r) \in Verdicts
         /\ Parsed(r) = "end_turn" => ~ Said(r, "wrong") /\ (~ Said(r, "clean") => ~ Unfinished(r))
<1> DEFINE turns == Said(r, "turns")  wrong == Said(r, "wrong")  clean == Said(r, "clean")
           open == Unfinished(r)
<1>1. Parsed(r) = IF turns THEN "max_turns" ELSE IF wrong THEN "error"
                  ELSE IF ~ clean /\ open THEN "tool_use" ELSE "end_turn"
  BY DEF Parsed
<1> HIDE DEF turns, wrong, clean, open
<1>2. Parsed(r) \in Verdicts /\ (Parsed(r) = "end_turn" => ~ wrong /\ (~ clean => ~ open))
  BY <1>1 DEF Verdicts
<1> QED BY <1>2 DEF wrong, clean, open

\* The invariant at one loop.
LEMMA LoopFacts ==
  ASSUME LoopsInv, NEW r \in Loops
  PROVE  /\ config \in Configs
         /\ loop[r] \in Stages /\ process[r] \in Fates /\ result[r] \in Verdicts
         /\ printed[r] \in Seq(Events) /\ ProcessOf(r)
         /\ loop[r] = "done" => Honest(r)
         /\ loop = [loop EXCEPT ![r] = loop[r]] /\ process = [process EXCEPT ![r] = process[r]]
         /\ result = [result EXCEPT ![r] = result[r]]
         /\ printed = [printed EXCEPT ![r] = printed[r]]
BY DEF LoopsInv, LoopTypes

LEMMA StartKeepsLoops ==
  ASSUME LoopsInv, NEW r \in Loops, StartLoop(r) PROVE LoopsInv'
<1> USE LoopFacts
<1>1. Backend \in {"claude", "codex", "builtin"}
  BY DEF Backend, Configs
<1>2. Moves(r) /\ printed'[r] = printed[r] /\ loop[r] = "idle" /\ process[r] = "none"
  BY DEF StartLoop, Moves, ProcessOf
<1>3. \/ /\ loop'[r] = Backend /\ result'[r] = result[r]
         /\ process'[r] = IF Backend = "builtin" THEN "none" ELSE "running"
      \/ loop'[r] = "done" /\ result'[r] = "raised" /\ process'[r] = process[r]
  BY DEF StartLoop, LoopsInv, LoopTypes
<1>4. /\ loop'[r] \in Stages /\ process'[r] \in Fates /\ result'[r] \in Verdicts
      /\ printed'[r] \in Seq(Events)
  BY <1>1, <1>2, <1>3 DEF Stages, Fates, Verdicts
<1>5. ProcessOf(r)' /\ (loop[r] = "done" => Honest(r))'
  BY <1>1, <1>2, <1>3 DEF ProcessOf, Honest
<1> QED BY <1>2, <1>4, <1>5, OneLoopMoves

\* A step of the process, which needs one that runs.
LEMMA ProcessKeepsLoops ==
  ASSUME LoopsInv, NEW r \in Loops,
         ProcessEnds(r) \/ \E event \in Events : PrintLine(r, event)
  PROVE  LoopsInv'
<1> USE LoopFacts
<1>1. process[r] \in {"running", "stray"} /\ loop'[r] = loop[r] /\ result'[r] = result[r] /\ Moves(r)
  BY DEF ProcessEnds, PrintLine, Moves
<1>2. process'[r] \in Fates /\ printed'[r] \in Seq(Events)
  <2>1. CASE ProcessEnds(r)
    BY <2>1 DEF ProcessEnds, Fates, LoopsInv, LoopTypes
  <2>2. ASSUME NEW event \in Events, PrintLine(r, event)
        PROVE  process'[r] \in Fates /\ printed'[r] \in Seq(Events)
    <3>1. process' = process /\ printed'[r] = Append(printed[r], event)
      BY <2>2 DEF PrintLine, LoopsInv, LoopTypes
    <3> QED BY <3>1
  <2> QED BY <2>1, <2>2
<1>3. CASE process[r] = "running"
  <2>1. loop[r] \in {"claude", "codex"}
    BY <1>3 DEF ProcessOf, Stages
  <2>2. process'[r] # "stray"
    BY <1>3 DEF ProcessEnds, PrintLine, LoopsInv, LoopTypes
  <2>3. ProcessOf(r)' /\ (loop[r] = "done" => Honest(r))'
    BY <1>1, <2>1, <2>2 DEF ProcessOf
  <2> QED BY <1>1, <1>2, <2>3, OneLoopMoves
<1>4. CASE process[r] = "stray"
  <2>1. loop[r] = "done" /\ result[r] # "end_turn"
    BY <1>4 DEF ProcessOf, Honest
  <2>2. process'[r] \in {"ended", "failed"}
    BY <1>4 DEF ProcessEnds, PrintLine, LoopsInv, LoopTypes
  <2>3. ProcessOf(r)' /\ (loop[r] = "done" => Honest(r))'
    BY <1>1, <2>1, <2>2 DEF ProcessOf, Honest
  <2> QED BY <1>1, <1>2, <2>3, OneLoopMoves
<1> QED BY <1>1, <1>3, <1>4

LEMMA ReadKeepsLoops ==
  ASSUME LoopsInv, NEW r \in Loops, Read(r) PROVE LoopsInv'
<1> USE LoopFacts
<1>1. /\ Moves(r) /\ process'[r] = process[r] /\ printed'[r] = printed[r]
      /\ process[r] \in {"ended", "failed"}
  BY DEF Read, Returns, cliVars, Moves
<1>2. /\ loop'[r] = "done"
      /\ result'[r] = IF process[r] = "failed" \/ Silent(r) THEN "error" ELSE Parsed(r)
  BY DEF Read, Returns, LoopsInv, LoopTypes
<1>3. result'[r] \in Verdicts
  BY <1>2, ParsedIsHonest DEF Verdicts
<1>4. ASSUME result'[r] = "end_turn"
      PROVE  /\ process[r] = "ended" /\ ~ Silent(r) /\ ~ Said(r, "wrong")
             /\ ~ Said(r, "clean") => printed[r][Len(printed[r])].reason # "tool_use"
  <2>1. process[r] # "failed" /\ ~ Silent(r) /\ Parsed(r) = "end_turn"
    BY <1>2, <1>4
  <2> QED BY <1>1, <2>1, ParsedIsHonest, BreaksOffUnfinished
<1>5. Honest(r)'
  BY <1>1, <1>4 DEF Honest, Said, Silent
<1>6. ProcessOf(r)'
  BY <1>1, <1>2 DEF ProcessOf
<1>7. loop'[r] \in Stages /\ process'[r] \in Fates /\ printed'[r] \in Seq(Events)
  BY <1>1, <1>2 DEF Stages
<1> QED BY <1>1, <1>3, <1>5, <1>6, <1>7, OneLoopMoves

LEMMA BrokenOffKeepsLoops ==
  ASSUME LoopsInv, NEW r \in Loops, TimesOut(r) \/ BreaksOff(r) PROVE LoopsInv'
<1> USE LoopFacts
<1>1. /\ Moves(r) /\ printed'[r] = printed[r] /\ loop'[r] = "done"
      /\ result'[r] \in {"error", "raised"}
      /\ IF process[r] = "running" THEN process'[r] \in {"killed", "stray"}
         ELSE process'[r] = process[r]
  BY DEF TimesOut, BreaksOff, Killed, Returns, Moves, LoopsInv, LoopTypes
<1>2. ProcessOf(r)' /\ Honest(r)'
  BY <1>1 DEF ProcessOf, Honest
<1>3. /\ loop'[r] \in Stages /\ process'[r] \in Fates /\ result'[r] \in Verdicts
      /\ printed'[r] \in Seq(Events)
  BY <1>1 DEF Stages, Fates, Verdicts
<1> QED BY <1>1, <1>2, <1>3, OneLoopMoves

\* The built-in loop has no process.
LEMMA BuiltinKeepsLoops ==
  ASSUME LoopsInv, NEW r \in Loops,
         \/ NoLibrary(r) \/ ToolsRan(r) \/ OutOfTurns(r)
         \/ \E reason \in {"end_turn", "tool_use"} : ModelAnswers(r, reason)
  PROVE  LoopsInv'
<1> USE LoopFacts
<1>1. process[r] = "none"
  BY DEF NoLibrary, ToolsRan, OutOfTurns, ModelAnswers, ProcessOf
<1>2. Moves(r) /\ process'[r] = process[r] /\ printed'[r] = printed[r]
  BY DEF NoLibrary, ToolsRan, OutOfTurns, ModelAnswers, Returns, cliVars, Moves
<1>3. loop'[r] \in {"builtin", "tools", "done"}
  BY DEF NoLibrary, ToolsRan, OutOfTurns, ModelAnswers, Returns, LoopsInv, LoopTypes
<1>4. result'[r] \in Verdicts
  BY DEF NoLibrary, ToolsRan, OutOfTurns, ModelAnswers, Returns, LoopsInv, LoopTypes, Verdicts
<1>5. ProcessOf(r)' /\ Honest(r)'
  BY <1>1, <1>2 DEF ProcessOf, Honest
<1>6. loop'[r] \in Stages /\ process'[r] \in Fates /\ printed'[r] \in Seq(Events)
  BY <1>2, <1>3 DEF Stages
<1> QED BY <1>2, <1>4, <1>5, <1>6, OneLoopMoves

LEMMA LoopsInvStep == LoopsInv /\ [LLMNext]_llmVars => LoopsInv'
<1> SUFFICES ASSUME LoopsInv, [LLMNext]_llmVars PROVE LoopsInv'
  OBVIOUS
<1>1. ASSUME UNCHANGED <<config, loop, cliVars, result>> PROVE LoopsInv'
  BY <1>1 DEF cliVars, LoopsInv, LoopTypes, ProcessOf, Honest, Said, Silent
<1>2. CASE UNCHANGED llmVars
  BY <1>1, <1>2 DEF llmVars
<1>3. ASSUME NEW k \in Talks, Ask(k) \/ Answered(k) \/ AskFails(k) PROVE LoopsInv'
  BY <1>1, <1>3 DEF Ask, Answered, AskFails, Quiet
<1>4. CASE ClearHistory
  BY <1>1, <1>4 DEF ClearHistory, Quiet
<1> QED
  BY <1>2, <1>3, <1>4, StartKeepsLoops, ProcessKeepsLoops, ReadKeepsLoops,
     BrokenOffKeepsLoops, BuiltinKeepsLoops DEF LLMNext

LLMSpec == LLMInit /\ [][LLMNext]_llmVars

\* A loop that is over left no process running but one that could not be killed, and none
\* that claims a clean turn had a process that failed, printed no event, reported an error
\* or broke off where it asked for a tool.
THEOREM LoopsAreHonest == LLMSpec => []LoopsEndHonestly
<1>1. LoopsInv => LoopsEndHonestly
  BY DEF LoopsInv, LoopsEndHonestly, ProcessOf, Honest
<1> QED BY LoopsInvInit, LoopsInvStep, <1>1, PTL DEF LLMSpec

\* What else the type invariant says: the turns are counted, and a conversation adds
\* two lines to the history at most.
Began == {k \in Talks : talk[k] # "idle"}
Ended == {k \in Talks : talk[k] = "done"}

TalksInv ==
  /\ turn \in [Loops -> 0 .. MaxTurns] /\ talk \in [Talks -> {"idle", "asking", "done"}]
  /\ history \in Seq({"user", "assistant"})
  /\ Len(history) <= Cardinality(Began) + Cardinality(Ended)

LEMMA TalksFinite ==
  /\ \A T \in SUBSET Talks : /\ IsFiniteSet(T) /\ Cardinality(T) \in Nat
                             /\ Cardinality(T) <= Cardinality(Talks)
  /\ \A T, U \in SUBSET Talks : T \subseteq U => Cardinality(T) <= Cardinality(U)
  /\ \A T \in SUBSET Talks, k \in Talks : k \notin T => Cardinality(T \cup {k}) = Cardinality(T) + 1
<1>1. ASSUME NEW U \in SUBSET Talks PROVE IsFiniteSet(U) /\ Cardinality(U) \in Nat
  BY LLMConstantsOK, FS_Subset, FS_CardinalityType DEF LLMConstantsOK
<1>2. ASSUME NEW U \in SUBSET Talks, NEW T \in SUBSET U PROVE Cardinality(T) <= Cardinality(U)
  BY <1>1, FS_Subset
<1>3. ASSUME NEW T \in SUBSET Talks, NEW k \in Talks, k \notin T
      PROVE  Cardinality(T \cup {k}) = Cardinality(T) + 1
  BY <1>1, <1>3, FS_AddElement
<1> QED BY <1>1, <1>2, <1>3

LEMMA TalksInvInit == LLMInit => TalksInv
<1> SUFFICES ASSUME LLMInit PROVE TalksInv
  OBVIOUS
<1>1. Began = {} /\ Ended = {}
  BY DEF LLMInit, Began, Ended
<1>2. Cardinality({}) = 0
  BY FS_EmptySet
<1> QED BY <1>1, <1>2, LLMConstantsOK DEF LLMInit, TalksInv, LLMConstantsOK

LEMMA TalksInvStep == TalksInv /\ [LLMNext]_llmVars => TalksInv'
<1> SUFFICES ASSUME TalksInv, [LLMNext]_llmVars PROVE TalksInv'
  OBVIOUS
<1>1. ASSUME UNCHANGED <<turn, talkVars>> PROVE TalksInv'
  BY <1>1 DEF talkVars, TalksInv, Began, Ended
<1>2. ASSUME NEW r \in Loops, NEW reason, ModelAnswers(r, reason) PROVE TalksInv'
  <2>1. turn' \in [Loops -> 0 .. MaxTurns]
    <3>1. turn[r] \in 0 .. MaxTurns /\ turn[r] < MaxTurns /\ turn' = [turn EXCEPT ![r] = @ + 1]
      BY <1>2 DEF ModelAnswers, TalksInv
    <3>2. turn[r] + 1 \in 0 .. MaxTurns
      BY <3>1, LLMConstantsOK DEF LLMConstantsOK
    <3> QED BY <3>1, <3>2 DEF TalksInv
  <2> QED BY <1>2, <2>1 DEF ModelAnswers, Returns, talkVars, TalksInv, Began, Ended
<1>3. ASSUME NEW k \in Talks, Ask(k) \/ Answered(k) \/ AskFails(k) PROVE TalksInv'
  <2>1. /\ turn' = turn /\ talk' \in [Talks -> {"idle", "asking", "done"}]
        /\ history' \in Seq({"user", "assistant"})
    <3>1. turn' = turn /\ talk' \in [Talks -> {"idle", "asking", "done"}]
      BY <1>3 DEF Ask, Answered, AskFails, Quiet, TalksInv
    <3>2. \/ history' = history \/ history' = Append(history, "user")
          \/ history' = Append(history, "assistant")
      BY <1>3 DEF Ask, Answered, AskFails
    <3>3. history \in Seq({"user", "assistant"})
      BY DEF TalksInv
    <3> QED BY <3>1, <3>2, <3>3, AppendProperties
  <2> DEFINE b == Cardinality(Began)  d == Cardinality(Ended)
  <2>2. Began \in SUBSET Talks /\ Ended \in SUBSET Talks /\ Began' \in SUBSET Talks /\ Ended' \in SUBSET Talks
    BY DEF Began, Ended
  <2>3. /\ b \in Nat /\ d \in Nat /\ b' \in Nat /\ d' \in Nat /\ Len(history) \in Nat
        /\ Len(history) <= b + d
    BY <2>2, TalksFinite DEF TalksInv
  <2>4. CASE Ask(k)
    <3>1. k \notin Began /\ Began' = Began \cup {k} /\ Ended \subseteq Ended' /\ Len(history') = Len(history) + 1
      BY <2>4 DEF Ask, TalksInv, Began, Ended
    <3>2. b' = b + 1 /\ d <= d'
      BY <2>2, <3>1, TalksFinite
    <3>3. Len(history') <= b' + d'
      BY <2>3, <3>1, <3>2
    <3> QED BY <2>1, <3>3 DEF TalksInv
  <2>5. CASE Answered(k)
    <3>1. k \notin Ended /\ Ended' = Ended \cup {k} /\ Began' = Began /\ Len(history') = Len(history) + 1
      BY <2>5 DEF Answered, TalksInv, Began, Ended
    <3>2. b' = b /\ d' = d + 1
      BY <2>2, <3>1, TalksFinite
    <3>3. Len(history') <= b' + d'
      BY <2>3, <3>1, <3>2
    <3> QED BY <2>1, <3>3 DEF TalksInv
  <2>6. CASE AskFails(k)
    <3>1. Ended \subseteq Ended' /\ Began' = Began /\ history' = history
      BY <2>6 DEF AskFails, TalksInv, Began, Ended
    <3>2. b' = b /\ d <= d'
      BY <2>2, <3>1, TalksFinite
    <3>3. Len(history') <= b' + d'
      BY <2>3, <3>1, <3>2
    <3> QED BY <2>1, <3>3 DEF TalksInv
  <2> QED BY <1>3, <2>4, <2>5, <2>6
<1>4. CASE ClearHistory
  <2>1. history' = <<>> /\ turn' = turn /\ talk' = talk
    BY <1>4 DEF ClearHistory, Quiet
  <2>2. Began \in SUBSET Talks /\ Ended \in SUBSET Talks /\ Began' = Began /\ Ended' = Ended
    BY <2>1 DEF Began, Ended
  <2>3. Cardinality(Began) \in Nat /\ Cardinality(Ended) \in Nat
    BY <2>2, TalksFinite
  <2> QED BY <2>1, <2>2, <2>3 DEF TalksInv
<1>5. ASSUME NEW r \in Loops, \/ StartLoop(r) \/ ProcessEnds(r) \/ Read(r) \/ TimesOut(r) \/ BreaksOff(r)
                             \/ NoLibrary(r) \/ ToolsRan(r) \/ OutOfTurns(r)
                             \/ \E event \in Events : PrintLine(r, event)
      PROVE  TalksInv'
  BY <1>1, <1>5
  DEF StartLoop, ProcessEnds, Read, TimesOut, BreaksOff, NoLibrary, ToolsRan, OutOfTurns, PrintLine, Returns
<1>6. CASE UNCHANGED llmVars
  BY <1>1, <1>6 DEF llmVars
<1> QED BY <1>2, <1>3, <1>4, <1>5, <1>6 DEF LLMNext

\* The built-in loop has no process and takes no more turns than it may, and the history
\* has two lines for each conversation at most.
THEOREM LLMTypeCorrect == LLMSpec => []LLMTypeOK
<1>1. LoopsInv /\ TalksInv => LLMTypeOK
  <2> SUFFICES ASSUME LoopsInv, TalksInv PROVE LLMTypeOK
    OBVIOUS
  <2>1. Began \in SUBSET Talks /\ Ended \in SUBSET Talks /\ Talks \in SUBSET Talks
    BY DEF Began, Ended
  <2> DEFINE b == Cardinality(Began)  d == Cardinality(Ended)  n == Cardinality(Talks)
  <2>2. b \in Nat /\ d \in Nat /\ n \in Nat /\ b <= n /\ d <= n /\ Len(history) <= b + d /\ Len(history) \in Nat
    BY <2>1, TalksFinite DEF TalksInv
  <2> HIDE DEF b, d
  <2>3. Len(history) <= 2 * n
    BY <2>2
  <2>4. config \in Configs /\ \A r \in Loops : loop[r] \in {"builtin", "tools"} => process[r] = "none"
    BY DEF LoopsInv, LoopTypes, ProcessOf
  <2>5. \A r \in Loops : turn[r] <= MaxTurns
    BY LLMConstantsOK DEF TalksInv, LLMConstantsOK
  <2> QED BY <2>3, <2>4, <2>5 DEF LLMTypeOK
<1> QED BY LoopsInvInit, LoopsInvStep, TalksInvInit, TalksInvStep, <1>1, PTL DEF LLMSpec

-----------------------------------------------------------------------------
(***************************************************************************)
(* What the bridges promise, for any exchanges and ids.                    *)
(*                                                                         *)
(* A message of the type that a protocol has requests for is unchanged by  *)
(* the translation there and back (NativeArrives); the invariant carries   *)
(* that, the id and the failure through the stages of an exchange.         *)
(***************************************************************************)

Native(m) ==
  /\ m.by = "node" /\ m.type = (IF m.protocol = "mcp" THEN "REQUEST" ELSE "DELEGATION")
  /\ m.protocol = "mcp" \/ m.method = "invoke"

Numbered(m) == m.by = "client" /\ m.corr # NoId

LEMMA TheRow ==
  ASSUME NEW rows, NEW row, rows = {row}
  PROVE  rows # {} /\ (CHOOSE r \in rows : TRUE) = row
OBVIOUS

LEMMA ToAURCRow ==
  ASSUME NEW p, NEW body, NEW row, {r \in Inward(p) : r[1] = body.method} = {row}
  PROVE  ToAURC(p, body) =
           [type |-> row[2], method |-> row[3],
            corr |-> IF row[2] = "NOTIFICATION" THEN NoId ELSE body.id]
<1> DEFINE rows == {r \in Inward(p) : r[1] = body.method}
<1>1. rows # {} /\ (CHOOSE r \in rows : TRUE) = row
  BY TheRow
<1> QED BY <1>1 DEF ToAURC

\* A method in no table goes through as it is.
LEMMA ToAURCPlain ==
  ASSUME NEW p, NEW body, {r \in Inward(p) : r[1] = body.method} = {}
  PROVE  ToAURC(p, body) = [type |-> "REQUEST", method |-> body.method, corr |-> body.id]
BY DEF ToAURC

\* The translation to the protocol and back leaves a message what it was.
LEMMA NativeArrives ==
  ASSUME NEW e, NEW m \in Outgoing, Native(m)
  PROVE  ToAURC(m.protocol, FromAURC(e, m.protocol, m)) =
           [type |-> m.type, method |-> m.method, corr |-> Tag(e, m)]
<1> DEFINE body == FromAURC(e, m.protocol, m)
<1>1. CASE m.protocol = "a2a"
  <2> DEFINE row == <<"tasks/send", "DELEGATION", "invoke">>
  <2>1. body = [method |-> "tasks/send", id |-> Tag(e, m)] /\ m.type = "DELEGATION" /\ m.method = "invoke"
    BY <1>1 DEF FromAURC, ToA2A, Native
  <2>2. {r \in Inward("a2a") : r[1] = body.method} = {row}
    BY <2>1 DEF Inward, A2AInward
  <2>3. row[2] = "DELEGATION" /\ row[3] = "invoke"
    OBVIOUS
  <2> HIDE DEF row, body
  <2>4. ToAURC("a2a", body) = [type |-> row[2], method |-> row[3],
                               corr |-> IF row[2] = "NOTIFICATION" THEN NoId ELSE body.id]
    BY <2>2, ToAURCRow
  <2>5. ToAURC("a2a", body) = [type |-> m.type, method |-> m.method, corr |-> Tag(e, m)]
    BY <2>1, <2>3, <2>4
  <2> QED BY <1>1, <2>5 DEF body
<1>2. CASE m.protocol = "acp"
  <2> DEFINE row == <<"invoke", "DELEGATION", "invoke">>
  <2>1. body = [method |-> "invoke", id |-> Tag(e, m)] /\ m.type = "DELEGATION" /\ m.method = "invoke"
    BY <1>2 DEF FromAURC, ToACP, Native
  <2>2. {r \in Inward("acp") : r[1] = body.method} = {row}
    BY <2>1 DEF Inward, ACPInward
  <2>3. row[2] = "DELEGATION" /\ row[3] = "invoke"
    OBVIOUS
  <2> HIDE DEF row, body
  <2>4. ToAURC("acp", body) = [type |-> row[2], method |-> row[3],
                               corr |-> IF row[2] = "NOTIFICATION" THEN NoId ELSE body.id]
    BY <2>2, ToAURCRow
  <2>5. ToAURC("acp", body) = [type |-> m.type, method |-> m.method, corr |-> Tag(e, m)]
    BY <2>1, <2>3, <2>4
  <2> QED BY <1>2, <2>5 DEF body
<1>3. CASE m.protocol = "mcp"
  <2> DEFINE out == {r \in MCPInward : r[2] = "REQUEST" /\ r[3] = m.method}
  <2>1. m.type = "REQUEST" /\ body = [method |-> IF out = {} THEN m.method ELSE (CHOOSE r \in out : TRUE)[1],
                                      id |-> Tag(e, m)]
    BY <1>3 DEF FromAURC, ToMCP, Native
  <2>2. ASSUME NEW method, NEW row, row = <<method, "REQUEST", m.method>>, out = {row},
               {r \in Inward("mcp") : r[1] = method} = {row}
        PROVE  ToAURC("mcp", body) = [type |-> "REQUEST", method |-> m.method, corr |-> Tag(e, m)]
    <3>1. out # {} /\ (CHOOSE r \in out : TRUE) = row
      BY <2>2, TheRow
    <3>2. body = [method |-> method, id |-> Tag(e, m)]
      BY <2>1, <2>2, <3>1
    <3>3. {r \in Inward("mcp") : r[1] = body.method} = {row}
      BY <2>2, <3>2
    <3> QED BY <2>2, <3>2, <3>3, ToAURCRow
  <2>3. CASE m.method = "invoke"
    <3> DEFINE row == <<"tools/call", "REQUEST", "invoke">>
    <3>1. out = {row} /\ {r \in Inward("mcp") : r[1] = "tools/call"} = {row}
      BY <2>3 DEF Inward, MCPInward
    <3>2. row = <<"tools/call", "REQUEST", m.method>>
      BY <2>3
    <3> HIDE DEF row, out, body
    <3>3. ToAURC("mcp", body) = [type |-> "REQUEST", method |-> m.method, corr |-> Tag(e, m)]
      BY <2>2, <3>1, <3>2
    <3> QED BY <1>3, <2>1, <3>3 DEF body
  <2>4. CASE m.method = "list_capabilities"
    <3> DEFINE row == <<"tools/list", "REQUEST", "list_capabilities">>
    <3>1. out = {row} /\ {r \in Inward("mcp") : r[1] = "tools/list"} = {row}
      BY <2>4 DEF Inward, MCPInward
    <3>2. row = <<"tools/list", "REQUEST", m.method>>
      BY <2>4
    <3> HIDE DEF row, out, body
    <3>3. ToAURC("mcp", body) = [type |-> "REQUEST", method |-> m.method, corr |-> Tag(e, m)]
      BY <2>2, <3>1, <3>2
    <3> QED BY <1>3, <2>1, <3>3 DEF body
  <2>5. CASE m.method = "load_context"
    <3> DEFINE row == <<"resources/read", "REQUEST", "load_context">>
    <3>1. out = {row} /\ {r \in Inward("mcp") : r[1] = "resources/read"} = {row}
      BY <2>5 DEF Inward, MCPInward
    <3>2. row = <<"resources/read", "REQUEST", m.method>>
      BY <2>5
    <3> HIDE DEF row, out, body
    <3>3. ToAURC("mcp", body) = [type |-> "REQUEST", method |-> m.method, corr |-> Tag(e, m)]
      BY <2>2, <3>1, <3>2
    <3> QED BY <1>3, <2>1, <3>3 DEF body
  <2>6. CASE m.method = "other"
    <3>1. out = {} /\ {r \in Inward("mcp") : r[1] = "other"} = {}
      BY <2>6 DEF Inward, MCPInward
    <3>2. body = [method |-> "other", id |-> Tag(e, m)]
      BY <2>1, <2>6, <3>1
    <3> QED BY <1>3, <2>1, <2>6, <3>1, <3>2, ToAURCPlain
  <2> QED BY <2>3, <2>4, <2>5, <2>6 DEF Outgoing
<1> QED BY <1>1, <1>2, <1>3 DEF Outgoing, Protocols

\* A request that is numbered keeps its number, unless it becomes a notification.
LEMMA NumberKept ==
  ASSUME NEW p, NEW body
  PROVE  ToAURC(p, body).type = "NOTIFICATION" \/ ToAURC(p, body).corr = body.id
BY DEF ToAURC

-----------------------------------------------------------------------------

Posts == [by : {"client"}, protocol : Protocols, type : {"none"}, method : Methods,
          corr : Numbers \cup {NoId}]

Handled(e) == received[e].type # "none"

\* What is posted, and what of it arrives at a node.
Asked(e) ==
  /\ stage[e] # "idle" => sent[e] \in Outgoing \cup Posts
  /\ stage[e] \in {"idle", "posted"} => ~ Handled(e)
  /\ stage[e] = "posted" =>
       payload[e] = IF sent[e].by = "node" THEN FromAURC(e, sent[e].protocol, sent[e])
                    ELSE [method |-> sent[e].method, id |-> sent[e].corr]
  /\ Handled(e) =>
       /\ Native(sent[e]) =>
            received[e] = [type |-> sent[e].type, method |-> sent[e].method, corr |-> Tag(e, sent[e])]
       /\ Numbered(sent[e]) =>
            received[e].type = "NOTIFICATION" \/ received[e].corr = sent[e].corr

\* What comes back of it.
Returned(e) ==
  /\ fails[e] \in BOOLEAN
  /\ stage[e] = "answered" /\ Handled(e) =>
       reply[e] = Translated(sent[e].protocol, Answering(e), fails[e])
  /\ stage[e] = "returned" =>
       /\ Handled(e) /\ fails[e] /\ sent[e].protocol # "a2a" => response[e].failed
       /\ response[e].corr = Tag(e, sent[e])

BridgesInv ==
  /\ stage \in [Exchanges -> {"idle", "posted", "received", "answered", "returned", "raised"}]
  /\ sent = [e \in Exchanges |-> sent[e]] /\ payload = [e \in Exchanges |-> payload[e]]
  /\ received = [e \in Exchanges |-> received[e]] /\ fails = [e \in Exchanges |-> fails[e]]
  /\ reply = [e \in Exchanges |-> reply[e]] /\ response = [e \in Exchanges |-> response[e]]
  /\ \A e \in Exchanges : Asked(e) /\ Returned(e)

LEMMA BridgesInvInit == BridgesInit => BridgesInv
<1> SUFFICES ASSUME BridgesInit PROVE BridgesInv
  OBVIOUS
<1>1. ASSUME NEW e \in Exchanges PROVE Asked(e) /\ Returned(e)
  BY DEF BridgesInit, Asked, Returned, Handled
<1> QED BY <1>1 DEF BridgesInit, BridgesInv

\* A step of one exchange.
Steps(e) ==
  /\ stage' = [stage EXCEPT ![e] = stage'[e]] /\ sent' = [sent EXCEPT ![e] = sent'[e]]
  /\ payload' = [payload EXCEPT ![e] = payload'[e]] /\ received' = [received EXCEPT ![e] = received'[e]]
  /\ fails' = [fails EXCEPT ![e] = fails'[e]] /\ reply' = [reply EXCEPT ![e] = reply'[e]]
  /\ response' = [response EXCEPT ![e] = response'[e]]

LEMMA OneExchangeSteps ==
  ASSUME BridgesInv, NEW e \in Exchanges, Steps(e),
         stage'[e] \in {"idle", "posted", "received", "answered", "returned", "raised"},
         Asked(e)', Returned(e)'
  PROVE  BridgesInv'
<1>1. ASSUME NEW x \in Exchanges, x # e PROVE Asked(x)' /\ Returned(x)'
  <2>1. /\ stage'[x] = stage[x] /\ sent'[x] = sent[x] /\ payload'[x] = payload[x]
        /\ received'[x] = received[x] /\ fails'[x] = fails[x] /\ reply'[x] = reply[x]
        /\ response'[x] = response[x]
    BY <1>1 DEF Steps, BridgesInv
  <2>2. Asked(x) /\ Returned(x)
    BY DEF BridgesInv
  <2> QED BY <2>1, <2>2 DEF Asked, Returned, Handled, Answering
<1>2. /\ stage' \in [Exchanges -> {"idle", "posted", "received", "answered", "returned", "raised"}]
      /\ sent' = [x \in Exchanges |-> sent'[x]] /\ payload' = [x \in Exchanges |-> payload'[x]]
      /\ received' = [x \in Exchanges |-> received'[x]] /\ fails' = [x \in Exchanges |-> fails'[x]]
      /\ reply' = [x \in Exchanges |-> reply'[x]] /\ response' = [x \in Exchanges |-> response'[x]]
  BY DEF Steps, BridgesInv
<1> QED BY <1>1, <1>2 DEF BridgesInv

\* The exchange begins: nothing has come of it yet.
LEMMA BeginningKeeps ==
  ASSUME BridgesInv, NEW e \in Exchanges,
         \/ \E m \in Outgoing : Forward(e, m) \/ ForwardNowhere(e, m)
         \/ \E p \in Protocols, method \in Methods, id \in Numbers \cup {NoId} :
              ClientPosts(e, p, method, id)
  PROVE  BridgesInv'
<1>1. Steps(e) /\ stage[e] = "idle" /\ received'[e] = received[e] /\ fails'[e] = fails[e]
  BY DEF Forward, ForwardNowhere, ClientPosts, Steps, BridgesInv
<1>2. Asked(e) /\ Returned(e) /\ ~ Handled(e) /\ ~ Handled(e)'
  BY <1>1 DEF BridgesInv, Asked, Handled
<1>3. ASSUME NEW m \in Outgoing, Forward(e, m) PROVE BridgesInv'
  <2>1. /\ stage'[e] = "posted" /\ sent'[e] = m /\ payload'[e] = FromAURC(e, m.protocol, m)
        /\ m.by = "node"
    BY <1>3 DEF Forward, BridgesInv, Outgoing
  <2>2. Asked(e)' /\ Returned(e)'
    BY <1>1, <1>2, <2>1 DEF Asked, Returned
  <2> QED BY <1>1, <2>1, <2>2, OneExchangeSteps
<1>4. ASSUME NEW m \in Outgoing, ForwardNowhere(e, m) PROVE BridgesInv'
  <2>1. /\ stage'[e] = "returned" /\ sent'[e] = m
        /\ response'[e] = [corr |-> Tag(e, m), failed |-> TRUE]
    BY <1>4 DEF ForwardNowhere, BridgesInv
  <2>2. Asked(e)' /\ Returned(e)'
    BY <1>1, <1>2, <2>1 DEF Asked, Returned
  <2> QED BY <1>1, <2>1, <2>2, OneExchangeSteps
<1>5. ASSUME NEW p \in Protocols, NEW method \in Methods, NEW id \in Numbers \cup {NoId},
             ClientPosts(e, p, method, id)
      PROVE  BridgesInv'
  <2>1. /\ stage'[e] = "posted" /\ payload'[e] = [method |-> method, id |-> id]
        /\ sent'[e] = [by |-> "client", protocol |-> p, type |-> "none", method |-> method, corr |-> id]
    BY <1>5 DEF ClientPosts, BridgesInv
  <2>2. sent'[e] \in Posts
    BY <2>1 DEF Posts
  <2>3. sent'[e].by = "client" /\ sent'[e].method = method /\ sent'[e].corr = id
    BY <2>1
  <2>4. Asked(e)'
    BY <1>2, <2>1, <2>2, <2>3 DEF Asked
  <2>5. Returned(e)'
    BY <1>1, <1>2, <2>1 DEF Returned
  <2> QED BY <1>1, <2>1, <2>4, <2>5, OneExchangeSteps
<1> QED BY <1>3, <1>4, <1>5

\* The node translates what it gets, and what its handler says.
LEMMA PeerKeeps ==
  ASSUME BridgesInv, NEW e \in Exchanges,
         Receive(e) \/ \E failed \in BOOLEAN : Handle(e, failed)
  PROVE  BridgesInv'
<1>1. Asked(e) /\ Returned(e)
  BY DEF BridgesInv
<1>2. CASE Receive(e)
  <2>1. /\ Steps(e) /\ stage[e] = "posted" /\ stage'[e] = "received" /\ sent'[e] = sent[e]
        /\ fails'[e] = fails[e] /\ received'[e] = ToAURC(sent[e].protocol, payload[e])
    BY <1>2 DEF Receive, Steps, BridgesInv
  <2>2. sent[e] \in Outgoing \cup Posts
    BY <1>1, <2>1 DEF Asked
  <2>3. Native(sent[e]) =>
          received'[e] = [type |-> sent[e].type, method |-> sent[e].method, corr |-> Tag(e, sent[e])]
    <3>1. Native(sent[e]) => sent[e].by = "node" /\ sent[e] \in Outgoing
      BY <2>2 DEF Native, Posts
    <3> QED BY <1>1, <2>1, <3>1, NativeArrives DEF Asked
  <2>4. Numbered(sent[e]) =>
          received'[e].type = "NOTIFICATION" \/ received'[e].corr = sent[e].corr
    <3>1. Numbered(sent[e]) => sent[e].by # "node"
      BY DEF Numbered
    <3>2. Numbered(sent[e]) => payload[e].id = sent[e].corr
      BY <1>1, <2>1, <3>1 DEF Asked
    <3> QED BY <2>1, <3>2, NumberKept
  <2>5. Asked(e)' /\ Returned(e)'
    BY <1>1, <2>1, <2>2, <2>3, <2>4 DEF Asked, Returned
  <2> QED BY <2>1, <2>5, OneExchangeSteps
<1>3. ASSUME NEW failed \in BOOLEAN, Handle(e, failed) PROVE BridgesInv'
  <2>1. /\ Steps(e) /\ stage[e] = "received" /\ stage'[e] = "answered" /\ sent'[e] = sent[e]
        /\ fails'[e] = failed /\ received'[e] = received[e]
        /\ reply'[e] = Translated(sent[e].protocol, Answering(e), failed)
    BY <1>3 DEF Handle, Steps, BridgesInv
  <2>2. Asked(e)' /\ Returned(e)'
    BY <1>1, <2>1 DEF Asked, Returned, Handled, Answering
  <2> QED BY <2>1, <2>2, OneExchangeSteps
<1> QED BY <1>2, <1>3

\* The exchange ends at the node that began it.
LEMMA EndingKeeps ==
  ASSUME BridgesInv, NEW e \in Exchanges,
         \/ PostFails(e) \/ BuildResponse(e)
         \/ \E error \in {"none", "object", "text"} : ForeignAnswer(e, error)
  PROVE  BridgesInv'
<1>1. Asked(e) /\ Returned(e)
  BY DEF BridgesInv
<1>2. /\ Steps(e) /\ stage[e] # "idle" /\ sent'[e] = sent[e]
      /\ fails'[e] = fails[e] /\ received'[e] = received[e]
  BY DEF PostFails, BuildResponse, ForeignAnswer, Came, Steps, BridgesInv
<1>3. ASSUME stage'[e] \in {"answered", "returned", "raised"} PROVE Asked(e)'
  BY <1>1, <1>2, <1>3 DEF Asked, Handled
<1>4. CASE PostFails(e)
  <2>1. stage'[e] = "returned" /\ response'[e] = [corr |-> Tag(e, sent[e]), failed |-> TRUE]
    BY <1>4 DEF PostFails, Came, BridgesInv
  <2>2. Returned(e)'
    BY <1>1, <1>2, <2>1 DEF Returned
  <2> QED BY <1>2, <1>3, <2>1, <2>2, OneExchangeSteps
<1>5. CASE BuildResponse(e) /\ reply[e].error = "text"
  <2>1. stage'[e] = "raised"
    BY <1>5 DEF BuildResponse, BridgesInv
  <2>2. Returned(e)'
    BY <1>1, <1>2, <2>1 DEF Returned
  <2> QED BY <1>2, <1>3, <2>1, <2>2, OneExchangeSteps
<1>6. CASE BuildResponse(e) /\ reply[e].error # "text"
  <2> DEFINE failed == reply[e].error # "none"
  <2>1. /\ stage[e] = "answered" /\ stage'[e] = "returned"
        /\ response'[e] = [corr |-> Tag(e, sent[e]), failed |-> failed]
    BY <1>6 DEF BuildResponse, Came, BridgesInv
  <2>2. Handled(e) /\ fails[e] /\ sent[e].protocol # "a2a" => failed
    BY <1>1, <2>1 DEF Returned, Translated
  <2>3. failed = TRUE \/ failed = FALSE
    OBVIOUS
  <2> HIDE DEF failed
  <2>4. Returned(e)'
    <3>1. CASE failed = TRUE
      <4>1. response'[e].corr = Tag(e, sent[e]) /\ response'[e].failed = TRUE
        BY <2>1, <3>1
      <4> QED BY <1>1, <1>2, <2>1, <4>1 DEF Returned, Handled
    <3>2. CASE failed = FALSE
      <4>1. response'[e].corr = Tag(e, sent[e]) /\ ~ (Handled(e) /\ fails[e] /\ sent[e].protocol # "a2a")
        BY <2>1, <2>2, <3>2
      <4> QED BY <1>1, <1>2, <2>1, <4>1 DEF Returned, Handled
    <3> QED BY <2>3, <3>1, <3>2
  <2> QED BY <1>2, <1>3, <2>1, <2>4, OneExchangeSteps
<1>7. ASSUME NEW error \in {"none", "object", "text"}, ForeignAnswer(e, error) PROVE BridgesInv'
  <2>1. stage[e] = "posted" /\ stage'[e] = "answered"
    BY <1>7 DEF ForeignAnswer, BridgesInv
  <2>2. ~ Handled(e) /\ ~ Handled(e)'
    BY <1>1, <1>2, <2>1 DEF Asked, Handled
  <2>3. Returned(e)'
    BY <1>1, <1>2, <2>1, <2>2 DEF Returned
  <2> QED BY <1>2, <1>3, <2>1, <2>3, OneExchangeSteps
<1> QED BY <1>4, <1>5, <1>6, <1>7

LEMMA BridgesInvStep == BridgesInv /\ [BridgesNext]_bridgeVars => BridgesInv'
<1> SUFFICES ASSUME BridgesInv, [BridgesNext]_bridgeVars PROVE BridgesInv'
  OBVIOUS
<1>1. CASE UNCHANGED bridgeVars
  BY <1>1 DEF bridgeVars, BridgesInv, Asked, Returned, Handled, Answering
<1> QED BY <1>1, BeginningKeeps, PeerKeeps, EndingKeeps DEF BridgesNext

\* BridgesAlone of the components' model adds the others, which stay as they are.
ExchangeSpec == BridgesInit /\ [][BridgesNext]_bridgeVars

\* What a protocol has a request for arrives as what it was, and its outcome comes back
\* under its id.
THEOREM MeaningIsKept == ExchangeSpec => []ExchangeKeepsItsMeaning
<1>1. BridgesInv => ExchangeKeepsItsMeaning
  <2> SUFFICES ASSUME BridgesInv, NEW e \in Exchanges, Handled(e)
               PROVE
         /\ Native(sent[e]) => received[e] = [type |-> sent[e].type, method |-> sent[e].method,
                                              corr |-> Tag(e, sent[e])]
         /\ stage[e] = "answered" /\ (Native(sent[e]) \/ Numbered(sent[e])) =>
              received[e].type = "NOTIFICATION" \/ reply[e].id = Tag(e, sent[e])
         /\ stage[e] = "returned" =>
              /\ fails[e] /\ sent[e].protocol # "a2a" => response[e].failed
              /\ response[e].corr = Tag(e, sent[e])
    BY DEF ExchangeKeepsItsMeaning, Handled, Native, Numbered
  <2>1. Asked(e) /\ Returned(e)
    BY DEF BridgesInv
  <2>2. ASSUME stage[e] = "answered", received[e].type # "NOTIFICATION",
               Native(sent[e]) \/ Numbered(sent[e])
        PROVE  reply[e].id = Tag(e, sent[e])
    <3>1. reply[e].id = Answering(e)
      BY <2>1, <2>2 DEF Returned, Translated
    <3>2. received[e].corr = Tag(e, sent[e]) /\ Tag(e, sent[e]) # NoId
      BY <2>1, <2>2, BridgesConstantsOK DEF Asked, Numbered, Tag, BridgesConstantsOK
    <3> QED BY <3>1, <3>2 DEF Answering
  <2> QED BY <2>1, <2>2 DEF Asked, Returned
<1> QED BY BridgesInvInit, BridgesInvStep, <1>1, PTL DEF ExchangeSpec

\* What is posted has the number of the message, the message's own id, or none.
PostsNumbered ==
  /\ payload = [e \in Exchanges |-> payload[e]]
  /\ \A e \in Exchanges : payload[e].id \in Numbers \cup {e, NoId}

LEMMA TranslatedNumbered ==
  ASSUME NEW e \in Exchanges, NEW m \in Outgoing
  PROVE  FromAURC(e, m.protocol, m).id \in Numbers \cup {e, NoId}
<1>1. Tag(e, m) \in Numbers \cup {e, NoId} /\ Unasked.id = NoId
  BY DEF Tag, Outgoing, Unasked
<1>2. ToMCP(e, m).id \in Numbers \cup {e, NoId}
  BY <1>1 DEF ToMCP
<1>3. ToA2A(e, m).id \in Numbers \cup {e, NoId}
  BY <1>1 DEF ToA2A
<1>4. ToACP(e, m).id \in Numbers \cup {e, NoId}
  BY <1>1 DEF ToACP
<1>5. m.protocol \in {"mcp", "a2a", "acp"}
  BY DEF Outgoing, Protocols
<1> QED BY <1>2, <1>3, <1>4, <1>5 DEF FromAURC

LEMMA PostsNumberedStep == PostsNumbered /\ [BridgesNext]_bridgeVars => PostsNumbered'
<1> SUFFICES ASSUME PostsNumbered, [BridgesNext]_bridgeVars PROVE PostsNumbered'
  OBVIOUS
<1>1. ASSUME payload' = payload PROVE PostsNumbered'
  BY <1>1 DEF PostsNumbered
<1>2. ASSUME NEW e \in Exchanges, NEW body, body.id \in Numbers \cup {e, NoId},
             payload' = [payload EXCEPT ![e] = body]
      PROVE  PostsNumbered'
  BY <1>2 DEF PostsNumbered
<1>3. ASSUME NEW e \in Exchanges, NEW m \in Outgoing, Forward(e, m) PROVE PostsNumbered'
  BY <1>2, <1>3, TranslatedNumbered DEF Forward
<1>4. ASSUME NEW e \in Exchanges, NEW p, NEW method, NEW id \in Numbers \cup {NoId},
             ClientPosts(e, p, method, id)
      PROVE  PostsNumbered'
  <2>1. [method |-> method, id |-> id].id \in Numbers \cup {e, NoId}
    OBVIOUS
  <2> QED BY <1>2, <1>4, <2>1 DEF ClientPosts
<1>5. ASSUME NEW e \in Exchanges,
             \/ \E m \in Outgoing : ForwardNowhere(e, m)
             \/ \E error \in {"none", "object", "text"} : ForeignAnswer(e, error)
             \/ \E failed \in BOOLEAN : Handle(e, failed)
             \/ PostFails(e) \/ BuildResponse(e) \/ Receive(e)
      PROVE  PostsNumbered'
  BY <1>1, <1>5 DEF ForwardNowhere, ForeignAnswer, Handle, PostFails, BuildResponse, Receive
<1>6. CASE UNCHANGED bridgeVars
  BY <1>1, <1>6 DEF bridgeVars
<1> QED BY <1>3, <1>4, <1>5, <1>6 DEF BridgesNext

\* An exchange is at one of its stages, and what is posted has an id that can be answered
\* to, if it has one.
THEOREM BridgesTypeCorrect == ExchangeSpec => []BridgesTypeOK
<1>1. BridgesInit => PostsNumbered
  BY DEF BridgesInit, PostsNumbered
<1>2. BridgesInv /\ PostsNumbered => BridgesTypeOK
  BY DEF BridgesInv, PostsNumbered, BridgesTypeOK
<1> QED
  BY BridgesInvInit, BridgesInvStep, PostsNumberedStep, <1>1, <1>2, PTL DEF ExchangeSpec

-----------------------------------------------------------------------------
(***************************************************************************)
(* The components side by side.  Each behaves as its own specification     *)
(* allows, so what was proved of one alone holds in the composition.       *)
(***************************************************************************)

\* A step of the composition is a step of each component, or none of it.
LEMMA EachStepsAlone ==
  [Next]_vars =>
    /\ [AuthzNext]_authzVars /\ [ChainNext]_chainVars /\ [AuthNext]_authVars
    /\ [TrailNext]_trailVars /\ [SessionsNext]_sessionVars /\ [ContextsNext]_contextVars
    /\ [RegistryNext]_registryVars /\ [BridgesNext]_bridgeVars /\ [LLMNext]_llmVars
<1> SUFFICES ASSUME [Next]_vars
             PROVE  /\ AuthzNext \/ UNCHANGED authzVars
                    /\ ChainNext \/ UNCHANGED chainVars
                    /\ AuthNext \/ UNCHANGED authVars
                    /\ TrailNext \/ UNCHANGED trailVars
                    /\ SessionsNext \/ UNCHANGED sessionVars
                    /\ ContextsNext \/ UNCHANGED contextVars
                    /\ RegistryNext \/ UNCHANGED registryVars
                    /\ BridgesNext \/ UNCHANGED bridgeVars
                    /\ LLMNext \/ UNCHANGED llmVars
  OBVIOUS
<1>1. CASE UNCHANGED vars
  BY <1>1 DEF vars
<1>2. CASE Next
  BY <1>2 DEF Next, OthersStay
<1> QED BY <1>1, <1>2

\* The composition implements the specification of each component.
THEOREM ComponentsAreThemselves ==
  Spec => /\ AuthzSpec /\ ChainSpec /\ AuthSpec /\ TrailSpec /\ SessionsSpec
          /\ ContextsSpec /\ RegistrySpec /\ ExchangeSpec /\ LLMSpec
<1>1. Init => /\ AuthzInit /\ ChainInit /\ AuthInit /\ TrailInit /\ SessionsInit
              /\ ContextsInit /\ RegistryInit /\ BridgesInit /\ LLMInit
  BY DEF Init
<1> QED
  BY <1>1, EachStepsAlone, PTL
  DEF Spec, AuthzSpec, ChainSpec, AuthSpec, TrailSpec, SessionsSpec, ContextsSpec,
      RegistrySpec, ExchangeSpec, LLMSpec

\* Every component stays within its types and bounds.
THEOREM ComponentsTypeCorrect == Spec => []ComponentsTypeOK
<1>1. /\ AuthzTypeOK /\ ChainTypeOK /\ AuthTypeOK /\ TrailTypeOK /\ SessionsTypeOK
      /\ ContextsTypeOK /\ RegistryTypeOK /\ BridgesTypeOK /\ LLMTypeOK
      => ComponentsTypeOK
  BY DEF ComponentsTypeOK
<1> QED
  BY <1>1, ComponentsAreThemselves, AuthzTypeCorrect, ChainTypeCorrect, AuthTypeCorrect,
     TrailTypeCorrect, SessionsTypeCorrect, ContextsTypeCorrect, RegistryTypeCorrect,
     BridgesTypeCorrect, LLMTypeCorrect, PTL

\* What the run of the components checks holds of them side by side, for every value of
\* the constants.
THEOREM ComponentsCorrect ==
  Spec => /\ [](NoHourExceedsTheLimit /\ NothingPassesUnrecorded /\ EffectiveIsIntersection)
          /\ [](BuilderIsAccepted /\ FilesKeepTheLatest /\ MemoryIsWhole /\ ConversationsAreWhole)
          /\ [](ServedAsSaved /\ HeardOfIsListed /\ LoopsEndHonestly /\ ExchangeKeepsItsMeaning)
          /\ CredentialStillStands
BY ComponentsAreThemselves, HourIsLimited, AllIsRecorded, AcceptedIsIntersection,
   BuiltIsAccepted, FilesAreTheEnd, MemoryStaysWhole, ListingIsWhole, SavedIsServed,
   HeardOfStaysListed, LoopsAreHonest, MeaningIsKept, AcceptedByWhatStands, PTL
=============================================================================
