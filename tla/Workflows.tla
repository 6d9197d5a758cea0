------------------------------ MODULE Workflows ------------------------------
(***************************************************************************)
(* The workflow patterns (workflows/orchestrator.py): chains, routes,      *)
(* fan-outs, orchestrated workers and evaluator loops, alone, inside one   *)
(* another and side by side, and the correlation id their hops carry.      *)
(*                                                                         *)
(* A pattern runs in the asyncio task that calls its execute(), and a      *)
(* fan-out creates a task for each part.  Every task has a context of its  *)
(* own, copied from its creator, and the correlation id lives there.       *)
(*                                                                         *)
(* Until a task suspends nobody else runs (current), so a step is smaller  *)
(* here than what a task does between two suspensions.                     *)
(*                                                                         *)
(* Not modelled: what flows from one step to the next, which value wins a  *)
(* vote, delegates with a correlation id of their own, handlers that end   *)
(* as cancelled although nobody cancelled their task.                      *)
(***************************************************************************)
EXTENDS Naturals, Sequences, FiniteSets

CONSTANTS
  Roots,      \* tasks of the program, which execute patterns one after another
  MaxKids,    \* bound: tasks of fan-outs at the same time
  None,
  Plans,      \* patterns
  Kind,       \* pattern -> "chain", "route", "all", "vote", "first",
              \* "orchestrate" or "optimize"
  Parts,      \* pattern -> its steps, routes, tasks or workers: other patterns,
              \* or "hop" for a RouterDelegate or another handler
  Programs,   \* what the program executes itself
  MaxRounds,  \* max_iterations of "optimize"
  MaxRuns,    \* bound: executions the program starts
  MaxLeft     \* bound: tasks that earlier executions have left when one starts

Kids == 1..MaxKids

ASSUME WorkflowConstantsOK ==
  /\ MaxKids \in Nat /\ MaxRounds \in Nat /\ MaxRuns \in Nat /\ MaxLeft \in Nat
  /\ Roots \cap Kids = {} /\ None \notin Roots \cup Nat
  /\ "hop" \notin Plans /\ None \notin Plans
  /\ Programs \subseteq Plans \cup {"hop"}
  /\ Kind \in [Plans -> {"chain", "route", "all", "vote", "first", "orchestrate", "optimize"}]
  /\ \A p \in Plans : Parts[p] \in Seq(Plans \cup {"hop"})
  /\ \A p \in Plans : Kind[p] = "vote" => Parts[p] # <<>>

VARIABLES
  task,     \* the asyncio tasks
  current,  \* the task that runs, if one does
  minted,   \* correlation ids so far: 1, 2, ...
  \* History, read by properties only:
  runs,     \* executions begun by the program
  hops,     \* execution and correlation id of each message that was routed
  verdict   \* what the pattern has returned that has just ended

vars == <<task, current, minted, runs, hops, verdict>>

Tasks == Roots \cup Kids

-----------------------------------------------------------------------------

\* A task: where it is, what it is about to call or what it got back, its
\* correlation id, the patterns it is in, whether cancel() was called on it
\* and (history) the execution it is a part of and whether its creator was
\* cancelled while it raced.
Fresh(at, arg, ctx, run) ==
  [at |-> at, arg |-> arg, ctx |-> ctx, frames |-> <<>>, cancel |-> FALSE,
   run |-> run, deserted |-> FALSE]

\* A task of a fan-out that is over.
Over(outcome) == Fresh("done", outcome, None, 0)

\* A pattern being executed: the context to restore, how far it is, how many of
\* its parts returned and raised, the tasks it still waits for.
Frame(p, token) ==
  [plan |-> p, token |-> token, pos |-> 1, good |-> 0, bad |-> 0, kids |-> {}]

Top(t)  == task[t].frames[Len(task[t].frames)]
Deep(t) == Len(task[t].frames)

Waiting(t)  == task[t].at = "kids"
Awaited     == UNION {Top(t).kids : t \in {u \in Tasks : Waiting(u)}}
FreeKids    == {k \in Kids : task[k].at = "done" /\ k \notin Awaited}

\* gather() hands a cancellation on to its tasks.
Gathers(t) == Waiting(t) /\ Kind[Top(t).plan] # "first"

DoomedWithin[n \in 0..MaxKids] ==
  IF n = 0 THEN {t \in Tasks : task[t].cancel}
  ELSE LET before == DoomedWithin[n - 1]
       IN  before \cup UNION {Top(t).kids : t \in {u \in before : Gathers(u)}}

\* Tasks in which a CancelledError is raised when they run next.
Doomed == DoomedWithin[MaxKids]

-----------------------------------------------------------------------------
(* The task that runs.                                                     *)

Running(t, at) == current = t /\ task[t].at = at

\* _workflow_correlation.get() or a new id
CurrentId(t) == IF task[t].ctx = None THEN minted + 1 ELSE task[t].ctx
Mint(t)      == minted' = IF task[t].ctx = None THEN minted + 1 ELSE minted

\* RouterDelegate.__call__ up to the handler, or any other handler.
CallHop(t) ==
  /\ Running(t, "call") /\ task[t].arg = "hop"
  /\ hops' = hops \cup {[run |-> task[t].run, id |-> CurrentId(t)]}
  /\ Mint(t)
  /\ task' = [task EXCEPT ![t].at = "hop", ![t].arg = None]
  /\ current' = None
  /\ UNCHANGED <<runs, verdict>>

\* execute() enters its correlation scope.
Enter(t) ==
  /\ Running(t, "call") /\ task[t].arg \in Plans
  /\ Mint(t)
  /\ task' = [task EXCEPT ![t].at = "next", ![t].arg = None,
                          ![t].ctx = CurrentId(t),
                          ![t].frames = Append(@, Frame(task[t].arg, task[t].ctx))]
  /\ UNCHANGED <<current, runs, hops, verdict>>

\* A fault: the scope is not left.
LeftOpen(t, outcome) ==
  [task EXCEPT ![t].at = "back", ![t].arg = outcome,
               ![t].frames = SubSeq(@, 1, Deep(t) - 1)]

\* The task with its innermost pattern left, and its scope with it.
Left(t, outcome) ==
  [task EXCEPT ![t].at = "back", ![t].arg = outcome,
               ![t].ctx = Top(t).token,
               ![t].frames = SubSeq(@, 1, Deep(t) - 1)]

\* execute() returns a WorkflowResult, for a failure too: to a pattern around
\* it, that is a value like any other.
Return(t, success) ==
  /\ task' = Left(t, "value")
  /\ verdict' = [plan |-> Top(t).plan, success |-> success,
                 good |-> Top(t).good, bad |-> Top(t).bad]
  /\ UNCHANGED current

Call(t, item) ==
  /\ task' = [task EXCEPT ![t].at = "call", ![t].arg = item]
  /\ UNCHANGED <<current, verdict>>

\* One task for each part, with a copy of the context.
Spawn(t, items) ==
  LET n == Len(items)
      Kid(i) == CHOOSE k \in FreeKids : Cardinality({j \in FreeKids : j < k}) = i - 1
      new == {Kid(i) : i \in 1..n}
  IN  \/ /\ n = 0
         /\ task' = [task EXCEPT ![t].frames[Deep(t)].pos = @ + 1]
         /\ UNCHANGED <<current, verdict>>
      \/ /\ n \in 1..Cardinality(FreeKids)
         /\ task' = [k \in Tasks |->
              IF k = t THEN [task[t] EXCEPT !.at = "kids", !.frames[Deep(t)].kids = new]
              ELSE IF k \in new
              THEN Fresh("begin", items[CHOOSE i \in 1..n : Kid(i) = k],
                         task[t].ctx, task[t].run)
              ELSE task[k]]
         /\ current' = None
         /\ UNCHANGED verdict

-----------------------------------------------------------------------------
(* What each pattern does next, from how far it is.                        *)

Chain(t) ==
  LET f == Top(t) IN
  IF f.pos <= Len(Parts[f.plan]) THEN Call(t, Parts[f.plan][f.pos]) ELSE Return(t, TRUE)

\* The classifier, then the route it names, if there is one of that name.
RouteOne(t) ==
  LET f == Top(t) IN
  CASE f.pos = 1 -> Call(t, "hop")
    [] f.pos = 2 -> \/ Return(t, FALSE)
                    \/ \E i \in DOMAIN Parts[f.plan] : Call(t, Parts[f.plan][i])
    [] f.pos > 2 -> Return(t, TRUE)

\* A fault: a fan-out with a task that failed still counts as a success.
GatherLeniently(t) ==
  LET f == Top(t) IN
  IF f.pos = 1 THEN Spawn(t, Parts[f.plan]) ELSE Return(t, f.good > 0 \/ f.bad = 0)

GatherAll(t) ==
  LET f == Top(t) IN
  IF f.pos = 1 THEN Spawn(t, Parts[f.plan]) ELSE Return(t, f.bad = 0)

\* Votes are counted when there is one; a failed task does not spoil them.
Vote(t) ==
  LET f == Top(t) IN
  IF f.pos = 1 THEN Spawn(t, Parts[f.plan]) ELSE Return(t, f.good > 0)

Race(t) ==
  LET f == Top(t) IN
  IF f.pos = 1 THEN Spawn(t, Parts[f.plan]) ELSE Return(t, f.good > 0)

\* The orchestrator, the workers it names, and the synthesizer if there is one
\* and there is anything to synthesize.  A worker that does not exist fails.
Orchestrate(t) ==
  LET f == Top(t) IN
  CASE f.pos = 1 -> Call(t, "hop")
    [] f.pos = 2 -> \E n \in 0..Len(Parts[f.plan]) : Spawn(t, SubSeq(Parts[f.plan], 1, n))
    [] f.pos = 3 -> \/ f.good > 0 /\ Call(t, "hop")
                    \/ Return(t, f.bad = 0)
    [] f.pos > 3 -> Return(t, f.bad = 0)

\* The generator at odd, the evaluator at even positions.
Optimize(t) ==
  IF Top(t).pos <= 2 * MaxRounds THEN Call(t, "hop") ELSE Return(t, FALSE)

Proceed(t) ==
  /\ Running(t, "next")
  /\ LET kind == Kind[Top(t).plan] IN
       \/ kind = "chain"       /\ Chain(t)
       \/ kind = "route"       /\ RouteOne(t)
       \/ kind = "all"         /\ GatherAll(t)
       \/ kind = "vote"        /\ Vote(t)
       \/ kind = "first"       /\ Race(t)
       \/ kind = "orchestrate" /\ Orchestrate(t)
       \/ kind = "optimize"    /\ Optimize(t)
  /\ UNCHANGED <<minted, runs, hops>>

-----------------------------------------------------------------------------
(* A call comes back: "value", "error" or "cancelled".                     *)

GoOn(t, pos) ==
  /\ task' = [task EXCEPT ![t].at = "next", ![t].arg = None,
                          ![t].frames[Deep(t)].pos = pos]
  /\ verdict' = None
  /\ UNCHANGED current

GotValue(t) ==
  LET f == Top(t) IN
  IF Kind[f.plan] = "optimize" /\ f.pos % 2 = 0
  THEN Return(t, TRUE) \/ GoOn(t, f.pos + 1)
  ELSE GoOn(t, f.pos + 1)

\* An evaluator loop goes on with its next round; all others fail.
GotError(t) ==
  LET f == Top(t) IN
  IF Kind[f.plan] = "optimize"
  THEN GoOn(t, IF f.pos % 2 = 0 THEN f.pos + 1 ELSE f.pos + 2)
  ELSE Return(t, FALSE)

\* A fault: a cancellation is a failure like any other.
GotSwallowed(t) == Return(t, FALSE)

\* A CancelledError is not an Exception: it passes every pattern by.
GotCancelled(t) ==
  /\ task' = Left(t, "cancelled")
  /\ verdict' = None
  /\ UNCHANGED current

Back(t) ==
  /\ Running(t, "back") /\ Deep(t) > 0
  /\ \/ task[t].arg = "value" /\ GotValue(t)
     \/ task[t].arg = "error" /\ GotError(t)
     \/ task[t].arg = "cancelled" /\ GotCancelled(t)
  /\ UNCHANGED <<minted, runs, hops>>

\* The task has nothing left to do; a root may execute something else.
Finish(t) ==
  /\ Running(t, "back") /\ Deep(t) = 0
  /\ task' = [task EXCEPT ![t] = IF t \in Roots
                                 THEN [@ EXCEPT !.at = "idle", !.arg = None,
                                                !.run = 0, !.cancel = FALSE]
                                 ELSE Over(task[t].arg)]
  /\ current' = None
  /\ verdict' = None
  /\ UNCHANGED <<minted, runs, hops>>

-----------------------------------------------------------------------------
(* The event loop picks a task.                                            *)

Begin(k) ==
  /\ current = None
  /\ task[k].at = "begin"
  /\ IF k \in Doomed
     THEN task' = [task EXCEPT ![k] = Over("cancelled")] /\ UNCHANGED current
     ELSE task' = [task EXCEPT ![k].at = "call"] /\ current' = k
  /\ UNCHANGED <<minted, runs, hops, verdict>>

\* The handler returns or raises, or a denial is raised for it.
HopEnds(t, outcome) ==
  /\ current = None
  /\ task[t].at = "hop" /\ t \notin Doomed
  /\ task' = [task EXCEPT ![t].at = "back", ![t].arg = outcome]
  /\ current' = t
  /\ UNCHANGED <<minted, runs, hops, verdict>>

HopCancelled(t) ==
  /\ current = None
  /\ task[t].at = "hop" /\ t \in Doomed
  /\ task' = [task EXCEPT ![t].at = "back", ![t].arg = "cancelled", ![t].cancel = FALSE]
  /\ current' = t
  /\ UNCHANGED <<minted, runs, hops, verdict>>

Ended(k, outcome) == task[k].at = "done" /\ task[k].arg = outcome

\* A fault: a failed task is waited for as if it could still succeed.
GatherEndsWell(t) ==
  /\ current = None
  /\ Gathers(t)
  /\ \A k \in Top(t).kids : Ended(k, "value")
  /\ task' = [task EXCEPT ![t].at = "next",
                          ![t].frames[Deep(t)].pos = @ + 1,
                          ![t].frames[Deep(t)].good = Cardinality(Top(t).kids),
                          ![t].frames[Deep(t)].kids = {}]
  /\ current' = t
  /\ UNCHANGED <<minted, runs, hops, verdict>>

\* gather() is over when all its tasks are.
GatherEnds(t) ==
  /\ current = None
  /\ Gathers(t)
  /\ \A k \in Top(t).kids : task[k].at = "done"
  /\ LET Count(outcome) == Cardinality({k \in Top(t).kids : Ended(k, outcome)})
     IN  task' = IF t \in Doomed
                 THEN [task EXCEPT ![t].at = "back", ![t].arg = "cancelled",
                                   ![t].cancel = FALSE]
                 ELSE [task EXCEPT ![t].at = "next",
                                   ![t].frames[Deep(t)] =
                                     [Top(t) EXCEPT !.pos = @ + 1, !.good = Count("value"),
                                                    !.bad = Count("error"), !.kids = {}]]
  /\ current' = t
  /\ UNCHANGED <<minted, runs, hops, verdict>>

Races(t) == Waiting(t) /\ ~ Gathers(t)

\* A fault: the losers are left to themselves.
WonCarelessly(t, k) ==
  /\ current = None
  /\ Races(t) /\ t \notin Doomed
  /\ k \in Top(t).kids /\ Ended(k, "value")
  /\ task' = [task EXCEPT ![t].at = "next",
                          ![t].frames[Deep(t)].pos = @ + 1,
                          ![t].frames[Deep(t)].good = 1,
                          ![t].frames[Deep(t)].kids = {}]
  /\ current' = t
  /\ UNCHANGED <<minted, runs, hops, verdict>>

\* The first success of a race: cancel() for all that have not finished, and
\* nobody waits for them.
Won(t, k) ==
  /\ current = None
  /\ Races(t) /\ t \notin Doomed
  /\ k \in Top(t).kids /\ Ended(k, "value")
  /\ task' = [u \in Tasks |->
       IF u = t
       THEN [task[t] EXCEPT !.at = "next",
                            !.frames[Deep(t)] =
                              [Top(t) EXCEPT !.pos = @ + 1, !.good = 1, !.kids = {}]]
       ELSE IF u \in Top(t).kids /\ task[u].at # "done"
       THEN [task[u] EXCEPT !.cancel = TRUE]
       ELSE task[u]]
  /\ current' = t
  /\ UNCHANGED <<minted, runs, hops, verdict>>

\* A failure of a race: wait for the others, if there are any.
Lost(t, k) ==
  /\ current = None
  /\ Races(t) /\ t \notin Doomed
  /\ k \in Top(t).kids /\ Ended(k, "error")
  /\ LET over == Top(t).kids = {k} IN
       /\ task' = [task EXCEPT ![t].at = IF over THEN "next" ELSE "kids",
                               ![t].frames[Deep(t)] =
                                 [Top(t) EXCEPT !.pos = IF over THEN @ + 1 ELSE @,
                                                !.bad = @ + 1, !.kids = @ \ {k}]]
       /\ current' = IF over THEN t ELSE None
  /\ UNCHANGED <<minted, runs, hops, verdict>>

\* Who waits for the first of a race is cancelled; the racers are not.
RaceCancelled(t) ==
  /\ current = None
  /\ Races(t) /\ t \in Doomed
  /\ task' = [u \in Tasks |->
       IF u = t THEN [task[t] EXCEPT !.at = "back", !.arg = "cancelled", !.cancel = FALSE]
       ELSE IF u \in Top(t).kids THEN [task[u] EXCEPT !.deserted = TRUE]
       ELSE task[u]]
  /\ current' = t
  /\ UNCHANGED <<minted, runs, hops, verdict>>

-----------------------------------------------------------------------------
(* The program.                                                            *)

Start(r, item) ==
  /\ current = None
  /\ task[r].at = "idle"
  /\ runs < MaxRuns /\ Cardinality(Kids \ FreeKids) <= MaxLeft
  /\ runs' = runs + 1
  /\ task' = [task EXCEPT ![r].at = "call", ![r].arg = item, ![r].run = runs + 1]
  /\ current' = r
  /\ UNCHANGED <<minted, hops, verdict>>

CancelRoot(r) ==
  /\ current = None
  /\ task[r].at \in {"hop", "kids"} /\ ~ task[r].cancel
  /\ task' = [task EXCEPT ![r].cancel = TRUE]
  /\ UNCHANGED <<current, minted, runs, hops, verdict>>

Init ==
  /\ task = [t \in Tasks |->
               Fresh(IF t \in Roots THEN "idle" ELSE "done", None, None, 0)]
  /\ current = None
  /\ minted = 0 /\ runs = 0 /\ hops = {}
  /\ verdict = None

TaskStep(t) ==
  \/ CallHop(t) \/ Enter(t) \/ Proceed(t) \/ Back(t) \/ Finish(t)
  \/ HopCancelled(t) \/ GatherEnds(t) \/ RaceCancelled(t)
  \/ \E k \in Kids : Won(t, k) \/ Lost(t, k)

HandlerEnds(t) == \E outcome \in {"value", "error"} : HopEnds(t, outcome)

\* What the event loop and the handlers do by themselves.
Progress ==
  \/ \E t \in Tasks : TaskStep(t) \/ HandlerEnds(t)
  \/ \E k \in Kids : Begin(k)

Next ==
  \/ Progress
  \/ \E r \in Roots, item \in Programs : Start(r, item)
  \/ \E r \in Roots : CancelRoot(r)

Spec == Init /\ [][Next]_vars

\* The event loop does not stop while anybody is ready, and handlers end: as no
\* execution goes on for ever, it need not be fair to each task.
Fairness == WF_vars(Progress)

FairSpec == Spec /\ Fairness

-----------------------------------------------------------------------------
(* Properties.                                                             *)

Ids == 0..MaxRuns * (MaxKids + 1)

FrameOK(f) ==
  /\ f.plan \in Plans
  /\ f.token \in Ids \cup {None}
  /\ f.pos \in Nat /\ f.good \in Nat /\ f.bad \in Nat
  /\ f.kids \subseteq Kids
  /\ f.good + f.bad + Cardinality(f.kids) <= Len(Parts[f.plan])

TypeOK ==
  /\ DOMAIN task = Tasks
  /\ \A t \in Tasks :
       /\ task[t].at \in {"idle", "done", "begin", "call", "next", "back", "hop", "kids"}
       /\ task[t].arg \in Plans \cup {"hop", "value", "error", "cancelled", None}
       /\ task[t].ctx \in Ids \cup {None}
       /\ \A i \in DOMAIN task[t].frames : FrameOK(task[t].frames[i])
       /\ task[t].cancel \in BOOLEAN
       /\ task[t].at \in {"call", "next", "back"} <=> current = t
       /\ Waiting(t) => Deep(t) > 0 /\ Top(t).kids # {}
  /\ current \in Tasks \cup {None}
  /\ minted \in Nat /\ runs \in 0..MaxRuns

\* All messages of one execution carry one correlation id, however patterns are
\* nested, whichever of their tasks sends them and whoever was cancelled
\* before, and no two executions share one, neither side by side nor one after
\* the other in the same task (RouterDelegate: "Inside a pattern all hops share
\* one id"; _workflow_correlation_scope).
OneIdPerRun ==
  \A g, h \in hops : g.run = h.run <=> g.id = h.id

\* Nobody works for a result that nobody waits for: the task of a fan-out that
\* has not ended is awaited by its pattern, or has been cancelled
\* (_execute_first), unless the pattern itself was cancelled as its tasks raced.
AwaitedOrCancelled ==
  \A k \in Kids :
    task[k].at \in {"begin", "hop", "kids"} => k \in Awaited \cup Doomed \/ task[k].deserted

\* What a fan-out returns agrees with what became of every one of its tasks: a
\* race fails only if all failed, in whatever order they ended; a gathered
\* fan-out accounts for each task, and succeeds only if none failed.
VerdictAgrees ==
  verdict # None =>
    LET n == Len(Parts[verdict.plan]) IN
    CASE Kind[verdict.plan] = "first" ->
           ~ verdict.success => verdict.bad = n
      [] Kind[verdict.plan] = "all" ->
           /\ verdict.good + verdict.bad = n
           /\ verdict.success <=> verdict.bad = 0
      [] Kind[verdict.plan] = "vote" ->
           verdict.success <=> verdict.bad < n
      [] OTHER -> TRUE

\* Every execution ends, and every task of a fan-out, whoever fails, wins or is
\* cancelled: as the program starts finitely many, nobody is at work in the end.
EveryTaskEnds ==
  <>[](\A t \in Tasks : task[t].at \in {"idle", "done"})

\* The executions that may have somebody left behind: a task whose creator was cancelled
\* while it raced, or will be as soon as it runs.
Loose ==
  {task[k].run : k \in {u \in Kids : task[u].deserted /\ task[u].at # "done"}}
  \cup {task[t].run : t \in {u \in Doomed : Races(u)}}

Answered(t) == task[t].at = "back" /\ task[t].frames = <<>>

Status(t) ==
  IF task[t].at = "idle" THEN "idle" ELSE IF Answered(t) THEN task[t].arg ELSE "busy"

Asked(t) == task[t].cancel \/ (task[t].at = "back" /\ task[t].arg = "cancelled")

Contract == INSTANCE WorkflowContract WITH
  Callers <- Roots,
  status  <- [r \in Roots |-> Status(r)],
  run     <- [r \in Roots |-> task[r].run],
  begun   <- runs,
  asked   <- {r \in Roots : Asked(r)},
  loose   <- Loose,
  sent    <- {h.id : h \in hops},
  pending <- {task[t].run : t \in {u \in Tasks : task[u].at = "hop"}}

\* Every execution gets one answer, as cancelled if and only if its caller was, its
\* messages carry its id and none is sent when it is over, unless somebody was left
\* behind: the patterns, nested in any way, keep the promise of WorkflowContract
\* (orchestrator.py: "Cancel remaining tasks" in _execute_first).
ImplementsContract == Contract!ContractSpec

=============================================================================
