----------------------------- MODULE Lifecycle -----------------------------
(***************************************************************************)
(* The runtime harness (harness/lifecycle.py): agents registered under an  *)
(* id, their nine-state machine, and the asyncio tasks that drive them.    *)
(*                                                                         *)
(* One step is what the event loop runs without giving up control.  A      *)
(* coroutine really suspends in three places only: a cleared pause event,  *)
(* the loop callable, and the backoff sleep of report_error().  All the    *)
(* rest of a call, awaits of other harness methods included, is one step.  *)
(*                                                                         *)
(* Control calls that raise leave everything modelled here unchanged and   *)
(* are not steps.  A run of run_with_lifecycle() that raises ends.         *)
(*                                                                         *)
(* Not modelled: text (reasons, last_error), timestamps, state listeners,  *)
(* the _state_history log and _stop_requested, which nothing reads.        *)
(***************************************************************************)
EXTENDS Naturals, FiniteSets

CONSTANTS
  Agents,      \* agent ids
  Instances,   \* AgentInstance objects that may be created
  Tasks,       \* asyncio tasks that call run_with_lifecycle or report_error
  None,        \* "no instance", "no agent"
  MaxRetries,  \* RecoveryPolicy.max_retries
  Strategies,  \* actions of RecoveryPolicy.strategies ({}: none configured)
  HasBackoff,  \* values that "RecoveryPolicy.backoff_ms is not empty" takes:
               \* both if the policy may be replaced while the harness runs
  Controls,    \* the calls the rest of the program makes
  MaxStarts    \* bound: start() calls per instance

RecoveryActions ==
  {"RETRY_WITH_BACKOFF", "RETRY_ALTERNATIVE", "COMPACT_AND_RETRY",
   "REFRESH_AND_RETRY", "ESCALATE", "FAIL"}

AllControls ==
  {"start", "pause", "resume", "stop", "complete", "restart", "report_error",
   "unregister", "shutdown", "cancel"}

ASSUME ConstantsOK ==
  /\ None \notin Agents /\ None \notin Instances
  /\ MaxRetries \in Nat
  /\ MaxStarts \in Nat
  /\ Strategies \subseteq RecoveryActions
  /\ HasBackoff \subseteq BOOLEAN /\ HasBackoff # {}
  /\ Controls \subseteq AllControls

VARIABLES
  agents,  \* RuntimeHarness._agents: agent id -> instance or None
  inst,    \* the AgentInstance objects, registered or not
  task     \* the asyncio tasks

vars == <<agents, inst, task>>

-----------------------------------------------------------------------------
(* The state machine of one AgentInstance.                                 *)

States ==
  {"REGISTERING", "READY", "RUNNING", "PAUSED", "FAILING", "RECOVERING",
   "COMPLETED", "FAILED", "STOPPED"}

Terminal == {"COMPLETED", "FAILED", "STOPPED"}
Active   == {"RUNNING", "FAILING", "RECOVERING"}

ValidTransitions ==
  [ REGISTERING |-> {"READY", "FAILED"},
    READY       |-> {"RUNNING", "STOPPED"},
    RUNNING     |-> {"PAUSED", "FAILING", "COMPLETED", "STOPPED"},
    PAUSED      |-> {"RUNNING", "STOPPED", "READY"},
    FAILING     |-> {"RECOVERING", "FAILED", "STOPPED"},
    RECOVERING  |-> {"READY", "FAILED"},
    COMPLETED   |-> {},
    FAILED      |-> {},
    STOPPED     |-> {} ]

CanTransition(r, to) ==
  r.state \in DOMAIN ValidTransitions /\ to \in ValidTransitions[r.state]

\* An instance object: state, _retry_count, metrics.active_tasks,
\* total_tasks_completed, total_tasks_failed, whether _pause_event is set, and
\* (history) how often it was started.
Unborn ==
  [state |-> "UNBORN", retry |-> 0, active |-> 0, completed |-> 0,
   failed |-> 0, eventSet |-> TRUE, starts |-> 0]

\* A fault: the transition to READY is left to a later call.
RegisteredOnly == [Unborn EXCEPT !.state = "REGISTERING"]

\* __init__ followed by register()'s transition to READY.
Registered == [Unborn EXCEPT !.state = "READY"]

Started(r, newTask) ==
  [r EXCEPT !.state  = "RUNNING",
            !.retry  = IF newTask THEN 0 ELSE @,
            !.active = @ + 1,
            !.starts = @ + 1]

Paused(r) == [r EXCEPT !.state = "PAUSED", !.eventSet = FALSE]

\* A fault: resume() does not set the pause event.
ResumedStillWaiting(r) == [r EXCEPT !.state = "RUNNING"]

Resumed(r) == [r EXCEPT !.state = "RUNNING", !.eventSet = TRUE]

Decremented(n) == IF n > 0 THEN n - 1 ELSE 0

\* A fault: stop() forgets to let go of the runs that wait for a resume().
StoppedStillWaiting(r) ==
  [r EXCEPT !.state = "STOPPED", !.active = Decremented(@)]

Stopped(r) ==
  [r EXCEPT !.state    = "STOPPED",
            !.eventSet = @ \/ r.state = "PAUSED",
            !.active   = Decremented(@)]

Completed(r) ==
  [r EXCEPT !.state     = "COMPLETED",
            !.active    = Decremented(@),
            !.completed = @ + 1]

\* A fault: restart() hands out fresh retries.
RestartedAfresh(r) == Started([r EXCEPT !.state = "READY"], TRUE)

\* reset_to_ready() unless READY, then start() without new_task.
Restarted(r) == Started([r EXCEPT !.state = "READY"], FALSE)

Recovered(r) == IF r.state = "RECOVERING" THEN [r EXCEPT !.state = "READY"] ELSE r

-----------------------------------------------------------------------------
(* report_error() up to its first suspension.  Each outcome is the record  *)
(* of the instance and what the call does next: give up (return False),    *)
(* return True, sleep for the backoff, or raise.                           *)

Outcome(r, verdict) == [rec |-> r, verdict |-> verdict]

\* _find_strategy: the error text picks one of the configured strategies.
Plans == IF Strategies = {} THEN {"DEFAULT"} ELSE Strategies

\* _execute_recovery, and the default path, on an instance in RECOVERING.
Recovery(r, plan, hasBackoff) ==
  CASE plan = "FAIL" -> Outcome([r EXCEPT !.state = "FAILED"], "recovered")
    [] plan = "RETRY_WITH_BACKOFF" /\ ~hasBackoff -> Outcome(r, "raised")
    [] plan = "DEFAULT" \/ (plan = "RETRY_WITH_BACKOFF" /\ hasBackoff) -> Outcome(r, "backoff")
    [] OTHER -> Outcome(Recovered(r), "recovered")

\* A fault: the retry limit is off by one.
ReportedOneMore(r) ==
  LET counted == [r EXCEPT !.retry = @ + 1]
  IN  IF counted.retry > MaxRetries + 1
      THEN {Outcome([counted EXCEPT !.state = "FAILED", !.failed = @ + 1], "gave_up")}
      ELSE {Recovery([counted EXCEPT !.state = "RECOVERING"], plan, b) :
              plan \in Plans, b \in HasBackoff}

\* A fault: the retries are never counted.
ReportedUncounted(r) ==
  {Recovery([r EXCEPT !.state = "RECOVERING"], plan, b) : plan \in Plans, b \in HasBackoff}

Reported(r) ==
  LET counted == [r EXCEPT !.retry = @ + 1]
  IN  IF counted.retry > MaxRetries
      THEN {Outcome([counted EXCEPT !.state = "FAILED", !.failed = @ + 1], "gave_up")}
      ELSE {Recovery([counted EXCEPT !.state = "RECOVERING"], plan, b) :
              plan \in Plans, b \in HasBackoff}

-----------------------------------------------------------------------------
(* Tasks.  A task is at rest, or inside run_with_lifecycle(): in the loop  *)
(* callable ("loop"), blocked in wait_if_paused() ("paused"), released by  *)
(* the event but not yet scheduled ("woken"), asleep in report_error()     *)
(* ("backoff"); or asleep in a report_error() of its own ("reporting").    *)

AtRest  == {"idle", "returned", "gave_up", "raised", "crashed"}
Running == {"loop", "paused", "woken", "backoff"}
PCs     == AtRest \cup Running \cup {"reporting"}

Rest(pc) == [pc |-> pc, agent |-> None, held |-> None, attempts |-> 0]

\* wait_if_paused(): the pause event decides, not the state.
AfterPauseCheck(r) == IF r.eventSet THEN "loop" ELSE "paused"

\* Event.set() resolves the futures of everyone who waits at that moment; they
\* run later and do not look at the event again.
Released(S) ==
  [t \in Tasks |-> IF task[t].pc = "paused" /\ task[t].held \in S
                   THEN [task[t] EXCEPT !.pc = "woken"]
                   ELSE task[t]]

Present(a) == agents[a] # None

Init ==
  /\ agents = [a \in Agents |-> None]
  /\ inst   = [i \in Instances |-> Unborn]
  /\ task   = [t \in Tasks |-> Rest("idle")]

-----------------------------------------------------------------------------
(* Calls made by the rest of the program.                                  *)

Register(a) ==
  /\ ~Present(a)
  /\ \E i \in Instances :
       /\ inst[i].state = "UNBORN"
       /\ inst'   = [inst EXCEPT ![i] = Registered]
       /\ agents' = [agents EXCEPT ![a] = i]
  /\ UNCHANGED task

\* A fault: an agent is dropped whatever it is doing.
UnregisterAnyway(a) ==
  /\ "unregister" \in Controls
  /\ Present(a)
  /\ agents' = [agents EXCEPT ![a] = None]
  /\ UNCHANGED <<inst, task>>

\* An active agent is stopped first; when stop() raises it stays registered.
Unregister(a) ==
  /\ "unregister" \in Controls
  /\ Present(a)
  /\ LET i == agents[a] IN
       IF inst[i].state \in Active
       THEN /\ CanTransition(inst[i], "STOPPED")
            /\ inst' = [inst EXCEPT ![i] = Stopped(@)]
       ELSE UNCHANGED inst
  /\ agents' = [agents EXCEPT ![a] = None]
  /\ UNCHANGED task

Start(a, newTask) ==
  /\ "start" \in Controls
  /\ Present(a)
  /\ inst[agents[a]].state = "READY"
  /\ inst[agents[a]].starts < MaxStarts
  /\ inst' = [inst EXCEPT ![agents[a]] = Started(@, newTask)]
  /\ UNCHANGED <<agents, task>>

Pause(a) ==
  /\ "pause" \in Controls
  /\ Present(a)
  /\ CanTransition(inst[agents[a]], "PAUSED")
  /\ inst' = [inst EXCEPT ![agents[a]] = Paused(@)]
  /\ UNCHANGED <<agents, task>>

\* The transition is legal from PAUSED, and from READY too.
Resume(a) ==
  /\ "resume" \in Controls
  /\ Present(a)
  /\ CanTransition(inst[agents[a]], "RUNNING")
  /\ inst' = [inst EXCEPT ![agents[a]] = Resumed(@)]
  /\ task' = IF Resumed(inst[agents[a]]).eventSet THEN Released({agents[a]}) ELSE task
  /\ UNCHANGED agents

Stop(a) ==
  /\ "stop" \in Controls
  /\ Present(a)
  /\ CanTransition(inst[agents[a]], "STOPPED")
  /\ inst' = [inst EXCEPT ![agents[a]] = Stopped(@)]
  /\ task' = IF Stopped(inst[agents[a]]).eventSet THEN Released({agents[a]}) ELSE task
  /\ UNCHANGED agents

Complete(a) ==
  /\ "complete" \in Controls
  /\ Present(a)
  /\ CanTransition(inst[agents[a]], "COMPLETED")
  /\ inst' = [inst EXCEPT ![agents[a]] = Completed(@)]
  /\ UNCHANGED <<agents, task>>

Restart(a) ==
  /\ "restart" \in Controls
  /\ Present(a)
  /\ inst[agents[a]].starts < MaxStarts
  /\ inst' = [inst EXCEPT ![agents[a]] = Restarted(@)]
  /\ UNCHANGED <<agents, task>>

\* stop() of every registered agent in turn; a stop() that raises is logged and
\* skipped.
Shutdown ==
  /\ "shutdown" \in Controls
  /\ LET S == {i \in Instances : /\ \E a \in Agents : agents[a] = i
                                 /\ CanTransition(inst[i], "STOPPED")}
     IN  /\ inst' = [i \in Instances |-> IF i \in S THEN Stopped(inst[i]) ELSE inst[i]]
         /\ task' = Released({i \in S : Stopped(inst[i]).eventSet})
  /\ UNCHANGED agents

\* report_error() called directly, by a task that does nothing else meanwhile.
ReportError(t, a) ==
  /\ "report_error" \in Controls
  /\ task[t].pc \in AtRest
  /\ Present(a)
  /\ CanTransition(inst[agents[a]], "FAILING")
  /\ \E o \in Reported(inst[agents[a]]) :
       /\ inst' = [inst EXCEPT ![agents[a]] = o.rec]
       /\ task' = [task EXCEPT ![t] =
                     CASE o.verdict = "backoff"   -> [pc |-> "reporting", agent |-> a,
                                                      held |-> agents[a], attempts |-> 0]
                       [] o.verdict = "gave_up"   -> Rest("gave_up")
                       [] o.verdict = "raised"    -> Rest("raised")
                       [] o.verdict = "recovered" -> Rest("returned")]
  /\ UNCHANGED agents

ReportEnds(t) ==
  /\ task[t].pc = "reporting"
  /\ inst' = [inst EXCEPT ![task[t].held] = Recovered(@)]
  /\ task' = [task EXCEPT ![t] = Rest("returned")]
  /\ UNCHANGED agents

-----------------------------------------------------------------------------
(* run_with_lifecycle()                                                    *)

End(t, pc) == task' = [task EXCEPT ![t] = Rest(pc)]

\* A fault: start() takes an agent in any state.
StartRunUnchecked(t, a, is, newTask, attempts) ==
  LET i == agents[a] IN
  IF i # None
  THEN /\ is[i].starts < MaxStarts
       /\ inst' = [is EXCEPT ![i] = Started(@, newTask)]
       /\ task' = [task EXCEPT ![t] = [pc |-> AfterPauseCheck(is[i]), agent |-> a,
                                       held |-> i, attempts |-> attempts]]
  ELSE /\ inst' = is
       /\ End(t, "raised")

\* start() and wait_if_paused() on the instances as they are after the earlier
\* part of the step; start() raises unless the agent is there and READY.
StartRun(t, a, is, newTask, attempts) ==
  LET i == agents[a] IN
  IF i # None /\ is[i].state = "READY"
  THEN /\ is[i].starts < MaxStarts
       /\ inst' = [is EXCEPT ![i] = Started(@, newTask)]
       /\ task' = [task EXCEPT ![t] = [pc |-> AfterPauseCheck(is[i]), agent |-> a,
                                       held |-> i, attempts |-> attempts]]
  ELSE /\ inst' = is
       /\ End(t, "raised")

BeginRun(t, a) ==
  /\ task[t].pc \in AtRest
  /\ StartRun(t, a, inst, TRUE, 1)
  /\ UNCHANGED agents

\* The loop callable may call wait_if_paused() itself; a missing agent makes it
\* raise, which ends the run.
CheckPause(t) ==
  /\ task[t].pc = "loop"
  /\ LET i == agents[task[t].agent] IN
       IF i = None
       THEN End(t, "crashed")
       ELSE task' = [task EXCEPT ![t].pc = AfterPauseCheck(inst[i]), ![t].held = i]
  /\ UNCHANGED <<agents, inst>>

\* A released waiter runs on, whatever has happened since.
WakeUp(t) ==
  /\ task[t].pc = "woken"
  /\ task' = [task EXCEPT ![t].pc = "loop"]
  /\ UNCHANGED <<agents, inst>>

\* The loop returns without a stop reason: complete().
LoopCompletes(t) ==
  /\ task[t].pc = "loop"
  /\ LET i == agents[task[t].agent] IN
       IF i # None /\ CanTransition(inst[i], "COMPLETED")
       THEN /\ inst' = [inst EXCEPT ![i] = Completed(@)]
            /\ End(t, "returned")
       ELSE /\ UNCHANGED inst
            /\ End(t, "raised")
  /\ UNCHANGED agents

\* The loop returns with a stop reason: report_error(), then another attempt.
LoopFails(t) ==
  /\ task[t].pc = "loop"
  /\ LET i == agents[task[t].agent] IN
       IF i # None /\ CanTransition(inst[i], "FAILING")
       THEN \E o \in Reported(inst[i]) :
              LET is == [inst EXCEPT ![i] = o.rec] IN
              \/ /\ o.verdict = "recovered"
                 /\ StartRun(t, task[t].agent, is, FALSE, task[t].attempts + 1)
              \/ /\ o.verdict = "backoff"
                 /\ inst' = is
                 /\ task' = [task EXCEPT ![t].pc = "backoff", ![t].held = i]
              \/ /\ o.verdict \in {"gave_up", "raised"}
                 /\ inst' = is
                 /\ End(t, o.verdict)
       ELSE /\ UNCHANGED inst
            /\ End(t, "raised")
  /\ UNCHANGED agents

\* report_error() resumes on the instance it put to sleep; start() looks the
\* agent up again.
BackoffEnds(t) ==
  /\ task[t].pc = "backoff"
  /\ StartRun(t, task[t].agent,
              [inst EXCEPT ![task[t].held] = Recovered(@)],
              FALSE, task[t].attempts + 1)
  /\ UNCHANGED agents

\* The loop callable raises.  Nothing in run_with_lifecycle() catches it.
LoopRaises(t) ==
  /\ task[t].pc = "loop"
  /\ End(t, "crashed")
  /\ UNCHANGED <<agents, inst>>

\* The task is cancelled at a suspension point.  Nothing catches that either.
Cancel(t) ==
  /\ "cancel" \in Controls
  /\ task[t].pc \notin AtRest
  /\ End(t, "crashed")
  /\ UNCHANGED <<agents, inst>>

-----------------------------------------------------------------------------

Call(a) ==
  \/ Register(a) \/ Unregister(a)
  \/ \E newTask \in BOOLEAN : Start(a, newTask)
  \/ Pause(a) \/ Resume(a) \/ Stop(a) \/ Complete(a) \/ Restart(a)

LoopEnds(t) == LoopCompletes(t) \/ LoopFails(t) \/ LoopRaises(t)

RunStep(t) == CheckPause(t) \/ WakeUp(t) \/ LoopEnds(t) \/ BackoffEnds(t) \/ ReportEnds(t)

Next ==
  \/ \E a \in Agents : Call(a)
  \/ Shutdown
  \/ \E t \in Tasks, a \in Agents : BeginRun(t, a) \/ ReportError(t, a)
  \/ \E t \in Tasks : RunStep(t) \/ Cancel(t)

Spec == Init /\ [][Next]_vars

\* The event loop runs every ready callback and timer.  A loop callable that is
\* let run again and again ends at some point.
Fairness ==
  \A t \in Tasks :
    /\ WF_vars(WakeUp(t)) /\ WF_vars(BackoffEnds(t)) /\ WF_vars(ReportEnds(t))
    /\ SF_vars(LoopEnds(t))

FairSpec == Spec /\ Fairness

-----------------------------------------------------------------------------
(* Properties                                                              *)

InstanceType ==
  [state : States \cup {"UNBORN"}, retry : Nat, active : Nat, completed : Nat,
   failed : Nat, eventSet : BOOLEAN, starts : Nat]

TaskType ==
  [pc : PCs, agent : Agents \cup {None}, held : Instances \cup {None}, attempts : Nat]

\* Type invariant.  The two states that report_error() and register() only pass
\* through are never seen between two steps, and a task that is not at rest
\* knows its agent and the instance it works on.
TypeOK ==
  /\ agents \in [Agents -> Instances \cup {None}]
  /\ inst \in [Instances -> InstanceType]
  /\ task \in [Tasks -> TaskType]
  /\ \A i \in Instances : inst[i].state \notin {"REGISTERING", "FAILING"}
  /\ \A t \in Tasks : task[t].pc \notin AtRest =>
       task[t].agent \in Agents /\ task[t].held \in Instances

\* Without restart() the pause event is cleared exactly while the agent is
\* PAUSED, so wait_if_paused() blocks only the runs of paused agents and every
\* way out of PAUSED lets them go (pause, resume, stop, wait_if_paused).
PauseEventAgrees ==
  \A i \in Instances : inst[i].eventSet <=> inst[i].state # "PAUSED"

\* A run never stays blocked in wait_if_paused() on an agent that is not PAUSED.
BlockedOnlyWhilePaused ==
  \A t \in Tasks : task[t].pc = "paused" => inst[task[t].held].state = "PAUSED"

\* One agent is driven by one run at a time: start() admits only a READY agent,
\* and an agent whose run is in its loop, waits or backs off is not READY.
OneRunPerAgent ==
  \A t, u \in Tasks :
    task[t].pc \in Running /\ task[u].pc \in Running /\ task[t].agent = task[u].agent
      => t = u

\* A run attempts its loop at most once more than max_retries, whatever pauses,
\* resumes and stops come in between (run_with_lifecycle, report_error).
AttemptsWithinBudget ==
  \A t \in Tasks : task[t].attempts <= MaxRetries + 1

\* metrics.active_tasks drifts by one for every retry, because report_error()
\* never takes back the start() it ends, and by no more than that.
DriftWithinRetries ==
  \A i \in Instances :
    inst[i].active <= inst[i].retry + (IF inst[i].state \in {"RUNNING", "PAUSED"} THEN 1 ELSE 0)

Orphan(i) == inst[i].state # "UNBORN" /\ \A a \in Agents : agents[a] # i

\* An unregistered instance is dead: no sleeping recovery, blocked run or
\* control call changes it again.  unregister() refuses an agent in RECOVERING,
\* which is what keeps a pending backoff from reviving it.
OrphansStayDead ==
  [][\A i \in Instances : Orphan(i) => inst'[i] = inst[i]]_vars

\* The visible life of every agent follows the contract.
Contract == INSTANCE AgentContract WITH
  status <- [a \in Agents |-> IF Present(a) THEN inst[agents[a]].state ELSE "absent"],
  errors <- [a \in Agents |-> IF Present(a) THEN inst[agents[a]].retry ELSE 0]

ImplementsContract == Contract!ContractSpec

\* Once nobody cancels tasks, reports errors from outside or restarts agents,
\* every run ends, unless its agent is never resumed again.
EveryRunEnds ==
  \A t \in Tasks :
    task[t].pc \notin AtRest ~>
      \/ task[t].pc \in AtRest
      \/ [](task[t].pc = "paused" /\ inst[task[t].held].state = "PAUSED")

\* A stop() reaches the runs of the agent, the ones blocked in wait_if_paused()
\* included: none of them stays behind.
StopEndsTheRun ==
  \A t \in Tasks :
    (task[t].pc \in Running /\ inst[task[t].held].state = "STOPPED") ~> task[t].pc \in AtRest

\* tests/test_lifecycle.py:252: after shutdown() every agent is in a terminal
\* state.
ShutdownStopsAll ==
  [][Shutdown => \A a \in Agents : Present(a) => inst'[agents[a]].state \in Terminal]_vars

=============================================================================
