-------------------------- MODULE LifecycleProofs --------------------------
(***************************************************************************)
(* Theorems about Lifecycle, for any set of agents, instances and tasks,   *)
(* any retry limit and any recovery strategies.                            *)
(***************************************************************************)
EXTENDS Lifecycle, TLAPS

-----------------------------------------------------------------------------
(* What the operations on an instance record return.                       *)

\* A well-typed instance as it can be seen between two steps.
Visible == {r \in InstanceType : r.state \notin {"REGISTERING", "FAILING"}}

Verdicts == {"recovered", "backoff", "gave_up", "raised"}

\* Every operation on a visible instance record yields one.
LEMMA VisibleOps ==
  ASSUME NEW r \in Visible, NEW newTask \in BOOLEAN
  PROVE  /\ Unborn \in Visible
         /\ Registered \in Visible
         /\ Started(r, newTask) \in Visible
         /\ Paused(r) \in Visible
         /\ Resumed(r) \in Visible
         /\ Stopped(r) \in Visible
         /\ Completed(r) \in Visible
         /\ Restarted(r) \in Visible
         /\ Recovered(r) \in Visible
<1> USE DEF Visible, InstanceType, States
<1>1. Unborn \in Visible /\ Registered \in Visible
  BY DEF Unborn, Registered
<1>2. ASSUME NEW q \in Visible PROVE Started(q, newTask) \in Visible
  <2>1. q.active + 1 \in Nat /\ q.starts + 1 \in Nat
    OBVIOUS
  <2>2. (IF newTask THEN 0 ELSE q.retry) \in Nat
    OBVIOUS
  <2> QED
    BY <2>1, <2>2 DEF Started
<1>3. Paused(r) \in Visible
  BY DEF Paused
<1>4. Resumed(r) \in Visible
  BY DEF Resumed
<1>5. \A n \in Nat : Decremented(n) \in Nat
  BY DEF Decremented
<1>6. (r.eventSet \/ r.state = "PAUSED") \in BOOLEAN
  OBVIOUS
<1>7. Stopped(r) \in Visible
  BY <1>5, <1>6 DEF Stopped
<1>8. Completed(r) \in Visible
  <2>1. r.completed + 1 \in Nat /\ Decremented(r.active) \in Nat
    BY <1>5
  <2> QED
    BY <2>1 DEF Completed
<1>9. [r EXCEPT !.state = "READY"] \in Visible
  OBVIOUS
<1>10. Restarted(r) \in Visible
  <2> DEFINE q == [r EXCEPT !.state = "READY"]
  <2>1. q.active + 1 \in Nat /\ q.starts + 1 \in Nat /\ q.retry \in Nat
    BY <1>9
  <2> QED
    BY <1>9, <2>1 DEF Restarted, Started
<1>11. Recovered(r) \in Visible
  BY <1>9 DEF Recovered
<1> QED
  BY <1>1, <1>2, <1>3, <1>4, <1>7, <1>8, <1>10, <1>11

\* report_error() leaves a visible instance and one of the four verdicts.  When
\* it returns True at once the agent is READY, or FAILED by the FAIL strategy;
\* when it sleeps the agent is RECOVERING.
LEMMA ReportedOutcome ==
  ASSUME NEW r \in Visible, NEW o \in Reported(r)
  PROVE  /\ o.rec \in Visible
         /\ o.verdict \in Verdicts
         /\ o.rec.eventSet = r.eventSet
         /\ o.rec.state \in {"READY", "RECOVERING", "FAILED"}
         /\ o.verdict = "backoff" => o.rec.state = "RECOVERING"
         /\ o.rec.state = "READY" => o.verdict = "recovered"
<1> DEFINE counted == [r EXCEPT !.retry = @ + 1]
           failed  == [counted EXCEPT !.state = "FAILED", !.failed = @ + 1]
           trying  == [counted EXCEPT !.state = "RECOVERING"]
<1> USE DEF Visible, InstanceType, States
<1>1. counted \in Visible /\ counted.eventSet = r.eventSet
  <2>1. r.retry + 1 \in Nat
    OBVIOUS
  <2> QED
    BY <2>1
<1>2. failed \in Visible /\ failed.eventSet = r.eventSet /\ failed.state = "FAILED"
  <2>1. counted.failed + 1 \in Nat
    BY <1>1
  <2> HIDE DEF counted
  <2> QED
    BY <1>1, <2>1
<1>3. trying \in Visible /\ trying.eventSet = r.eventSet /\ trying.state = "RECOVERING"
  <2> HIDE DEF counted
  <2> QED
    BY <1>1
<1>4. CASE counted.retry > MaxRetries
  <2>1. o = [rec |-> failed, verdict |-> "gave_up"]
    BY <1>4 DEF Reported, Outcome
  <2> HIDE DEF failed
  <2> QED
    BY <1>2, <2>1 DEF Verdicts
<1>5. CASE ~(counted.retry > MaxRetries)
  <2>1. PICK plan \in Plans, b \in HasBackoff : o = Recovery(trying, plan, b)
    BY <1>5 DEF Reported
  <2> DEFINE given_up == [trying EXCEPT !.state = "FAILED"]
             ready    == [trying EXCEPT !.state = "READY"]
  <2> HIDE DEF trying
  <2>2. \/ o = [rec |-> given_up, verdict |-> "recovered"]
        \/ o = [rec |-> trying, verdict |-> "raised"]
        \/ o = [rec |-> trying, verdict |-> "backoff"]
        \/ o = [rec |-> ready, verdict |-> "recovered"]
    BY <1>3, <2>1 DEF Recovery, Recovered, Outcome
  <2>3. given_up \in Visible /\ given_up.eventSet = r.eventSet /\ given_up.state = "FAILED"
    BY <1>3
  <2>4. ready \in Visible /\ ready.eventSet = r.eventSet /\ ready.state = "READY"
    BY <1>3
  <2> HIDE DEF given_up, ready
  <2> QED
    BY <1>3, <2>2, <2>3, <2>4 DEF Verdicts
<1> QED
  BY <1>4, <1>5

-----------------------------------------------------------------------------
(* Type correctness.                                                       *)

\* TypeOK says that the instances are visible ones and that a task at work
\* knows what it works on.
LEMMA TypeOKParts ==
  TypeOK <=> /\ agents \in [Agents -> Instances \cup {None}]
             /\ inst \in [Instances -> Visible]
             /\ task \in [Tasks -> TaskType]
             /\ \A t \in Tasks : task[t].pc \notin AtRest =>
                  task[t].agent \in Agents /\ task[t].held \in Instances
BY DEF TypeOK, Visible

\* Waking waiters keeps the tasks well-typed.
LEMMA ReleasedType ==
  ASSUME TypeOK, NEW S
  PROVE  /\ Released(S) \in [Tasks -> TaskType]
         /\ \A t \in Tasks : Released(S)[t].pc \notin AtRest =>
              Released(S)[t].agent \in Agents /\ Released(S)[t].held \in Instances
BY DEF TypeOK, Released, TaskType, PCs, AtRest, Running

\* start() inside a run keeps the types, on any well-typed instances.
LEMMA StartRunType ==
  ASSUME TypeOK, ConstantsOK, NEW t \in Tasks, NEW a \in Agents,
         NEW is \in [Instances -> Visible], NEW newTask \in BOOLEAN,
         NEW attempts \in Nat,
         StartRun(t, a, is, newTask, attempts), UNCHANGED agents
  PROVE  TypeOK'
<1>1. CASE agents[a] # None /\ is[agents[a]].state = "READY"
  <2>1. agents[a] \in Instances
    BY <1>1 DEF TypeOK
  <2>2. Started(is[agents[a]], newTask) \in Visible
    BY <2>1, VisibleOps
  <2>3. inst' \in [Instances -> Visible]
    BY <1>1, <2>1, <2>2 DEF StartRun
  <2>4. [pc |-> AfterPauseCheck(is[agents[a]]), agent |-> a, held |-> agents[a],
         attempts |-> attempts] \in TaskType
    BY <2>1 DEF TaskType, PCs, Running, AfterPauseCheck
  <2> QED
    BY <1>1, <2>1, <2>3, <2>4 DEF StartRun, TypeOK, Visible
<1>2. CASE ~(agents[a] # None /\ is[agents[a]].state = "READY")
  <2>1. inst' = is /\ End(t, "raised")
    BY <1>2 DEF StartRun
  <2>2. Rest("raised") \in TaskType
    BY DEF Rest, TaskType, PCs, AtRest
  <2> QED
    BY <2>1, <2>2 DEF End, Rest, TypeOK, Visible, AtRest
<1> QED
  BY <1>1, <1>2

LEMMA TypeStep == ConstantsOK /\ TypeOK /\ [Next]_vars => TypeOK'
<1> SUFFICES ASSUME ConstantsOK, TypeOK, [Next]_vars PROVE TypeOK'
  OBVIOUS
<1> USE DEF Present
<1>t. /\ agents \in [Agents -> Instances \cup {None}]
      /\ inst \in [Instances -> Visible]
      /\ task \in [Tasks -> TaskType]
      /\ \A t \in Tasks : task[t].pc \notin AtRest =>
           task[t].agent \in Agents /\ task[t].held \in Instances
  BY TypeOKParts
<1>a. ASSUME NEW a \in Agents, Present(a) PROVE agents[a] \in Instances
  BY <1>t, <1>a
\* A control call replaces one instance and at most wakes waiters.
<1>b. ASSUME NEW i \in Instances, NEW r \in Visible,
             inst' = [inst EXCEPT ![i] = r], agents' = agents,
             task' = task \/ \E S : task' = Released(S)
      PROVE  TypeOK'
  BY <1>b, <1>t, ReleasedType DEF TypeOK, Visible
<1>e. ASSUME NEW t \in Tasks, NEW pc \in AtRest, End(t, pc), agents' = agents,
             inst' \in [Instances -> Visible]
      PROVE  TypeOK'
  <2>1. Rest(pc) \in TaskType /\ Rest(pc).pc = pc
    BY <1>e DEF Rest, TaskType, PCs
  <2> QED
    BY <1>e, <1>t, <2>1 DEF TypeOK, Visible, End
<1>1. ASSUME NEW a \in Agents, Register(a) PROVE TypeOK'
  <2>1. PICK i \in Instances : /\ inst' = [inst EXCEPT ![i] = Registered]
                               /\ agents' = [agents EXCEPT ![a] = i]
    BY <1>1 DEF Register
  <2>2. Registered \in Visible
    BY DEF Registered, Unborn, Visible, InstanceType, States
  <2> QED
    BY <1>1, <1>t, <2>1, <2>2 DEF Register, TypeOK, Visible
<1>2. ASSUME NEW a \in Agents, Unregister(a) PROVE TypeOK'
  <2>1. agents[a] \in Instances
    BY <1>2, <1>a DEF Unregister
  <2>2. inst' \in [Instances -> Visible]
    BY <1>2, <1>t, <2>1, VisibleOps DEF Unregister
  <2> QED
    BY <1>2, <1>t, <2>2 DEF Unregister, TypeOK, Visible
<1>3. ASSUME NEW a \in Agents, NEW newTask \in BOOLEAN, Start(a, newTask) PROVE TypeOK'
  BY <1>3, <1>a, <1>b, <1>t, VisibleOps DEF Start
<1>4. ASSUME NEW a \in Agents, Pause(a) PROVE TypeOK'
  BY <1>4, <1>a, <1>b, <1>t, VisibleOps DEF Pause
<1>5. ASSUME NEW a \in Agents, Resume(a) PROVE TypeOK'
  BY <1>5, <1>a, <1>b, <1>t, VisibleOps DEF Resume
<1>6. ASSUME NEW a \in Agents, Stop(a) PROVE TypeOK'
  BY <1>6, <1>a, <1>b, <1>t, VisibleOps DEF Stop
<1>7. ASSUME NEW a \in Agents, Complete(a) PROVE TypeOK'
  BY <1>7, <1>a, <1>b, <1>t, VisibleOps DEF Complete
<1>8. ASSUME NEW a \in Agents, Restart(a) PROVE TypeOK'
  BY <1>8, <1>a, <1>b, <1>t, VisibleOps DEF Restart
<1>9. ASSUME Shutdown PROVE TypeOK'
  <2>1. \A i \in Instances : Stopped(inst[i]) \in Visible
    BY <1>t, VisibleOps
  <2>2. inst' \in [Instances -> Visible]
    BY <1>9, <1>t, <2>1 DEF Shutdown
  <2>3. \E S : task' = Released(S)
    BY <1>9 DEF Shutdown
  <2> QED
    BY <1>9, <1>t, <2>2, <2>3, ReleasedType DEF Shutdown, TypeOK, Visible
<1>10. ASSUME NEW t \in Tasks, NEW a \in Agents, BeginRun(t, a) PROVE TypeOK'
  BY <1>10, <1>t, StartRunType DEF BeginRun
<1>11. ASSUME NEW t \in Tasks, NEW a \in Agents, ReportError(t, a) PROVE TypeOK'
  <2>1. agents[a] \in Instances
    BY <1>11, <1>a DEF ReportError
  <2>2. PICK o \in Reported(inst[agents[a]]) :
          /\ inst' = [inst EXCEPT ![agents[a]] = o.rec]
          /\ task' = [task EXCEPT ![t] =
                     CASE o.verdict = "backoff"   -> [pc |-> "reporting", agent |-> a,
                                                      held |-> agents[a], attempts |-> 0]
                       [] o.verdict = "gave_up"   -> Rest("gave_up")
                       [] o.verdict = "raised"    -> Rest("raised")
                       [] o.verdict = "recovered" -> Rest("returned")]
    BY <1>11 DEF ReportError
  <2>3. o.rec \in Visible /\ o.verdict \in Verdicts
    BY <1>t, <2>1, ReportedOutcome
  <2>4. inst' \in [Instances -> Visible]
    BY <1>t, <2>1, <2>2, <2>3
  <2>5. CASE o.verdict = "backoff"
    <3>1. task' = [task EXCEPT ![t] = [pc |-> "reporting", agent |-> a,
                                       held |-> agents[a], attempts |-> 0]]
      BY <2>2, <2>5
    <3> QED
      BY <1>11, <1>t, <2>1, <2>4, <3>1 DEF ReportError, TypeOK, Visible, TaskType, PCs, AtRest
  <2>6. CASE o.verdict # "backoff"
    <3>1. \E pc \in AtRest : End(t, pc)
      BY <2>2, <2>3, <2>6 DEF Verdicts, End, AtRest
    <3> QED
      BY <1>11, <1>e, <2>4, <3>1 DEF ReportError
  <2> QED
    BY <2>5, <2>6
<1>12. ASSUME NEW t \in Tasks, ReportEnds(t) PROVE TypeOK'
  <2>1. task[t].held \in Instances
    BY <1>12, <1>t DEF ReportEnds, AtRest
  <2>2. inst' \in [Instances -> Visible]
    BY <1>12, <1>t, <2>1, VisibleOps DEF ReportEnds
  <2> QED
    BY <1>12, <1>e, <2>2 DEF ReportEnds, End, AtRest
<1>13. ASSUME NEW t \in Tasks, CheckPause(t) PROVE TypeOK'
  <2>1. task[t].agent \in Agents
    BY <1>13, <1>t DEF CheckPause, AtRest
  <2>2. CASE agents[task[t].agent] = None
    BY <1>13, <1>e, <1>t, <2>2 DEF CheckPause, AtRest
  <2>3. CASE agents[task[t].agent] # None
    <3>1. agents[task[t].agent] \in Instances
      BY <1>t, <2>1, <2>3
    <3>2. task' = [task EXCEPT ![t].pc = AfterPauseCheck(inst[agents[task[t].agent]]),
                               ![t].held = agents[task[t].agent]]
      BY <1>13, <2>3 DEF CheckPause
    <3>3. AfterPauseCheck(inst[agents[task[t].agent]]) \in PCs
      BY DEF AfterPauseCheck, PCs, Running
    <3> QED
      BY <1>13, <1>t, <2>1, <3>1, <3>2, <3>3 DEF CheckPause, TypeOK, Visible, TaskType
  <2> QED
    BY <2>2, <2>3
<1>14. ASSUME NEW t \in Tasks, WakeUp(t) PROVE TypeOK'
  BY <1>14, <1>t DEF WakeUp, TypeOK, Visible, TaskType, PCs, Running, AtRest
<1>15. ASSUME NEW t \in Tasks, LoopCompletes(t) PROVE TypeOK'
  <2>1. task[t].agent \in Agents
    BY <1>15, <1>t DEF LoopCompletes, AtRest
  <2>2. inst' \in [Instances -> Visible]
    BY <1>15, <1>t, <2>1, VisibleOps DEF LoopCompletes
  <2> QED
    BY <1>15, <1>e, <2>2 DEF LoopCompletes, AtRest
<1>16. ASSUME NEW t \in Tasks, LoopFails(t) PROVE TypeOK'
  <2> DEFINE i == agents[task[t].agent]
  <2>1. task[t].agent \in Agents /\ task[t].attempts \in Nat
    BY <1>16, <1>t DEF LoopFails, AtRest, TaskType
  <2>2. CASE ~(i # None /\ CanTransition(inst[i], "FAILING"))
    BY <1>16, <1>e, <1>t, <2>2 DEF LoopFails, AtRest
  <2>3. CASE i # None /\ CanTransition(inst[i], "FAILING")
    <3>1. i \in Instances
      BY <1>t, <2>1, <2>3
    <3>2. PICK o \in Reported(inst[i]) :
            LET is == [inst EXCEPT ![i] = o.rec] IN
            \/ /\ o.verdict = "recovered"
               /\ StartRun(t, task[t].agent, is, FALSE, task[t].attempts + 1)
            \/ /\ o.verdict = "backoff"
               /\ inst' = is
               /\ task' = [task EXCEPT ![t].pc = "backoff", ![t].held = i]
            \/ /\ o.verdict \in {"gave_up", "raised"}
               /\ inst' = is
               /\ End(t, o.verdict)
      BY <1>16, <2>3 DEF LoopFails
    <3> DEFINE is == [inst EXCEPT ![i] = o.rec]
    <3>3. is \in [Instances -> Visible]
      BY <1>t, <3>1, ReportedOutcome
    <3>4. CASE StartRun(t, task[t].agent, is, FALSE, task[t].attempts + 1)
      <4>1. task[t].attempts + 1 \in Nat
        BY <2>1
      <4> QED
        BY <1>16, <2>1, <3>3, <3>4, <4>1, StartRunType DEF LoopFails
    <3>5. CASE /\ inst' = is
               /\ task' = [task EXCEPT ![t].pc = "backoff", ![t].held = i]
      <4>0. [task[t] EXCEPT !.pc = "backoff", !.held = i] \in TaskType
        <5> HIDE DEF i
        <5> QED
          BY <1>t, <3>1 DEF TaskType, PCs, Running
      <4>1. task' \in [Tasks -> TaskType]
        <5> HIDE DEF i
        <5> QED
          BY <1>t, <3>5, <4>0
      <4>2. \A u \in Tasks : task'[u].pc \notin AtRest =>
              task'[u].agent \in Agents /\ task'[u].held \in Instances
        BY <1>t, <2>1, <3>1, <3>5
      <4>3. inst' \in [Instances -> Visible] /\ agents' = agents
        BY <1>16, <3>3, <3>5 DEF LoopFails
      <4> QED
        BY <1>t, <4>1, <4>2, <4>3 DEF TypeOK, Visible
    <3>6. CASE o.verdict \in {"gave_up", "raised"} /\ inst' = is /\ End(t, o.verdict)
      BY <1>16, <1>e, <3>3, <3>6 DEF LoopFails, AtRest
    <3> QED
      BY <3>2, <3>4, <3>5, <3>6
  <2> QED
    BY <2>2, <2>3
<1>17. ASSUME NEW t \in Tasks, LoopRaises(t) PROVE TypeOK'
  BY <1>17, <1>e, <1>t DEF LoopRaises, AtRest
<1>18. ASSUME NEW t \in Tasks, BackoffEnds(t) PROVE TypeOK'
  <2>1. /\ task[t].agent \in Agents
        /\ task[t].held \in Instances
        /\ task[t].attempts + 1 \in Nat
    BY <1>18, <1>t DEF BackoffEnds, AtRest, TaskType
  <2>2. [inst EXCEPT ![task[t].held] = Recovered(@)] \in [Instances -> Visible]
    BY <1>t, <2>1, VisibleOps
  <2> QED
    BY <1>18, <2>1, <2>2, StartRunType DEF BackoffEnds
<1>19. ASSUME NEW t \in Tasks, Cancel(t) PROVE TypeOK'
  BY <1>19, <1>e, <1>t DEF Cancel, AtRest
<1>20. CASE UNCHANGED vars
  BY <1>20 DEF vars, TypeOK
<1> QED
  BY <1>1, <1>2, <1>3, <1>4, <1>5, <1>6, <1>7, <1>8, <1>9, <1>10, <1>11, <1>12, <1>13,
     <1>14, <1>15, <1>16, <1>17, <1>18, <1>19, <1>20
  DEF Next, Call, RunStep, LoopEnds

\* Whatever calls the program makes, and in whatever order they interleave with
\* the runs, the harness stays well-typed and shows neither REGISTERING nor
\* FAILING between two steps.
THEOREM TypeCorrect == Spec => []TypeOK
<1>1. Init => TypeOK
  <2>1. Unborn \in Visible
    BY DEF Unborn, Visible, InstanceType
  <2>2. Rest("idle") \in TaskType /\ Rest("idle").pc \in AtRest
    BY DEF Rest, TaskType, PCs, AtRest
  <2> QED
    BY <2>1, <2>2 DEF Init, TypeOK, Visible
<1>2. TypeOK /\ [Next]_vars => TypeOK'
  BY TypeStep, ConstantsOK
<1> QED
  BY <1>1, <1>2, PTL DEF Spec

-----------------------------------------------------------------------------
(* The pause event.                                                        *)

\* Which states a control call can find its agent in.
LEMMA TransitionSources ==
  ASSUME NEW r \in Visible
  PROVE  /\ CanTransition(r, "RUNNING") => r.state \in {"READY", "PAUSED"}
         /\ CanTransition(r, "PAUSED") => r.state = "RUNNING"
         /\ CanTransition(r, "FAILING") => r.state = "RUNNING"
         /\ CanTransition(r, "COMPLETED") => r.state = "RUNNING"
         /\ CanTransition(r, "STOPPED") => r.state \in {"READY", "RUNNING", "PAUSED"}
BY DEF Visible, InstanceType, States, CanTransition, ValidTransitions

Agrees(r) == r.eventSet <=> r.state # "PAUSED"

\* Every operation, used where the code uses it, keeps an instance whose pause
\* event agrees with its state that way; restart() is the exception and is not
\* in the list.
LEMMA AgreesOps ==
  ASSUME NEW r \in Visible, Agrees(r), NEW newTask \in BOOLEAN
  PROVE  /\ Agrees(Unborn) /\ Agrees(Registered)
         /\ r.state = "READY" => Agrees(Started(r, newTask))
         /\ Agrees(Paused(r))
         /\ Agrees(Resumed(r))
         /\ Agrees(Stopped(r))
         /\ CanTransition(r, "COMPLETED") => Agrees(Completed(r))
         /\ Agrees(Recovered(r))
         /\ CanTransition(r, "FAILING") => \A o \in Reported(r) : Agrees(o.rec)
<1> USE DEF Agrees, Visible, InstanceType
<1>1. Agrees(Unborn) /\ Agrees(Registered)
  BY DEF Unborn, Registered
<1>2. r.state = "READY" => Agrees(Started(r, newTask))
  BY DEF Started
<1>3. Agrees(Paused(r)) /\ Agrees(Resumed(r))
  BY DEF Paused, Resumed
<1>4. Agrees(Stopped(r))
  <2>1. Stopped(r).state = "STOPPED"
    BY DEF Stopped
  <2>2. Stopped(r).eventSet = (r.eventSet \/ r.state = "PAUSED")
    BY DEF Stopped
  <2> QED
    BY <2>1, <2>2
<1>5. CanTransition(r, "COMPLETED") => Agrees(Completed(r))
  BY TransitionSources DEF Completed
<1>6. Agrees(Recovered(r))
  BY DEF Recovered
<1>7. CanTransition(r, "FAILING") => \A o \in Reported(r) : Agrees(o.rec)
  BY TransitionSources, ReportedOutcome
<1> QED
  BY <1>1, <1>2, <1>3, <1>4, <1>5, <1>6, <1>7

\* start() inside a run leaves the pause events in agreement.
LEMMA StartRunAgrees ==
  ASSUME TypeOK, NEW t \in Tasks, NEW a \in Agents,
         NEW is \in [Instances -> Visible], \A i \in Instances : Agrees(is[i]),
         NEW newTask \in BOOLEAN, NEW attempts, StartRun(t, a, is, newTask, attempts)
  PROVE  \A i \in Instances : Agrees(inst'[i])
<1>1. CASE agents[a] # None /\ is[agents[a]].state = "READY"
  <2>1. agents[a] \in Instances
    BY <1>1 DEF TypeOK
  <2>2. Agrees(Started(is[agents[a]], newTask))
    BY <1>1, <2>1, AgreesOps
  <2> QED
    BY <1>1, <2>1, <2>2 DEF StartRun
<1>2. CASE ~(agents[a] # None /\ is[agents[a]].state = "READY")
  BY <1>2 DEF StartRun
<1> QED
  BY <1>1, <1>2

LEMMA PauseEventStep ==
  "restart" \notin Controls /\ TypeOK /\ PauseEventAgrees /\ [Next]_vars => PauseEventAgrees'
<1> SUFFICES ASSUME "restart" \notin Controls, TypeOK, PauseEventAgrees, [Next]_vars
             PROVE  \A i \in Instances : Agrees(inst'[i])
  BY DEF PauseEventAgrees, Agrees
<1> USE DEF Present
<1>t. /\ agents \in [Agents -> Instances \cup {None}]
      /\ inst \in [Instances -> Visible]
      /\ \A t \in Tasks : task[t].pc \notin AtRest =>
           task[t].agent \in Agents /\ task[t].held \in Instances
  BY TypeOKParts
<1>a. \A i \in Instances : Agrees(inst[i])
  BY DEF PauseEventAgrees, Agrees
<1>b. ASSUME NEW i \in Instances, NEW r, Agrees(r), inst' = [inst EXCEPT ![i] = r]
      PROVE  \A j \in Instances : Agrees(inst'[j])
  BY <1>a, <1>b, <1>t
<1>c. ASSUME inst' = inst PROVE \A j \in Instances : Agrees(inst'[j])
  BY <1>a, <1>c
<1>1. ASSUME NEW a \in Agents, Register(a) PROVE \A i \in Instances : Agrees(inst'[i])
  <2>1. Agrees(Registered)
    BY DEF Agrees, Registered, Unborn
  <2> QED
    BY <1>1, <1>b, <2>1 DEF Register
<1>2. ASSUME NEW a \in Agents, Unregister(a) PROVE \A i \in Instances : Agrees(inst'[i])
  BY <1>2, <1>a, <1>b, <1>c, <1>t, AgreesOps DEF Unregister
<1>3. ASSUME NEW a \in Agents, NEW newTask \in BOOLEAN, Start(a, newTask)
      PROVE  \A i \in Instances : Agrees(inst'[i])
  BY <1>3, <1>a, <1>b, <1>t, AgreesOps DEF Start
<1>4. ASSUME NEW a \in Agents, Pause(a) PROVE \A i \in Instances : Agrees(inst'[i])
  BY <1>4, <1>a, <1>b, <1>t, AgreesOps DEF Pause
<1>5. ASSUME NEW a \in Agents, Resume(a) PROVE \A i \in Instances : Agrees(inst'[i])
  BY <1>5, <1>a, <1>b, <1>t, AgreesOps DEF Resume
<1>6. ASSUME NEW a \in Agents, Stop(a) PROVE \A i \in Instances : Agrees(inst'[i])
  BY <1>6, <1>a, <1>b, <1>t, AgreesOps DEF Stop
<1>7. ASSUME NEW a \in Agents, Complete(a) PROVE \A i \in Instances : Agrees(inst'[i])
  BY <1>7, <1>a, <1>b, <1>t, AgreesOps DEF Complete
<1>8. ASSUME NEW a \in Agents, Restart(a) PROVE \A i \in Instances : Agrees(inst'[i])
  BY <1>8 DEF Restart
<1>9. ASSUME Shutdown PROVE \A i \in Instances : Agrees(inst'[i])
  <2>1. \A i \in Instances : inst'[i] \in {inst[i], Stopped(inst[i])}
    BY <1>9 DEF Shutdown
  <2>2. \A i \in Instances : Agrees(Stopped(inst[i]))
    BY <1>a, <1>t, AgreesOps
  <2> QED
    BY <1>a, <2>1, <2>2
<1>10. ASSUME NEW t \in Tasks, NEW a \in Agents, BeginRun(t, a)
       PROVE  \A i \in Instances : Agrees(inst'[i])
  BY <1>10, <1>a, <1>t, StartRunAgrees DEF BeginRun
<1>11. ASSUME NEW t \in Tasks, NEW a \in Agents, ReportError(t, a)
       PROVE  \A i \in Instances : Agrees(inst'[i])
  <2>1. agents[a] \in Instances
    BY <1>11, <1>t DEF ReportError
  <2>2. PICK o \in Reported(inst[agents[a]]) : inst' = [inst EXCEPT ![agents[a]] = o.rec]
    BY <1>11 DEF ReportError
  <2>3. Agrees(o.rec)
    BY <1>11, <1>a, <1>t, <2>1, AgreesOps DEF ReportError
  <2> QED
    BY <1>b, <2>1, <2>2, <2>3
<1>12. ASSUME NEW t \in Tasks, ReportEnds(t) PROVE \A i \in Instances : Agrees(inst'[i])
  <2>1. task[t].held \in Instances
    BY <1>12, <1>t DEF ReportEnds, AtRest
  <2> QED
    BY <1>12, <1>a, <1>b, <1>t, <2>1, AgreesOps DEF ReportEnds
<1>13. ASSUME NEW t \in Tasks, LoopCompletes(t) PROVE \A i \in Instances : Agrees(inst'[i])
  <2>1. task[t].agent \in Agents
    BY <1>13, <1>t DEF LoopCompletes, AtRest
  <2> QED
    BY <1>13, <1>a, <1>b, <1>c, <1>t, <2>1, AgreesOps DEF LoopCompletes
<1>14. ASSUME NEW t \in Tasks, LoopFails(t) PROVE \A i \in Instances : Agrees(inst'[i])
  <2> DEFINE i == agents[task[t].agent]
  <2>1. task[t].agent \in Agents
    BY <1>14, <1>t DEF LoopFails, AtRest
  <2>2. CASE ~(i # None /\ CanTransition(inst[i], "FAILING"))
    BY <1>14, <1>c, <2>2 DEF LoopFails
  <2>3. CASE i # None /\ CanTransition(inst[i], "FAILING")
    <3>1. i \in Instances
      BY <1>t, <2>1, <2>3
    <3>2. PICK o \in Reported(inst[i]) :
            \/ inst' = [inst EXCEPT ![i] = o.rec]
            \/ StartRun(t, task[t].agent, [inst EXCEPT ![i] = o.rec], FALSE,
                        task[t].attempts + 1)
      BY <1>14, <2>3 DEF LoopFails
    <3>3. Agrees(o.rec) /\ o.rec \in Visible
      BY <1>a, <1>t, <2>3, <3>1, AgreesOps, ReportedOutcome
    <3> DEFINE is == [inst EXCEPT ![i] = o.rec]
    <3>4. is \in [Instances -> Visible] /\ \A j \in Instances : Agrees(is[j])
      BY <1>a, <1>t, <3>1, <3>3
    <3>5. CASE inst' = is
      BY <3>4, <3>5
    <3>6. CASE StartRun(t, task[t].agent, is, FALSE, task[t].attempts + 1)
      <4> HIDE DEF is
      <4> QED
        BY <2>1, <3>4, <3>6, StartRunAgrees
    <3> QED
      BY <3>2, <3>5, <3>6
  <2> QED
    BY <2>2, <2>3
<1>15. ASSUME NEW t \in Tasks, BackoffEnds(t) PROVE \A i \in Instances : Agrees(inst'[i])
  <2> DEFINE is == [inst EXCEPT ![task[t].held] = Recovered(@)]
  <2>1. task[t].agent \in Agents /\ task[t].held \in Instances
    BY <1>15, <1>t DEF BackoffEnds, AtRest
  <2>2. is \in [Instances -> Visible] /\ \A i \in Instances : Agrees(is[i])
    BY <1>a, <1>t, <2>1, VisibleOps, AgreesOps
  <2>3. StartRun(t, task[t].agent, is, FALSE, task[t].attempts + 1)
    BY <1>15 DEF BackoffEnds
  <2> HIDE DEF is
  <2> QED
    BY <2>1, <2>2, <2>3, StartRunAgrees
<1>16. ASSUME NEW t \in Tasks, CheckPause(t) \/ WakeUp(t) \/ LoopRaises(t) \/ Cancel(t)
       PROVE  \A i \in Instances : Agrees(inst'[i])
  BY <1>16, <1>c DEF CheckPause, WakeUp, LoopRaises, Cancel
<1>17. CASE UNCHANGED vars
  BY <1>17, <1>c DEF vars
<1> QED
  BY <1>1, <1>2, <1>3, <1>4, <1>5, <1>6, <1>7, <1>8, <1>9, <1>10, <1>11, <1>12, <1>13,
     <1>14, <1>15, <1>16, <1>17
  DEF Next, Call, RunStep, LoopEnds

\* In a program that never calls restart(), the pause event of every agent is
\* cleared exactly while the agent is PAUSED, whatever else the program calls.
THEOREM PauseEventCorrect ==
  ASSUME "restart" \notin Controls
  PROVE  Spec => []PauseEventAgrees
<1>1. Init => PauseEventAgrees
  BY DEF Init, PauseEventAgrees, Unborn
<1>2. TypeOK /\ PauseEventAgrees /\ [Next]_vars => PauseEventAgrees'
  BY PauseEventStep
<1> QED
  BY <1>1, <1>2, TypeCorrect, PTL DEF Spec

-----------------------------------------------------------------------------
(* One run at a time.  OneRunPerAgent is not inductive: it needs to know   *)
(* that an agent with a run is not READY, that the run still works on the  *)
(* registered instance, and that instances are not shared.                 *)

\* The control calls that can take an agent away from its run.
Intrusive == {"restart", "report_error", "unregister"}

RegistryOK ==
  /\ \A a \in Agents : agents[a] # None => inst[agents[a]].state # "UNBORN"
  /\ \A a, b \in Agents : agents[a] # None /\ agents[a] = agents[b] => a = b

InRun(t) == task[t].pc \in Running

RunsHoldTheirAgent ==
  \A t \in Tasks : InRun(t) => agents[task[t].agent] = task[t].held

RunningIsNotReady ==
  \A t \in Tasks : InRun(t) => inst[task[t].held].state # "READY"

NobodyReports == \A t \in Tasks : task[t].pc # "reporting"

RunInv ==
  /\ TypeOK
  /\ RegistryOK
  /\ RunsHoldTheirAgent
  /\ RunningIsNotReady
  /\ NobodyReports
  /\ OneRunPerAgent

\* A step that leaves the registry alone, makes no instance READY, and starts no
\* run keeps the invariant.
LEMMA NoNewRun ==
  ASSUME RunInv, TypeOK', agents' = agents,
         \A i \in Instances : inst'[i].state \in {"READY", "UNBORN"} =>
                               inst'[i].state = inst[i].state,
         \A t \in Tasks : /\ task'[t].pc # "reporting"
                          /\ InRun(t)' => /\ InRun(t)
                                          /\ task'[t].agent = task[t].agent
                                          /\ task'[t].held = task[t].held
  PROVE  RunInv'
<1> USE DEF RunInv
<1>t. /\ agents \in [Agents -> Instances \cup {None}]
      /\ \A t \in Tasks : InRun(t) => task[t].agent \in Agents /\ task[t].held \in Instances
  BY DEF TypeOK, InRun, Running, AtRest
<1>1. RegistryOK'
  <2>1. ASSUME NEW a \in Agents, agents[a] # None PROVE inst'[agents[a]].state # "UNBORN"
    <3>1. agents[a] \in Instances /\ inst[agents[a]].state # "UNBORN"
      BY <1>t, <2>1 DEF RegistryOK
    <3> QED
      BY <3>1
  <2> QED
    BY <2>1 DEF RegistryOK
<1>2. RunsHoldTheirAgent'
  BY DEF RunsHoldTheirAgent
<1>3. RunningIsNotReady'
  BY <1>t DEF RunningIsNotReady
<1>4. NobodyReports'
  BY DEF NobodyReports
<1>5. OneRunPerAgent'
  BY DEF OneRunPerAgent, InRun
<1> QED
  BY <1>1, <1>2, <1>3, <1>4, <1>5

\* start() inside a run, on instances that differ from the present ones at most
\* in the agent's own, when no other run has that agent.
LEMMA StartRunKeepsInv ==
  ASSUME RunInv, TypeOK', agents' = agents, NEW t \in Tasks, NEW a \in Agents,
         NEW is \in [Instances -> Visible],
         \A i \in Instances : i # agents[a] => is[i] = inst[i],
         agents[a] # None => is[agents[a]].state # "UNBORN",
         agents[a] # None /\ is[agents[a]].state = "READY" =>
           \A u \in Tasks : InRun(u) /\ task[u].agent = a => u = t,
         NEW newTask \in BOOLEAN, NEW attempts, StartRun(t, a, is, newTask, attempts)
  PROVE  RunInv'
<1> USE DEF RunInv
<1>t. /\ agents \in [Agents -> Instances \cup {None}]
      /\ task \in [Tasks -> TaskType]
      /\ \A u \in Tasks : InRun(u) => task[u].agent \in Agents /\ task[u].held \in Instances
  BY DEF TypeOK, InRun, Running, AtRest
<1>1. CASE agents[a] # None /\ is[agents[a]].state = "READY"
  <2> DEFINE i == agents[a]
  <2>1. i \in Instances
    BY <1>1, <1>t
  <2>2. inst' = [is EXCEPT ![i] = Started(@, newTask)]
    BY <1>1 DEF StartRun
  <2>3. Started(is[i], newTask).state = "RUNNING"
    BY <2>1 DEF Started, Visible, InstanceType
  <2>4. /\ inst'[i].state = "RUNNING"
        /\ \A j \in Instances : j # i => inst'[j] = inst[j]
    BY <2>1, <2>2, <2>3
  <2>5. /\ task'[t].agent = a /\ task'[t].held = i /\ task'[t].pc \in {"loop", "paused"}
        /\ \A u \in Tasks : u # t => task'[u] = task[u]
    BY <1>1, <1>t DEF StartRun, AfterPauseCheck
  <2>6. RegistryOK'
    BY <1>t, <2>4 DEF RegistryOK
  <2>7. RunsHoldTheirAgent'
    BY <2>5 DEF RunsHoldTheirAgent, InRun
  <2>8. RunningIsNotReady'
    BY <1>t, <2>4, <2>5 DEF RunningIsNotReady, InRun
  <2>9. NobodyReports'
    BY <2>5 DEF NobodyReports
  <2>10. OneRunPerAgent'
    BY <1>1, <2>5 DEF OneRunPerAgent, InRun
  <2> QED
    BY <2>6, <2>7, <2>8, <2>9, <2>10
<1>2. CASE ~(agents[a] # None /\ is[agents[a]].state = "READY")
  <2>1. inst' = is /\ End(t, "raised")
    BY <1>2 DEF StartRun
  <2>2. \A i \in Instances : inst'[i].state \in {"READY", "UNBORN"} =>
                              inst'[i].state = inst[i].state
    <3>1. None \notin Instances
      BY ConstantsOK DEF ConstantsOK
    <3> QED
      BY <1>2, <2>1, <3>1
  <2>3. task'[t].pc = "raised" /\ \A u \in Tasks : u # t => task'[u] = task[u]
    BY <1>t, <2>1 DEF End, Rest
  <2>4. \A u \in Tasks : /\ task'[u].pc # "reporting"
                         /\ InRun(u)' => /\ InRun(u)
                                         /\ task'[u].agent = task[u].agent
                                         /\ task'[u].held = task[u].held
    BY <2>3 DEF InRun, Running, NobodyReports
  <2> QED
    BY <2>2, <2>4, NoNewRun
<1> QED
  BY <1>1, <1>2

LEMMA RunInvStep ==
  ConstantsOK /\ Controls \cap Intrusive = {} /\ RunInv /\ [Next]_vars => RunInv'
<1> SUFFICES ASSUME ConstantsOK, Controls \cap Intrusive = {}, RunInv, [Next]_vars
             PROVE  RunInv'
  OBVIOUS
<1> USE DEF Present
<1>0. TypeOK'
  BY TypeStep DEF RunInv
<1>t. /\ agents \in [Agents -> Instances \cup {None}]
      /\ inst \in [Instances -> Visible]
      /\ task \in [Tasks -> TaskType]
      /\ \A t \in Tasks : task[t].pc \notin AtRest =>
           task[t].agent \in Agents /\ task[t].held \in Instances
  BY TypeOKParts DEF RunInv
<1>u. "restart" \notin Controls /\ "report_error" \notin Controls /\ "unregister" \notin Controls
  BY DEF Intrusive
<1>n. \A t \in Tasks : task[t].pc # "reporting"
  BY DEF RunInv, NobodyReports
\* A control call on one instance.
<1>b. ASSUME NEW i \in Instances, NEW r, r.state \notin {"READY", "UNBORN"},
             inst' = [inst EXCEPT ![i] = r], agents' = agents,
             task' = task \/ \E S : task' = Released(S)
      PROVE  RunInv'
  <2>1. \A t \in Tasks : /\ task'[t].pc # "reporting"
                         /\ InRun(t)' => /\ InRun(t)
                                         /\ task'[t].agent = task[t].agent
                                         /\ task'[t].held = task[t].held
    BY <1>b, <1>n, <1>t DEF Released, InRun, Running, TaskType
  <2>2. \A j \in Instances : inst'[j].state \in {"READY", "UNBORN"} =>
                              inst'[j].state = inst[j].state
    BY <1>b, <1>t
  <2> QED
    BY <1>0, <1>b, <2>1, <2>2, NoNewRun
\* The end of a run, which may have changed its instance.
<1>e. ASSUME NEW t \in Tasks, NEW pc \in AtRest, End(t, pc), agents' = agents,
             \A j \in Instances : inst'[j].state \in {"READY", "UNBORN"} =>
                                   inst'[j].state = inst[j].state
      PROVE  RunInv'
  <2>1. task'[t].pc = pc /\ \A u \in Tasks : u # t => task'[u] = task[u]
    BY <1>e, <1>t DEF End, Rest
  <2>2. \A u \in Tasks : /\ task'[u].pc # "reporting"
                         /\ InRun(u)' => /\ InRun(u)
                                         /\ task'[u].agent = task[u].agent
                                         /\ task'[u].held = task[u].held
    BY <1>n, <2>1 DEF InRun, Running, AtRest
  <2> QED
    BY <1>0, <1>e, <2>2, NoNewRun
<1>1. ASSUME NEW a \in Agents, Register(a) PROVE RunInv'
  <2>1. PICK i \in Instances : /\ inst[i].state = "UNBORN"
                               /\ inst' = [inst EXCEPT ![i] = Registered]
                               /\ agents' = [agents EXCEPT ![a] = i]
    BY <1>1 DEF Register
  <2>2. agents[a] = None /\ task' = task
    BY <1>1 DEF Register
  <2>3. Registered.state = "READY"
    BY DEF Registered, Unborn
  <2>4. \A b \in Agents : agents[b] # i
    BY <1>t, <2>1, ConstantsOK DEF RunInv, RegistryOK
  <2>5. \A t \in Tasks : InRun(t) => task[t].held # i /\ task[t].agent \in Agents
                                     /\ task[t].held \in Instances /\ task[t].agent # a
    <3>1. None \notin Instances
      BY DEF ConstantsOK
    <3> QED
      BY <1>t, <2>2, <2>4, <3>1 DEF RunInv, RunsHoldTheirAgent, InRun, Running, AtRest
  <2>6. RegistryOK'
    BY <1>t, <2>1, <2>3, <2>4 DEF RunInv, RegistryOK
  <2>7. RunsHoldTheirAgent'
    BY <1>t, <2>1, <2>2, <2>5 DEF RunInv, RunsHoldTheirAgent, InRun
  <2>8. RunningIsNotReady'
    BY <1>t, <2>1, <2>2, <2>5 DEF RunInv, RunningIsNotReady, InRun
  <2>9. NobodyReports' /\ OneRunPerAgent'
    BY <2>2 DEF RunInv, NobodyReports, OneRunPerAgent
  <2> QED
    BY <1>0, <2>6, <2>7, <2>8, <2>9 DEF RunInv
<1>2. ASSUME NEW a \in Agents, NEW newTask \in BOOLEAN, Start(a, newTask) PROVE RunInv'
  <2>1. agents[a] \in Instances
    BY <1>2, <1>t DEF Start
  <2>2. Started(inst[agents[a]], newTask).state = "RUNNING"
    BY <1>t, <2>1 DEF Started, Visible, InstanceType
  <2> QED
    BY <1>2, <1>b, <2>1, <2>2 DEF Start
<1>3. ASSUME NEW a \in Agents, Pause(a) PROVE RunInv'
  <2>1. agents[a] \in Instances
    BY <1>3, <1>t DEF Pause
  <2>2. Paused(inst[agents[a]]).state = "PAUSED"
    BY <1>t, <2>1 DEF Paused, Visible, InstanceType
  <2> QED
    BY <1>3, <1>b, <2>1, <2>2 DEF Pause
<1>4. ASSUME NEW a \in Agents, Resume(a) PROVE RunInv'
  <2>1. agents[a] \in Instances
    BY <1>4, <1>t DEF Resume
  <2>2. Resumed(inst[agents[a]]).state = "RUNNING"
    BY <1>t, <2>1 DEF Resumed, Visible, InstanceType
  <2> QED
    BY <1>4, <1>b, <2>1, <2>2 DEF Resume
<1>5. ASSUME NEW a \in Agents, Stop(a) PROVE RunInv'
  <2>1. agents[a] \in Instances
    BY <1>5, <1>t DEF Stop
  <2>2. Stopped(inst[agents[a]]).state = "STOPPED"
    BY <1>t, <2>1 DEF Stopped, Visible, InstanceType
  <2> QED
    BY <1>5, <1>b, <2>1, <2>2 DEF Stop
<1>6. ASSUME NEW a \in Agents, Complete(a) PROVE RunInv'
  <2>1. agents[a] \in Instances
    BY <1>6, <1>t DEF Complete
  <2>2. Completed(inst[agents[a]]).state = "COMPLETED"
    BY <1>t, <2>1 DEF Completed, Visible, InstanceType
  <2> QED
    BY <1>6, <1>b, <2>1, <2>2 DEF Complete
<1>7. ASSUME Shutdown PROVE RunInv'
  <2>1. \A i \in Instances : Stopped(inst[i]).state = "STOPPED"
    BY <1>t DEF Stopped, Visible, InstanceType
  <2>2. \A i \in Instances : inst'[i] \in {inst[i], Stopped(inst[i])}
    BY <1>7 DEF Shutdown
  <2>3. PICK S : task' = Released(S)
    BY <1>7 DEF Shutdown
  <2>4. \A t \in Tasks : /\ task'[t].pc # "reporting"
                         /\ InRun(t)' => /\ InRun(t)
                                         /\ task'[t].agent = task[t].agent
                                         /\ task'[t].held = task[t].held
    BY <1>n, <1>t, <2>3 DEF Released, InRun, Running, TaskType
  <2> QED
    BY <1>0, <1>7, <2>1, <2>2, <2>4, NoNewRun DEF Shutdown
<1>8. ASSUME NEW t \in Tasks, NEW a \in Agents, BeginRun(t, a) PROVE RunInv'
  <2>1. agents[a] # None => inst[agents[a]].state # "UNBORN"
    BY DEF RunInv, RegistryOK
  <2>2. agents[a] # None /\ inst[agents[a]].state = "READY" =>
          \A u \in Tasks : ~(InRun(u) /\ task[u].agent = a)
    BY DEF RunInv, RunsHoldTheirAgent, RunningIsNotReady
  <2> QED
    BY <1>0, <1>8, <1>t, <2>1, <2>2, StartRunKeepsInv DEF BeginRun
<1>9. ASSUME NEW t \in Tasks, CheckPause(t) PROVE RunInv'
  <2>1. task[t].pc = "loop" /\ InRun(t)
    BY <1>9 DEF CheckPause, InRun, Running
  <2>2. agents[task[t].agent] = task[t].held /\ task[t].held \in Instances
    BY <1>t, <2>1 DEF RunInv, RunsHoldTheirAgent, AtRest
  <2>3. task[t].held # None
    BY <2>2 DEF ConstantsOK
  <2>4. /\ task'[t].agent = task[t].agent
        /\ task'[t].held = task[t].held
        /\ task'[t].pc \in {"loop", "paused"}
        /\ \A u \in Tasks : u # t => task'[u] = task[u]
        /\ inst' = inst /\ agents' = agents
    BY <1>9, <1>t, <2>2, <2>3 DEF CheckPause, AfterPauseCheck, TaskType
  <2>5. \A u \in Tasks : /\ task'[u].pc # "reporting"
                         /\ InRun(u)' => /\ InRun(u)
                                         /\ task'[u].agent = task[u].agent
                                         /\ task'[u].held = task[u].held
    BY <1>n, <2>1, <2>4 DEF InRun
  <2> QED
    BY <1>0, <2>4, <2>5, NoNewRun
<1>10. ASSUME NEW t \in Tasks, WakeUp(t) PROVE RunInv'
  <2>1. \A u \in Tasks : /\ task'[u].pc # "reporting"
                         /\ InRun(u)' => /\ InRun(u)
                                         /\ task'[u].agent = task[u].agent
                                         /\ task'[u].held = task[u].held
    BY <1>10, <1>n, <1>t DEF WakeUp, InRun, Running, TaskType
  <2> QED
    BY <1>0, <1>10, <2>1, NoNewRun DEF WakeUp
<1>11. ASSUME NEW t \in Tasks, LoopCompletes(t) PROVE RunInv'
  <2>1. task[t].agent \in Agents
    BY <1>11, <1>t DEF LoopCompletes, AtRest
  <2>2. \A i \in Instances : Completed(inst[i]).state = "COMPLETED"
    BY <1>t DEF Completed, Visible, InstanceType
  <2>3. \A j \in Instances : inst'[j] \in {inst[j], Completed(inst[j])}
    BY <1>11, <1>t, <2>1 DEF LoopCompletes
  <2>4. \E pc \in AtRest : End(t, pc)
    BY <1>11 DEF LoopCompletes, AtRest
  <2> QED
    BY <1>11, <1>e, <2>2, <2>3, <2>4 DEF LoopCompletes
<1>12. ASSUME NEW t \in Tasks, LoopFails(t) PROVE RunInv'
  <2> DEFINE a == task[t].agent
             i == agents[a]
  <2>1. task[t].pc = "loop" /\ InRun(t) /\ agents' = agents
    BY <1>12 DEF LoopFails, InRun, Running
  <2>2. a \in Agents
    BY <1>t, <2>1 DEF AtRest
  <2>3. CASE ~(i # None /\ CanTransition(inst[i], "FAILING"))
    <3>1. inst' = inst /\ End(t, "raised")
      BY <1>12, <2>3 DEF LoopFails
    <3> QED
      BY <1>e, <2>1, <3>1 DEF AtRest
  <2>4. CASE i # None /\ CanTransition(inst[i], "FAILING")
    <3>1. i \in Instances
      BY <1>t, <2>2, <2>4
    <3>2. PICK o \in Reported(inst[i]) :
            \/ /\ o.verdict = "recovered"
               /\ StartRun(t, a, [inst EXCEPT ![i] = o.rec], FALSE, task[t].attempts + 1)
            \/ /\ o.verdict = "backoff"
               /\ inst' = [inst EXCEPT ![i] = o.rec]
               /\ task' = [task EXCEPT ![t].pc = "backoff", ![t].held = i]
            \/ /\ o.verdict \in {"gave_up", "raised"}
               /\ inst' = [inst EXCEPT ![i] = o.rec]
               /\ End(t, o.verdict)
      BY <1>12, <2>4 DEF LoopFails
    <3>3. /\ o.rec \in Visible
          /\ o.rec.state \in {"READY", "RECOVERING", "FAILED"}
          /\ o.rec.state = "READY" => o.verdict = "recovered"
      BY <1>t, <3>1, ReportedOutcome
    <3> DEFINE is == [inst EXCEPT ![i] = o.rec]
    <3>4. /\ is \in [Instances -> Visible]
          /\ \A j \in Instances : j # i => is[j] = inst[j]
          /\ is[i].state # "UNBORN"
      BY <1>t, <3>1, <3>3
    <3>5. \A u \in Tasks : InRun(u) /\ task[u].agent = a => u = t
      BY <2>1 DEF RunInv, OneRunPerAgent, InRun
    <3>6. CASE StartRun(t, a, is, FALSE, task[t].attempts + 1)
      <4> HIDE DEF is
      <4> QED
        BY <1>0, <2>1, <2>2, <3>4, <3>5, <3>6, StartRunKeepsInv
    <3>7. ASSUME o.verdict # "recovered", inst' = is
          PROVE  \A j \in Instances : inst'[j].state \in {"READY", "UNBORN"} =>
                                        inst'[j].state = inst[j].state
      BY <1>t, <3>1, <3>3, <3>7
    <3>8. CASE /\ o.verdict = "backoff"
               /\ inst' = is
               /\ task' = [task EXCEPT ![t].pc = "backoff", ![t].held = i]
      <4>1. i = task[t].held
        BY <2>1 DEF RunInv, RunsHoldTheirAgent
      <4>2. /\ task'[t].pc = "backoff" /\ task'[t].agent = task[t].agent
            /\ task'[t].held = i
            /\ \A u \in Tasks : u # t => task'[u] = task[u]
        <5> HIDE DEF i
        <5> QED
          BY <1>t, <3>8 DEF TaskType
      <4>3. \A u \in Tasks : /\ task'[u].pc # "reporting"
                             /\ InRun(u)' => /\ InRun(u)
                                             /\ task'[u].agent = task[u].agent
                                             /\ task'[u].held = task[u].held
        BY <1>n, <2>1, <4>1, <4>2 DEF InRun
      <4>4. \A j \in Instances : inst'[j].state \in {"READY", "UNBORN"} =>
                                  inst'[j].state = inst[j].state
        BY <3>7, <3>8
      <4> QED
        BY <1>0, <2>1, <4>3, <4>4, NoNewRun
    <3>9. CASE o.verdict \in {"gave_up", "raised"} /\ inst' = is /\ End(t, o.verdict)
      <4>1. \A j \in Instances : inst'[j].state \in {"READY", "UNBORN"} =>
                                  inst'[j].state = inst[j].state
        BY <3>7, <3>9
      <4> QED
        BY <1>e, <2>1, <3>9, <4>1 DEF AtRest
    <3> QED
      BY <3>2, <3>6, <3>8, <3>9
  <2> QED
    BY <2>3, <2>4
<1>13. ASSUME NEW t \in Tasks, BackoffEnds(t) PROVE RunInv'
  <2> DEFINE a  == task[t].agent
             is == [inst EXCEPT ![task[t].held] = Recovered(@)]
  <2>1. InRun(t) /\ agents' = agents
    BY <1>13 DEF BackoffEnds, InRun, Running
  <2>2. a \in Agents /\ task[t].held \in Instances /\ agents[a] = task[t].held
    BY <1>t, <2>1 DEF RunInv, RunsHoldTheirAgent, InRun, Running, AtRest
  <2>3. /\ is \in [Instances -> Visible]
        /\ \A j \in Instances : j # agents[a] => is[j] = inst[j]
    BY <1>t, <2>2, VisibleOps
  <2>4. is[agents[a]].state # "UNBORN"
    <3>1. inst[agents[a]].state # "UNBORN" /\ inst[agents[a]] \in Visible
      BY <1>t, <2>2 DEF RunInv, RegistryOK, ConstantsOK
    <3> QED
      BY <1>t, <2>2, <3>1 DEF Recovered, Visible, InstanceType
  <2>5. \A u \in Tasks : InRun(u) /\ task[u].agent = a => u = t
    BY <2>1 DEF RunInv, OneRunPerAgent, InRun
  <2>6. StartRun(t, a, is, FALSE, task[t].attempts + 1)
    BY <1>13 DEF BackoffEnds
  <2> HIDE DEF is
  <2> QED
    BY <1>0, <2>1, <2>2, <2>3, <2>4, <2>5, <2>6, StartRunKeepsInv
<1>14. ASSUME NEW t \in Tasks, LoopRaises(t) \/ Cancel(t) PROVE RunInv'
  BY <1>14, <1>e DEF LoopRaises, Cancel, AtRest
<1>15. ASSUME NEW t \in Tasks, ReportEnds(t) PROVE RunInv'
  BY <1>15, <1>n DEF ReportEnds
<1>16. CASE UNCHANGED vars
  BY <1>0, <1>16 DEF vars, RunInv, RegistryOK, RunsHoldTheirAgent, RunningIsNotReady,
                     NobodyReports, OneRunPerAgent, InRun
<1> QED
  BY <1>u, <1>1, <1>2, <1>3, <1>4, <1>5, <1>6, <1>7, <1>8, <1>9, <1>10, <1>11, <1>12,
     <1>13, <1>14, <1>15, <1>16
  DEF Next, Call, RunStep, LoopEnds, Unregister, Restart, ReportError

LEMMA RunInvInit == Init => RunInv
<1> SUFFICES ASSUME Init PROVE RunInv
  OBVIOUS
<1>1. Unborn \in Visible
  BY DEF Unborn, Visible, InstanceType
<1>2. Rest("idle") \in TaskType /\ Rest("idle").pc = "idle"
  BY DEF Rest, TaskType, PCs, AtRest
<1>3. TypeOK
  BY <1>1, <1>2 DEF Init, TypeOK, Visible, AtRest
<1> QED
  BY <1>2, <1>3 DEF Init, RunInv, RegistryOK, RunsHoldTheirAgent, RunningIsNotReady,
                    NobodyReports, OneRunPerAgent, InRun, Running

\* As long as nobody restarts or unregisters agents or reports errors from
\* outside, an agent has one run at a time: any number of callers may compete for
\* it, pause, resume, stop and complete it, and cancel the runs.
THEOREM OneRunCorrect ==
  ASSUME Controls \cap Intrusive = {}
  PROVE  Spec => []OneRunPerAgent
<1>1. Init => RunInv
  BY RunInvInit
<1>2. RunInv /\ [Next]_vars => RunInv'
  BY RunInvStep, ConstantsOK
<1>3. RunInv => OneRunPerAgent
  BY DEF RunInv
<1> QED
  BY <1>1, <1>2, <1>3, PTL DEF Spec

-----------------------------------------------------------------------------
(* The contract, whatever the program calls.  A step changes the registry  *)
(* or one registered instance, or stops many; in each case the observer    *)
(* sees a step of AgentContract.  What makes it true of a recovery that    *)
(* ends late is that nobody unregisters a recovering agent, and that a     *)
(* task holds an instance which is registered for its agent or for nobody. *)

\* What one step does to a registered instance, as far as an observer sees it.
Evolves(r, s) ==
  \/ s = r
  \/ r.state = "READY" /\ s.state = "RUNNING" /\ s.retry \in {0, r.retry}
  \/ r.state = "RUNNING" /\ s.state \in {"PAUSED", "COMPLETED"} /\ s.retry = r.retry
  \/ r.state = "PAUSED" /\ s.state = "RUNNING" /\ s.retry = r.retry
  \/ r.state \in {"READY", "RUNNING", "PAUSED"} /\ s.state = "STOPPED" /\ s.retry = r.retry
  \/ /\ r.state = "RUNNING" /\ s.retry = r.retry + 1
     /\ \/ s.state = "FAILED"
        \/ r.retry < MaxRetries /\ s.state \in {"RECOVERING", "READY", "RUNNING"}
  \/ r.state = "RECOVERING" /\ s.state \in {"READY", "RUNNING"} /\ s.retry = r.retry
  \/ s.state = "RUNNING" /\ s.retry = r.retry

\* register(): a new instance, for an id that had none.
Enters(a, i) ==
  /\ agents[a] = None /\ inst[i].state = "UNBORN"
  /\ agents' = [agents EXCEPT ![a] = i]
  /\ inst' = [inst EXCEPT ![i] = Registered]

\* unregister(), after the stop() of an agent that is running.
Leaves(a) ==
  /\ agents[a] # None /\ inst[agents[a]].state # "RECOVERING"
  /\ agents' = [agents EXCEPT ![a] = None]
  /\ inst'[agents[a]].state \notin {"RECOVERING", "UNBORN"}
  /\ \A j \in Instances : j # agents[a] => inst'[j] = inst[j]

ChangesOne(a) ==
  /\ agents[a] # None /\ agents' = agents
  /\ inst'[agents[a]].state # "UNBORN"
  /\ Evolves(inst[agents[a]], inst'[agents[a]])
  /\ \A j \in Instances : j # agents[a] => inst'[j] = inst[j]

Stops(S) ==
  /\ agents' = agents
  /\ \A a \in S : /\ agents[a] # None
                  /\ inst[agents[a]].state \in {"READY", "RUNNING", "PAUSED"}
                  /\ inst'[agents[a]].state = "STOPPED"
                  /\ inst'[agents[a]].retry = inst[agents[a]].retry
  /\ \A j \in Instances : (\A a \in S : j # agents[a]) => inst'[j] = inst[j]

OrphansAreDead == \A i \in Instances : Orphan(i) => inst[i].state # "RECOVERING"

HeldByItsAgent ==
  \A t \in Tasks : task[t].pc \notin AtRest =>
    /\ inst[task[t].held].state # "UNBORN"
    /\ \A b \in Agents : agents[b] = task[t].held => b = task[t].agent

CoreInv == TypeOK /\ RegistryOK /\ OrphansAreDead /\ HeldByItsAgent

\* What the record operators make of an instance, where the code uses them.
LEMMA EvolvesOps ==
  ASSUME NEW r \in Visible, NEW newTask \in BOOLEAN
  PROVE  /\ r.state = "READY" => Evolves(r, Started(r, newTask))
         /\ CanTransition(r, "PAUSED") => Evolves(r, Paused(r))
         /\ CanTransition(r, "RUNNING") => Evolves(r, Resumed(r))
         /\ CanTransition(r, "STOPPED") => Evolves(r, Stopped(r))
         /\ CanTransition(r, "COMPLETED") => Evolves(r, Completed(r))
         /\ Evolves(r, Restarted(r))
         /\ Evolves(r, Recovered(r))
         /\ r.state = "RECOVERING" /\ ~newTask => Evolves(r, Started(Recovered(r), newTask))
<1> USE DEF Visible, InstanceType, Evolves
<1>1. r.state = "READY" => Evolves(r, Started(r, newTask))
  BY DEF Started
<1>2. CanTransition(r, "PAUSED") => Evolves(r, Paused(r))
  BY TransitionSources DEF Paused
<1>3. CanTransition(r, "RUNNING") => Evolves(r, Resumed(r))
  BY TransitionSources DEF Resumed
<1>4. CanTransition(r, "STOPPED") => Evolves(r, Stopped(r))
  <2>1. Stopped(r).state = "STOPPED" /\ Stopped(r).retry = r.retry
    BY DEF Stopped
  <2> QED BY <2>1, TransitionSources
<1>5. CanTransition(r, "COMPLETED") => Evolves(r, Completed(r))
  BY TransitionSources DEF Completed
<1>6. Evolves(r, Restarted(r))
  <2>1. Restarted(r).state = "RUNNING" /\ Restarted(r).retry = r.retry
    BY DEF Restarted, Started
  <2> QED BY <2>1
<1>7. Evolves(r, Recovered(r))
  BY DEF Recovered
<1>8. r.state = "RECOVERING" /\ ~newTask => Evolves(r, Started(Recovered(r), newTask))
  BY DEF Recovered, Started
<1> QED BY <1>1, <1>2, <1>3, <1>4, <1>5, <1>6, <1>7, <1>8

\* No operator returns an instance to the unborn.
LEMMA BornOps ==
  ASSUME NEW r \in Visible, NEW newTask \in BOOLEAN
  PROVE  /\ Started(r, newTask).state = "RUNNING"
         /\ Paused(r).state = "PAUSED" /\ Resumed(r).state = "RUNNING"
         /\ Stopped(r).state = "STOPPED" /\ Completed(r).state = "COMPLETED"
         /\ Restarted(r).state = "RUNNING"
         /\ r.state # "UNBORN" => Recovered(r).state # "UNBORN"
         /\ Recovered(r).state # "RECOVERING"
         /\ Registered.state = "READY"
<1> USE DEF Visible, InstanceType
<1>1. Restarted(r).state = "RUNNING"
  BY DEF Restarted, Started
<1> QED BY <1>1 DEF Started, Paused, Resumed, Stopped, Completed, Recovered, Registered, Unborn

\* report_error() counts a retry, and lets the agent go on as long as there is one.
LEMMA ReportedEvolves ==
  ASSUME NEW r \in Visible, CanTransition(r, "FAILING"), NEW o \in Reported(r), ConstantsOK
  PROVE  /\ Evolves(r, o.rec)
         /\ o.rec.state = "READY" => Evolves(r, Started(o.rec, FALSE))
         /\ o.rec.retry = r.retry + 1
         /\ o.rec.state = "FAILED" \/ r.retry < MaxRetries
<1> DEFINE counted == [r EXCEPT !.retry = @ + 1]
<1> USE DEF Visible, InstanceType
<1>1. r.state = "RUNNING"
  BY TransitionSources
<1>2. o.rec.state \in {"READY", "RECOVERING", "FAILED"} /\ o.rec \in Visible
  BY ReportedOutcome
<1>3. /\ o.rec.retry = r.retry + 1
      /\ o.rec.state = "FAILED" \/ ~ (counted.retry > MaxRetries)
  <2>1. CASE counted.retry > MaxRetries
    <3>1. o = Outcome([counted EXCEPT !.state = "FAILED", !.failed = @ + 1], "gave_up")
      BY <2>1 DEF Reported
    <3> QED BY <3>1 DEF Outcome
  <2>2. CASE ~ (counted.retry > MaxRetries)
    <3>1. PICK plan \in Plans, b \in HasBackoff :
            o = Recovery([counted EXCEPT !.state = "RECOVERING"], plan, b)
      BY <2>2 DEF Reported
    <3> DEFINE trying == [counted EXCEPT !.state = "RECOVERING"]
    <3>2. trying.retry = r.retry + 1 /\ trying \in InstanceType /\ trying.state = "RECOVERING"
      <4>1. r.retry + 1 \in Nat
        OBVIOUS
      <4> QED BY <4>1 DEF States
    <3> HIDE DEF trying
    <3>3. o.rec \in {[trying EXCEPT !.state = "FAILED"], trying, [trying EXCEPT !.state = "READY"]}
      BY <3>1, <3>2 DEF Recovery, Recovered, Outcome, trying
    <3>4. o.rec.retry = trying.retry
      BY <3>2, <3>3
    <3> QED BY <2>2, <3>2, <3>4
  <2> QED BY <2>1, <2>2
<1>4. o.rec.state = "FAILED" \/ r.retry < MaxRetries
  BY <1>3, MaxRetries \in Nat DEF ConstantsOK
<1>5. Evolves(r, o.rec)
  BY <1>1, <1>2, <1>3, <1>4 DEF Evolves
<1>6. o.rec.state = "READY" => Evolves(r, Started(o.rec, FALSE))
  <2>1. Started(o.rec, FALSE).state = "RUNNING" /\ Started(o.rec, FALSE).retry = o.rec.retry
    BY <1>2 DEF Started
  <2> QED BY <1>1, <1>3, <1>4, <2>1 DEF Evolves
<1> QED BY <1>3, <1>4, <1>5, <1>6

\* start() inside a run, on instances that are as before but for the agent's own:
\* the agent's instance evolves, or nothing but that one difference remains.
LEMMA StartRunEffect ==
  ASSUME CoreInv, NEW t \in Tasks, NEW a \in Agents, NEW is \in [Instances -> Visible],
         NEW newTask \in BOOLEAN, NEW attempts, StartRun(t, a, is, newTask, attempts),
         agents' = agents, \A j \in Instances : j # agents[a] => is[j] = inst[j],
         agents[a] # None =>
           /\ is[agents[a]].state # "UNBORN"
           /\ Evolves(inst[agents[a]], is[agents[a]])
           /\ is[agents[a]].state = "READY" =>
                Evolves(inst[agents[a]], Started(is[agents[a]], newTask))
  PROVE  ChangesOne(a) \/ UNCHANGED <<agents, inst>>
<1>t. agents \in [Agents -> Instances \cup {None}] /\ inst \in [Instances -> Visible]
  BY TypeOKParts DEF CoreInv
<1>1. CASE agents[a] # None
  <2>1. agents[a] \in Instances
    BY <1>t, <1>1
  <2>2. CASE is[agents[a]].state = "READY"
    <3>1. inst' = [is EXCEPT ![agents[a]] = Started(@, newTask)]
      BY <1>1, <2>2 DEF StartRun
    <3>2. Started(is[agents[a]], newTask).state = "RUNNING"
      BY <2>1, BornOps
    <3>3. inst'[agents[a]] = Started(is[agents[a]], newTask)
      BY <2>1, <3>1
    <3>4. \A j \in Instances : j # agents[a] => inst'[j] = inst[j]
      BY <3>1
    <3> QED BY <1>1, <2>2, <3>2, <3>3, <3>4 DEF ChangesOne
  <2>3. CASE is[agents[a]].state # "READY"
    <3>1. inst' = is
      BY <2>3 DEF StartRun
    <3> QED BY <1>1, <2>1, <3>1 DEF ChangesOne
  <2> QED BY <2>2, <2>3
<1>2. CASE agents[a] = None
  <2>1. inst' = is
    BY <1>2 DEF StartRun
  <2>2. \A j \in Instances : is[j] = inst[j]
    BY <1>2, ConstantsOK DEF ConstantsOK
  <2>3. is = inst
    BY <1>t, <2>2
  <2> QED BY <2>1, <2>3
<1> QED BY <1>1, <1>2

\* Every step does one of five things to the registry and the instances.
LEMMA Effects ==
  ASSUME CoreInv, Next
  PROVE  \/ \E a \in Agents, i \in Instances : Enters(a, i)
         \/ \E a \in Agents : Leaves(a) \/ ChangesOne(a)
         \/ \E S \in SUBSET Agents : Stops(S)
         \/ UNCHANGED <<agents, inst>>
<1> DEFINE Goal == \/ \E a \in Agents, i \in Instances : Enters(a, i)
                   \/ \E a \in Agents : Leaves(a) \/ ChangesOne(a)
                   \/ \E S \in SUBSET Agents : Stops(S)
                   \/ UNCHANGED <<agents, inst>>
<1> SUFFICES Goal
  OBVIOUS
<1> USE DEF Present
<1>t. /\ agents \in [Agents -> Instances \cup {None}]
      /\ inst \in [Instances -> Visible]
      /\ \A t \in Tasks : task[t].pc \notin AtRest =>
           task[t].agent \in Agents /\ task[t].held \in Instances
  BY TypeOKParts DEF CoreInv
<1>b. \A a \in Agents : agents[a] # None =>
        agents[a] \in Instances /\ inst[agents[a]].state # "UNBORN"
  BY <1>t DEF CoreInv, RegistryOK
\* An operation on the instance of one agent.
<1>o. ASSUME NEW a \in Agents, agents[a] # None, agents' = agents, NEW s,
             inst' = [inst EXCEPT ![agents[a]] = s], Evolves(inst[agents[a]], s),
             s.state # "UNBORN"
      PROVE  Goal
  <2>1. ChangesOne(a)
    BY <1>b, <1>o, <1>t DEF ChangesOne
  <2> QED BY <2>1
<1>1. ASSUME NEW a \in Agents, Register(a) PROVE Goal
  BY <1>1 DEF Register, Enters
<1>2. ASSUME NEW a \in Agents, Unregister(a) PROVE Goal
  <2>1. /\ agents[a] \in Instances /\ agents[a] # None
        /\ inst[agents[a]] \in Visible /\ inst[agents[a]].state # "UNBORN"
    BY <1>2, <1>b, <1>t DEF Unregister
  <2>2. CASE inst[agents[a]].state \in Active
    <3>1. CanTransition(inst[agents[a]], "STOPPED")
          /\ inst' = [inst EXCEPT ![agents[a]] = Stopped(@)]
      BY <1>2, <2>2 DEF Unregister
    <3>2. inst[agents[a]].state # "RECOVERING" /\ Stopped(inst[agents[a]]).state = "STOPPED"
      BY <2>1, <3>1, TransitionSources, BornOps
    <3>3. Leaves(a)
      BY <1>2, <1>t, <2>1, <3>1, <3>2 DEF Unregister, Leaves
    <3> QED BY <3>3
  <2>3. CASE inst[agents[a]].state \notin Active
    <3>1. Leaves(a)
      BY <1>2, <2>1, <2>3 DEF Unregister, Leaves, Active
    <3> QED BY <3>1
  <2> QED BY <2>2, <2>3
<1>3. ASSUME NEW a \in Agents, NEW newTask \in BOOLEAN, Start(a, newTask) PROVE Goal
  BY <1>3, <1>b, <1>o, <1>t, EvolvesOps, BornOps DEF Start
<1>4. ASSUME NEW a \in Agents, Pause(a) PROVE Goal
  BY <1>4, <1>b, <1>o, <1>t, EvolvesOps, BornOps DEF Pause
<1>5. ASSUME NEW a \in Agents, Resume(a) PROVE Goal
  BY <1>5, <1>b, <1>o, <1>t, EvolvesOps, BornOps DEF Resume
<1>6. ASSUME NEW a \in Agents, Stop(a) PROVE Goal
  BY <1>6, <1>b, <1>o, <1>t, EvolvesOps, BornOps DEF Stop
<1>7. ASSUME NEW a \in Agents, Complete(a) PROVE Goal
  BY <1>7, <1>b, <1>o, <1>t, EvolvesOps, BornOps DEF Complete
<1>8. ASSUME NEW a \in Agents, Restart(a) PROVE Goal
  BY <1>8, <1>b, <1>o, <1>t, EvolvesOps, BornOps DEF Restart
<1>9. ASSUME Shutdown PROVE Goal
  <2> DEFINE S == {i \in Instances : /\ \E a \in Agents : agents[a] = i
                                     /\ CanTransition(inst[i], "STOPPED")}
             A == {a \in Agents : agents[a] # None /\ CanTransition(inst[agents[a]], "STOPPED")}
  <2>1. inst' = [i \in Instances |-> IF i \in S THEN Stopped(inst[i]) ELSE inst[i]]
        /\ agents' = agents
    BY <1>9 DEF Shutdown
  <2>2. ASSUME NEW a \in A
        PROVE  /\ agents[a] # None
               /\ inst[agents[a]].state \in {"READY", "RUNNING", "PAUSED"}
               /\ inst'[agents[a]].state = "STOPPED"
               /\ inst'[agents[a]].retry = inst[agents[a]].retry
    <3>1. agents[a] \in S /\ inst[agents[a]] \in Visible
      BY <1>b, <1>t
    <3>2. inst[agents[a]].state \in {"READY", "RUNNING", "PAUSED"}
      BY <3>1, TransitionSources
    <3>3. /\ Stopped(inst[agents[a]]).state = "STOPPED"
          /\ Stopped(inst[agents[a]]).retry = inst[agents[a]].retry
      BY <3>1 DEF Stopped, Visible, InstanceType
    <3> QED BY <2>1, <3>1, <3>2, <3>3
  <2>3. ASSUME NEW j \in Instances, \A a \in A : j # agents[a] PROVE inst'[j] = inst[j]
    <3>1. j \notin S
      BY <2>3, ConstantsOK DEF ConstantsOK
    <3> QED BY <2>1, <3>1
  <2>4. A \in SUBSET Agents
    OBVIOUS
  <2> HIDE DEF A, S
  <2>5. Stops(A)
    BY <2>1, <2>2, <2>3 DEF Stops
  <2> QED BY <2>4, <2>5
<1>10. ASSUME NEW t \in Tasks, NEW a \in Agents, BeginRun(t, a) PROVE Goal
  <2>1. agents[a] # None =>
          /\ inst[agents[a]].state # "UNBORN"
          /\ Evolves(inst[agents[a]], inst[agents[a]])
          /\ inst[agents[a]].state = "READY" =>
               Evolves(inst[agents[a]], Started(inst[agents[a]], TRUE))
    BY <1>b, <1>t, EvolvesOps DEF Evolves
  <2>2. ChangesOne(a) \/ UNCHANGED <<agents, inst>>
    BY <1>10, <1>t, <2>1, StartRunEffect DEF BeginRun
  <2> QED BY <2>2
<1>11. ASSUME NEW t \in Tasks, NEW a \in Agents, ReportError(t, a) PROVE Goal
  <2>1. agents[a] # None /\ CanTransition(inst[agents[a]], "FAILING") /\ agents' = agents
    BY <1>11 DEF ReportError
  <2>2. PICK o \in Reported(inst[agents[a]]) : inst' = [inst EXCEPT ![agents[a]] = o.rec]
    BY <1>11 DEF ReportError
  <2>3. Evolves(inst[agents[a]], o.rec) /\ o.rec.state # "UNBORN"
    BY <1>b, <1>t, <2>1, ReportedEvolves, ReportedOutcome, ConstantsOK
  <2> QED BY <1>o, <2>1, <2>2, <2>3
<1>12. ASSUME NEW t \in Tasks, task[t].pc \notin AtRest, agents' = agents,
              inst' = [inst EXCEPT ![task[t].held] = Recovered(@)]
       PROVE  Goal
  <2>1. task[t].held \in Instances /\ inst[task[t].held] \in Visible
    BY <1>12, <1>t
  <2>2. CASE inst[task[t].held].state = "RECOVERING"
    <3>1. PICK a \in Agents : agents[a] = task[t].held
      BY <2>1, <2>2 DEF CoreInv, OrphansAreDead, Orphan
    <3>2. agents[a] # None
      BY <2>1, <3>1, ConstantsOK DEF ConstantsOK
    <3>3. /\ Evolves(inst[agents[a]], Recovered(inst[agents[a]]))
          /\ Recovered(inst[agents[a]]).state # "UNBORN"
      BY <2>1, <2>2, <3>1, EvolvesOps, BornOps
    <3>4. inst' = [inst EXCEPT ![agents[a]] = Recovered(inst[agents[a]])]
      BY <1>12, <3>1
    <3> QED BY <1>12, <1>o, <3>2, <3>3, <3>4
  <2>3. CASE inst[task[t].held].state # "RECOVERING"
    <3>1. inst' = inst
      BY <1>12, <1>t, <2>1, <2>3 DEF Recovered
    <3> QED BY <1>12, <3>1
  <2> QED BY <2>2, <2>3
<1>13. ASSUME NEW t \in Tasks, ReportEnds(t) PROVE Goal
  BY <1>12, <1>13 DEF ReportEnds, AtRest
<1>14. ASSUME NEW t \in Tasks, LoopCompletes(t) PROVE Goal
  <2>1. task[t].agent \in Agents
    BY <1>14, <1>t DEF LoopCompletes, AtRest
  <2>2. CASE inst' = inst
    BY <1>14, <2>2 DEF LoopCompletes
  <2>3. CASE /\ agents[task[t].agent] # None
             /\ CanTransition(inst[agents[task[t].agent]], "COMPLETED")
             /\ inst' = [inst EXCEPT ![agents[task[t].agent]] = Completed(@)]
    <3> DEFINE i == agents[task[t].agent]
    <3>1. i \in Instances /\ inst[i] \in Visible
      BY <1>b, <1>t, <2>1, <2>3
    <3>2. Evolves(inst[i], Completed(inst[i])) /\ Completed(inst[i]).state # "UNBORN"
      BY <2>3, <3>1, EvolvesOps, BornOps
    <3>3. inst' = [inst EXCEPT ![i] = Completed(inst[i])] /\ agents' = agents
      BY <1>14, <2>3 DEF LoopCompletes
    <3> HIDE DEF i
    <3> QED BY <1>o, <2>1, <2>3, <3>2, <3>3 DEF i
  <2> QED BY <1>14, <2>2, <2>3 DEF LoopCompletes
<1>15. ASSUME NEW t \in Tasks, LoopFails(t) PROVE Goal
  <2> DEFINE a == task[t].agent
             i == agents[a]
  <2>1. a \in Agents /\ agents' = agents
    BY <1>15, <1>t DEF LoopFails, AtRest
  <2>2. CASE ~ (i # None /\ CanTransition(inst[i], "FAILING"))
    BY <1>15, <2>1, <2>2 DEF LoopFails
  <2>3. CASE i # None /\ CanTransition(inst[i], "FAILING")
    <3>1. PICK o \in Reported(inst[i]) :
            \/ inst' = [inst EXCEPT ![i] = o.rec]
            \/ /\ o.verdict = "recovered"
               /\ StartRun(t, a, [inst EXCEPT ![i] = o.rec], FALSE, task[t].attempts + 1)
      BY <1>15, <2>3 DEF LoopFails
    <3>2. i \in Instances /\ inst[i] \in Visible
      BY <1>b, <1>t, <2>1, <2>3
    <3>3. /\ Evolves(inst[i], o.rec) /\ o.rec.state # "UNBORN" /\ o.rec \in Visible
          /\ o.rec.state = "READY" => Evolves(inst[i], Started(o.rec, FALSE))
      BY <2>3, <3>2, ReportedEvolves, ReportedOutcome, ConstantsOK
    <3> DEFINE is == [inst EXCEPT ![i] = o.rec]
    <3>4. CASE inst' = is
      BY <1>o, <2>1, <2>3, <3>3, <3>4
    <3>5. CASE StartRun(t, a, is, FALSE, task[t].attempts + 1)
      <4>1. is \in [Instances -> Visible] /\ is[i] = o.rec
            /\ \A j \in Instances : j # i => is[j] = inst[j]
        BY <1>t, <3>2, <3>3
      <4> HIDE DEF is
      <4>2. ChangesOne(a) \/ UNCHANGED <<agents, inst>>
        BY <2>1, <3>3, <3>5, <4>1, StartRunEffect
      <4> QED BY <2>1, <4>2
    <3> QED BY <3>1, <3>4, <3>5
  <2> QED BY <2>2, <2>3
<1>16. ASSUME NEW t \in Tasks, BackoffEnds(t) PROVE Goal
  <2> DEFINE a  == task[t].agent
             h  == task[t].held
             is == [inst EXCEPT ![h] = Recovered(@)]
  <2>1. /\ a \in Agents /\ h \in Instances /\ agents' = agents
        /\ StartRun(t, a, is, FALSE, task[t].attempts + 1) /\ task[t].pc \notin AtRest
    BY <1>16, <1>t DEF BackoffEnds, AtRest
  <2>2. is \in [Instances -> Visible] /\ is[h] = Recovered(inst[h])
        /\ \A j \in Instances : j # h => is[j] = inst[j]
    BY <1>t, <2>1, VisibleOps
  \* What is asleep in a recovery that counts is the instance of the agent itself.
  <2>3. inst[h].state = "RECOVERING" => agents[a] = h
    BY <2>1 DEF CoreInv, OrphansAreDead, Orphan, HeldByItsAgent
  <2>4. \A j \in Instances : j # agents[a] => is[j] = inst[j]
    BY <1>t, <2>1, <2>2, <2>3 DEF Recovered
  <2>5. agents[a] # None =>
          /\ is[agents[a]].state # "UNBORN"
          /\ Evolves(inst[agents[a]], is[agents[a]])
          /\ is[agents[a]].state = "READY" =>
               Evolves(inst[agents[a]], Started(is[agents[a]], FALSE))
    <3> SUFFICES ASSUME agents[a] # None
                 PROVE  /\ is[agents[a]].state # "UNBORN"
                        /\ Evolves(inst[agents[a]], is[agents[a]])
                        /\ is[agents[a]].state = "READY" =>
                             Evolves(inst[agents[a]], Started(is[agents[a]], FALSE))
      OBVIOUS
    <3>1. /\ agents[a] \in Instances /\ inst[agents[a]].state # "UNBORN"
          /\ inst[agents[a]] \in Visible
      BY <1>b, <1>t, <2>1
    <3>2. is[agents[a]] \in {inst[agents[a]], Recovered(inst[agents[a]])}
      BY <2>2, <3>1
    <3>3. Evolves(inst[agents[a]], inst[agents[a]])
          /\ Evolves(inst[agents[a]], Recovered(inst[agents[a]]))
          /\ Recovered(inst[agents[a]]).state # "UNBORN"
      BY <3>1, EvolvesOps, BornOps DEF Evolves
    <3>4. is[agents[a]].state = "READY" =>
            Evolves(inst[agents[a]], Started(is[agents[a]], FALSE))
      <4>1. CASE is[agents[a]] = inst[agents[a]]
        BY <3>1, <4>1, EvolvesOps
      <4>2. CASE is[agents[a]] # inst[agents[a]]
        <5>1. is[agents[a]] = Recovered(inst[agents[a]])
              /\ inst[agents[a]].state = "RECOVERING"
          BY <3>2, <4>2 DEF Recovered
        <5> QED BY <3>1, <5>1, EvolvesOps
      <4> QED BY <4>1, <4>2
    <3> QED BY <3>1, <3>2, <3>3, <3>4
  <2> HIDE DEF is
  <2>6. ChangesOne(a) \/ UNCHANGED <<agents, inst>>
    BY <2>1, <2>2, <2>4, <2>5, StartRunEffect
  <2> QED BY <2>1, <2>6
<1>17. ASSUME NEW t \in Tasks, CheckPause(t) \/ WakeUp(t) \/ LoopRaises(t) \/ Cancel(t)
       PROVE  Goal
  BY <1>17 DEF CheckPause, WakeUp, LoopRaises, Cancel
<1> HIDE DEF Goal
<1> QED
  BY <1>1, <1>2, <1>3, <1>4, <1>5, <1>6, <1>7, <1>8, <1>9, <1>10, <1>11, <1>13, <1>14,
     <1>15, <1>16, <1>17
  DEF Next, Call, RunStep, LoopEnds

\* A task at work was already at work on the same instance of the same agent, or
\* has just taken the instance that is registered for its agent.
LEMMA HoldersStep ==
  ASSUME TypeOK, Next, NEW u \in Tasks, task'[u].pc \notin AtRest
  PROVE  \/ /\ task[u].pc \notin AtRest
            /\ task'[u].agent = task[u].agent
            /\ task'[u].held = task[u].held
         \/ /\ agents' = agents
            /\ task'[u].agent \in Agents
            /\ agents[task'[u].agent] # None
            /\ task'[u].held = agents[task'[u].agent]
<1> DEFINE Stays == /\ task[u].pc \notin AtRest
                    /\ task'[u].agent = task[u].agent
                    /\ task'[u].held = task[u].held
           Takes == /\ agents' = agents
                    /\ task'[u].agent \in Agents
                    /\ agents[task'[u].agent] # None
                    /\ task'[u].held = agents[task'[u].agent]
<1> SUFFICES Stays \/ Takes
  OBVIOUS
<1> USE DEF Present
<1>t. /\ task \in [Tasks -> TaskType]
      /\ \A t \in Tasks : task[t].pc \notin AtRest =>
           task[t].agent \in Agents /\ task[t].held \in Instances
  BY DEF TypeOK
<1>n. CASE task' = task \/ task'[u] = task[u]
  BY <1>n
<1>r. ASSUME NEW S, task' = Released(S) PROVE Stays
  BY <1>r, <1>t DEF Released, AtRest, TaskType
<1>e. ASSUME NEW t \in Tasks, NEW pc \in AtRest, End(t, pc) PROVE Stays
  BY <1>e, <1>t DEF End, Rest
<1>s. ASSUME NEW t \in Tasks, NEW a \in Agents, NEW is, NEW newTask, NEW attempts,
             StartRun(t, a, is, newTask, attempts), agents' = agents
      PROVE  Stays \/ Takes
  <2>1. CASE agents[a] # None /\ is[agents[a]].state = "READY"
    <3>1. CASE u = t
      <4>1. task'[u] = [pc |-> AfterPauseCheck(is[agents[a]]), agent |-> a,
                        held |-> agents[a], attempts |-> attempts]
        BY <1>s, <1>t, <2>1, <3>1 DEF StartRun
      <4> QED BY <1>s, <2>1, <4>1
    <3>2. CASE u # t
      BY <1>n, <1>s, <1>t, <2>1, <3>2 DEF StartRun
    <3> QED BY <3>1, <3>2
  <2>2. CASE ~ (agents[a] # None /\ is[agents[a]].state = "READY")
    <3>1. End(t, "raised") /\ "raised" \in AtRest
      BY <1>s, <2>2 DEF StartRun, AtRest
    <3> QED BY <1>e, <3>1
  <2> QED BY <2>1, <2>2
<1>1. ASSUME NEW a \in Agents, Call(a) PROVE Stays
  BY <1>1, <1>n, <1>r DEF Call, Register, Unregister, Start, Pause, Resume, Stop, Complete, Restart
<1>2. ASSUME Shutdown PROVE Stays
  BY <1>2, <1>r DEF Shutdown
<1>3. ASSUME NEW t \in Tasks, NEW a \in Agents, BeginRun(t, a) PROVE Stays \/ Takes
  BY <1>3, <1>s DEF BeginRun
<1>4. ASSUME NEW t \in Tasks, NEW a \in Agents, ReportError(t, a) PROVE Stays \/ Takes
  <2>1. agents[a] # None /\ agents' = agents
    BY <1>4 DEF ReportError
  <2>2. PICK o \in Reported(inst[agents[a]]) :
          task' = [task EXCEPT ![t] =
                     CASE o.verdict = "backoff"   -> [pc |-> "reporting", agent |-> a,
                                                      held |-> agents[a], attempts |-> 0]
                       [] o.verdict = "gave_up"   -> Rest("gave_up")
                       [] o.verdict = "raised"    -> Rest("raised")
                       [] o.verdict = "recovered" -> Rest("returned")]
    BY <1>4 DEF ReportError
  <2>3. o.verdict \in Verdicts
    BY <1>4, <2>1, ReportedOutcome, TypeOKParts DEF ReportError
  <2>4. CASE o.verdict = "backoff"
    <3>1. task' = [task EXCEPT ![t] = [pc |-> "reporting", agent |-> a,
                                       held |-> agents[a], attempts |-> 0]]
      BY <2>2, <2>4
    <3> QED BY <1>4, <1>n, <1>t, <2>1, <3>1
  <2>5. CASE o.verdict # "backoff"
    <3>1. \E pc \in AtRest : End(t, pc)
      BY <2>2, <2>3, <2>5 DEF Verdicts, End, AtRest
    <3> QED BY <1>e, <3>1
  <2> QED BY <2>4, <2>5
<1>5. ASSUME NEW t \in Tasks, CheckPause(t) PROVE Stays \/ Takes
  <2>1. task[t].agent \in Agents /\ task[t].pc \notin AtRest /\ agents' = agents
    BY <1>5, <1>t DEF CheckPause, AtRest
  <2>2. CASE agents[task[t].agent] = None
    BY <1>5, <1>e, <2>2 DEF CheckPause, AtRest
  <2>3. CASE agents[task[t].agent] # None
    <3> DEFINE i == agents[task[t].agent]
    <3>1. task' = [task EXCEPT ![t].pc = AfterPauseCheck(inst[i]), ![t].held = i]
      BY <1>5, <2>3 DEF CheckPause
    <3>2. u # t => task'[u] = task[u]
      BY <1>t, <3>1
    <3>3. task'[t].agent = task[t].agent /\ task'[t].held = i
      BY <1>t, <3>1 DEF TaskType
    <3> QED BY <1>n, <2>1, <2>3, <3>2, <3>3
  <2> QED BY <2>2, <2>3
<1>6. ASSUME NEW t \in Tasks, WakeUp(t) PROVE Stays
  BY <1>6, <1>t DEF WakeUp, TaskType, AtRest
<1>7. ASSUME NEW t \in Tasks, LoopCompletes(t) \/ LoopRaises(t) \/ ReportEnds(t) \/ Cancel(t)
      PROVE  Stays
  <2>1. \E pc \in AtRest : End(t, pc)
    BY <1>7 DEF LoopCompletes, LoopRaises, ReportEnds, Cancel, End, AtRest
  <2> QED BY <1>e, <2>1
<1>8. ASSUME NEW t \in Tasks, LoopFails(t) PROVE Stays \/ Takes
  <2> DEFINE i == agents[task[t].agent]
  <2>1. task[t].agent \in Agents /\ task[t].pc \notin AtRest /\ agents' = agents
    BY <1>8, <1>t DEF LoopFails, AtRest
  <2>2. CASE ~ (i # None /\ CanTransition(inst[i], "FAILING"))
    BY <1>8, <1>e, <2>2 DEF LoopFails, AtRest
  <2>3. CASE i # None /\ CanTransition(inst[i], "FAILING")
    <3>1. PICK o \in Reported(inst[i]) :
            \/ StartRun(t, task[t].agent, [inst EXCEPT ![i] = o.rec], FALSE,
                        task[t].attempts + 1)
            \/ task' = [task EXCEPT ![t].pc = "backoff", ![t].held = i]
            \/ \E pc \in AtRest : End(t, pc)
      BY <1>8, <2>3 DEF LoopFails, AtRest
    <3>2. CASE StartRun(t, task[t].agent, [inst EXCEPT ![i] = o.rec], FALSE,
                        task[t].attempts + 1)
      BY <1>s, <2>1, <3>2
    <3>3. CASE task' = [task EXCEPT ![t].pc = "backoff", ![t].held = i]
      <4>1. u # t => task'[u] = task[u]
        BY <1>t, <3>3
      <4>2. task'[t].agent = task[t].agent /\ task'[t].held = i
        BY <1>t, <3>3 DEF TaskType
      <4> QED BY <1>n, <2>1, <2>3, <4>1, <4>2
    <3> QED BY <1>e, <3>1, <3>2, <3>3
  <2> QED BY <2>2, <2>3
<1>9. ASSUME NEW t \in Tasks, BackoffEnds(t) PROVE Stays \/ Takes
  <2>1. task[t].agent \in Agents
    BY <1>9, <1>t DEF BackoffEnds, AtRest
  <2> QED BY <1>9, <1>s, <2>1 DEF BackoffEnds
<1> HIDE DEF Stays, Takes
<1> QED
  BY <1>1, <1>2, <1>3, <1>4, <1>5, <1>6, <1>7, <1>8, <1>9 DEF Next, RunStep, LoopEnds

\* The effects keep what the contract needs of the registry.
LEMMA CoreStep == CoreInv /\ [Next]_vars => CoreInv'
<1> SUFFICES ASSUME CoreInv, [Next]_vars PROVE CoreInv'
  OBVIOUS
<1>1. CASE UNCHANGED vars
  BY <1>1 DEF vars, CoreInv, TypeOK, RegistryOK, OrphansAreDead, Orphan, HeldByItsAgent
<1>2. CASE Next
  <2>0. TypeOK'
    BY TypeStep, ConstantsOK DEF CoreInv
  <2>t. /\ agents \in [Agents -> Instances \cup {None}]
        /\ inst \in [Instances -> Visible]
        /\ \A t \in Tasks : task[t].pc \notin AtRest =>
             task[t].agent \in Agents /\ task[t].held \in Instances
    BY TypeOKParts DEF CoreInv
  <2>b. \A a \in Agents : agents[a] # None =>
          agents[a] \in Instances /\ inst[agents[a]].state # "UNBORN"
    BY <2>t DEF CoreInv, RegistryOK
  <2>d. \A a, b \in Agents : agents[a] # None /\ agents[a] = agents[b] => a = b
    BY DEF CoreInv, RegistryOK
  <2>o. \A i \in Instances : Orphan(i) => inst[i].state # "RECOVERING"
    BY DEF CoreInv, OrphansAreDead
  \* What was born stays so; an agent keeps its instance, loses it, or gets an unborn one.
  <2> DEFINE Kept ==
        /\ \A i \in Instances : inst[i].state # "UNBORN" => inst'[i].state # "UNBORN"
        /\ \A a \in Agents : agents'[a] # None =>
             /\ agents'[a] = agents[a] \/ inst[agents'[a]].state = "UNBORN"
             /\ agents'[a] \in Instances /\ inst'[agents'[a]].state # "UNBORN"
        /\ \A a, b \in Agents : agents'[a] # None /\ agents'[a] = agents'[b] => a = b
        /\ \A i \in Instances : Orphan(i)' => inst'[i].state # "RECOVERING"
  <2>1. Kept
    <3>1. ASSUME NEW a \in Agents, NEW i \in Instances, Enters(a, i) PROVE Kept
      <4>1. Registered.state = "READY"
        BY DEF Registered, Unborn
      <4>2. /\ inst'[i].state = "READY" /\ \A j \in Instances : j # i => inst'[j] = inst[j]
            /\ agents'[a] = i /\ \A b \in Agents : b # a => agents'[b] = agents[b]
            /\ agents[a] = None /\ inst[i].state = "UNBORN"
        BY <2>t, <3>1, <4>1 DEF Enters
      <4>3. \A b \in Agents : agents[b] # i
        BY <2>b, <4>2, ConstantsOK DEF ConstantsOK
      <4>4. \A j \in Instances : Orphan(j)' => Orphan(j) \/ j = i
        <5>1. \A j \in Instances : j = i \/ (Orphan(j)' => Orphan(j))
          BY <4>2, ConstantsOK DEF Orphan, ConstantsOK
        <5> QED BY <5>1
      <4>5. \A j \in Instances : Orphan(j)' => inst'[j].state # "RECOVERING"
        BY <2>o, <4>2, <4>4
      <4> QED BY <2>b, <2>d, <4>2, <4>3, <4>5
    <3>2. ASSUME NEW a \in Agents, Leaves(a) PROVE Kept
      <4>1. /\ agents'[a] = None /\ \A b \in Agents : b # a => agents'[b] = agents[b]
            /\ \A j \in Instances : j # agents[a] => inst'[j] = inst[j]
            /\ inst'[agents[a]].state \notin {"RECOVERING", "UNBORN"}
        BY <2>t, <3>2 DEF Leaves
      <4>2. \A j \in Instances : Orphan(j)' => Orphan(j) \/ j = agents[a]
        BY <4>1 DEF Orphan
      <4>3. \A j \in Instances : Orphan(j)' => inst'[j].state # "RECOVERING"
        <5>1. ASSUME NEW j \in Instances, j # agents[a], Orphan(j)
              PROVE  inst'[j].state # "RECOVERING"
          BY <2>o, <4>1, <5>1
        <5> QED BY <4>1, <4>2, <5>1
      <4>4. \A j \in Instances : inst[j].state # "UNBORN" => inst'[j].state # "UNBORN"
        BY <4>1
      <4>5. \A b \in Agents : agents'[b] # None => b # a
        BY <4>1
      <4> QED BY <2>b, <2>d, <4>1, <4>3, <4>4, <4>5
    <3>3. ASSUME NEW a \in Agents, ChangesOne(a) PROVE Kept
      <4>1. /\ agents' = agents /\ inst'[agents[a]].state # "UNBORN"
            /\ \A j \in Instances : j # agents[a] => inst'[j] = inst[j]
        BY <3>3 DEF ChangesOne
      <4>2. \A j \in Instances : Orphan(j)' => j # agents[a] /\ Orphan(j)
        BY <4>1 DEF Orphan
      <4>3. \A j \in Instances : Orphan(j)' => inst'[j].state # "RECOVERING"
        BY <2>o, <4>1, <4>2
      <4>4. \A j \in Instances : inst[j].state # "UNBORN" => inst'[j].state # "UNBORN"
        BY <4>1
      <4> QED BY <2>b, <2>d, <4>1, <4>3, <4>4
    <3>4. ASSUME NEW S \in SUBSET Agents, Stops(S) PROVE Kept
      <4>1. agents' = agents /\ \A j \in Instances : inst'[j] = inst[j] \/
                                  \E a \in S : j = agents[a] /\ inst'[j].state = "STOPPED"
        BY <3>4 DEF Stops
      <4>2. \A j \in Instances : Orphan(j)' => inst'[j] = inst[j] /\ Orphan(j)
        BY <4>1 DEF Orphan
      <4>3. \A j \in Instances : Orphan(j)' => inst'[j].state # "RECOVERING"
        BY <2>o, <4>2
      <4>4. \A j \in Instances : inst[j].state # "UNBORN" => inst'[j].state # "UNBORN"
        BY <4>1
      <4> QED BY <2>b, <2>d, <4>1, <4>3, <4>4
    <3>5. ASSUME UNCHANGED <<agents, inst>> PROVE Kept
      BY <2>b, <2>d, <2>o, <3>5 DEF Orphan
    <3> HIDE DEF Kept
    <3> QED BY <1>2, <3>1, <3>2, <3>3, <3>4, <3>5, Effects
  <2>2. RegistryOK'
    BY <2>1 DEF RegistryOK
  <2>3. OrphansAreDead'
    BY <2>1 DEF OrphansAreDead
  <2>4. HeldByItsAgent'
    <3> SUFFICES ASSUME NEW t \in Tasks, task'[t].pc \notin AtRest
                 PROVE  /\ inst'[task'[t].held].state # "UNBORN"
                        /\ \A b \in Agents : agents'[b] = task'[t].held => b = task'[t].agent
      BY DEF HeldByItsAgent
    <3>1. CASE /\ task[t].pc \notin AtRest
               /\ task'[t].agent = task[t].agent
               /\ task'[t].held = task[t].held
      <4>1. /\ task[t].held \in Instances /\ inst[task[t].held].state # "UNBORN"
            /\ \A b \in Agents : agents[b] = task[t].held => b = task[t].agent
        BY <2>t, <3>1 DEF CoreInv, HeldByItsAgent
      <4>2. task[t].held # None
        BY <4>1, ConstantsOK DEF ConstantsOK
      <4> QED BY <2>1, <3>1, <4>1, <4>2
    <3>2. CASE /\ agents' = agents
               /\ task'[t].agent \in Agents
               /\ agents[task'[t].agent] # None
               /\ task'[t].held = agents[task'[t].agent]
      BY <2>1, <3>2
    <3> QED BY <1>2, <3>1, <3>2, HoldersStep DEF CoreInv
  <2> QED BY <2>0, <2>2, <2>3, <2>4 DEF CoreInv
<1> QED BY <1>1, <1>2

LEMMA CoreInit == Init => CoreInv
<1> SUFFICES ASSUME Init PROVE CoreInv
  OBVIOUS
<1>1. Unborn \in Visible /\ Unborn.state = "UNBORN"
  BY DEF Unborn, Visible, InstanceType
<1>2. Rest("idle") \in TaskType /\ Rest("idle").pc \in AtRest
  BY DEF Rest, TaskType, PCs, AtRest
<1>3. TypeOK
  BY <1>1, <1>2 DEF Init, TypeOK, Visible
<1> QED
  BY <1>1, <1>2, <1>3 DEF Init, CoreInv, RegistryOK, OrphansAreDead, Orphan, HeldByItsAgent

\* An unregistered instance never changes again, whatever the program calls:
\* neither a control call nor a run, nor a recovery that was asleep when its
\* agent was unregistered, touches it.
THEOREM OrphansCorrect == Spec => OrphansStayDead
<1>1. CoreInv /\ [Next]_vars => [\A i \in Instances : Orphan(i) => inst'[i] = inst[i]]_vars
  <2> SUFFICES ASSUME CoreInv, Next, NEW i \in Instances, Orphan(i)
               PROVE  inst'[i] = inst[i]
    OBVIOUS
  <2>1. inst \in [Instances -> Visible]
    BY TypeOKParts DEF CoreInv
  <2>2. ASSUME NEW a \in Agents, NEW j \in Instances, Enters(a, j) PROVE inst'[i] = inst[i]
    BY <2>1, <2>2 DEF Enters, Orphan
  <2>3. ASSUME NEW a \in Agents, Leaves(a) \/ ChangesOne(a) PROVE inst'[i] = inst[i]
    BY <2>3 DEF Leaves, ChangesOne, Orphan
  <2>4. ASSUME NEW S \in SUBSET Agents, Stops(S) PROVE inst'[i] = inst[i]
    BY <2>4 DEF Stops, Orphan
  <2> QED
    BY <2>2, <2>3, <2>4, Effects
<1> QED
  BY <1>1, CoreInit, CoreStep, PTL DEF Spec, OrphansStayDead


\* What the contract's variables stand for.
Status == [a \in Agents |-> IF Present(a) THEN inst[agents[a]].state ELSE "absent"]
Errors == [a \in Agents |-> IF Present(a) THEN inst[agents[a]].retry ELSE 0]

\* A step of one agent that an observer may see.
LEMMA EvolvesObeysContract ==
  ASSUME NEW a \in Agents, agents[a] # None, agents[a] \in Instances,
         inst[agents[a]] \in Visible, inst[agents[a]].state # "UNBORN",
         NEW r \in Visible, Evolves(inst[agents[a]], r),
         Status' = [Status EXCEPT ![a] = r.state],
         Errors' = [Errors EXCEPT ![a] = r.retry]
  PROVE  Contract!ContractNext \/ UNCHANGED Contract!contract
<1> DEFINE q == inst[agents[a]]
<1>1. Status[a] = q.state /\ Errors[a] = q.retry
  BY DEF Status, Errors, Present
<1>2. Status[a] # "absent"
  BY <1>1 DEF Visible, InstanceType, States
<1>3. r.state = Status[a] => Status' = Status
  BY DEF Status
<1>4. r.retry = Errors[a] => Errors' = Errors
  BY DEF Errors
<1> HIDE DEF q
<1> DEFINE Goal == Contract!ContractNext \/ UNCHANGED Contract!contract
<1>5. CASE r = q
  BY <1>1, <1>3, <1>4, <1>5 DEF Contract!contract, Status, Errors
<1>6. CASE q.state = "READY" /\ r.state = "RUNNING" /\ r.retry \in {0, q.retry}
  <2>1. Contract!Begin(a)
    BY <1>1, <1>4, <1>6 DEF Contract!Begin, Contract!Move, Status, Errors
  <2> QED BY <2>1 DEF Contract!ContractNext
<1>7. CASE q.state = "RUNNING" /\ r.state \in {"PAUSED", "COMPLETED"} /\ r.retry = q.retry
  <2>1. Contract!Suspend(a) \/ Contract!Finish(a)
    BY <1>1, <1>4, <1>7 DEF Contract!Suspend, Contract!Finish, Contract!Move, Status, Errors
  <2> QED BY <2>1 DEF Contract!ContractNext
<1>8. CASE q.state = "PAUSED" /\ r.state = "RUNNING" /\ r.retry = q.retry
  <2>1. Contract!Continue(a)
    BY <1>1, <1>4, <1>8 DEF Contract!Continue, Contract!Move, Status, Errors
  <2> QED BY <2>1 DEF Contract!ContractNext
<1>9. CASE /\ q.state \in {"READY", "RUNNING", "PAUSED"} /\ r.state = "STOPPED"
           /\ r.retry = q.retry
  <2>1. Status' = [b \in Agents |-> IF b \in {a} THEN "STOPPED" ELSE Status[b]]
    BY <1>9 DEF Status
  <2>2. Contract!Halt({a})
    BY <1>1, <1>4, <1>9, <2>1 DEF Contract!Halt, Contract!Stoppable, Status, Errors
  <2> QED BY <2>2 DEF Contract!ContractNext
<1>10. CASE /\ q.state = "RUNNING" /\ r.retry = q.retry + 1
            /\ \/ r.state = "FAILED"
               \/ q.retry < MaxRetries /\ r.state \in {"RECOVERING", "READY", "RUNNING"}
  <2>1. Errors' = [Errors EXCEPT ![a] = @ + 1]
    BY <1>1, <1>10
  <2>2. Contract!Fault(a)
    BY <1>1, <1>10, <2>1 DEF Contract!Fault, Contract!Move, Status, Errors
  <2> QED BY <2>2 DEF Contract!ContractNext
<1>11. CASE q.state = "RECOVERING" /\ r.state \in {"READY", "RUNNING"} /\ r.retry = q.retry
  <2>1. Contract!Recover(a)
    BY <1>1, <1>4, <1>11 DEF Contract!Recover, Contract!Move, Status, Errors
  <2> QED BY <2>1 DEF Contract!ContractNext
<1>12. CASE r.state = "RUNNING" /\ r.retry = q.retry
  <2>1. Contract!Reset(a)
    BY <1>1, <1>2, <1>4, <1>12 DEF Contract!Reset, Status, Errors
  <2> QED BY <2>1 DEF Contract!ContractNext
<1> QED
  BY <1>5, <1>6, <1>7, <1>8, <1>9, <1>10, <1>11, <1>12 DEF Evolves, q

\* Every step of the harness is a step of the contract, or none at all.
LEMMA ContractStep ==
  CoreInv /\ [Next]_vars => [Contract!ContractNext]_(Contract!contract)
<1> SUFFICES ASSUME CoreInv, [Next]_vars
             PROVE  Contract!ContractNext \/ UNCHANGED Contract!contract
  OBVIOUS
<1> USE DEF Present
<1>t. /\ agents \in [Agents -> Instances \cup {None}]
      /\ inst \in [Instances -> Visible]
  BY TypeOKParts DEF CoreInv
<1>b. \A a \in Agents : agents[a] # None =>
        agents[a] \in Instances /\ inst[agents[a]].state # "UNBORN"
  BY <1>t DEF CoreInv, RegistryOK
<1>d. \A a, b \in Agents : agents[a] # None /\ agents[a] = agents[b] => a = b
  BY DEF CoreInv, RegistryOK
<1>v. inst' \in [Instances -> Visible]
  <2>1. TypeOK'
    BY TypeStep, ConstantsOK DEF CoreInv
  <2> QED BY <2>1 DEF TypeOK, Visible
\* An agent whose place in the registry and whose instance stay looks the same.
<1>s. ASSUME NEW b \in Agents, agents'[b] = agents[b],
             agents[b] # None => inst'[agents[b]] = inst[agents[b]]
      PROVE  Status'[b] = Status[b] /\ Errors'[b] = Errors[b]
  BY <1>s DEF Status, Errors
<1>e. ASSUME NEW a \in Agents,
             \A b \in Agents : b # a => Status'[b] = Status[b] /\ Errors'[b] = Errors[b]
      PROVE  /\ Status' = [Status EXCEPT ![a] = Status'[a]]
             /\ Errors' = [Errors EXCEPT ![a] = Errors'[a]]
  BY <1>e DEF Status, Errors
<1>1. ASSUME NEW a \in Agents, NEW i \in Instances, Enters(a, i)
      PROVE  Contract!ContractNext
  <2>1. /\ agents[a] = None /\ agents'[a] = i
        /\ \A b \in Agents : b # a => agents'[b] = agents[b] /\ agents[b] # i
        /\ inst'[i] = Registered /\ \A j \in Instances : j # i => inst'[j] = inst[j]
    BY <1>1, <1>b, <1>t, ConstantsOK DEF Enters, ConstantsOK
  <2>2. \A b \in Agents : b # a => Status'[b] = Status[b] /\ Errors'[b] = Errors[b]
    BY <1>b, <1>s, <2>1
  <2>3. Status[a] = "absent" /\ Status'[a] = "READY" /\ Errors'[a] = 0
    BY <2>1, ConstantsOK DEF Status, Errors, Registered, Unborn, ConstantsOK
  <2>4. Status' = [Status EXCEPT ![a] = "READY"] /\ Errors' = [Errors EXCEPT ![a] = 0]
    BY <1>e, <2>2, <2>3
  <2>5. Contract!Admit(a)
    BY <2>3, <2>4 DEF Contract!Admit, Contract!Move, Status, Errors
  <2> QED BY <2>5 DEF Contract!ContractNext
<1>2. ASSUME NEW a \in Agents, Leaves(a) PROVE Contract!ContractNext
  <2>1. /\ agents[a] # None /\ agents'[a] = None
        /\ \A b \in Agents : b # a => agents'[b] = agents[b] /\
             (agents[b] # None => agents[b] # agents[a])
        /\ \A j \in Instances : j # agents[a] => inst'[j] = inst[j]
    BY <1>2, <1>d, <1>t DEF Leaves
  <2>2. \A b \in Agents : b # a => Status'[b] = Status[b] /\ Errors'[b] = Errors[b]
    BY <1>b, <1>s, <2>1
  <2>3. /\ Status[a] \notin {"absent", "RECOVERING"}
        /\ Status'[a] = "absent" /\ Errors'[a] = 0
    BY <1>2, <1>b, <1>t, <2>1 DEF Leaves, Status, Errors, Visible, InstanceType, States
  <2>4. Status' = [Status EXCEPT ![a] = "absent"] /\ Errors' = [Errors EXCEPT ![a] = 0]
    BY <1>e, <2>2, <2>3
  <2>5. Contract!Remove(a)
    BY <2>3, <2>4 DEF Contract!Remove, Status, Errors
  <2> QED BY <2>5 DEF Contract!ContractNext
<1>3. ASSUME NEW a \in Agents, ChangesOne(a)
      PROVE  Contract!ContractNext \/ UNCHANGED Contract!contract
  <2>1. /\ agents[a] # None /\ agents' = agents
        /\ \A b \in Agents : b # a /\ agents[b] # None => agents[b] # agents[a]
        /\ \A j \in Instances : j # agents[a] => inst'[j] = inst[j]
    BY <1>3, <1>d DEF ChangesOne
  <2>2. \A b \in Agents : b # a => Status'[b] = Status[b] /\ Errors'[b] = Errors[b]
    BY <1>b, <1>s, <2>1
  <2>3. Status'[a] = inst'[agents[a]].state /\ Errors'[a] = inst'[agents[a]].retry
    BY <2>1 DEF Status, Errors
  <2>4. agents[a] \in Instances /\ inst[agents[a]].state # "UNBORN"
        /\ inst[agents[a]] \in Visible /\ inst'[agents[a]] \in Visible
        /\ Evolves(inst[agents[a]], inst'[agents[a]])
    BY <1>3, <1>b, <1>t, <1>v, <2>1 DEF ChangesOne
  <2> QED BY <1>e, <2>1, <2>2, <2>3, <2>4, EvolvesObeysContract
<1>4. ASSUME NEW S \in SUBSET Agents, Stops(S)
      PROVE  Contract!ContractNext \/ UNCHANGED Contract!contract
  <2>1. ASSUME NEW b \in Agents
        PROVE  /\ b \notin S => Status'[b] = Status[b]
               /\ b \in S => Status'[b] = "STOPPED" /\ Status[b] \in {"READY", "RUNNING", "PAUSED"}
               /\ Errors'[b] = Errors[b]
    <3>1. CASE b \in S
      BY <1>4, <3>1 DEF Stops, Status, Errors
    <3>2. CASE b \notin S
      <4>1. agents[b] # None => \A a \in S : agents[b] # agents[a]
        BY <1>d, <3>2
      <4>2. agents'[b] = agents[b] /\ (agents[b] # None => inst'[agents[b]] = inst[agents[b]])
        BY <1>4, <1>b, <4>1 DEF Stops
      <4> QED BY <1>s, <3>2, <4>2
    <3> QED BY <3>1, <3>2
  <2>2. Errors' = Errors
    BY <2>1 DEF Errors
  <2>3. Status' = [b \in Agents |-> IF b \in S THEN "STOPPED" ELSE Status[b]]
    BY <2>1 DEF Status
  <2>4. CASE S = {}
    <3>1. Status' = Status
      BY <2>3, <2>4 DEF Status
    <3> QED BY <2>2, <3>1 DEF Contract!contract, Status, Errors
  <2>5. CASE S # {}
    <3>1. Contract!Halt(S)
      BY <2>1, <2>2, <2>3, <2>5 DEF Contract!Halt, Contract!Stoppable, Status, Errors
    <3> QED BY <3>1 DEF Contract!ContractNext
  <2> QED BY <2>4, <2>5
<1>5. ASSUME UNCHANGED <<agents, inst>> PROVE UNCHANGED Contract!contract
  BY <1>5 DEF Contract!contract
<1> QED
  BY <1>1, <1>2, <1>3, <1>4, <1>5, Effects DEF vars

\* The harness implements the contract: whatever the program calls, an observer
\* sees each agent go through the documented states only, use a retry with every
\* error, and never leave COMPLETED, FAILED or STOPPED but by unregister() or
\* restart().
THEOREM HarnessImplementsContract == Spec => ImplementsContract
<1>1. Init => Contract!ContractInit
  <2> SUFFICES ASSUME Init PROVE Contract!ContractInit
    OBVIOUS
  <2>1. \A a \in Agents : agents[a] = None
    BY DEF Init
  <2> QED
    BY <2>1 DEF Contract!ContractInit, Present
<1> QED
  BY <1>1, CoreInit, CoreStep, ContractStep, PTL
  DEF Spec, ImplementsContract, Contract!ContractSpec

-----------------------------------------------------------------------------
(* The ledger of a run: its attempts are paid for by the retries of the    *)
(* instance it holds, and so is every start() that no complete(), stop()   *)
(* or failure has taken back from active_tasks.                            *)

InstanceLedger(r) ==
  /\ r.state \in {"UNBORN", "READY"} => r.active = 0
  /\ r.active <= r.retry + (IF r.state \in {"RUNNING", "PAUSED"} THEN 1 ELSE 0)

RunLedger(pc, attempts, retry) ==
  IF pc = "backoff" THEN attempts <= retry /\ retry <= MaxRetries ELSE attempts <= retry + 1

Ledger ==
  /\ \A i \in Instances : InstanceLedger(inst[i])
  /\ AttemptsWithinBudget
  /\ \A t \in Tasks :
       InRun(t) => RunLedger(task[t].pc, task[t].attempts, inst[task[t].held].retry)

\* What a start() may find and still leave the instance balanced.
LEMMA LedgerStarted ==
  ASSUME NEW m \in Nat, NEW n \in Nat, m <= n,
         NEW s, s.state = "RUNNING", s.active = m + 1, s.retry = n
  PROVE  InstanceLedger(s)
BY DEF InstanceLedger

\* The operations that a control call may apply to an instance balance it, and
\* only start() of a READY one touches the retries.
LEMMA LedgerOps ==
  ASSUME NEW r \in Visible, InstanceLedger(r), NEW newTask \in BOOLEAN
  PROVE  /\ InstanceLedger(Registered)
         /\ r.state = "READY" => InstanceLedger(Started(r, newTask))
         /\ CanTransition(r, "PAUSED") =>
              InstanceLedger(Paused(r)) /\ Paused(r).retry = r.retry
         /\ CanTransition(r, "RUNNING") =>
              InstanceLedger(Resumed(r)) /\ Resumed(r).retry = r.retry
         /\ CanTransition(r, "STOPPED") =>
              InstanceLedger(Stopped(r)) /\ Stopped(r).retry = r.retry
         /\ CanTransition(r, "COMPLETED") =>
              InstanceLedger(Completed(r)) /\ Completed(r).retry = r.retry
         /\ r.state = "RECOVERING" => InstanceLedger(Started(Recovered(r), FALSE))
<1> USE DEF Visible, InstanceType, InstanceLedger
<1>1. InstanceLedger(Registered)
  BY DEF Registered, Unborn
<1>2. r.state = "READY" => InstanceLedger(Started(r, newTask))
  <2> SUFFICES ASSUME r.state = "READY" PROVE InstanceLedger(Started(r, newTask))
    OBVIOUS
  <2>1. /\ Started(r, newTask).state = "RUNNING"
        /\ Started(r, newTask).active = 1
        /\ Started(r, newTask).retry \in {0, r.retry}
    BY DEF Started
  <2> QED BY <2>1
<1>3. CanTransition(r, "PAUSED") => InstanceLedger(Paused(r)) /\ Paused(r).retry = r.retry
  BY TransitionSources DEF Paused
<1>4. CanTransition(r, "RUNNING") => InstanceLedger(Resumed(r)) /\ Resumed(r).retry = r.retry
  BY TransitionSources DEF Resumed
<1>5. /\ r.active <= r.retry + 1 => Decremented(r.active) <= r.retry
      /\ Decremented(r.active) \in Nat
  BY DEF Decremented
<1>6. CanTransition(r, "STOPPED") => InstanceLedger(Stopped(r)) /\ Stopped(r).retry = r.retry
  <2>1. /\ Stopped(r).state = "STOPPED" /\ Stopped(r).retry = r.retry
        /\ Stopped(r).active = Decremented(r.active)
    BY DEF Stopped
  <2> QED BY <1>5, <2>1
<1>7. CanTransition(r, "COMPLETED") =>
        InstanceLedger(Completed(r)) /\ Completed(r).retry = r.retry
  <2>1. /\ Completed(r).state = "COMPLETED" /\ Completed(r).retry = r.retry
        /\ Completed(r).active = Decremented(r.active)
    BY DEF Completed
  <2> QED BY <1>5, <2>1
<1>8. r.state = "RECOVERING" => InstanceLedger(Started(Recovered(r), FALSE))
  <2> SUFFICES ASSUME r.state = "RECOVERING"
               PROVE  InstanceLedger(Started(Recovered(r), FALSE))
    OBVIOUS
  <2>1. /\ Started(Recovered(r), FALSE).state = "RUNNING"
        /\ Started(Recovered(r), FALSE).active = r.active + 1
        /\ Started(Recovered(r), FALSE).retry = r.retry
    BY DEF Started, Recovered
  <2>2. r.active \in Nat /\ r.retry \in Nat /\ r.active <= r.retry
    OBVIOUS
  <2> QED BY <2>1, <2>2, LedgerStarted
<1> QED
  BY <1>1, <1>2, <1>3, <1>4, <1>6, <1>7, <1>8

\* report_error() pays the start() it ends with the retry it counts.
LEMMA LedgerReported ==
  ASSUME NEW r \in Visible, InstanceLedger(r), CanTransition(r, "FAILING"),
         NEW o \in Reported(r)
  PROVE  /\ o.rec.retry = r.retry + 1
         /\ o.rec.state # "READY" => InstanceLedger(o.rec)
         /\ o.rec.state = "READY" => /\ InstanceLedger(Started(o.rec, FALSE))
                                     /\ Started(o.rec, FALSE).retry = o.rec.retry
         /\ o.rec.state \in {"READY", "RECOVERING"} => o.rec.retry <= MaxRetries
<1> DEFINE counted == [r EXCEPT !.retry = @ + 1]
<1> USE DEF Visible, InstanceType, InstanceLedger
<1>1. r.state = "RUNNING"
  BY TransitionSources
<1>2. o.rec.state \in {"READY", "RECOVERING", "FAILED"} /\ o.rec \in Visible
  BY ReportedOutcome
<1>3. o.rec.retry = r.retry + 1 /\ (o.rec.state = "FAILED" \/ r.retry < MaxRetries)
  BY ReportedEvolves, ConstantsOK
<1>4. o.rec.active = r.active
  <2>1. CASE counted.retry > MaxRetries
    <3>1. o = Outcome([counted EXCEPT !.state = "FAILED", !.failed = @ + 1], "gave_up")
      BY <2>1 DEF Reported
    <3> QED BY <3>1 DEF Outcome
  <2>2. CASE ~ (counted.retry > MaxRetries)
    <3> DEFINE trying == [counted EXCEPT !.state = "RECOVERING"]
    <3>1. PICK plan \in Plans, b \in HasBackoff : o = Recovery(trying, plan, b)
      BY <2>2 DEF Reported
    <3>2. trying.active = r.active /\ trying \in InstanceType /\ trying.state = "RECOVERING"
      <4>1. r.retry + 1 \in Nat
        OBVIOUS
      <4> QED BY <4>1 DEF States
    <3> HIDE DEF trying
    <3>3. o.rec \in {[trying EXCEPT !.state = "FAILED"], trying, [trying EXCEPT !.state = "READY"]}
      BY <3>1, <3>2 DEF Recovery, Recovered, Outcome
    <3> QED BY <3>2, <3>3
  <2> QED BY <2>1, <2>2
<1>5. o.rec.state # "READY" => InstanceLedger(o.rec)
  BY <1>1, <1>2, <1>3, <1>4
<1>6. o.rec.state = "READY" => /\ InstanceLedger(Started(o.rec, FALSE))
                               /\ Started(o.rec, FALSE).retry = o.rec.retry
  <2>1. /\ Started(o.rec, FALSE).state = "RUNNING"
        /\ Started(o.rec, FALSE).active = o.rec.active + 1
        /\ Started(o.rec, FALSE).retry = o.rec.retry
    BY <1>2 DEF Started
  <2>2. r.active \in Nat /\ r.retry + 1 \in Nat /\ r.active <= r.retry + 1
    BY <1>1
  <2> DEFINE s == Started(o.rec, FALSE)
  <2>3. s.state = "RUNNING" /\ s.active = r.active + 1 /\ s.retry = r.retry + 1
    BY <1>3, <1>4, <2>1
  <2> HIDE DEF s, InstanceLedger
  <2>4. InstanceLedger(s)
    BY <2>2, <2>3, LedgerStarted
  <2> QED BY <2>1, <2>4 DEF s
<1>7. o.rec.state \in {"READY", "RECOVERING"} => o.rec.retry <= MaxRetries
  <2>1. r.retry \in Nat /\ MaxRetries \in Nat
    BY ConstantsOK DEF ConstantsOK
  <2> QED BY <1>3, <2>1
<1> QED BY <1>3, <1>5, <1>6, <1>7

\* start() inside a run, on instances that are balanced but for the agent's own.
LEMMA StartRunLedger ==
  ASSUME RunInv, Ledger, ConstantsOK, NEW t \in Tasks, NEW a \in Agents,
         NEW is \in [Instances -> Visible], NEW newTask \in BOOLEAN, NEW attempts \in Nat,
         \A j \in Instances : j # agents[a] => InstanceLedger(is[j]),
         \A u \in Tasks : u # t /\ InRun(u) =>
           is[task[u].held].retry = inst[task[u].held].retry,
         agents[a] # None /\ is[agents[a]].state = "READY" =>
           /\ InstanceLedger(Started(is[agents[a]], newTask))
           /\ attempts <= Started(is[agents[a]], newTask).retry + 1
           /\ attempts <= MaxRetries + 1
           /\ \A u \in Tasks : u # t /\ InRun(u) => task[u].held # agents[a],
         agents[a] # None /\ is[agents[a]].state # "READY" => InstanceLedger(is[agents[a]]),
         StartRun(t, a, is, newTask, attempts)
  PROVE  Ledger'
<1>t. /\ agents \in [Agents -> Instances \cup {None}]
      /\ task \in [Tasks -> TaskType]
      /\ \A u \in Tasks : InRun(u) => task[u].agent \in Agents /\ task[u].held \in Instances
  BY DEF RunInv, TypeOK, InRun, Running, AtRest
<1>l. /\ \A u \in Tasks : task[u].attempts <= MaxRetries + 1
      /\ \A u \in Tasks :
           InRun(u) => RunLedger(task[u].pc, task[u].attempts, inst[task[u].held].retry)
  BY DEF Ledger, AttemptsWithinBudget
<1>1. CASE agents[a] # None /\ is[agents[a]].state = "READY"
  <2> DEFINE i == agents[a]
  <2>1. i \in Instances
    BY <1>1, <1>t
  <2>2. /\ inst'[i] = Started(is[i], newTask)
        /\ \A j \in Instances : j # i => inst'[j] = is[j]
    BY <1>1, <2>1 DEF StartRun
  <2>3. /\ task'[t].held = i /\ task'[t].pc \in {"loop", "paused"}
        /\ task'[t].attempts = attempts
        /\ \A u \in Tasks : u # t => task'[u] = task[u]
    BY <1>1, <1>t DEF StartRun, AfterPauseCheck
  <2>4. \A j \in Instances : InstanceLedger(inst'[j])
    BY <1>1, <2>2
  <2>5. \A u \in Tasks : task'[u].attempts <= MaxRetries + 1
    BY <1>1, <1>l, <2>3
  <2>6. ASSUME NEW u \in Tasks, InRun(u)'
        PROVE  RunLedger(task'[u].pc, task'[u].attempts, inst'[task'[u].held].retry)
    <3>1. CASE u = t
      BY <1>1, <2>2, <2>3, <3>1 DEF RunLedger
    <3>2. CASE u # t
      <4>1. InRun(u) /\ task'[u] = task[u]
        BY <2>3, <2>6, <3>2 DEF InRun
      <4>2. inst'[task[u].held].retry = inst[task[u].held].retry
        BY <1>1, <1>t, <2>2, <3>2, <4>1
      <4> QED BY <1>l, <4>1, <4>2
    <3> QED BY <3>1, <3>2
  <2> QED BY <2>4, <2>5, <2>6 DEF Ledger, AttemptsWithinBudget
<1>2. CASE ~ (agents[a] # None /\ is[agents[a]].state = "READY")
  <2>1. inst' = is /\ End(t, "raised")
    BY <1>2 DEF StartRun
  <2>2. \A j \in Instances : InstanceLedger(is[j])
    BY <1>2, ConstantsOK DEF ConstantsOK
  <2>3. /\ task'[t].attempts = 0 /\ task'[t].pc = "raised"
        /\ \A u \in Tasks : u # t => task'[u] = task[u]
    BY <1>t, <2>1 DEF End, Rest
  <2>4. \A u \in Tasks : task'[u].attempts <= MaxRetries + 1
    BY <1>l, <2>3, ConstantsOK DEF ConstantsOK
  <2>5. ASSUME NEW u \in Tasks, InRun(u)'
        PROVE  RunLedger(task'[u].pc, task'[u].attempts, inst'[task'[u].held].retry)
    <3>1. u # t /\ InRun(u) /\ task'[u] = task[u]
      BY <2>3, <2>5 DEF InRun, Running
    <3> QED BY <1>l, <2>1, <3>1
  <2> QED BY <2>1, <2>2, <2>4, <2>5 DEF Ledger, AttemptsWithinBudget
<1> QED BY <1>1, <1>2

LEMMA LedgerStep ==
  Controls \cap Intrusive = {} /\ RunInv /\ Ledger /\ [Next]_vars => Ledger'
<1> SUFFICES ASSUME Controls \cap Intrusive = {}, RunInv, Ledger, [Next]_vars
             PROVE  Ledger'
  OBVIOUS
<1> USE DEF Present
<1>t. /\ agents \in [Agents -> Instances \cup {None}]
      /\ inst \in [Instances -> Visible]
      /\ task \in [Tasks -> TaskType]
      /\ \A t \in Tasks : task[t].pc \notin AtRest =>
           task[t].agent \in Agents /\ task[t].held \in Instances
  BY TypeOKParts DEF RunInv
<1>u. "restart" \notin Controls /\ "report_error" \notin Controls /\ "unregister" \notin Controls
  BY DEF Intrusive
<1>n. \A t \in Tasks : task[t].pc # "reporting"
  BY DEF RunInv, NobodyReports
<1>i. /\ \A i \in Instances : InstanceLedger(inst[i])
      /\ \A t \in Tasks : task[t].attempts <= MaxRetries + 1
      /\ \A t \in Tasks :
           InRun(t) => RunLedger(task[t].pc, task[t].attempts, inst[task[t].held].retry)
  BY DEF Ledger, AttemptsWithinBudget
<1>h. \A t \in Tasks : InRun(t) =>
        /\ task[t].held \in Instances /\ inst[task[t].held].state # "READY"
        /\ task[t].agent \in Agents /\ agents[task[t].agent] = task[t].held
        /\ task[t].held # None
  BY <1>t, ConstantsOK
  DEF RunInv, RunsHoldTheirAgent, RunningIsNotReady, InRun, Running, AtRest, ConstantsOK
\* No two runs hold the same instance.
<1>d. \A t, u \in Tasks : InRun(t) /\ InRun(u) /\ task[t].held = task[u].held => t = u
  <2>1. \A t, u \in Tasks : InRun(t) /\ InRun(u) /\ task[t].held = task[u].held =>
          task[t].agent = task[u].agent
    BY <1>h DEF RunInv, RegistryOK
  <2> QED BY <2>1 DEF RunInv, OneRunPerAgent, InRun
\* What leaves the retries of the instances in a run and the tasks in a run alone.
<1>k. ASSUME \A j \in Instances : InstanceLedger(inst'[j]),
             \A t \in Tasks :
               /\ task'[t].attempts = task[t].attempts \/ task'[t].attempts = 0
               /\ InRun(t)' => /\ InRun(t)
                               /\ task'[t].held = task[t].held
                               /\ task'[t].attempts = task[t].attempts
                               /\ task'[t].pc = "backoff" <=> task[t].pc = "backoff"
                               /\ inst'[task[t].held].retry = inst[task[t].held].retry
      PROVE  Ledger'
  <2>1. \A t \in Tasks : task'[t].attempts <= MaxRetries + 1
    BY <1>i, <1>k, ConstantsOK DEF ConstantsOK
  <2>2. \A t \in Tasks : InRun(t)' =>
          RunLedger(task'[t].pc, task'[t].attempts, inst'[task'[t].held].retry)
    BY <1>i, <1>k DEF RunLedger
  <2> QED BY <1>k, <2>1, <2>2 DEF Ledger, AttemptsWithinBudget
\* A control call on one instance.
<1>b. ASSUME NEW i \in Instances, NEW r, InstanceLedger(r),
             inst[i].state = "READY" \/ r.retry = inst[i].retry,
             inst' = [inst EXCEPT ![i] = r], task' = task \/ \E S : task' = Released(S)
      PROVE  Ledger'
  <2>1. \A j \in Instances : InstanceLedger(inst'[j])
    BY <1>b, <1>i, <1>t
  <2>2. \A t \in Tasks : InRun(t) => inst'[task[t].held].retry = inst[task[t].held].retry
    BY <1>b, <1>h, <1>t
  <2>3. \A t \in Tasks : /\ task'[t].attempts = task[t].attempts
                         /\ InRun(t)' => /\ InRun(t)
                                         /\ task'[t].held = task[t].held
                                         /\ task'[t].pc = "backoff" <=> task[t].pc = "backoff"
    BY <1>b, <1>t DEF Released, InRun, Running, TaskType
  <2>4. ASSUME NEW t \in Tasks, InRun(t)'
        PROVE  /\ InRun(t)
               /\ task'[t].held = task[t].held
               /\ task'[t].attempts = task[t].attempts
               /\ task'[t].pc = "backoff" <=> task[t].pc = "backoff"
               /\ inst'[task[t].held].retry = inst[task[t].held].retry
    <3>1. InRun(t)
      BY <2>3, <2>4
    <3>2. task'[t].held = task[t].held /\ task'[t].attempts = task[t].attempts
      BY <2>3, <2>4
    <3>3. task'[t].pc = "backoff" <=> task[t].pc = "backoff"
      BY <2>3, <2>4
    <3>4. inst'[task[t].held].retry = inst[task[t].held].retry
      BY <2>2, <3>1
    <3> QED BY <3>1, <3>2, <3>3, <3>4
  <2> QED BY <1>k, <2>1, <2>3, <2>4
\* The end of a run.
<1>e. ASSUME NEW t \in Tasks, NEW pc \in AtRest, End(t, pc),
             \A j \in Instances : InstanceLedger(inst'[j]),
             \A u \in Tasks : u # t /\ InRun(u) =>
               inst'[task[u].held].retry = inst[task[u].held].retry
      PROVE  Ledger'
  <2>1. /\ task'[t].pc = pc /\ task'[t].attempts = 0
        /\ \A u \in Tasks : u # t => task'[u] = task[u]
    BY <1>e, <1>t DEF End, Rest
  <2>2. ~ InRun(t)'
    BY <1>e, <2>1 DEF InRun, Running, AtRest
  <2> QED BY <1>e, <1>k, <2>1, <2>2 DEF InRun
<1>1. ASSUME NEW a \in Agents, Register(a) PROVE Ledger'
  <2>1. PICK i \in Instances : inst[i].state = "UNBORN" /\ inst' = [inst EXCEPT ![i] = Registered]
    BY <1>1 DEF Register
  <2>2. task' = task
    BY <1>1 DEF Register
  <2>3. \A t \in Tasks : InRun(t) => task[t].held # i
    BY <1>h, <2>1 DEF RunInv, RegistryOK
  <2>4. InstanceLedger(Registered)
    BY DEF InstanceLedger, Registered, Unborn
  <2>5. \A j \in Instances : InstanceLedger(inst'[j])
    BY <1>i, <1>t, <2>1, <2>4
  <2>6. \A t \in Tasks : InRun(t) => inst'[task[t].held].retry = inst[task[t].held].retry
    BY <1>h, <1>t, <2>1, <2>3
  <2>7. \A t \in Tasks : InRun(t)' <=> InRun(t)
    BY <2>2 DEF InRun
  <2> QED BY <1>k, <2>2, <2>5, <2>6, <2>7
<1>2. ASSUME NEW a \in Agents, NEW newTask \in BOOLEAN, Start(a, newTask) PROVE Ledger'
  <2>1. agents[a] \in Instances /\ inst[agents[a]].state = "READY"
    BY <1>2, <1>t DEF Start
  <2>2. InstanceLedger(Started(inst[agents[a]], newTask))
    BY <1>i, <1>t, <2>1, LedgerOps
  <2> QED BY <1>2, <1>b, <2>1, <2>2 DEF Start
<1>3. ASSUME NEW a \in Agents, Pause(a) PROVE Ledger'
  BY <1>3, <1>b, <1>i, <1>t, LedgerOps DEF Pause
<1>4. ASSUME NEW a \in Agents, Resume(a) PROVE Ledger'
  BY <1>4, <1>b, <1>i, <1>t, LedgerOps DEF Resume
<1>5. ASSUME NEW a \in Agents, Stop(a) PROVE Ledger'
  BY <1>5, <1>b, <1>i, <1>t, LedgerOps DEF Stop
<1>6. ASSUME NEW a \in Agents, Complete(a) PROVE Ledger'
  BY <1>6, <1>b, <1>i, <1>t, LedgerOps DEF Complete
<1>7. ASSUME Shutdown PROVE Ledger'
  <2>1. ASSUME NEW i \in Instances
        PROVE  InstanceLedger(inst'[i]) /\ inst'[i].retry = inst[i].retry
    <3>1. \/ inst'[i] = inst[i]
          \/ CanTransition(inst[i], "STOPPED") /\ inst'[i] = Stopped(inst[i])
      BY <1>7 DEF Shutdown
    <3> QED BY <1>i, <1>t, <3>1, LedgerOps
  <2>2. PICK S : task' = Released(S)
    BY <1>7 DEF Shutdown
  <2>3. \A t \in Tasks : /\ task'[t].attempts = task[t].attempts
                         /\ InRun(t)' => /\ InRun(t)
                                         /\ task'[t].held = task[t].held
                                         /\ task'[t].pc = "backoff" <=> task[t].pc = "backoff"
    BY <1>t, <2>2 DEF Released, InRun, Running, TaskType
  <2>4. ASSUME NEW t \in Tasks, InRun(t)'
        PROVE  /\ InRun(t)
               /\ task'[t].held = task[t].held
               /\ task'[t].attempts = task[t].attempts
               /\ task'[t].pc = "backoff" <=> task[t].pc = "backoff"
               /\ inst'[task[t].held].retry = inst[task[t].held].retry
    BY <1>h, <2>1, <2>3, <2>4 DEF InRun
  <2> QED BY <1>k, <2>1, <2>3, <2>4
<1>8. ASSUME NEW t \in Tasks, NEW a \in Agents, BeginRun(t, a) PROVE Ledger'
  <2>1. agents[a] # None /\ inst[agents[a]].state = "READY" =>
          /\ InstanceLedger(Started(inst[agents[a]], TRUE))
          /\ 1 <= Started(inst[agents[a]], TRUE).retry + 1
          /\ 1 <= MaxRetries + 1
          /\ \A u \in Tasks : u # t /\ InRun(u) => task[u].held # agents[a]
    <3> SUFFICES ASSUME agents[a] # None, inst[agents[a]].state = "READY"
                 PROVE  /\ InstanceLedger(Started(inst[agents[a]], TRUE))
                        /\ 1 <= Started(inst[agents[a]], TRUE).retry + 1
                        /\ 1 <= MaxRetries + 1
                        /\ \A u \in Tasks : u # t /\ InRun(u) => task[u].held # agents[a]
      OBVIOUS
    <3>1. agents[a] \in Instances
      BY <1>t
    <3>2. Started(inst[agents[a]], TRUE).retry = 0
      BY <1>t, <3>1 DEF Started, Visible, InstanceType
    <3>3. InstanceLedger(Started(inst[agents[a]], TRUE))
      BY <1>i, <1>t, <3>1, LedgerOps
    <3> DEFINE s == Started(inst[agents[a]], TRUE)
    <3> HIDE DEF s
    <3>4. s.retry = 0
      BY <3>2 DEF s
    <3>5. 1 <= s.retry + 1 /\ 1 <= MaxRetries + 1
      BY <3>4, ConstantsOK DEF ConstantsOK
    <3> QED BY <1>h, <3>3, <3>5 DEF s
  <2>2. StartRun(t, a, inst, TRUE, 1)
    BY <1>8 DEF BeginRun
  <2>3. agents[a] # None => agents[a] \in Instances
    BY <1>t
  <2> QED BY <1>i, <1>t, <2>1, <2>2, <2>3, StartRunLedger, ConstantsOK
<1>9. ASSUME NEW t \in Tasks, CheckPause(t) PROVE Ledger'
  <2>1. task[t].pc = "loop" /\ InRun(t) /\ inst' = inst
    BY <1>9 DEF CheckPause, InRun, Running
  <2>2. agents[task[t].agent] = task[t].held /\ task[t].held # None
    BY <1>h, <2>1
  <2>3. task' = [task EXCEPT ![t].pc = AfterPauseCheck(inst[task[t].held]),
                             ![t].held = task[t].held]
    BY <1>9, <2>2 DEF CheckPause
  <2>4. /\ task'[t].held = task[t].held /\ task'[t].attempts = task[t].attempts
        /\ task'[t].pc \in {"loop", "paused"}
        /\ \A u \in Tasks : u # t => task'[u] = task[u]
    BY <1>t, <2>3 DEF AfterPauseCheck, TaskType
  <2> QED BY <1>i, <1>k, <2>1, <2>4 DEF InRun
<1>10. ASSUME NEW t \in Tasks, WakeUp(t) PROVE Ledger'
  <2>1. /\ task[t].pc = "woken" /\ InRun(t) /\ inst' = inst
        /\ task' = [task EXCEPT ![t].pc = "loop"]
    BY <1>10 DEF WakeUp, InRun, Running
  <2>2. /\ task'[t].held = task[t].held /\ task'[t].attempts = task[t].attempts
        /\ task'[t].pc = "loop"
        /\ \A u \in Tasks : u # t => task'[u] = task[u]
    BY <1>t, <2>1 DEF TaskType
  <2> QED BY <1>i, <1>k, <2>1, <2>2 DEF InRun
<1>11. ASSUME NEW t \in Tasks, LoopCompletes(t) PROVE Ledger'
  <2>1. task[t].agent \in Agents
    BY <1>11, <1>t DEF LoopCompletes, AtRest
  <2>2. ASSUME NEW i \in Instances
        PROVE  InstanceLedger(inst'[i]) /\ inst'[i].retry = inst[i].retry
    <3>1. \/ inst'[i] = inst[i]
          \/ CanTransition(inst[i], "COMPLETED") /\ inst'[i] = Completed(inst[i])
      BY <1>11, <1>t, <2>1 DEF LoopCompletes
    <3> QED BY <1>i, <1>t, <3>1, LedgerOps
  <2>3. \E pc \in AtRest : End(t, pc)
    BY <1>11 DEF LoopCompletes, AtRest
  <2> QED BY <1>e, <1>h, <2>2, <2>3
<1>12. ASSUME NEW t \in Tasks, LoopFails(t) PROVE Ledger'
  <2> DEFINE a == task[t].agent
             i == agents[a]
  <2>1. task[t].pc = "loop" /\ InRun(t)
    BY <1>12 DEF LoopFails, InRun, Running
  <2>2. a \in Agents /\ i \in Instances /\ i # None /\ task[t].held = i
    BY <1>h, <2>1
  <2>3. CASE ~ CanTransition(inst[i], "FAILING")
    <3>1. inst' = inst /\ End(t, "raised")
      BY <1>12, <2>3 DEF LoopFails
    <3> QED BY <1>e, <1>i, <3>1 DEF AtRest
  <2>4. CASE CanTransition(inst[i], "FAILING")
    <3>1. PICK o \in Reported(inst[i]) :
            \/ /\ o.verdict = "recovered"
               /\ StartRun(t, a, [inst EXCEPT ![i] = o.rec], FALSE, task[t].attempts + 1)
            \/ /\ o.verdict = "backoff"
               /\ inst' = [inst EXCEPT ![i] = o.rec]
               /\ task' = [task EXCEPT ![t].pc = "backoff", ![t].held = i]
            \/ /\ o.verdict \in {"gave_up", "raised"}
               /\ inst' = [inst EXCEPT ![i] = o.rec]
               /\ End(t, o.verdict)
      BY <1>12, <2>2, <2>4 DEF LoopFails
    <3>2. /\ o.rec \in Visible
          /\ o.verdict = "backoff" => o.rec.state = "RECOVERING"
          /\ o.rec.state = "READY" => o.verdict = "recovered"
      BY <1>t, <2>2, ReportedOutcome
    <3>3. /\ o.rec.retry = inst[i].retry + 1
          /\ o.rec.state # "READY" => InstanceLedger(o.rec)
          /\ o.rec.state = "READY" => /\ InstanceLedger(Started(o.rec, FALSE))
                                      /\ Started(o.rec, FALSE).retry = o.rec.retry
          /\ o.rec.state \in {"READY", "RECOVERING"} => o.rec.retry <= MaxRetries
      BY <1>i, <1>t, <2>2, <2>4, LedgerReported
    <3>4. /\ task[t].attempts \in Nat /\ o.rec.retry \in Nat /\ MaxRetries \in Nat
          /\ task[t].attempts <= o.rec.retry
      <4>1. task[t].attempts <= inst[i].retry + 1
        BY <1>i, <2>1, <2>2 DEF RunLedger
      <4> QED BY <1>t, <2>2, <3>2, <3>3, <4>1, ConstantsOK
              DEF TaskType, Visible, InstanceType, ConstantsOK
    <3> DEFINE is == [inst EXCEPT ![i] = o.rec]
    <3>5. /\ is \in [Instances -> Visible] /\ is[i] = o.rec
          /\ \A j \in Instances : j # i => is[j] = inst[j] /\ InstanceLedger(is[j])
      BY <1>i, <1>t, <2>2, <3>2
    <3>6. \A u \in Tasks : u # t /\ InRun(u) =>
            task[u].held # i /\ is[task[u].held].retry = inst[task[u].held].retry
      BY <1>d, <1>h, <2>1, <2>2, <3>5
    <3> HIDE DEF is
    <3>7. CASE StartRun(t, a, is, FALSE, task[t].attempts + 1)
      <4>1. task[t].attempts + 1 \in Nat
        BY <3>4
      <4>2. is[i].state = "READY" =>
              /\ InstanceLedger(Started(is[i], FALSE))
              /\ task[t].attempts + 1 <= Started(is[i], FALSE).retry + 1
              /\ task[t].attempts + 1 <= MaxRetries + 1
        <5> SUFFICES ASSUME is[i].state = "READY"
                     PROVE  /\ InstanceLedger(Started(is[i], FALSE))
                            /\ task[t].attempts + 1 <= Started(is[i], FALSE).retry + 1
                            /\ task[t].attempts + 1 <= MaxRetries + 1
          OBVIOUS
        <5>1. o.rec.retry <= MaxRetries /\ Started(is[i], FALSE).retry = o.rec.retry
          BY <3>3, <3>5
        <5>2. task[t].attempts <= MaxRetries
          BY <3>4, <5>1
        <5>3. InstanceLedger(Started(is[i], FALSE))
          BY <3>3, <3>5
        <5> DEFINE s == Started(is[i], FALSE)
        <5>4. s.retry = o.rec.retry
          BY <5>1
        <5> HIDE DEF s
        <5>5. task[t].attempts + 1 <= s.retry + 1 /\ task[t].attempts + 1 <= MaxRetries + 1
          BY <3>4, <5>2, <5>4
        <5> QED BY <5>3, <5>5 DEF s
      <4> HIDE DEF a
      <4>3. is[i].state # "READY" => InstanceLedger(is[i])
        BY <3>3, <3>5
      <4>4. \A u \in Tasks : u # t /\ InRun(u) =>
              task[u].held # i /\ is[task[u].held].retry = inst[task[u].held].retry
        BY <3>6
      <4> QED BY <2>2, <3>5, <3>7, <4>1, <4>2, <4>3, <4>4, StartRunLedger, ConstantsOK
    <3>8. CASE /\ o.verdict = "backoff"
               /\ inst' = is
               /\ task' = [task EXCEPT ![t].pc = "backoff", ![t].held = i]
      <4>1. /\ task'[t].pc = "backoff" /\ task'[t].held = i
            /\ task'[t].attempts = task[t].attempts
            /\ \A u \in Tasks : u # t => task'[u] = task[u]
        <5> HIDE DEF i
        <5> QED BY <1>t, <3>8 DEF TaskType
      <4>2. \A j \in Instances : InstanceLedger(inst'[j])
        BY <3>2, <3>3, <3>5, <3>8
      <4>3. \A u \in Tasks : task'[u].attempts <= MaxRetries + 1
        BY <1>i, <4>1
      <4>4. ASSUME NEW u \in Tasks, InRun(u)'
            PROVE  RunLedger(task'[u].pc, task'[u].attempts, inst'[task'[u].held].retry)
        <5>1. CASE u = t
          BY <3>2, <3>3, <3>4, <3>5, <3>8, <4>1, <5>1 DEF RunLedger
        <5>2. CASE u # t
          <6>1. task'[u] = task[u] /\ InRun(u)
            BY <4>1, <4>4, <5>2 DEF InRun
          <6> QED BY <1>i, <3>6, <3>8, <5>2, <6>1
        <5> QED BY <5>1, <5>2
      <4> QED BY <4>2, <4>3, <4>4 DEF Ledger, AttemptsWithinBudget
    <3>9. CASE o.verdict \in {"gave_up", "raised"} /\ inst' = is /\ End(t, o.verdict)
      <4>1. \A j \in Instances : InstanceLedger(inst'[j])
        BY <3>2, <3>3, <3>5, <3>9
      <4> QED BY <1>e, <3>6, <3>9, <4>1 DEF AtRest
    <3> QED BY <3>1, <3>7, <3>8, <3>9 DEF is
  <2> QED BY <2>3, <2>4
<1>13. ASSUME NEW t \in Tasks, BackoffEnds(t) PROVE Ledger'
  <2> DEFINE a  == task[t].agent
             h  == task[t].held
             is == [inst EXCEPT ![h] = Recovered(@)]
  <2>1. task[t].pc = "backoff" /\ InRun(t) /\ StartRun(t, a, is, FALSE, task[t].attempts + 1)
    BY <1>13 DEF BackoffEnds, InRun, Running
  <2>2. a \in Agents /\ h \in Instances /\ agents[a] = h /\ inst[h].state # "READY"
    BY <1>h, <2>1
  <2>3. /\ task[t].attempts \in Nat /\ inst[h].retry \in Nat /\ MaxRetries \in Nat
        /\ task[t].attempts <= inst[h].retry /\ inst[h].retry <= MaxRetries
    BY <1>i, <1>t, <2>1, <2>2, ConstantsOK
    DEF RunLedger, TaskType, Visible, InstanceType, ConstantsOK
  <2>4. /\ is \in [Instances -> Visible] /\ is[h] = Recovered(inst[h])
        /\ \A j \in Instances : j # h => is[j] = inst[j] /\ InstanceLedger(is[j])
    BY <1>i, <1>t, <2>2, VisibleOps
  <2>5. \A u \in Tasks : u # t /\ InRun(u) =>
          task[u].held # h /\ is[task[u].held].retry = inst[task[u].held].retry
    BY <1>d, <1>h, <2>1, <2>4
  <2>6. is[h].state = "READY" =>
          /\ InstanceLedger(Started(is[h], FALSE))
          /\ task[t].attempts + 1 <= Started(is[h], FALSE).retry + 1
          /\ task[t].attempts + 1 <= MaxRetries + 1
    <3> SUFFICES ASSUME is[h].state = "READY"
                 PROVE  /\ InstanceLedger(Started(is[h], FALSE))
                        /\ task[t].attempts + 1 <= Started(is[h], FALSE).retry + 1
                        /\ task[t].attempts + 1 <= MaxRetries + 1
      OBVIOUS
    <3>1. inst[h].state = "RECOVERING" /\ inst[h] \in Visible
      BY <1>t, <2>2, <2>4 DEF Recovered
    <3>2. Started(Recovered(inst[h]), FALSE).retry = inst[h].retry
      BY <3>1 DEF Started, Recovered, Visible, InstanceType
    <3>3. InstanceLedger(Started(Recovered(inst[h]), FALSE))
      BY <1>i, <2>2, <3>1, LedgerOps
    <3>4. /\ InstanceLedger(Started(is[h], FALSE))
          /\ Started(is[h], FALSE).retry = inst[h].retry
      BY <2>4, <3>2, <3>3
    <3> DEFINE s == Started(is[h], FALSE)
    <3>5. s.retry = inst[h].retry
      BY <3>4
    <3> HIDE DEF s, is, h
    <3>6. task[t].attempts + 1 <= s.retry + 1 /\ task[t].attempts + 1 <= MaxRetries + 1
      BY <2>3, <3>5
    <3> QED BY <3>4, <3>6 DEF s
  <2>7. is[h].state # "READY" => InstanceLedger(is[h])
    <3>1. inst[h].state # "RECOVERING" => is[h] = inst[h]
      BY <2>4 DEF Recovered
    <3>2. inst[h].state = "RECOVERING" => is[h].state = "READY"
      BY <1>t, <2>2, <2>4 DEF Recovered, Visible, InstanceType
    <3> QED BY <1>i, <2>2, <3>1, <3>2
  <2>8. task[t].attempts + 1 \in Nat
    BY <2>3
  <2> HIDE DEF is, h, a
  <2> QED BY <2>1, <2>2, <2>4, <2>5, <2>6, <2>7, <2>8, StartRunLedger, ConstantsOK
<1>14. ASSUME NEW t \in Tasks, LoopRaises(t) \/ Cancel(t) PROVE Ledger'
  BY <1>14, <1>e, <1>i DEF LoopRaises, Cancel, AtRest
<1>15. ASSUME NEW t \in Tasks, ReportEnds(t) PROVE Ledger'
  BY <1>15, <1>n DEF ReportEnds
<1>16. CASE UNCHANGED vars
  BY <1>16 DEF vars, Ledger, AttemptsWithinBudget, InRun
<1> QED
  BY <1>u, <1>1, <1>2, <1>3, <1>4, <1>5, <1>6, <1>7, <1>8, <1>9, <1>10, <1>11, <1>12,
     <1>13, <1>14, <1>15, <1>16
  DEF Next, Call, RunStep, LoopEnds, Unregister, Restart, ReportError

LEMMA LedgerInit == Init => Ledger
<1> SUFFICES ASSUME Init PROVE Ledger
  OBVIOUS
<1>1. Rest("idle").pc = "idle" /\ Rest("idle").attempts = 0
  BY DEF Rest
<1> QED
  BY <1>1, ConstantsOK
  DEF Init, Ledger, AttemptsWithinBudget, InRun, Running, InstanceLedger, Unborn, ConstantsOK

LEMMA RunInvCorrect ==
  ASSUME Controls \cap Intrusive = {}
  PROVE  Spec => [](RunInv /\ Ledger)
<1>1. Init => RunInv
  BY RunInvInit
<1>2. RunInv /\ Ledger /\ [Next]_vars => (RunInv /\ Ledger)'
  BY RunInvStep, LedgerStep, ConstantsOK
<1> QED
  BY <1>1, <1>2, LedgerInit, PTL DEF Spec

\* As long as nobody restarts or unregisters agents or reports errors from
\* outside, no run attempts its loop more than max_retries + 1 times, however
\* many callers pause, resume and stop the agent in between.
THEOREM AttemptsCorrect ==
  ASSUME Controls \cap Intrusive = {}
  PROVE  Spec => []AttemptsWithinBudget
<1>1. Ledger => AttemptsWithinBudget
  BY DEF Ledger
<1> QED
  BY <1>1, RunInvCorrect, PTL

\* Under the same calls active_tasks is never further above the truth than the
\* retries since the last fresh task: what report_error() forgets to take back.
THEOREM DriftCorrect ==
  ASSUME Controls \cap Intrusive = {}
  PROVE  Spec => []DriftWithinRetries
<1>1. Ledger => DriftWithinRetries
  BY DEF Ledger, InstanceLedger, DriftWithinRetries
<1> QED
  BY <1>1, RunInvCorrect, PTL

=============================================================================
