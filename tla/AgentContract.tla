--------------------------- MODULE AgentContract ---------------------------
(***************************************************************************)
(* What a registered agent shows to an observer who can only look between  *)
(* two steps of the asyncio event loop: its lifecycle state and how many   *)
(* errors it has reported since its last fresh task.  This is the promise  *)
(* the documented nine-state machine makes; Lifecycle implements it.       *)
(*                                                                         *)
(* Two of the nine states are never visible here.  REGISTERING and FAILING *)
(* are entered and left inside one uninterrupted step of the event loop.   *)
(***************************************************************************)
EXTENDS Naturals

CONSTANTS Agents,      \* agent ids
          MaxRetries   \* RecoveryPolicy.max_retries

VARIABLES status,      \* agent id -> visible state, "absent" if unregistered
          errors       \* agent id -> errors reported since the last fresh task

contract == <<status, errors>>

Stoppable == {"READY", "RUNNING", "PAUSED"}

ContractInit ==
  /\ status = [a \in Agents |-> "absent"]
  /\ errors = [a \in Agents |-> 0]

Move(a, from, to) ==
  /\ status[a] \in from
  /\ status' = [status EXCEPT ![a] = to]

\* register() of an unknown id.
Admit(a) ==
  /\ Move(a, {"absent"}, "READY")
  /\ errors' = [errors EXCEPT ![a] = 0]

\* unregister(): an agent in the middle of a recovery cannot be removed.
Remove(a) ==
  /\ status[a] \notin {"absent", "RECOVERING"}
  /\ status' = [status EXCEPT ![a] = "absent"]
  /\ errors' = [errors EXCEPT ![a] = 0]

\* start(), for a fresh task or not, and resume() of an agent that is READY.
Begin(a) ==
  /\ Move(a, {"READY"}, "RUNNING")
  /\ \/ errors' = [errors EXCEPT ![a] = 0]
     \/ UNCHANGED errors

Suspend(a)  == Move(a, {"RUNNING"}, "PAUSED") /\ UNCHANGED errors
Continue(a) == Move(a, {"PAUSED"}, "RUNNING") /\ UNCHANGED errors
Finish(a)   == Move(a, {"RUNNING"}, "COMPLETED") /\ UNCHANGED errors

\* stop() of one agent, shutdown() of many in one step.
Halt(S) ==
  /\ S # {}
  /\ \A a \in S : status[a] \in Stoppable
  /\ status' = [a \in Agents |-> IF a \in S THEN "STOPPED" ELSE status[a]]
  /\ UNCHANGED errors

\* An error uses one retry.  Once they are used up the agent has FAILED.
Fault(a) ==
  /\ errors' = [errors EXCEPT ![a] = @ + 1]
  /\ \/ /\ errors[a] < MaxRetries
        /\ \E to \in {"RECOVERING", "READY", "RUNNING"} : Move(a, {"RUNNING"}, to)
     \/ Move(a, {"RUNNING"}, "FAILED")

\* The backoff ends; the run that was waiting for it may start at once.
Recover(a) ==
  /\ \E to \in {"READY", "RUNNING"} : Move(a, {"RECOVERING"}, to)
  /\ UNCHANGED errors

\* restart(): from anywhere, and it does not give the retries back.
Reset(a) ==
  /\ status[a] # "absent"
  /\ status' = [status EXCEPT ![a] = "RUNNING"]
  /\ UNCHANGED errors

ContractNext ==
  \/ \E a \in Agents :
       \/ Admit(a) \/ Remove(a) \/ Begin(a) \/ Suspend(a) \/ Continue(a)
       \/ Finish(a) \/ Fault(a) \/ Recover(a) \/ Reset(a)
  \/ \E S \in SUBSET Agents : Halt(S)

ContractSpec == ContractInit /\ [][ContractNext]_contract

=============================================================================
