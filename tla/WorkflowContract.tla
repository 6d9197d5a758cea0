------------------------- MODULE WorkflowContract -------------------------
(***************************************************************************)
(* What the program, and whoever receives the messages of its workflows,   *)
(* can rely on: an execution that is called gets one answer, it ends as    *)
(* cancelled if and only if its caller was, its messages carry its own id, *)
(* and once it is over it sends no more of them, but for tasks that were   *)
(* left behind because somebody was cancelled as its tasks raced.          *)
(* Workflows implements it.                                                *)
(***************************************************************************)
EXTENDS Naturals

CONSTANT Callers     \* the program's tasks

VARIABLES status,    \* "idle", "busy" or the outcome the caller has not taken yet
          run,       \* the execution it is in: 1, 2, ..., or 0
          begun,     \* executions so far
          asked,     \* the callers whose cancellation was asked for
          loose,     \* executions that may have left tasks behind
          sent,      \* ids that messages have carried
          pending    \* executions that have a message out, which is not answered yet

contract == <<status, run, begun, asked, loose, sent, pending>>

AtWork == {run[r] : r \in {c \in Callers : status[c] = "busy"}}

\* Those for which somebody works, and who may send.
Working == AtWork \cup loose

ContractInit ==
  /\ status = [r \in Callers |-> "idle"] /\ run = [r \in Callers |-> 0]
  /\ begun = 0 /\ asked = {} /\ loose = {} /\ sent = {} /\ pending = {}

\* What was left behind ends at any time, and so do messages.
LooseEnds   == loose' \in SUBSET loose
AnswersCome == pending' \in SUBSET pending

Execute(r) ==
  /\ status[r] = "idle" /\ status' = [status EXCEPT ![r] = "busy"]
  /\ begun' = begun + 1 /\ run' = [run EXCEPT ![r] = begun + 1]
  /\ LooseEnds /\ UNCHANGED <<asked, sent, pending>>

\* A message of an execution that goes on, or that left somebody behind.
Send(n) ==
  /\ n \in Working
  /\ sent' = sent \cup {n} /\ pending' = pending \cup {n}
  /\ LooseEnds /\ UNCHANGED <<status, run, begun, asked>>

\* cancel() on the task of a caller.
Cancel(r) ==
  /\ status[r] = "busy" /\ r \notin asked /\ asked' = asked \cup {r}
  /\ loose' \in SUBSET (loose \cup {run[r]})
  /\ UNCHANGED <<status, run, begun, sent, pending>>

\* Tasks are left behind by others than their caller: a loser of a race that waits
\* for a race of its own.
Leave(n) ==
  /\ n \in Working /\ loose' \in SUBSET (loose \cup {n})
  /\ UNCHANGED <<status, run, begun, asked, sent, pending>>

\* A cancellation is neither swallowed nor invented.
Answer(r, outcome) ==
  /\ status[r] = "busy" /\ status' = [status EXCEPT ![r] = outcome]
  /\ outcome = "cancelled" <=> r \in asked
  /\ LooseEnds /\ AnswersCome /\ UNCHANGED <<run, begun, asked, sent>>

Collect(r) ==
  /\ status[r] \in {"value", "error", "cancelled"}
  /\ status' = [status EXCEPT ![r] = "idle"] /\ run' = [run EXCEPT ![r] = 0]
  /\ asked' = asked \ {r}
  /\ LooseEnds /\ UNCHANGED <<begun, sent, pending>>

ContractNext ==
  \/ \E r \in Callers : \/ Execute(r) \/ Cancel(r) \/ Collect(r)
                        \/ \E outcome \in {"value", "error", "cancelled"} : Answer(r, outcome)
  \/ \E n \in Working : Send(n) \/ Leave(n)
  \/ LooseEnds /\ AnswersCome /\ UNCHANGED <<status, run, begun, asked, sent>>

ContractSpec == ContractInit /\ [][ContractNext]_contract

=============================================================================
