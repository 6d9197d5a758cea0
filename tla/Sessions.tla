------------------------------ MODULE Sessions ------------------------------
(***************************************************************************)
(* The session manager (bus/session.py): a table of sessions of a limited  *)
(* size, and an index of them by conversation that only cleanup_stale()    *)
(* takes sessions out of.                                                  *)
(*                                                                         *)
(* A session id is the number of sessions made before it, plus one, so     *)
(* that the order of the numbers is the order in which the table and the   *)
(* lists of the index were filled: they are sets of numbers.  Two sessions *)
(* may be as old as each other: the clock need not move between two calls. *)
(* Turn numbers, participants, metadata and the values of the context are  *)
(* left out.                                                               *)
(***************************************************************************)
EXTENDS Naturals, Sequences, FiniteSets

CONSTANTS
  Conversations,
  MaxSessions,    \* max_sessions
  MaxAge,         \* max_age_seconds of cleanup_stale()
  LastTime,       \* bound: the clock
  MaxMade         \* bound: the sessions ever made

ASSUME SessionsConstantsOK ==
  /\ MaxSessions \in Nat /\ MaxAge \in Nat /\ LastTime \in Nat /\ MaxMade \in Nat
  /\ Conversations # {}

VARIABLES
  time,      \* the clock
  table,     \* _sessions: the ids of the sessions in it
  session,   \* the SessionState of every session that was made
  index      \* _conversation_sessions

sessionVars == <<time, table, session, index>>

New(c) == [conversation |-> c, active |-> TRUE, created |-> time, last |-> time]

\* The first that was made of those of the sessions that none is older than.
Oldest(S, age) ==
  CHOOSE s \in S : \A r \in S : age[s] < age[r] \/ (age[s] = age[r] /\ s <= r)

-----------------------------------------------------------------------------

Inactive == {s \in table : ~ session[s].active}

\* The table after _evict_oldest(); the index is not touched.
Evicted ==
  IF Inactive # {} THEN table \ {Oldest(Inactive, [s \in Inactive |-> session[s].last])}
  ELSE IF table # {} THEN table \ {Oldest(table, [s \in table |-> session[s].created])}
  ELSE table

CreateSession(c) ==
  /\ Len(session) < MaxMade
  /\ session' = Append(session, New(c))
  /\ LET s == Len(session) + 1
     IN  /\ table' = (IF Cardinality(table) >= MaxSessions THEN Evicted ELSE table) \cup {s}
         /\ index' = [index EXCEPT ![c] = @ \cup {s}]
  /\ UNCHANGED time

\* The three calls look the session up; only advance_turn() minds a closed one.
AdvanceTurn(s) ==
  /\ s \in table /\ session[s].active
  /\ session' = [session EXCEPT ![s].last = time]
  /\ UNCHANGED <<time, table, index>>

SetContext(s) ==
  /\ s \in table
  /\ session' = [session EXCEPT ![s].last = time]
  /\ UNCHANGED <<time, table, index>>

CloseSession(s) ==
  /\ s \in table
  /\ session' = [session EXCEPT ![s].active = FALSE, ![s].last = time]
  /\ UNCHANGED <<time, table, index>>

Stale == {s \in Inactive : time > session[s].last + MaxAge}

\* A fault: the index loses every closed session, whatever its age.
CleanupClosed ==
  /\ Stale # {}
  /\ table' = table \ Stale
  /\ index' = [c \in Conversations |-> {s \in index[c] : session[s].active}]
  /\ UNCHANGED <<time, session>>

\* A session that goes is looked for in the list of its own conversation.
CleanupStale ==
  /\ Stale # {}
  /\ table' = table \ Stale
  /\ index' = [c \in Conversations |->
                 index[c] \ {s \in Stale : session[s].conversation = c}]
  /\ UNCHANGED <<time, session>>

SessionTick == time < LastTime /\ time' = time + 1 /\ UNCHANGED <<table, session, index>>

\* get_conversation_sessions()
SessionsOf(c) == {s \in index[c] : s \in table}

SessionsInit ==
  /\ time = 0 /\ table = {} /\ session = <<>>
  /\ index = [c \in Conversations |-> {}]

SessionsNext ==
  \/ \E c \in Conversations : CreateSession(c)
  \/ \E s \in table : AdvanceTurn(s) \/ SetContext(s) \/ CloseSession(s)
  \/ CleanupStale \/ SessionTick

-----------------------------------------------------------------------------

SessionState == [conversation : Conversations, active : BOOLEAN, created : Nat, last : Nat]

\* One session too many is possible only with room for none.
SessionsTypeOK ==
  /\ time \in 0 .. LastTime
  /\ session \in Seq(SessionState) /\ Len(session) <= MaxMade
  /\ table \subseteq DOMAIN session
  /\ Cardinality(table) <= MaxSessions \/ Cardinality(table) = 1
  /\ \A s \in DOMAIN session : session[s].created <= session[s].last /\ session[s].last <= time
  /\ index \in [Conversations -> SUBSET DOMAIN session]

\* A conversation shows exactly its sessions in the table, although the index keeps those
\* that were evicted (session.py:302).
ConversationsAreWhole ==
  \A c \in Conversations :
    SessionsOf(c) = {s \in table : session[s].conversation = c}
=============================================================================
