------------------------------ MODULE Contexts ------------------------------
(***************************************************************************)
(* The context store (harness/context.py): values under a key, private to  *)
(* an agent or shared, with a time to live.                                *)
(*                                                                         *)
(* A value is an object of the caller, which may change it at any time;    *)
(* the store keeps a copy of it or the object itself.  The scopes session  *)
(* and agent are alike to the code, and so are shared and global.  A call  *)
(* for a private scope without an agent raises and changes nothing.        *)
(***************************************************************************)
EXTENDS Integers, FiniteSets

CONSTANTS
  Users, Names,   \* agents, keys
  Objects,        \* what callers save
  Absent,
  Ttls,           \* times to live; Absent is none
  LastSecond,     \* bound: the clock
  MaxVersion      \* bound: the changes of an object

\* What the store keeps, and what is remembered of a save().
Entries == [copy : Nat, object : Objects \cup {Absent}, ttl : Ttls \cup {Absent}, updated : Nat]
Notes   == [said : Nat, at : Nat, object : Objects, ttl : Ttls \cup {Absent},
            fresh : BOOLEAN, steady : BOOLEAN]

ASSUME ContextsConstantsOK ==
  /\ Absent \notin Users \cup Objects \cup Entries \cup Notes
  /\ Ttls \subseteq Nat \cup {Absent}
  /\ LastSecond \in Nat /\ MaxVersion \in Nat

\* _make_key(): without an agent it is a shared one.
Places == (Users \cup {Absent}) \X Names

VARIABLES
  second,   \* the clock
  version,  \* what each object says
  store,    \* the entry of each place
  saved     \* history: what save() was last given for the place

contextVars == <<second, version, store, saved>>

-----------------------------------------------------------------------------

Expired(e) == e.ttl # Absent /\ second - e.updated > e.ttl

Present(p) == store[p] # Absent /\ ~ Expired(store[p])

\* What load() hands out a copy of.
Reading(e) == IF e.object # Absent THEN version[e.object] ELSE e.copy

Entry(v, o, ttl) == [copy |-> v, object |-> o, ttl |-> ttl, updated |-> second]

\* Fresh: load() would have found nothing there.  Steady: saved with one time to live
\* ever since.
Noted(p, o, ttl) ==
  saved' = [saved EXCEPT ![p] =
              [said |-> version[o], at |-> second, object |-> o, ttl |-> ttl, fresh |-> ~ Present(p),
               steady |-> Present(p) => saved[p].steady /\ saved[p].ttl = ttl]]

\* A fault: an entry that has run out is updated like any other.
SaveOver(p, o, ttl) ==
  /\ store' = [store EXCEPT ![p] =
                 IF store[p] # Absent THEN Entry(0, o, store[p].ttl)
                 ELSE Entry(version[o], Absent, ttl)]
  /\ Noted(p, o, ttl)
  /\ UNCHANGED <<second, version>>

\* A key that is there keeps its time to live, and gets the object itself.
Save(p, o, ttl) ==
  /\ store' = [store EXCEPT ![p] =
                 IF Present(p) THEN Entry(0, o, store[p].ttl)
                 ELSE Entry(version[o], Absent, ttl)]
  /\ Noted(p, o, ttl)
  /\ UNCHANGED <<second, version>>

Dropped(gone) ==
  /\ gone # {}
  /\ store' = [p \in Places |-> IF p \in gone THEN Absent ELSE store[p]]
  /\ UNCHANGED <<second, version>>

\* What is deleted was saved for nothing; what ran out is still known to have been saved.
Deleted(gone) ==
  Dropped(gone) /\ saved' = [p \in Places |-> IF p \in gone THEN Absent ELSE saved[p]]

RunOut(places) == {p \in places : store[p] # Absent /\ Expired(store[p])}

InScope(private) == {p \in Places : (p[1] # Absent) = private}

\* load() drops the one entry if it has run out, list_keys() those of a scope.
Load(p) == Dropped(RunOut({p})) /\ UNCHANGED saved

ListKeys(private) == Dropped(RunOut(InScope(private))) /\ UNCHANGED saved

Delete(p) == Deleted({p} \cap {q \in Places : store[q] # Absent})

ClearScope(private, a) ==
  Deleted({p \in InScope(private) : store[p] # Absent /\ (private => p[1] = a)})

\* A caller changes an object of its own.
Change(o) ==
  /\ version[o] < MaxVersion
  /\ version' = [version EXCEPT ![o] = @ + 1]
  /\ UNCHANGED <<second, store, saved>>

SecondPasses == second < LastSecond /\ second' = second + 1 /\ UNCHANGED <<version, store, saved>>

ContextsInit ==
  /\ second = 0 /\ version = [o \in Objects |-> 0]
  /\ store = [p \in Places |-> Absent] /\ saved = [p \in Places |-> Absent]

ContextsNext ==
  \/ \E p \in Places, o \in Objects, ttl \in Ttls : Save(p, o, ttl)
  \/ \E p \in Places : Load(p) \/ Delete(p)
  \/ \E private \in BOOLEAN, a \in Users : ListKeys(private) \/ ClearScope(private, a)
  \/ \E o \in Objects : Change(o)
  \/ SecondPasses

-----------------------------------------------------------------------------

ContextsTypeOK ==
  /\ second \in 0 .. LastSecond /\ version \in [Objects -> 0 .. MaxVersion]
  /\ store \in [Places -> Entries \cup {Absent}] /\ saved \in [Places -> Notes \cup {Absent}]
  /\ \A p \in Places : store[p] # Absent => store[p].updated <= second

\* The time to live of a save() is not over.
InTime(last) == last.ttl = Absent \/ second <= last.at + last.ttl

\* Nothing is there that was not saved.  A value saved where load() found nothing, one
\* that ran out and is still in the table included, is served as it was then whatever
\* became of the caller's object, and one saved over another as long as its object is
\* what it was.  Unless the time to live was changed on the way, a value is there exactly
\* for that time since the last save (context.py:110-119).
ServedAsSaved ==
  \A p \in Places :
    LET last == saved[p]
    IN  /\ Present(p) => last # Absent
        /\ Present(p) /\ (last.fresh \/ version[last.object] = last.said)
             => Reading(store[p]) = last.said
        /\ last # Absent /\ last.steady => (Present(p) <=> InTime(last))

\* "Values should be deep-copied on save." (tests/test_context_registry.py:103): what
\* load() returns is what was saved there last.
SavedIsCopied ==
  \A p \in Places : Present(p) => Reading(store[p]) = saved[p].said

\* ttl_seconds is the "Time-to-live in seconds (None = infinite)" of what is saved
\* (context.py:103): it is there for the time that the last save() gave.
LivesAsLongAsSaid ==
  \A p \in Places : saved[p] # Absent => (Present(p) <=> InTime(saved[p]))

\* A value saved over another is kept as one that is saved anew: isolated from its caller
\* and for the time it was given.
SavedOverIsKept == SavedIsCopied /\ LivesAsLongAsSaid
=============================================================================
