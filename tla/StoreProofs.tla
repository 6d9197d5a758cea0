----------------------------- MODULE StoreProofs -----------------------------
(***************************************************************************)
(* What the stores promise.                                                *)
(***************************************************************************)
EXTENDS Registry, Contexts, Trail, Sessions, SequenceTheorems, FiniteSetTheorems,
        WellFoundedInduction, TLAPS

-----------------------------------------------------------------------------
(***************************************************************************)
(* What the registry promises, for any agents, any time to live and any    *)
(* order of registrations, signs of life, evictions, exports and imports.  *)
(*                                                                         *)
(* Of the two halves of HeardOfIsListed the second is what carries the     *)
(* first through an eviction: what evict_stale() compares with the clock   *)
(* is the last sign of life itself.                                        *)
(***************************************************************************)

RegistryInv ==
  /\ RegistryTypeOK
  /\ sign \in [Nodes -> Nat \cup {Gone}]
  /\ HeardOfIsListed

\* Agents that are entered are listed and heard of now.
LEMMA EnteredInv ==
  ASSUME RegistryInv, NEW agents \in SUBSET Nodes, Entered(agents), minute' = minute
  PROVE  /\ entries' \in [Nodes -> 0 .. minute \cup {Gone}]
         /\ sign' \in [Nodes -> Nat \cup {Gone}]
         /\ HeardOfIsListed'
<1>1. minute \in Nat /\ minute \in 0 .. minute /\ minute # Gone
  BY RegistryConstantsOK DEF RegistryInv, RegistryTypeOK, RegistryConstantsOK
<1>2. entries' \in [Nodes -> 0 .. minute \cup {Gone}] /\ sign' \in [Nodes -> Nat \cup {Gone}]
  BY <1>1 DEF Entered, RegistryInv, RegistryTypeOK
<1>3. ASSUME NEW a \in Nodes
      PROVE  /\ sign'[a] # Gone /\ sign'[a] + Ttl >= minute' => entries'[a] # Gone
             /\ entries'[a] # Gone => entries'[a] = sign'[a]
  BY <1>1 DEF Entered, RegistryInv, HeardOfIsListed, Listed
<1> QED
  BY <1>2, <1>3 DEF HeardOfIsListed, Listed

LEMMA RegistryInvInit == RegistryInit => RegistryInv
BY RegistryConstantsOK
DEF RegistryInit, RegistryInv, RegistryTypeOK, HeardOfIsListed, Listed, RegistryConstantsOK

LEMMA RegistryInvStep == RegistryInv /\ [RegistryNext]_registryVars => RegistryInv'
<1> SUFFICES ASSUME RegistryInv, [RegistryNext]_registryVars PROVE RegistryInv'
  OBVIOUS
<1>1. minute \in Nat /\ Ttl \in Nat /\ Gone \notin Nat
  BY RegistryConstantsOK DEF RegistryInv, RegistryTypeOK, RegistryConstantsOK
<1>2. ASSUME NEW a \in Nodes, NEW skills \in BOOLEAN, Register(a, skills)
      PROVE  RegistryInv'
  <2>1. {a} \in SUBSET Nodes
    OBVIOUS
  <2> QED BY <1>2, <2>1, EnteredInv DEF Register, RegistryInv, RegistryTypeOK
<1>3. ASSUME NEW a \in Nodes, NEW skills \in BOOLEAN, UpdateDescriptor(a, skills)
      PROVE  RegistryInv'
  BY <1>3 DEF UpdateDescriptor, RegistryInv, RegistryTypeOK, HeardOfIsListed, Listed
<1>4. ASSUME NEW a \in Nodes, Unregister(a) PROVE RegistryInv'
  <2>1. /\ entries' \in [Nodes -> 0 .. minute \cup {Gone}]
        /\ sign' \in [Nodes -> Nat \cup {Gone}]
    BY <1>4 DEF Unregister, Taken, RegistryInv, RegistryTypeOK
  <2>2. HeardOfIsListed'
    BY <1>4 DEF Unregister, Taken, RegistryInv, RegistryTypeOK, HeardOfIsListed, Listed
  <2> QED BY <1>4, <2>1, <2>2 DEF Unregister, RegistryInv, RegistryTypeOK
<1>5. ASSUME NEW a \in Nodes, Heartbeat(a) PROVE RegistryInv'
  <2>1. {a} \in SUBSET Nodes
    OBVIOUS
  <2> QED BY <1>5, <2>1, EnteredInv DEF Heartbeat, RegistryInv, RegistryTypeOK
<1>6. CASE EvictStale
  <2> DEFINE late == {a \in Listed : entries[a] < minute - Ttl}
  <2>1. Taken(late) /\ UNCHANGED <<minute, skilled, exported, sign>>
    BY <1>6 DEF EvictStale
  <2>2. entries' \in [Nodes -> 0 .. minute \cup {Gone}]
    BY <2>1 DEF Taken, RegistryInv, RegistryTypeOK
  <2>3. ASSUME NEW a \in Nodes
        PROVE  /\ sign[a] # Gone /\ sign[a] + Ttl >= minute => entries'[a] # Gone
               /\ entries'[a] # Gone => entries'[a] = sign[a]
    <3>1. CASE a \in late
      <4>1. entries[a] = sign[a] /\ entries[a] \in Nat /\ entries[a] < minute - Ttl
        BY <3>1 DEF RegistryInv, HeardOfIsListed, Listed, RegistryTypeOK
      <4>2. ~ (sign[a] + Ttl >= minute)
        BY <1>1, <4>1
      <4> QED BY <2>1, <3>1, <4>2 DEF Taken
    <3>2. CASE a \notin late
      BY <2>1, <3>2 DEF Taken, RegistryInv, HeardOfIsListed, Listed
    <3> QED BY <3>1, <3>2
  <2> QED BY <2>1, <2>2, <2>3 DEF RegistryInv, RegistryTypeOK, HeardOfIsListed, Listed
<1>7. CASE Export
  BY <1>7 DEF Export, RegistryInv, RegistryTypeOK, HeardOfIsListed, Listed
<1>8. CASE Import
  <2> DEFINE new == (exported.agents \ (exported.skilled \cup Listed)) \cap Nodes
  <2>1. Entered(new) /\ skilled' \subseteq skilled /\ UNCHANGED <<minute, exported>>
    BY <1>8 DEF Import, Entered
  <2>2. new \in SUBSET Nodes
    OBVIOUS
  <2> HIDE DEF new
  <2> QED BY <2>1, <2>2, EnteredInv DEF RegistryInv, RegistryTypeOK
<1>9. CASE StartAfresh
  BY <1>9 DEF StartAfresh, Taken, RegistryInv, RegistryTypeOK, HeardOfIsListed, Listed
<1>10. CASE MinutePasses
  <2>1. minute' = minute + 1 /\ minute' \in 0 .. LastMinute /\ 0 .. minute \subseteq 0 .. minute'
    BY <1>1, <1>10, RegistryConstantsOK DEF MinutePasses, RegistryConstantsOK
  <2>2. entries' \in [Nodes -> 0 .. minute' \cup {Gone}]
    BY <1>10, <2>1 DEF MinutePasses, RegistryInv, RegistryTypeOK
  <2>3. ASSUME NEW a \in Nodes, sign[a] # Gone, sign[a] + Ttl >= minute + 1 PROVE a \in Listed
    <3>1. sign[a] + Ttl >= minute
      BY <1>1, <2>3 DEF RegistryInv
    <3> QED BY <2>3, <3>1 DEF RegistryInv, HeardOfIsListed
  <2> QED BY <1>10, <2>1, <2>2, <2>3 DEF MinutePasses, RegistryInv, RegistryTypeOK, HeardOfIsListed, Listed
<1>11. CASE UNCHANGED registryVars
  BY <1>11 DEF registryVars, RegistryInv, RegistryTypeOK, HeardOfIsListed, Listed
<1> QED
  BY <1>2, <1>3, <1>4, <1>5, <1>6, <1>7, <1>8, <1>9, <1>10, <1>11 DEF RegistryNext

\* A listed agent has a last sign of life, and none that is yet to come.
THEOREM RegistryTypeCorrect == RegistrySpec => []RegistryTypeOK
<1>1. RegistryInv => RegistryTypeOK
  BY DEF RegistryInv
<1> QED
  BY RegistryInvInit, RegistryInvStep, <1>1, PTL DEF RegistrySpec

\* An agent that registered, was imported or was heard of within the time to live is
\* listed, through evictions and imports, and none is taken for fresher than it is.
THEOREM HeardOfStaysListed == RegistrySpec => []HeardOfIsListed
<1>1. RegistryInv => HeardOfIsListed
  BY DEF RegistryInv
<1> QED
  BY RegistryInvInit, RegistryInvStep, <1>1, PTL DEF RegistrySpec

-----------------------------------------------------------------------------
(***************************************************************************)
(* What the context store promises, for any places, objects, times to live *)
(* and clock.                                                              *)
(*                                                                         *)
(* An entry and the last save() of its place are kept in step.  A save()   *)
(* whose entry is gone was deleted, and is forgotten, or ran out.          *)
(***************************************************************************)

\* An entry and the save() it comes from.
InStep(e, last, now) ==
  /\ e.updated = last.at /\ e.updated <= now
  /\ last.steady => e.ttl = last.ttl
  /\ last.fresh => last.steady
  /\ IF last.fresh THEN e.object = Absent /\ e.copy = last.said ELSE e.object = last.object

\* A save() whose entry load() or list_keys() dropped.
HasRunOut(last, now) == last.steady => last.ttl # Absent /\ now > last.at + last.ttl

ContextsInv ==
  /\ second \in Nat /\ version \in [Objects -> Nat]
  /\ store \in [Places -> Entries \cup {Absent}] /\ saved \in [Places -> Notes \cup {Absent}]
  /\ \A p \in Places : store[p] # Absent => saved[p] # Absent /\ InStep(store[p], saved[p], second)
  /\ \A p \in Places : store[p] = Absent /\ saved[p] # Absent => HasRunOut(saved[p], second)

LEMMA ContextsInvInit == ContextsInit => ContextsInv
BY ContextsConstantsOK DEF ContextsInit, ContextsInv, ContextsConstantsOK

\* The entry and the save() of a place that has one, and that the three kinds of things
\* are told apart.
LEMMA EntryFacts ==
  ASSUME ContextsInv, NEW p \in Places, store[p] # Absent
  PROVE  /\ store[p] \in Entries /\ saved[p] \in Notes /\ saved[p] # Absent
         /\ store[p].updated \in Nat /\ store[p].ttl \in (Nat \cup {Absent}) \cap (Ttls \cup {Absent})
         /\ saved[p].at \in Nat /\ saved[p].ttl \in (Nat \cup {Absent}) \cap (Ttls \cup {Absent})
         /\ saved[p].object \in Objects /\ saved[p].object # Absent
         /\ saved[p].fresh \in BOOLEAN /\ saved[p].steady \in BOOLEAN
         /\ InStep(store[p], saved[p], second) /\ second \in Nat
<1>1. store[p] \in Entries /\ saved[p] \in Notes /\ saved[p] # Absent /\ InStep(store[p], saved[p], second)
  BY DEF ContextsInv
<1>2. /\ store[p].updated \in Nat /\ store[p].ttl \in Ttls \cup {Absent}
      /\ saved[p].at \in Nat /\ saved[p].ttl \in Ttls \cup {Absent} /\ saved[p].object \in Objects
      /\ saved[p].fresh \in BOOLEAN /\ saved[p].steady \in BOOLEAN
  BY <1>1 DEF Entries, Notes
<1>3. Ttls \subseteq Nat \cup {Absent} /\ Absent \notin Objects
  BY ContextsConstantsOK DEF ContextsConstantsOK
<1> QED BY <1>1, <1>2, <1>3 DEF ContextsInv

\* An entry runs out when the time that was given with its last save() is over, if that
\* is the time it has.
LEMMA RunsOutInTime ==
  ASSUME ContextsInv, NEW p \in Places, store[p] # Absent, saved[p].steady
  PROVE  /\ Expired(store[p]) <=> (saved[p].ttl # Absent /\ second > saved[p].at + saved[p].ttl)
         /\ Present(p) <=> InTime(saved[p])
<1>1. store[p].updated = saved[p].at /\ store[p].ttl = saved[p].ttl
  BY EntryFacts DEF InStep
<1>2. second \in Nat /\ saved[p].at \in Nat /\ saved[p].ttl \in Nat \cup {Absent}
  BY EntryFacts
<1>3. CASE saved[p].ttl = Absent
  BY <1>1, <1>3 DEF Expired, Present, InTime
<1>4. CASE saved[p].ttl # Absent
  <2>1. saved[p].ttl \in Nat
    BY <1>2, <1>4
  <2>2. /\ (second - saved[p].at > saved[p].ttl) <=> (second > saved[p].at + saved[p].ttl)
        /\ ~ (second > saved[p].at + saved[p].ttl) <=> (second <= saved[p].at + saved[p].ttl)
    BY <1>2, <2>1
  <2> QED BY <1>1, <1>4, <2>2 DEF Expired, Present, InTime
<1> QED BY <1>3, <1>4

\* A save replaces the entry, its content and its time to live as the code finds them.
LEMMA SavedInv ==
  ASSUME ContextsInv, NEW p \in Places, NEW o \in Objects, NEW ttl \in Ttls, Save(p, o, ttl)
  PROVE  ContextsInv'
<1> DEFINE e == store'[p]  n == saved'[p]  same == saved[p].steady /\ saved[p].ttl = ttl
<1>1. /\ second \in Nat /\ version[o] \in Nat /\ second' = second /\ version' = version
      /\ Absent \notin Objects /\ Absent \notin Entries /\ Absent \notin Notes
      /\ second <= second /\ version \in [Objects -> Nat]
  BY ContextsConstantsOK DEF ContextsInv, ContextsConstantsOK, Save
<1>2. /\ store' \in [Places -> {store'[q] : q \in Places}]
      /\ saved' \in [Places -> {saved'[q] : q \in Places}]
      /\ \A q \in Places \ {p} : store'[q] = store[q] /\ saved'[q] = saved[q]
  BY DEF Save, Noted, ContextsInv
<1>3. n = [said |-> version[o], at |-> second, object |-> o, ttl |-> ttl,
           fresh |-> ~ Present(p), steady |-> Present(p) => same]
  BY DEF Save, Noted, ContextsInv
<1>4. e = IF Present(p) THEN Entry(0, o, store[p].ttl) ELSE Entry(version[o], Absent, ttl)
  BY DEF Save, ContextsInv
<1> HIDE DEF e, n
<1>5. ASSUME e \in Entries, n \in Notes, InStep(e, n, second) PROVE ContextsInv'
  <2>1. store'[p] \in Entries /\ saved'[p] \in Notes /\ InStep(store'[p], saved'[p], second)
    BY <1>5 DEF e, n
  <2>2. store' \in [Places -> Entries \cup {Absent}] /\ saved' \in [Places -> Notes \cup {Absent}]
    BY <1>2, <2>1 DEF ContextsInv
  <2>3. \A q \in Places : store'[q] # Absent => saved'[q] # Absent /\ InStep(store'[q], saved'[q], second')
    BY <1>1, <1>2, <2>1 DEF ContextsInv
  <2>4. \A q \in Places : store'[q] = Absent /\ saved'[q] # Absent => HasRunOut(saved'[q], second')
    BY <1>1, <1>2, <2>1 DEF ContextsInv
  <2> QED BY <1>1, <2>2, <2>3, <2>4 DEF ContextsInv
<1>6. CASE Present(p)
  <2>1. store[p] # Absent
    BY <1>6 DEF Present
  <2>2. store[p].ttl \in Ttls \cup {Absent} /\ same \in BOOLEAN
    BY <2>1, EntryFacts
  <2>3. same => store[p].ttl = ttl
    BY <2>1, EntryFacts DEF InStep
  <2> HIDE DEF same
  <2>4. e = [copy |-> 0, object |-> o, ttl |-> store[p].ttl, updated |-> second]
    BY <1>4, <1>6 DEF Entry
  <2>5. n = [said |-> version[o], at |-> second, object |-> o, ttl |-> ttl,
             fresh |-> FALSE, steady |-> same]
    <3>1. (~ Present(p)) = FALSE /\ (Present(p) => same) = same
      BY <1>6, <2>2
    <3> QED BY <1>3, <3>1
  <2> QED BY <1>1, <1>5, <2>2, <2>3, <2>4, <2>5 DEF Entries, Notes, InStep
<1>7. CASE ~ Present(p)
  <2>1. e = [copy |-> version[o], object |-> Absent, ttl |-> ttl, updated |-> second]
    BY <1>4, <1>7 DEF Entry
  <2>2. n = [said |-> version[o], at |-> second, object |-> o, ttl |-> ttl,
             fresh |-> TRUE, steady |-> TRUE]
    <3>1. (~ Present(p)) = TRUE /\ (Present(p) => same) = TRUE
      BY <1>7
    <3> QED BY <1>3, <3>1
  <2> QED BY <1>1, <1>5, <2>1, <2>2 DEF Entries, Notes, InStep
<1> QED BY <1>6, <1>7

\* What a call drops has run out, or is deleted with what is known of it.
LEMMA DroppedInv ==
  ASSUME ContextsInv, NEW gone \in SUBSET Places,
         \/ Dropped(gone) /\ UNCHANGED saved /\ gone \subseteq RunOut(Places)
         \/ Deleted(gone)
  PROVE  ContextsInv'
<1>1. second' = second /\ version' = version /\ store' \in [Places -> Entries \cup {Absent}]
  BY DEF Dropped, Deleted, ContextsInv
<1>2. saved' \in [Places -> Notes \cup {Absent}]
  BY DEF Deleted, ContextsInv
<1>3. ASSUME NEW q \in Places
      PROVE  /\ store'[q] # Absent => saved'[q] # Absent /\ InStep(store'[q], saved'[q], second)
             /\ store'[q] = Absent /\ saved'[q] # Absent => HasRunOut(saved'[q], second)
  <2>1. CASE q \notin gone
    BY <2>1 DEF Dropped, Deleted, ContextsInv
  <2>2. CASE q \in gone /\ Deleted(gone)
    BY <2>2 DEF Dropped, Deleted
  <2>3. CASE q \in gone /\ UNCHANGED saved /\ gone \subseteq RunOut(Places)
    <3>1. store[q] # Absent /\ Expired(store[q]) /\ store'[q] = Absent /\ saved'[q] = saved[q]
      BY <2>3 DEF Dropped, Deleted, RunOut
    <3> QED BY <3>1, RunsOutInTime DEF HasRunOut
  <2> QED BY <2>1, <2>2, <2>3
<1> QED BY <1>1, <1>2, <1>3 DEF ContextsInv

LEMMA ContextsInvStep == ContextsInv /\ [ContextsNext]_contextVars => ContextsInv'
<1> SUFFICES ASSUME ContextsInv, [ContextsNext]_contextVars PROVE ContextsInv'
  OBVIOUS
<1>1. ASSUME NEW p \in Places, Load(p) \/ Delete(p) PROVE ContextsInv'
  <2>1. RunOut({p}) \in SUBSET Places /\ RunOut({p}) \subseteq RunOut(Places)
    BY DEF RunOut
  <2> QED BY <1>1, <2>1, DroppedInv DEF Load, Delete
<1>2. ASSUME NEW private, NEW a, ListKeys(private) \/ ClearScope(private, a) PROVE ContextsInv'
  <2>1. RunOut(InScope(private)) \in SUBSET Places /\ RunOut(InScope(private)) \subseteq RunOut(Places)
    BY DEF RunOut, InScope
  <2> QED BY <1>2, <2>1, DroppedInv DEF ListKeys, ClearScope, InScope
<1>3. ASSUME NEW o \in Objects, Change(o) PROVE ContextsInv'
  BY <1>3 DEF Change, ContextsInv, InStep
<1>4. CASE SecondPasses
  <2>1. second \in Nat /\ second' = second + 1 /\ UNCHANGED <<version, store, saved>>
    BY <1>4 DEF SecondPasses, ContextsInv
  <2>2. ASSUME NEW p \in Places, store[p] # Absent PROVE InStep(store'[p], saved'[p], second')
    <3>1. InStep(store[p], saved[p], second) /\ store[p].updated \in Nat
      BY <2>2, EntryFacts
    <3> QED BY <2>1, <3>1 DEF InStep
  <2>3. ASSUME NEW p \in Places, store[p] = Absent, saved[p] # Absent PROVE HasRunOut(saved'[p], second')
    <3>1. HasRunOut(saved[p], second) /\ saved[p] \in Notes
      BY <2>3 DEF ContextsInv
    <3>2. saved[p].at \in Nat /\ saved[p].ttl \in Nat \cup {Absent}
      BY <3>1, ContextsConstantsOK DEF Notes, ContextsConstantsOK
    <3> QED BY <2>1, <3>1, <3>2 DEF HasRunOut
  <2> QED BY <2>1, <2>2, <2>3 DEF ContextsInv
<1>5. CASE UNCHANGED contextVars
  BY <1>5 DEF contextVars, ContextsInv, InStep, HasRunOut
<1> QED
  BY <1>1, <1>2, <1>3, <1>4, <1>5, SavedInv DEF ContextsNext

ContextsSpec == ContextsInit /\ [][ContextsNext]_contextVars

\* In any order of calls: a value saved where load() found nothing is served as it was
\* whatever the caller does with its object, one saved over another as long as its object
\* is what it was, and each exactly for its time to live unless that was changed.
THEOREM SavedIsServed == ContextsSpec => []ServedAsSaved
<1>1. ContextsInv => ServedAsSaved
  <2> SUFFICES ASSUME ContextsInv, NEW p \in Places
               PROVE  LET last == saved[p]
                      IN  /\ Present(p) => last # Absent
                          /\ Present(p) /\ (last.fresh \/ version[last.object] = last.said)
                               => Reading(store[p]) = last.said
                          /\ last # Absent /\ last.steady => (Present(p) <=> InTime(last))
    BY DEF ServedAsSaved
  <2>1. CASE store[p] # Absent
    <3>1. /\ saved[p] # Absent /\ saved[p].object # Absent /\ InStep(store[p], saved[p], second)
      BY <2>1, EntryFacts
    <3>2. saved[p].fresh \/ version[saved[p].object] = saved[p].said => Reading(store[p]) = saved[p].said
      BY <3>1 DEF InStep, Reading
    <3> QED BY <2>1, <3>1, <3>2, RunsOutInTime
  <2>2. CASE store[p] = Absent
    <3>1. ~ Present(p)
      BY <2>2 DEF Present
    <3>2. ASSUME saved[p] # Absent, saved[p].steady PROVE ~ InTime(saved[p])
      <4>1. /\ saved[p] \in Notes /\ saved[p].ttl # Absent
            /\ second > saved[p].at + saved[p].ttl /\ second \in Nat
        BY <2>2, <3>2 DEF ContextsInv, HasRunOut
      <4>2. saved[p].at \in Nat /\ saved[p].ttl \in Nat
        BY <4>1, ContextsConstantsOK DEF Notes, ContextsConstantsOK
      <4> QED BY <4>1, <4>2 DEF InTime
    <3> QED BY <3>1, <3>2
  <2> QED BY <2>1, <2>2
<1> QED
  BY ContextsInvInit, ContextsInvStep, <1>1, PTL DEF ContextsSpec

\* The clock and the objects are within their bounds.
ContextsBounded == second \in 0 .. LastSecond /\ version \in [Objects -> 0 .. MaxVersion]

LEMMA ContextsBoundedStep ==
  ContextsBounded /\ [ContextsNext]_contextVars => ContextsBounded'
<1> SUFFICES ASSUME ContextsBounded, [ContextsNext]_contextVars PROVE ContextsBounded'
  OBVIOUS
<1>1. LastSecond \in Nat /\ MaxVersion \in Nat
  BY ContextsConstantsOK DEF ContextsConstantsOK
<1>2. ASSUME UNCHANGED <<second, version>> PROVE ContextsBounded'
  BY <1>2 DEF ContextsBounded
<1>3. ASSUME NEW o \in Objects, Change(o) PROVE ContextsBounded'
  <2>1. version[o] \in 0 .. MaxVersion /\ version[o] < MaxVersion
    BY <1>3 DEF Change, ContextsBounded
  <2>2. version[o] + 1 \in 0 .. MaxVersion
    BY <1>1, <2>1
  <2> QED BY <1>3, <2>2 DEF Change, ContextsBounded
<1>4. CASE SecondPasses
  <2>1. second' = second + 1 /\ second + 1 \in 0 .. LastSecond /\ version' = version
    BY <1>1, <1>4 DEF SecondPasses, ContextsBounded
  <2> QED BY <2>1 DEF ContextsBounded
<1>5. CASE UNCHANGED contextVars
  BY <1>2, <1>5 DEF contextVars
<1> QED
  BY <1>2, <1>3, <1>4, <1>5
  DEF ContextsNext, Save, Load, Delete, ListKeys, ClearScope, Deleted, Dropped

\* What is stored was stored before now, and is an object or a copy that somebody saved.
THEOREM ContextsTypeCorrect == ContextsSpec => []ContextsTypeOK
<1>1. ContextsInit => ContextsBounded
  BY ContextsConstantsOK DEF ContextsInit, ContextsBounded, ContextsConstantsOK
<1>2. ContextsInv /\ ContextsBounded => ContextsTypeOK
  BY DEF ContextsInv, ContextsBounded, ContextsTypeOK, InStep
<1> QED
  BY ContextsInvInit, ContextsInvStep, ContextsBoundedStep, <1>1, <1>2, PTL DEF ContextsSpec

-----------------------------------------------------------------------------
(***************************************************************************)
(* What the file sinks promise, for any limits, and whichever rotations    *)
(* and writes fail.                                                        *)
(*                                                                         *)
(* LastOf is stated through SubSeq; the lemmas say it entry by entry, as   *)
(* the proof of a step needs it.                                           *)
(***************************************************************************)

\* What is left of a sequence is its end.
EndOf(s, t) ==
  /\ Len(s) <= Len(t)
  /\ \A i \in 1 .. Len(s) : s[i] = t[Len(t) - Len(s) + i]

LEMMA EndIsLast ==
  ASSUME NEW S, NEW s \in Seq(S), NEW t \in Seq(S), EndOf(s, t)
  PROVE  s = LastOf(t, Len(s))
<1> DEFINE from == IF Len(t) > Len(s) THEN Len(t) - Len(s) + 1 ELSE 1
           rest == SubSeq(t, from, Len(t))
<1>1. from \in 1 .. Len(t) + 1 /\ Len(t) - from + 1 = Len(s) /\ Len(s) \in Nat /\ Len(t) \in Nat
  BY DEF EndOf
<1>2. \A i \in 1 .. Len(s) : s[i] = t[from + i - 1]
  BY <1>1 DEF EndOf
<1> HIDE DEF from
<1>3. rest \in Seq(S) /\ Len(rest) = Len(t) - from + 1
  BY <1>1
<1>4. \A i \in 1 .. Len(t) - from + 1 : rest[i] = t[from + i - 1]
  BY <1>1
<1>5. Len(rest) = Len(s) /\ \A i \in 1 .. Len(rest) : rest[i] = s[i]
  BY <1>1, <1>2, <1>3, <1>4
<1> HIDE DEF rest
<1>6. rest = s
  BY <1>3, <1>5, SeqEqual
<1> QED BY <1>6 DEF LastOf, from, rest

\* The file is within the bound of its entries: line by line it is the end of what was
\* written, and what a rotation leaves behind fills a file.
FilesInv ==
  /\ file \in Seq(Nat) /\ rotated \in Seq(Nat) /\ written \in Seq(Nat)
  /\ EndOf(rotated \o file, written)
  /\ Len(rotated) + Len(file) = Len(written) \/ Len(rotated) + Len(file) >= MaxLines

DiskInv == log \in Seq(Ids) /\ FilesInv

LEMMA DiskInvInit == TrailInit => DiskInv
BY DEF TrailInit, DiskInv, FilesInv, EndOf

\* A line more, or none, at the end of both.
LEMMA EndGrows ==
  ASSUME NEW s \in Seq(Nat), NEW t \in Seq(Nat), NEW n \in Nat, EndOf(s, t)
  PROVE  EndOf(Append(s, n), Append(t, n))
<1> DEFINE u == Append(s, n)  v == Append(t, n)
<1>1. /\ Len(u) = Len(s) + 1 /\ u[Len(s) + 1] = n /\ \A i \in 1 .. Len(s) : u[i] = s[i]
      /\ Len(v) = Len(t) + 1 /\ v[Len(t) + 1] = n /\ \A i \in 1 .. Len(t) : v[i] = t[i]
  BY AppendProperties
<1>2. Len(s) \in Nat /\ Len(t) \in Nat /\ Len(s) <= Len(t)
  BY DEF EndOf
<1> HIDE DEF u, v
<1>3. ASSUME NEW i \in 1 .. Len(u) PROVE u[i] = v[Len(v) - Len(u) + i]
  <2>1. CASE i = Len(s) + 1
    BY <1>1, <1>2, <2>1
  <2>2. CASE i # Len(s) + 1
    <3>1. i \in 1 .. Len(s) /\ Len(t) - Len(s) + i \in 1 .. Len(t)
      BY <1>1, <1>2, <2>2
    <3>2. u[i] = t[Len(t) - Len(s) + i]
      BY <1>1, <3>1 DEF EndOf
    <3>3. Len(v) - Len(u) + i = Len(t) - Len(s) + i
      BY <1>1, <1>2
    <3> QED BY <1>1, <3>1, <3>2, <3>3
  <2> QED BY <2>1, <2>2
<1>4. EndOf(u, v)
  BY <1>1, <1>2, <1>3 DEF EndOf
<1> QED BY <1>4 DEF u, v

\* The file alone is an end as well.
LEMMA FileIsEnd ==
  ASSUME NEW s \in Seq(Nat), NEW f \in Seq(Nat), NEW t \in Seq(Nat), EndOf(s \o f, t)
  PROVE  EndOf(f, t)
<1>1. /\ Len(s \o f) = Len(s) + Len(f)
      /\ \A i \in 1 .. Len(s) + Len(f) : (s \o f)[i] = IF i <= Len(s) THEN s[i] ELSE f[i - Len(s)]
  BY ConcatProperties
<1>2. Len(s) \in Nat /\ Len(f) \in Nat /\ Len(t) \in Nat /\ Len(s) + Len(f) <= Len(t)
  BY <1>1 DEF EndOf
<1>3. ASSUME NEW i \in 1 .. Len(f) PROVE f[i] = t[Len(t) - Len(f) + i]
  <2>1. /\ Len(s) + i \in 1 .. Len(s) + Len(f) /\ ~ (Len(s) + i <= Len(s))
        /\ (Len(s) + i) - Len(s) = i
        /\ Len(t) - (Len(s) + Len(f)) + (Len(s) + i) = Len(t) - Len(f) + i
    BY <1>2
  <2>2. (s \o f)[Len(s) + i] = t[Len(t) - Len(s \o f) + (Len(s) + i)]
    BY <1>1, <2>1 DEF EndOf
  <2> QED BY <1>1, <2>1, <2>2
<1> QED BY <1>2, <1>3 DEF EndOf

LEMMA StoredLine ==
  ASSUME FilesInv, NEW n \in Nat, StoreLine(n) PROVE FilesInv'
<1>1. PICK rotates \in BOOLEAN, writes \in BOOLEAN :
        /\ rotates => Len(file) >= MaxLines
        /\ rotated' = IF rotates THEN file ELSE rotated
        /\ file' = IF writes THEN Append(IF rotates THEN <<>> ELSE file, n)
                   ELSE IF rotates THEN <<>> ELSE file
        /\ written' = IF writes THEN Append(written, n) ELSE written
  BY DEF StoreLine
<1> DEFINE old  == IF rotates THEN file ELSE rotated
           rest == IF rotates THEN <<>> ELSE file
<1>2. /\ old \in Seq(Nat) /\ rest \in Seq(Nat) /\ EndOf(old \o rest, written)
      /\ Len(old) + Len(rest) = Len(written) \/ Len(old) + Len(rest) >= MaxLines
  <2>1. CASE rotates
    <3>1. EndOf(file, written) /\ file \o <<>> = file
      BY FileIsEnd DEF FilesInv
    <3> QED BY <1>1, <2>1, <3>1 DEF FilesInv
  <2>2. CASE ~ rotates
    BY <2>2 DEF FilesInv
  <2> QED BY <2>1, <2>2
<1>3. rotated' = old /\ file' = IF writes THEN Append(rest, n) ELSE rest
  BY <1>1
<1> HIDE DEF old, rest
<1>4. CASE writes
  <2>1. /\ file' = Append(rest, n) /\ written' = Append(written, n) /\ written \in Seq(Nat)
        /\ old \in Seq(Nat) /\ rest \in Seq(Nat) /\ rotated' = old
    BY <1>1, <1>2, <1>3, <1>4 DEF FilesInv
  <2>2. /\ old \o rest \in Seq(Nat) /\ Len(file') = Len(rest) + 1 /\ Len(written') = Len(written) + 1
        /\ file' \in Seq(Nat) /\ written' \in Seq(Nat)
    BY <2>1, AppendProperties, ConcatProperties
  <2>3. rotated' \o file' = Append(old \o rest, n)
    <3>1. old \o Append(rest, n) = Append(old \o rest, n)
      BY <2>1
    <3> QED BY <2>1, <3>1
  <2>4. EndOf(rotated' \o file', written')
    BY <1>2, <2>1, <2>2, <2>3, EndGrows
  <2>5. Len(rotated') + Len(file') = Len(written') \/ Len(rotated') + Len(file') >= MaxLines
    <3>1. Len(old) \in Nat /\ Len(rest) \in Nat /\ Len(written) \in Nat /\ MaxLines \in Nat
      BY <2>1, TrailConstantsOK DEF TrailConstantsOK
    <3> QED BY <1>2, <2>1, <2>2, <3>1
  <2> QED BY <2>1, <2>2, <2>4, <2>5 DEF FilesInv
<1>5. CASE ~ writes
  BY <1>1, <1>2, <1>3, <1>5 DEF FilesInv
<1> QED BY <1>4, <1>5

LEMMA DiskInvStep == DiskInv /\ [TrailNext]_trailVars => DiskInv'
<1> SUFFICES ASSUME DiskInv, [TrailNext]_trailVars PROVE DiskInv'
  OBVIOUS
<1>1. CASE Forget \/ UNCHANGED trailVars
  BY <1>1 DEF Forget, trailVars, DiskInv, FilesInv
<1>2. ASSUME NEW id \in Ids, Store(id) PROVE DiskInv'
  <2>1. log' \in Seq(Ids) /\ Len(log) + 1 \in Nat
    BY <1>2, AppendProperties DEF Store, DiskInv
  <2> QED BY <1>2, <2>1, StoredLine DEF Store, DiskInv
<1> QED BY <1>1, <1>2 DEF TrailNext

TrailSpec == TrailInit /\ [][TrailNext]_trailVars

\* The two files are the end of what could be written, without a gap, and as long as
\* one file at least, whatever fails and however often the process starts anew.
THEOREM FilesAreTheEnd == TrailSpec => []FilesKeepTheLatest
<1>1. DiskInv => FilesKeepTheLatest
  <2> SUFFICES ASSUME DiskInv PROVE FilesKeepTheLatest
    OBVIOUS
  <2>1. rotated \o file \in Seq(Nat) /\ Len(rotated \o file) = Len(rotated) + Len(file)
    BY DEF DiskInv, FilesInv
  <2>2. rotated \o file = LastOf(written, Len(rotated \o file))
    BY <2>1, EndIsLast DEF DiskInv, FilesInv
  <2> QED BY <2>1, <2>2 DEF DiskInv, FilesInv, FilesKeepTheLatest
<1> QED BY DiskInvInit, DiskInvStep, <1>1, PTL DEF TrailSpec

-----------------------------------------------------------------------------
(***************************************************************************)
(* What the sinks promise of their memory.  The audit sink has a run of    *)
(* numbers, which the invariant gives entry by entry; the trace sink a     *)
(* sequence of groups, each whole unless its id was dropped.               *)
(***************************************************************************)

\* How much LastOf() leaves out, and what it keeps.
Cut(s, n) == IF Len(s) > n THEN Len(s) - n ELSE 0

LEMMA LastOfEntries ==
  ASSUME NEW S, NEW s \in Seq(S), NEW n \in Nat
  PROVE  /\ LastOf(s, n) \in Seq(S) /\ Len(LastOf(s, n)) = Len(s) - Cut(s, n)
         /\ Cut(s, n) \in 0 .. Len(s) /\ DOMAIN LastOf(s, n) = 1 .. Len(LastOf(s, n))
         /\ \A i \in 1 .. Len(s) - Cut(s, n) : LastOf(s, n)[i] = s[Cut(s, n) + i]
<1> DEFINE cut == Cut(s, n)  rest == SubSeq(s, cut + 1, Len(s))
<1>1. cut \in 0 .. Len(s) /\ Len(s) \in Nat /\ cut + 1 \in 1 .. Len(s) + 1
  BY DEF Cut
<1>2. LastOf(s, n) = rest
  <2>1. (IF Len(s) > n THEN Len(s) - n + 1 ELSE 1) = cut + 1
    BY DEF Cut
  <2> QED BY <2>1 DEF LastOf
<1> HIDE DEF cut
<1>3. rest \in Seq(S) /\ Len(rest) = Len(s) - cut
  BY <1>1
<1>4. \A i \in 1 .. Len(s) - cut : rest[i] = s[cut + i]
  BY <1>1
<1> HIDE DEF rest
<1> QED BY <1>1, <1>2, <1>3, <1>4 DEF cut

Groups == [id : Ids, spans : Seq(Nat)]

\* The groups of an id have its entries, and there is one if there are any.
WholeIn(groups, id, those) ==
  /\ \A i \in DOMAIN groups : groups[i].id = id => Lists(groups[i].spans, those)
  /\ (\A i \in DOMAIN groups : groups[i].id # id) => those = {}

AuditMemory ==
  /\ memory \in Seq(Nat)
  /\ Len(memory) = IF Len(log) - fresh > MemoryLimit THEN MemoryLimit ELSE Len(log) - fresh
  /\ \A i \in 1 .. Len(memory) : memory[i] = Len(log) - Len(memory) + i

TraceMemory ==
  /\ memory \in Seq(Groups)
  /\ \A id \in Ids \ evicted : WholeIn(memory, id, Since({id}))

MemoryInv ==
  /\ sink \in {"audit", "trace"} /\ log \in Seq(Ids) /\ fresh \in 0 .. Len(log)
  /\ sink = "audit" => AuditMemory
  /\ sink = "trace" => TraceMemory

\* An entry more, of the id that it carries.
LEMMA SinceGrows ==
  ASSUME log \in Seq(Ids), fresh \in 0 .. Len(log), NEW id \in Ids,
         log' = Append(log, id), fresh' = fresh
  PROVE  /\ log' \in Seq(Ids) /\ Len(log') = Len(log) + 1 /\ Len(log) \in Nat
         /\ fresh' \in 0 .. Len(log')
         /\ \A ids : Since(ids)' = Since(ids) \cup (IF id \in ids THEN {Len(log) + 1} ELSE {})
<1>1. /\ log' \in Seq(Ids) /\ Len(log') = Len(log) + 1 /\ Len(log) \in Nat
      /\ log'[Len(log) + 1] = id /\ \A i \in 1 .. Len(log) : log'[i] = log[i]
  OBVIOUS
<1>2. ASSUME NEW ids, NEW i
      PROVE  i \in Since(ids)' <=>
               i \in Since(ids) \/ (id \in ids /\ i = Len(log) + 1)
  <2>1. i \in Since(ids)' <=> i \in fresh + 1 .. Len(log) + 1 /\ log'[i] \in ids
    BY <1>1 DEF Since
  <2>2. i \in Since(ids) <=> i \in fresh + 1 .. Len(log) /\ log[i] \in ids
    BY DEF Since
  <2>3. CASE i = Len(log) + 1
    BY <1>1, <2>1, <2>2, <2>3
  <2>4. CASE i # Len(log) + 1
    BY <1>1, <2>1, <2>2, <2>4
  <2> QED BY <2>3, <2>4
<1>3. \A ids : Since(ids)' = Since(ids) \cup (IF id \in ids THEN {Len(log) + 1} ELSE {})
  BY <1>2
<1> QED BY <1>1, <1>3

LEMMA ListsMore ==
  ASSUME NEW s \in Seq(Nat), NEW E \in SUBSET Nat, Lists(s, E), NEW n \in Nat, \A i \in E : i < n
  PROVE  Lists(Append(s, n), E \cup {n})
<1> DEFINE u == Append(s, n)
<1>1. /\ DOMAIN u = 1 .. Len(s) + 1 /\ DOMAIN s = 1 .. Len(s) /\ Len(s) \in Nat
      /\ u[Len(s) + 1] = n /\ \A i \in 1 .. Len(s) : u[i] = s[i]
  OBVIOUS
<1> HIDE DEF u
<1>2. \A i \in 1 .. Len(s) : s[i] \in E /\ s[i] < n
  BY <1>1 DEF Lists
<1>3. {u[i] : i \in DOMAIN u} = E \cup {n}
  <2>1. \A i \in DOMAIN u : u[i] \in E \cup {n}
    BY <1>1, <1>2
  <2>2. \A x \in E : \E i \in DOMAIN u : u[i] = x
    BY <1>1 DEF Lists
  <2>3. Len(s) + 1 \in DOMAIN u
    BY <1>1
  <2> QED BY <1>1, <2>1, <2>2, <2>3
<1>4. ASSUME NEW i \in DOMAIN u, NEW j \in DOMAIN u, i < j PROVE u[i] < u[j]
  <2>1. i \in 1 .. Len(s) /\ (j \in 1 .. Len(s) \/ j = Len(s) + 1)
    BY <1>1, <1>4
  <2> QED BY <1>1, <1>2, <1>4, <2>1 DEF Lists
<1>5. Lists(u, E \cup {n})
  BY <1>3, <1>4 DEF Lists
<1> QED BY <1>5 DEF u

\* The audit sink: the last numbers, without a gap.
LEMMA AuditStored ==
  ASSUME AuditMemory, log \in Seq(Ids), fresh \in 0 .. Len(log), NEW id \in Ids,
         log' = Append(log, id), fresh' = fresh, RememberEntry(Len(log) + 1)
  PROVE  AuditMemory'
<1> DEFINE N == Len(log)  L == Len(memory)  s == Append(memory, N + 1)
           cut == Cut(s, MemoryLimit)  left == Len(log')  kept == Len(memory')
<1>1. N \in Nat /\ L \in Nat /\ fresh \in Nat /\ fresh <= N /\ memory \in Seq(Nat)
  BY DEF AuditMemory
<1>2. MemoryLimit \in Nat /\ MemoryLimit > 0
  BY TrailConstantsOK DEF TrailConstantsOK
<1>3. L = IF N - fresh > MemoryLimit THEN MemoryLimit ELSE N - fresh
  BY DEF AuditMemory
<1>4. \A i \in 1 .. L : memory[i] = N - L + i
  BY DEF AuditMemory
<1>5. s \in Seq(Nat) /\ Len(s) = L + 1 /\ s[L + 1] = N + 1 /\ \A i \in 1 .. L : s[i] = memory[i]
  BY <1>1
<1>6. left = N + 1
  BY SinceGrows
<1>7. memory' = LastOf(s, MemoryLimit)
  BY DEF RememberEntry
<1> HIDE DEF s
<1>8. Len(s) = L + 1 /\ s \in Seq(Nat)
  BY <1>5
<1>8a. cut = IF Len(s) > MemoryLimit THEN Len(s) - MemoryLimit ELSE 0
  BY DEF Cut
<1>8b. cut = IF L + 1 > MemoryLimit THEN L + 1 - MemoryLimit ELSE 0
  BY <1>1, <1>2, <1>8, <1>8a
<1>9. /\ memory' \in Seq(Nat) /\ kept = L + 1 - cut /\ cut \in 0 .. L + 1
      /\ \A i \in 1 .. L + 1 - cut : memory'[i] = s[cut + i]
  <2>1. /\ LastOf(s, MemoryLimit) \in Seq(Nat) /\ Len(LastOf(s, MemoryLimit)) = Len(s) - cut
        /\ cut \in 0 .. Len(s)
        /\ \A i \in 1 .. Len(s) - cut : LastOf(s, MemoryLimit)[i] = s[cut + i]
    BY ONLY <1>2, <1>8, LastOfEntries
  <2> QED BY <1>7, <1>8, <2>1
<1> HIDE DEF N, L, left, kept, cut
<1>10. \A i \in 1 .. L + 1 : s[i] = N - L + i
  <2>1. ASSUME NEW i \in 1 .. L + 1 PROVE i \in 1 .. L \/ i = L + 1
    BY <1>1
  <2> QED BY <1>1, <1>4, <1>5, <2>1
<1>11. kept = IF left - fresh > MemoryLimit THEN MemoryLimit ELSE left - fresh
  BY <1>1, <1>2, <1>3, <1>6, <1>8b, <1>9
<1>12. ASSUME NEW i \in 1 .. kept PROVE memory'[i] = left - kept + i
  <2>1. i \in 1 .. L + 1 - cut /\ cut + i \in 1 .. L + 1
    BY <1>1, <1>9
  <2> QED BY <1>1, <1>6, <1>9, <1>10, <2>1
<1> QED BY <1>9, <1>11, <1>12 DEF AuditMemory, left, kept

LEMMA AuditIsWhole ==
  ASSUME AuditMemory, log \in Seq(Ids), fresh \in 0 .. Len(log)
  PROVE  Lists(memory, {i \in Since(Ids) : i + MemoryLimit > Len(log)})
<1> DEFINE N == Len(log)  L == Len(memory)
           E == {i \in Since(Ids) : i + MemoryLimit > N}
<1>1. N \in Nat /\ L \in Nat /\ fresh \in Nat /\ fresh <= N /\ DOMAIN memory = 1 .. L
  BY DEF AuditMemory
<1>2. MemoryLimit \in Nat /\ MemoryLimit > 0
  BY TrailConstantsOK DEF TrailConstantsOK
<1>3. /\ L = IF N - fresh > MemoryLimit THEN MemoryLimit ELSE N - fresh
      /\ \A i \in 1 .. L : memory[i] = N - L + i
  BY DEF AuditMemory
<1>4. Since(Ids) = fresh + 1 .. N
  <2>1. \A i \in 1 .. N : log[i] \in Ids
    OBVIOUS
  <2>2. \A i \in fresh + 1 .. N : i \in 1 .. N
    BY <1>1
  <2> QED BY <2>1, <2>2 DEF Since
<1> HIDE DEF N, L
<1>5. ASSUME NEW i \in 1 .. L PROVE memory[i] \in E
  BY <1>1, <1>2, <1>3, <1>4
<1>6. ASSUME NEW x \in E PROVE \E i \in 1 .. L : memory[i] = x
  <2> DEFINE i == x - (N - L)
  <2>1. x \in fresh + 1 .. N /\ x + MemoryLimit > N
    BY <1>4
  <2>2. i \in 1 .. L /\ N - L + i = x
    BY <1>1, <1>2, <1>3, <2>1
  <2> QED BY <1>3, <2>2
<1>7. \A i, j \in 1 .. L : i < j => memory[i] < memory[j]
  BY <1>1, <1>3
<1>8. Lists(memory, E)
  BY <1>1, <1>5, <1>6, <1>7 DEF Lists
<1> QED BY <1>8 DEF N

\* The groups after an entry of some id, before the oldest go.
LEMMA GroupedIsWhole ==
  ASSUME TraceMemory, log \in Seq(Ids), fresh \in 0 .. Len(log), NEW id \in Ids,
         log' = Append(log, id), fresh' = fresh, NEW n, n = Len(log) + 1
  PROVE  /\ Grouped(memory, id, n) \in Seq(Groups)
         /\ \A x \in Ids \ evicted : WholeIn(Grouped(memory, id, n), x, Since({x})')
<1>1. memory \in Seq(Groups) /\ n \in Nat /\ Len(memory) \in Nat /\ DOMAIN memory = 1 .. Len(memory)
  BY DEF TraceMemory
<1>2. \A i \in DOMAIN memory : memory[i].id \in Ids /\ memory[i].spans \in Seq(Nat)
  <2>1. \A i \in DOMAIN memory : memory[i] \in Groups
    BY <1>1
  <2> QED BY <2>1 DEF Groups
<1>3. ASSUME NEW x \in Ids \ evicted
      PROVE  /\ WholeIn(memory, x, Since({x}))
             /\ Since({x})' = Since({x}) \cup (IF id = x THEN {n} ELSE {})
             /\ Since({x}) \in SUBSET Nat /\ \A i \in Since({x}) : i < n
  <2>1. Since({x}) \in SUBSET Nat /\ \A i \in Since({x}) : i < n
    BY DEF Since
  <2>2. Since({x})' = Since({x}) \cup (IF id \in {x} THEN {n} ELSE {})
    BY SinceGrows
  <2> QED BY <2>1, <2>2 DEF TraceMemory
<1>4. CASE \E i \in DOMAIN memory : memory[i].id = id
  <2> DEFINE more(i) == IF memory[i].id = id THEN [memory[i] EXCEPT !.spans = Append(@, n)] ELSE memory[i]
             G == [i \in DOMAIN memory |-> more(i)]
  <2>1. Grouped(memory, id, n) = G
    BY <1>4 DEF Grouped
  <2>2. ASSUME NEW i \in DOMAIN memory
        PROVE  /\ more(i) \in Groups /\ more(i).id = memory[i].id
               /\ more(i).spans = IF memory[i].id = id THEN Append(memory[i].spans, n) ELSE memory[i].spans
    <3>1. memory[i] \in Groups /\ memory[i].spans \in Seq(Nat)
      BY <1>1, <1>2
    <3>2. Append(memory[i].spans, n) \in Seq(Nat)
      BY <1>1, <3>1
    <3> QED BY <3>1, <3>2 DEF Groups
  <2>3. /\ DOMAIN G = DOMAIN memory /\ \A i \in DOMAIN memory : G[i] = more(i)
        /\ G \in Seq(Groups)
    BY <1>1, <2>2
  <2> HIDE DEF more, G
  <2>4. ASSUME NEW x \in Ids \ evicted PROVE WholeIn(G, x, Since({x})')
    <3>1. CASE x = id
      <4>1. ASSUME NEW i \in DOMAIN memory, memory[i].id = x
            PROVE  Lists(more(i).spans, Since({x}) \cup {n})
        <5>1. memory[i].spans \in Seq(Nat) /\ Lists(memory[i].spans, Since({x}))
          BY <1>2, <1>3, <4>1 DEF WholeIn
        <5>2. Lists(Append(memory[i].spans, n), Since({x}) \cup {n})
          BY <1>1, <1>3, <5>1, ListsMore
        <5> QED BY <2>2, <3>1, <4>1, <5>2
      <4>2. Since({x})' = Since({x}) \cup {n}
        BY <1>3, <3>1
      <4>3. \A i \in DOMAIN G : G[i].id = x => Lists(G[i].spans, Since({x})')
        BY <2>2, <2>3, <4>1, <4>2
      <4>4. \E i \in DOMAIN G : G[i].id = x
        BY <1>4, <2>2, <2>3, <3>1
      <4> QED BY <4>3, <4>4 DEF WholeIn
    <3>2. CASE x # id
      <4>1. Since({x})' = Since({x})
        BY <1>3, <3>2
      <4>2. \A i \in DOMAIN memory : memory[i].id = x => G[i].spans = memory[i].spans
        BY <2>2, <2>3, <3>2
      <4>3. \A i \in DOMAIN memory : G[i].id = memory[i].id
        BY <2>2, <2>3
      <4>4. WholeIn(memory, x, Since({x}))
        BY <1>3
      <4>5. \A i \in DOMAIN G : G[i].id = x => Lists(G[i].spans, Since({x})')
        BY <2>3, <4>1, <4>2, <4>3, <4>4 DEF WholeIn
      <4>6. (\A i \in DOMAIN G : G[i].id # x) => Since({x})' = {}
        BY <2>3, <4>1, <4>3, <4>4 DEF WholeIn
      <4> QED BY <4>5, <4>6 DEF WholeIn
    <3> QED BY <3>1, <3>2
  <2> QED BY <2>1, <2>3, <2>4
<1>5. CASE ~ \E i \in DOMAIN memory : memory[i].id = id
  <2> DEFINE new == [id |-> id, spans |-> <<n>>]  G == Append(memory, new)
  <2>1. Grouped(memory, id, n) = G
    BY <1>5 DEF Grouped
  <2>2. new \in Groups /\ new.id = id /\ new.spans = <<n>>
    BY <1>1 DEF Groups
  <2> HIDE DEF new
  <2>3. /\ G \in Seq(Groups) /\ DOMAIN G = 1 .. Len(memory) + 1
        /\ G[Len(memory) + 1] = new /\ \A i \in DOMAIN memory : G[i] = memory[i]
    BY <1>1, <2>2
  <2> HIDE DEF G
  <2>4. \A i \in DOMAIN G : i \in DOMAIN memory \/ i = Len(memory) + 1
    BY <1>1, <2>3
  <2>5. Len(memory) + 1 \in DOMAIN G /\ \A i \in DOMAIN memory : i \in DOMAIN G
    BY <1>1, <2>3
  <2>6. Lists(<<n>>, {n})
    BY <1>1 DEF Lists
  <2>7. ASSUME NEW x \in Ids \ evicted PROVE WholeIn(G, x, Since({x})')
    <3>1. CASE x = id
      <4>1. Since({x})' = {n}
        BY <1>3, <1>5, <3>1 DEF WholeIn
      <4> QED BY <1>5, <2>2, <2>3, <2>4, <2>5, <2>6, <3>1, <4>1 DEF WholeIn
    <3>2. CASE x # id
      <4>1. Since({x})' = Since({x})
        BY <1>3, <3>2
      <4>2. WholeIn(memory, x, Since({x}))
        BY <1>3
      <4>3. \A i \in DOMAIN G : G[i].id = x => i \in DOMAIN memory
        BY <2>2, <2>3, <2>4, <3>2
      <4>4. \A i \in DOMAIN G : G[i].id = x => Lists(G[i].spans, Since({x})')
        BY <2>3, <4>1, <4>2, <4>3 DEF WholeIn
      <4>5. (\A i \in DOMAIN G : G[i].id # x) => Since({x})' = {}
        BY <2>3, <2>5, <4>1, <4>2 DEF WholeIn
      <4> QED BY <4>4, <4>5 DEF WholeIn
    <3> QED BY <3>1, <3>2
  <2> QED BY <2>1, <2>3, <2>7
<1> QED BY <1>4, <1>5

LEMMA TraceStored ==
  ASSUME TraceMemory, log \in Seq(Ids), fresh \in 0 .. Len(log), NEW id \in Ids,
         log' = Append(log, id), fresh' = fresh, RememberSpan(id, Len(log) + 1)
  PROVE  TraceMemory'
<1> DEFINE n == Len(log) + 1  G == Grouped(memory, id, n)  cut == Cut(G, MemoryLimit)
<1>1. G \in Seq(Groups) /\ \A x \in Ids \ evicted : WholeIn(G, x, Since({x})')
  BY GroupedIsWhole
<1>2. /\ memory' = LastOf(G, MemoryLimit)
      /\ evicted' = evicted \cup {G[i].id : i \in 1 .. (Len(G) - Len(memory'))}
  BY DEF RememberSpan
<1> HIDE DEF G
<1>3. MemoryLimit \in Nat
  BY TrailConstantsOK DEF TrailConstantsOK
<1>4. /\ memory' \in Seq(Groups) /\ Len(memory') = Len(G) - cut /\ cut \in 0 .. Len(G)
      /\ DOMAIN memory' = 1 .. Len(memory')
      /\ \A i \in 1 .. Len(G) - cut : memory'[i] = G[cut + i]
  BY <1>1, <1>2, <1>3, LastOfEntries
<1>5. Len(G) \in Nat /\ DOMAIN G = 1 .. Len(G) /\ Len(G) - Len(memory') = cut
  BY <1>1, <1>4
<1> HIDE DEF cut
<1>6. ASSUME NEW x \in Ids \ evicted' PROVE WholeIn(memory', x, Since({x})')
  <2>1. x \in Ids \ evicted /\ WholeIn(G, x, Since({x})')
    BY <1>1, <1>2
  <2>2. \A i \in 1 .. cut : G[i].id # x
    BY <1>2, <1>5
  <2>3. \A i \in DOMAIN memory' : cut + i \in DOMAIN G /\ memory'[i] = G[cut + i]
    BY <1>4, <1>5
  <2>4. ASSUME \A i \in DOMAIN memory' : memory'[i].id # x, NEW j \in DOMAIN G PROVE G[j].id # x
    <3>1. CASE j \in 1 .. cut
      BY <2>2, <3>1
    <3>2. CASE j \notin 1 .. cut
      <4>1. j - cut \in DOMAIN memory' /\ cut + (j - cut) = j
        BY <1>4, <1>5, <3>2
      <4> QED BY <2>3, <2>4, <4>1
    <3> QED BY <3>1, <3>2
  <2> QED BY <2>1, <2>3, <2>4 DEF WholeIn
<1> QED BY <1>4, <1>6 DEF TraceMemory

LEMMA MemoryInvInit == TrailInit => MemoryInv
<1> SUFFICES ASSUME TrailInit PROVE MemoryInv
  OBVIOUS
<1>1. /\ memory = <<>> /\ log = <<>> /\ fresh = 0 /\ sink \in {"audit", "trace"}
      /\ MemoryLimit \in Nat /\ \A ids : Since(ids) = {}
  BY TrailConstantsOK DEF TrailInit, TrailConstantsOK, Since
<1> QED BY <1>1 DEF MemoryInv, AuditMemory, TraceMemory, WholeIn

\* Memory is cleared.
LEMMA ForgottenInv == ASSUME MemoryInv, Forget PROVE MemoryInv'
<1>1. /\ memory' = <<>> /\ fresh' = Len(log) /\ log' = log /\ sink' = sink
      /\ Len(log) \in Nat /\ MemoryLimit \in Nat
  BY TrailConstantsOK DEF Forget, MemoryInv, TrailConstantsOK
<1>2. \A ids : Since(ids)' = {}
  BY <1>1 DEF Since
<1>3. AuditMemory' /\ TraceMemory'
  BY <1>1, <1>2 DEF AuditMemory, TraceMemory, WholeIn
<1> QED BY <1>1, <1>3 DEF MemoryInv

LEMMA MemoryInvStep == MemoryInv /\ [TrailNext]_trailVars => MemoryInv'
<1> SUFFICES ASSUME MemoryInv, [TrailNext]_trailVars PROVE MemoryInv'
  OBVIOUS
<1>1. ASSUME NEW id \in Ids, Store(id) PROVE MemoryInv'
  <2>1. /\ log \in Seq(Ids) /\ fresh \in 0 .. Len(log) /\ log' = Append(log, id)
        /\ fresh' = fresh /\ sink' = sink
        /\ RememberEntry(Len(log) + 1) \/ RememberSpan(id, Len(log) + 1)
    BY <1>1 DEF Store, MemoryInv
  <2>2. log' \in Seq(Ids) /\ fresh' \in 0 .. Len(log')
    BY <2>1, SinceGrows
  <2>3. CASE RememberEntry(Len(log) + 1)
    <3>1. sink = "audit" /\ AuditMemory
      BY <2>3 DEF RememberEntry, MemoryInv
    <3> QED BY <2>1, <2>2, <2>3, <3>1, AuditStored DEF MemoryInv
  <2>4. CASE RememberSpan(id, Len(log) + 1)
    <3>1. sink = "trace" /\ TraceMemory
      BY <2>4 DEF RememberSpan, MemoryInv
    <3> QED BY <2>1, <2>2, <2>4, <3>1, TraceStored DEF MemoryInv
  <2> QED BY <2>1, <2>3, <2>4
<1>2. CASE UNCHANGED trailVars
  <2>1. sink' = sink /\ memory' = memory /\ log' = log /\ fresh' = fresh /\ evicted' = evicted
    BY <1>2 DEF trailVars
  <2>2. \A ids : Since(ids)' = Since(ids)
    BY <2>1 DEF Since
  <2>3. AuditMemory' <=> AuditMemory
    BY <2>1 DEF AuditMemory
  <2>4. TraceMemory' <=> TraceMemory
    BY <2>1, <2>2 DEF TraceMemory, WholeIn
  <2> QED BY <2>1, <2>3, <2>4 DEF MemoryInv
<1> QED BY <1>1, <1>2, ForgottenInv DEF TrailNext

\* Memory has the latest entries within its limit, or every entry of each id that was
\* not dropped, whatever becomes of the file.
THEOREM MemoryStaysWhole == TrailSpec => []MemoryIsWhole
<1>1. MemoryInv => MemoryIsWhole
  BY AuditIsWhole DEF MemoryInv, TraceMemory, WholeIn, MemoryIsWhole
<1> QED BY MemoryInvInit, MemoryInvStep, <1>1, PTL DEF TrailSpec

\* The types of the sinks: memory is within its limit, and the files within what was
\* handed in.
TrailTyped ==
  /\ evicted \subseteq Ids /\ Len(memory) <= MemoryLimit
  /\ written \in Seq(1 .. Len(log)) /\ Len(written) <= Len(log)

LEMMA RememberedTyped ==
  ASSUME MemoryInv, TrailTyped, NEW id \in Ids, log' = Append(log, id), fresh' = fresh,
         RememberEntry(Len(log) + 1) \/ RememberSpan(id, Len(log) + 1)
  PROVE  evicted' \subseteq Ids /\ Len(memory') <= MemoryLimit
<1> DEFINE n == Len(log) + 1
<1>1. n \in Nat /\ log \in Seq(Ids) /\ MemoryLimit \in Nat
  BY TrailConstantsOK DEF MemoryInv, TrailConstantsOK
<1>2. ASSUME NEW S, NEW s \in Seq(S)
      PROVE  /\ LastOf(s, MemoryLimit) \in Seq(S) /\ Len(LastOf(s, MemoryLimit)) <= MemoryLimit
             /\ Len(LastOf(s, MemoryLimit)) \in 0 .. Len(s)
  <2>1. Len(s) \in Nat /\ Cut(s, MemoryLimit) \in 0 .. Len(s)
    BY <1>1, LastOfEntries
  <2> QED BY <1>1, <2>1, LastOfEntries DEF Cut
<1>3. CASE RememberEntry(n)
  <2>1. Append(memory, n) \in Seq(Nat)
    BY <1>1, <1>3 DEF RememberEntry, MemoryInv, AuditMemory
  <2> QED BY <1>2, <1>3, <2>1 DEF RememberEntry, TrailTyped
<1>4. CASE RememberSpan(id, n)
  <2>1. sink = "trace" /\ TraceMemory
    BY <1>4 DEF RememberSpan, MemoryInv
  <2> DEFINE G == Grouped(memory, id, n)
  <2>2. G \in Seq(Groups)
    <3>1. log \in Seq(Ids) /\ fresh \in 0 .. Len(log)
      BY DEF MemoryInv
    <3> QED BY <2>1, <3>1, GroupedIsWhole
  <2>3. /\ memory' = LastOf(G, MemoryLimit)
        /\ evicted' = evicted \cup {G[i].id : i \in 1 .. (Len(G) - Len(LastOf(G, MemoryLimit)))}
    BY <1>4 DEF RememberSpan
  <2> HIDE DEF G
  <2>4. ASSUME NEW i \in 1 .. (Len(G) - Len(LastOf(G, MemoryLimit))) PROVE G[i].id \in Ids
    <3>1. i \in 1 .. Len(G)
      BY <1>2, <2>2
    <3>2. G[i] \in Groups
      BY <2>2, <3>1
    <3> QED BY <3>2 DEF Groups
  <2> QED BY <1>2, <2>2, <2>3, <2>4 DEF TrailTyped
<1> QED BY <1>3, <1>4

LEMMA TrailTypedStep ==
  MemoryInv /\ TrailTyped /\ [TrailNext]_trailVars => TrailTyped'
<1> SUFFICES ASSUME MemoryInv, TrailTyped, [TrailNext]_trailVars PROVE TrailTyped'
  OBVIOUS
<1>1. ASSUME NEW id \in Ids, Store(id) PROVE TrailTyped'
  <2> DEFINE N == Len(log)
  <2>1. N \in Nat /\ Len(log') = N + 1
    BY <1>1 DEF Store, MemoryInv
  <2>2. written' = written \/ written' = Append(written, N + 1)
    BY <1>1 DEF Store, StoreLine
  <2> HIDE DEF N
  <2>3. written \in Seq(1 .. N) /\ Len(written) <= N /\ Len(written) \in Nat
    BY DEF TrailTyped, N
  <2> DEFINE old == 1 .. N  now == 1 .. N + 1
  <2>4. old \subseteq now /\ N + 1 \in now
    BY <2>1
  <2>5. written \in Seq(old) /\ now = 1 .. Len(log')
    BY <2>1, <2>3
  <2> HIDE DEF old, now
  <2>6. written \in Seq(now)
    <3>1. \A i \in 1 .. Len(written) : written[i] \in now
      BY <2>4, <2>5, ElementOfSeq
    <3> QED BY <2>5, <3>1, SeqDef
  <2>7. Append(written, N + 1) \in Seq(now) /\ Len(Append(written, N + 1)) = Len(written) + 1
    BY <2>4, <2>6, AppendProperties
  <2>8. written' \in Seq(now) /\ Len(written') <= N + 1
    <3>1. CASE written' = written
      BY <2>1, <2>3, <2>6, <3>1
    <3>2. CASE written' = Append(written, N + 1)
      BY <2>1, <2>3, <2>7, <3>2
    <3> QED BY <2>2, <3>1, <3>2
  <2>9. evicted' \subseteq Ids /\ Len(memory') <= MemoryLimit
    BY <1>1, RememberedTyped DEF Store
  <2> QED BY <2>1, <2>5, <2>8, <2>9 DEF TrailTyped
<1>2. CASE Forget
  BY <1>2, TrailConstantsOK DEF Forget, TrailTyped, TrailConstantsOK
<1>3. CASE UNCHANGED trailVars
  BY <1>3 DEF trailVars, TrailTyped
<1> QED BY <1>1, <1>2, <1>3 DEF TrailNext

\* Memory never exceeds its limit, a line is that of an entry that was handed in, and the
\* files have no more lines than there were entries.
THEOREM TrailTypeCorrect == TrailSpec => []TrailTypeOK
<1>1. TrailInit => TrailTyped
  BY TrailConstantsOK DEF TrailInit, TrailTyped, TrailConstantsOK
<1>2. MemoryInv /\ DiskInv /\ TrailTyped => TrailTypeOK
  <2> SUFFICES ASSUME MemoryInv, DiskInv, TrailTyped PROVE TrailTypeOK
    OBVIOUS
  <2>1. /\ Len(rotated \o file) = Len(rotated) + Len(file) /\ Len(rotated) \in Nat /\ Len(file) \in Nat
        /\ Len(rotated \o file) <= Len(written) /\ Len(written) <= Len(log)
        /\ Len(written) \in Nat /\ Len(log) \in Nat
    BY DEF DiskInv, FilesInv, EndOf, TrailTyped
  <2>2. Len(file) <= Len(log) /\ Len(rotated) <= Len(log)
    BY <2>1
  <2> QED BY <2>2 DEF MemoryInv, TrailTyped, TrailTypeOK
<1> QED
  BY DiskInvInit, DiskInvStep, MemoryInvInit, MemoryInvStep, TrailTypedStep, <1>1, <1>2, PTL
  DEF TrailSpec

-----------------------------------------------------------------------------
(***************************************************************************)
(* The session manager, for any conversations, any limit and any order of  *)
(* calls.                                                                  *)
(*                                                                         *)
(* ConversationsAreWhole says what the listing shows.  What a step keeps   *)
(* is what it rests on: the lists hold no session of another conversation, *)
(* and every session in the table is in the list of its own.               *)
(***************************************************************************)

IndexIsRight ==
  /\ \A c \in Conversations : \A s \in index[c] : session[s].conversation = c
  /\ \A s \in table : s \in index[session[s].conversation]

SessionsInv == SessionsTypeOK /\ IndexIsRight

LEMMA SessionsAreTyped ==
  ASSUME SessionsTypeOK
  PROVE  \A s \in DOMAIN session :
           /\ session[s] \in SessionState /\ session[s].conversation \in Conversations
           /\ session[s].active \in BOOLEAN
           /\ session[s].created \in Nat /\ session[s].last \in Nat
<1>1. session \in Seq(SessionState)
  BY DEF SessionsTypeOK
<1>2. ASSUME NEW s \in DOMAIN session PROVE session[s] \in SessionState
  BY <1>1, <1>2
<1> QED BY <1>2 DEF SessionState

\* A set of numbers has a least one.
LEMMA LeastOf ==
  ASSUME NEW T \in SUBSET Nat, T # {}
  PROVE  \E n \in T : \A m \in T : n <= m
<1> DEFINE R == OpToRel(<, Nat)
<1>1. IsWellFoundedOn(R, Nat)
  BY NatLessThanWellFounded
<1> HIDE DEF R
<1>2. PICK n \in T : \A m \in T : ~ (<<m, n>> \in R)
  BY <1>1, WFMin
<1>3. \A m \in T : m < n => <<m, n>> \in R
  BY DEF R, OpToRel
<1>4. n \in Nat
  OBVIOUS
<1>5. ASSUME NEW m \in T PROVE n <= m
  <2>1. m \in Nat /\ ~ (m < n)
    BY <1>2, <1>3
  <2> QED BY <1>4, <2>1
<1> QED BY <1>5

\* Of sessions that are there one is the oldest, and of those as old the first made.
LEMMA OldestIsThere ==
  ASSUME NEW S \in SUBSET Nat, S # {}, NEW age \in [S -> Nat]
  PROVE  Oldest(S, age) \in S
<1> DEFINE ages == {age[s] : s \in S}
<1>1. ages \in SUBSET Nat /\ ages # {}
  OBVIOUS
<1>2. PICK a \in ages : \A b \in ages : a <= b
  BY <1>1, LeastOf
<1> DEFINE first == {s \in S : age[s] = a}
<1>3. first \in SUBSET Nat /\ first # {}
  OBVIOUS
<1>4. PICK s \in first : \A r \in first : s <= r
  BY <1>3, LeastOf
<1>5. ASSUME NEW r \in S PROVE age[s] < age[r] \/ (age[s] = age[r] /\ s <= r)
  <2>1. age[s] = a /\ age[r] \in Nat /\ a \in Nat /\ a <= age[r]
    BY <1>1, <1>2
  <2>2. CASE age[r] = a
    BY <1>4, <2>1, <2>2
  <2>3. CASE age[r] # a
    BY <2>1, <2>3
  <2> QED BY <2>2, <2>3
<1>6. s \in S
  OBVIOUS
<1> HIDE DEF first
<1>7. \E q \in S : \A r \in S : age[q] < age[r] \/ (age[q] = age[r] /\ q <= r)
  BY <1>5, <1>6
<1> QED BY <1>7 DEF Oldest

\* Eviction takes one session of the table, if there is one.
LEMMA EvictsOne ==
  ASSUME SessionsTypeOK
  PROVE  /\ Evicted \in SUBSET table /\ IsFiniteSet(table) /\ IsFiniteSet(Evicted)
         /\ table # {} => Cardinality(Evicted) = Cardinality(table) - 1
<1>1. /\ table \in SUBSET Nat /\ IsFiniteSet(table)
      /\ \A s \in table : session[s].last \in Nat /\ session[s].created \in Nat
  <2>1. DOMAIN session = 1 .. Len(session) /\ Len(session) \in Nat
    BY DEF SessionsTypeOK
  <2>2. IsFiniteSet(1 .. Len(session))
    BY <2>1, FS_Interval
  <2>3. table \in SUBSET (1 .. Len(session))
    BY <2>1 DEF SessionsTypeOK
  <2>4. IsFiniteSet(table)
    BY <2>2, <2>3, FS_Subset
  <2>5. ASSUME NEW s \in table PROVE session[s] \in SessionState
    BY <2>1, <2>3 DEF SessionsTypeOK
  <2> QED BY <2>1, <2>3, <2>4, <2>5 DEF SessionState
<1>2. CASE table = {}
  BY <1>1, <1>2 DEF Evicted, Inactive
<1>3. CASE table # {}
  <2>1. PICK x \in table : Evicted = table \ {x}
    <3>1. CASE Inactive # {}
      <4> DEFINE age == [s \in Inactive |-> session[s].last]
      <4>1. Inactive \in SUBSET Nat /\ age \in [Inactive -> Nat]
        BY <1>1 DEF Inactive
      <4>2. Oldest(Inactive, age) \in Inactive
        BY <3>1, <4>1, OldestIsThere
      <4>3. Evicted = table \ {Oldest(Inactive, age)}
        BY <3>1 DEF Evicted
      <4> QED BY <4>2, <4>3 DEF Inactive
    <3>2. CASE Inactive = {}
      <4> DEFINE age == [s \in table |-> session[s].created]
      <4>1. age \in [table -> Nat]
        BY <1>1
      <4>2. Oldest(table, age) \in table
        BY <1>1, <1>3, <4>1, OldestIsThere
      <4>3. Evicted = table \ {Oldest(table, age)}
        BY <1>3, <3>2 DEF Evicted
      <4> QED BY <4>2, <4>3
    <3> QED BY <3>1, <3>2
  <2>2. IsFiniteSet(table \ {x}) /\ Cardinality(table \ {x}) = Cardinality(table) - 1
    BY <1>1, FS_RemoveElement
  <2> QED BY <1>1, <1>3, <2>1, <2>2
<1> QED BY <1>2, <1>3

LEMMA SessionsInvInit == SessionsInit => SessionsInv
<1> SUFFICES ASSUME SessionsInit PROVE SessionsInv
  OBVIOUS
<1>1. /\ time = 0 /\ table = {} /\ session = <<>> /\ index = [c \in Conversations |-> {}]
      /\ MaxSessions \in Nat /\ LastTime \in Nat /\ MaxMade \in Nat
  BY SessionsConstantsOK DEF SessionsInit, SessionsConstantsOK
<1>2. Cardinality(table) = 0
  BY <1>1, FS_EmptySet
<1> QED BY <1>1, <1>2 DEF SessionsInv, SessionsTypeOK, IndexIsRight

\* A session more, in the table and in the list of its conversation.
LEMMA CreatedInv ==
  ASSUME SessionsInv, NEW c \in Conversations, CreateSession(c)
  PROVE  SessionsInv'
<1> DEFINE n == Len(session)  rest == IF Cardinality(table) >= MaxSessions THEN Evicted ELSE table
<1>1. /\ session \in Seq(SessionState) /\ DOMAIN session = 1 .. n /\ n \in Nat
      /\ table \in SUBSET (1 .. n) /\ index \in [Conversations -> SUBSET (1 .. n)]
      /\ time \in Nat /\ time \in 0 .. LastTime /\ n < MaxMade /\ MaxMade \in Nat
      /\ MaxSessions \in Nat
  BY SessionsConstantsOK DEF SessionsInv, SessionsTypeOK, SessionsConstantsOK, CreateSession
<1>2. New(c) \in SessionState /\ New(c).conversation = c /\ New(c).created = time /\ New(c).last = time
  BY <1>1 DEF New, SessionState
<1>3. /\ session' \in Seq(SessionState) /\ Len(session') = n + 1 /\ DOMAIN session' = 1 .. n + 1
      /\ session'[n + 1] = New(c) /\ \A s \in 1 .. n : session'[s] = session[s]
  BY <1>1, <1>2 DEF CreateSession
<1>4. /\ time' = time /\ table' = rest \cup {n + 1}
      /\ index' = [index EXCEPT ![c] = @ \cup {n + 1}]
  BY DEF CreateSession
<1> HIDE DEF n, rest
<1>5. /\ rest \in SUBSET table /\ IsFiniteSet(rest) /\ Cardinality(rest) \in Nat
      /\ Cardinality(rest) < MaxSessions \/ Cardinality(rest) = 0
  <2>1. /\ Evicted \in SUBSET table /\ IsFiniteSet(table) /\ IsFiniteSet(Evicted)
        /\ table # {} => Cardinality(Evicted) = Cardinality(table) - 1
    BY EvictsOne DEF SessionsInv
  <2>2. Cardinality(table) \in Nat /\ Cardinality(Evicted) \in Nat
    BY <2>1, FS_CardinalityType
  <2>3. Cardinality(table) <= MaxSessions \/ Cardinality(table) = 1
    BY DEF SessionsInv, SessionsTypeOK
  <2>4. CASE Cardinality(table) >= MaxSessions
    <3>1. rest = Evicted
      BY <2>4 DEF rest
    <3>2. CASE table = {}
      <4>1. Evicted = {}
        BY <2>1, <3>2
      <4> QED BY <2>1, <3>1, <4>1, FS_EmptySet
    <3>3. CASE table # {}
      BY <1>1, <2>1, <2>2, <2>3, <2>4, <3>1, <3>3
    <3> QED BY <3>2, <3>3
  <2>5. CASE ~ (Cardinality(table) >= MaxSessions)
    BY <1>1, <2>1, <2>2, <2>5 DEF rest
  <2> QED BY <2>4, <2>5
<1>6. Cardinality(table') <= MaxSessions \/ Cardinality(table') = 1
  <2>1. n + 1 \notin rest
    BY <1>1, <1>5
  <2>2. Cardinality(rest \cup {n + 1}) = Cardinality(rest) + 1
    BY <1>5, <2>1, FS_AddElement
  <2> QED BY <1>1, <1>4, <1>5, <2>2
<1>7. \A s \in 1 .. n + 1 : s \in 1 .. n \/ s = n + 1
  BY <1>1
<1>8. \A s \in 1 .. n : s \in 1 .. n + 1
  BY <1>1
<1>9. \A d \in Conversations : index'[d] = IF d = c THEN index[d] \cup {n + 1} ELSE index[d]
  BY <1>1, <1>4
<1>10. index' \in [Conversations -> SUBSET (1 .. n + 1)]
  <2>1. n + 1 \in 1 .. n + 1
    BY <1>1
  <2>2. ASSUME NEW d \in Conversations PROVE index'[d] \in SUBSET (1 .. n + 1)
    BY <1>1, <1>8, <1>9, <2>1
  <2>3. index' \in [Conversations -> SUBSET (1 .. n \cup {n + 1})]
    BY <1>1, <1>4
  <2>4. 1 .. n \cup {n + 1} \subseteq 1 .. n + 1
    BY <1>8, <2>1
  <2> QED BY <2>3, <2>4
<1>11. table' \in SUBSET (1 .. n + 1)
  BY <1>1, <1>4, <1>5
<1>12. \A s \in 1 .. n + 1 : session'[s].created <= session'[s].last /\ session'[s].last <= time'
  <2>1. \A s \in 1 .. n : session[s].created <= session[s].last /\ session[s].last <= time
    BY <1>1 DEF SessionsInv, SessionsTypeOK
  <2>2. session'[n + 1].created <= session'[n + 1].last /\ session'[n + 1].last <= time'
    BY <1>1, <1>2, <1>3, <1>4
  <2> QED BY <1>3, <1>4, <1>7, <2>1, <2>2
<1>13. SessionsTypeOK'
  BY <1>1, <1>3, <1>4, <1>6, <1>10, <1>11, <1>12 DEF SessionsTypeOK
<1>14. ASSUME NEW d \in Conversations, NEW s \in index'[d] PROVE session'[s].conversation = d
  <2>1. CASE s \in index[d]
    <3>1. session[s].conversation = d
      BY <2>1 DEF SessionsInv, IndexIsRight
    <3>2. s \in 1 .. n
      BY <1>1, <2>1
    <3> QED BY <1>3, <3>1, <3>2
  <2>2. CASE s \notin index[d]
    <3>1. d = c /\ s = n + 1
      BY <1>9, <2>2
    <3> QED BY <1>2, <1>3, <3>1
  <2> QED BY <2>1, <2>2
<1>15. ASSUME NEW s \in table' PROVE s \in index'[session'[s].conversation]
  <2>1. CASE s = n + 1
    BY <1>2, <1>3, <1>9, <2>1
  <2>2. CASE s # n + 1
    <3>1. s \in table /\ s \in 1 .. n
      BY <1>1, <1>4, <1>5, <2>2
    <3>2. s \in index[session[s].conversation] /\ session'[s] = session[s]
      BY <1>3, <3>1 DEF SessionsInv, IndexIsRight
    <3>3. session[s].conversation \in Conversations
      BY <1>1, <3>1, SessionsAreTyped DEF SessionsInv
    <3> QED BY <1>9, <3>2, <3>3
  <2> QED BY <2>1, <2>2
<1> QED BY <1>13, <1>14, <1>15 DEF SessionsInv, IndexIsRight

\* A session that is touched keeps its conversation and its birthday.
LEMMA TouchedInv ==
  ASSUME SessionsInv, NEW s \in table, NEW b \in BOOLEAN,
         session' = [session EXCEPT ![s].active = b, ![s].last = time],
         time' = time, table' = table, index' = index
  PROVE  SessionsInv'
<1>1. /\ session \in Seq(SessionState) /\ DOMAIN session = 1 .. Len(session) /\ s \in DOMAIN session
      /\ time \in 0 .. LastTime /\ LastTime \in Nat
  BY SessionsConstantsOK DEF SessionsInv, SessionsTypeOK, SessionsConstantsOK
<1>2. ASSUME NEW r \in DOMAIN session PROVE session[r] \in SessionState
  BY <1>1, <1>2
<1>3. /\ DOMAIN session' = DOMAIN session /\ session'[s] \in SessionState
      /\ session'[s].conversation = session[s].conversation
      /\ session'[s].created = session[s].created /\ session'[s].last = time
      /\ \A r \in DOMAIN session : r # s => session'[r] = session[r]
      /\ session' \in Seq(SessionState) /\ Len(session') = Len(session)
  <2> DEFINE touched == [session[s] EXCEPT !.active = b, !.last = time]
  <2>1. session[s] \in SessionState /\ time \in Nat
    BY <1>1, <1>2
  <2>2. /\ touched \in SessionState /\ touched.conversation = session[s].conversation
        /\ touched.created = session[s].created /\ touched.last = time
    BY <2>1 DEF SessionState
  <2>3. session' = [session EXCEPT ![s] = touched]
    BY <1>1
  <2> HIDE DEF touched
  <2>4. /\ DOMAIN session' = DOMAIN session /\ session'[s] = touched
        /\ \A r \in DOMAIN session : r # s => session'[r] = session[r]
    BY <1>1, <2>3
  <2>5. s \in 1 .. Len(session)
    BY <1>1
  <2>6. session' \in Seq(SessionState) /\ Len(session') = Len(session)
    <3>1. session \in Seq(SessionState) /\ touched \in SessionState
      BY <1>1, <2>2
    <3>2. /\ [session EXCEPT ![s] = touched] \in Seq(SessionState)
          /\ Len([session EXCEPT ![s] = touched]) = Len(session)
      BY ONLY <2>5, <3>1, ExceptSeq
    <3> QED BY <2>3, <3>2
  <2> QED BY <2>2, <2>4, <2>6
<1>5. ASSUME NEW r \in DOMAIN session
      PROVE  session'[r].created <= session'[r].last /\ session'[r].last <= time'
  <2>1. session[r].created <= session[r].last /\ session[r].last <= time
    BY <1>1 DEF SessionsInv, SessionsTypeOK
  <2>2. session[r].created \in Nat /\ session[r].last \in Nat /\ time \in Nat
    BY <1>1, SessionsAreTyped DEF SessionsInv
  <2>3. CASE r = s
    <3>1. session'[r].created = session[r].created /\ session'[r].last = time
      BY <1>3, <2>3
    <3> QED BY <2>1, <2>2, <3>1
  <2>4. CASE r # s
    BY <1>3, <2>1, <2>4
  <2> QED BY <2>3, <2>4
<1>6. \A r \in DOMAIN session : session'[r].conversation = session[r].conversation
  BY <1>3
<1>7. SessionsTypeOK'
  BY <1>3, <1>5 DEF SessionsInv, SessionsTypeOK
<1>8. IndexIsRight'
  <2>1. /\ table \in SUBSET DOMAIN session
        /\ \A c \in Conversations : index[c] \in SUBSET DOMAIN session
    BY DEF SessionsInv, SessionsTypeOK
  <2> QED BY <1>6, <2>1 DEF SessionsInv, IndexIsRight
<1> QED BY <1>7, <1>8 DEF SessionsInv

\* Sessions that go leave the table and their lists together.
LEMMA CleanedInv == ASSUME SessionsInv, CleanupStale PROVE SessionsInv'
<1>1. /\ table' = table \ Stale /\ time' = time /\ session' = session
      /\ index' = [c \in Conversations |->
                     index[c] \ {s \in Stale : session[s].conversation = c}]
  BY DEF CleanupStale
<1>2. Cardinality(table') <= MaxSessions \/ Cardinality(table') = 1
  <2>1. IsFiniteSet(table) /\ MaxSessions \in Nat
    BY EvictsOne, SessionsConstantsOK DEF SessionsInv, SessionsConstantsOK
  <2>2. /\ IsFiniteSet(table') /\ Cardinality(table') <= Cardinality(table)
    BY <1>1, <2>1, FS_Subset
  <2>3. Cardinality(table') \in Nat /\ Cardinality(table) \in Nat
    BY <2>1, <2>2, FS_CardinalityType
  <2>4. Cardinality(table) <= MaxSessions \/ Cardinality(table) = 1
    BY DEF SessionsInv, SessionsTypeOK
  <2>5. CASE Cardinality(table) = 1 /\ Cardinality(table') # 1
    BY <2>1, <2>2, <2>3, <2>5
  <2> QED BY <2>1, <2>2, <2>3, <2>4, <2>5
<1>3. SessionsTypeOK'
  BY <1>1, <1>2 DEF SessionsInv, SessionsTypeOK
<1>4. IndexIsRight'
  <2>1. \A s \in table : session[s].conversation \in Conversations
    BY SessionsAreTyped DEF SessionsInv, SessionsTypeOK
  <2> QED BY <1>1, <2>1 DEF SessionsInv, IndexIsRight
<1> QED BY <1>3, <1>4 DEF SessionsInv

LEMMA SessionsInvStep == SessionsInv /\ [SessionsNext]_sessionVars => SessionsInv'
<1> SUFFICES ASSUME SessionsInv, [SessionsNext]_sessionVars PROVE SessionsInv'
  OBVIOUS
<1>1. ASSUME NEW s \in table, AdvanceTurn(s) \/ SetContext(s) \/ CloseSession(s)
      PROVE  SessionsInv'
  <2>1. session \in Seq(SessionState) /\ s \in DOMAIN session
    BY DEF SessionsInv, SessionsTypeOK
  <2>2. session[s] \in SessionState
    BY <2>1
  <2>3. /\ session[s].active \in BOOLEAN
        /\ [session EXCEPT ![s].last = time]
             = [session EXCEPT ![s].active = session[s].active, ![s].last = time]
    BY <2>1, <2>2 DEF SessionState
  <2>4. CASE CloseSession(s)
    BY <2>4, TouchedInv DEF CloseSession
  <2>5. CASE AdvanceTurn(s) \/ SetContext(s)
    <3>1. /\ session' = [session EXCEPT ![s].active = session[s].active, ![s].last = time]
          /\ time' = time /\ table' = table /\ index' = index
      BY <2>3, <2>5 DEF AdvanceTurn, SetContext
    <3> QED BY <2>3, <3>1, TouchedInv
  <2> QED BY <1>1, <2>4, <2>5
<1>2. CASE SessionTick
  <2>1. /\ time \in 0 .. LastTime /\ time < LastTime /\ time' = time + 1 /\ LastTime \in Nat
        /\ table' = table /\ session' = session /\ index' = index
    BY <1>2, SessionsConstantsOK DEF SessionTick, SessionsInv, SessionsTypeOK, SessionsConstantsOK
  <2>2. \A s \in DOMAIN session : session[s].last <= time'
    <3>1. \A s \in DOMAIN session : session[s].last \in Nat /\ session[s].last <= time
      BY SessionsAreTyped DEF SessionsInv, SessionsTypeOK
    <3> QED BY <2>1, <3>1
  <2>3. time' \in 0 .. LastTime
    BY <2>1
  <2> QED BY <2>1, <2>2, <2>3 DEF SessionsInv, SessionsTypeOK, IndexIsRight
<1>3. CASE UNCHANGED sessionVars
  BY <1>3 DEF sessionVars, SessionsInv, SessionsTypeOK, IndexIsRight
<1> QED BY <1>1, <1>2, <1>3, CreatedInv, CleanedInv DEF SessionsNext

SessionsSpec == SessionsInit /\ [][SessionsNext]_sessionVars

\* The table never outgrows its limit, save by the one session that a limit of zero lets
\* in, whatever is created, closed, evicted and cleaned up, and the lists have only sessions
\* that were made.
THEOREM SessionsTypeCorrect == SessionsSpec => []SessionsTypeOK
<1>1. SessionsInv => SessionsTypeOK
  BY DEF SessionsInv
<1> QED BY SessionsInvInit, SessionsInvStep, <1>1, PTL DEF SessionsSpec

\* What a conversation lists are its sessions in the table, all and no others, although an
\* eviction does not touch the lists.
THEOREM ListingIsWhole == SessionsSpec => []ConversationsAreWhole
<1>1. SessionsInv => ConversationsAreWhole
  BY DEF SessionsInv, IndexIsRight, SessionsOf, ConversationsAreWhole
<1> QED BY SessionsInvInit, SessionsInvStep, <1>1, PTL DEF SessionsSpec
=============================================================================
