--------------------------- MODULE WorkflowsProofs ---------------------------
(***************************************************************************)
(* Theorems about the workflow patterns, for any number of roots, tasks,   *)
(* patterns and executions: their types, one correlation id for each       *)
(* execution, nobody at work for nobody, verdicts that agree with what the *)
(* tasks of a fan-out came to, that they implement WorkflowContract, and   *)
(* that they never wait for one another.                                   *)
(*                                                                         *)
(* The invariant has a part for each: Base (types, who runs, the ids),     *)
(* Care (who waits for whom), Rightly (who ends as cancelled) and Tally    *)
(* (what the patterns in a task have counted).  An action is first reduced *)
(* to what it makes of the record of its task (Step, Spawned), and the     *)
(* parts of the invariant are shown to be kept by such steps.              *)
(*                                                                         *)
(* Who is cancelled (Doomed) is defined level by level: facts about it are *)
(* proved from the least level at which they would fail (LeastNatural).    *)
(*                                                                         *)
(* For the contract, Orderly adds the order among the tasks: nobody waits  *)
(* for itself in the end, tasks work for the execution of whoever waits    *)
(* for them, and a cancelled task does not go on.  With it, whoever works  *)
(* does it for an execution that goes on or left it behind (WorkIsWanted): *)
(* follow those who wait, up to a root, a race that was given up or one    *)
(* that is about to be.                                                    *)
(***************************************************************************)
EXTENDS Workflows, FiniteSetTheorems, WellFoundedInduction, TLAPS

\* A set of natural numbers that is not empty has a least element.
LEMMA LeastNatural ==
  ASSUME NEW T \in SUBSET Nat, T # {}
  PROVE  \E n \in T : \A m \in T : n <= m
<1> DEFINE R == OpToRel(<, Nat)
<1>1. IsWellFoundedOn(R, Nat)
  BY NatLessThanWellFounded
<1> HIDE DEF R
<1>2. PICK n \in T : \A m \in T : ~ (<<m, n>> \in R)
  BY <1>1, WFMin
<1>3. \A m \in T : m < n => <<m, n>> \in R
  BY DEF R, OpToRel
<1>4. n \in Nat
  OBVIOUS
<1>5. ASSUME NEW m \in T PROVE n <= m
  <2>1. m \in Nat /\ ~ (m < n)
    BY <1>2, <1>3
  <2> QED BY <1>4, <2>1
<1> QED BY <1>5

-----------------------------------------------------------------------------
(* What actions make of the record of a task.                              *)

Numbers  == 0 .. MaxRuns
Outcomes == {"value", "error", "cancelled"}
Ats  == {"idle", "done", "begin", "call", "next", "back", "hop", "kids"}
Args == Plans \cup {"hop", None} \cup Outcomes

Frames ==
  [plan : Plans, token : Numbers \cup {None}, pos : Nat \ {0}, good : Nat, bad : Nat,
   kids : SUBSET Kids]
Records ==
  [at : Ats, arg : Args, ctx : Numbers \cup {None}, frames : Seq(Frames),
   cancel : BOOLEAN, run : Numbers, deserted : BOOLEAN]

Active == {"call", "next", "back"}

\* The innermost pattern of a task.
Last(x) == x.frames[Len(x.frames)]

\* What a step makes of the record of the task that takes it.
Sets(x, at, arg) == [x EXCEPT !.at = at, !.arg = arg]

Pushed(x, p, id) ==
  [x EXCEPT !.at = "next", !.arg = None, !.ctx = id, !.frames = Append(@, Frame(p, x.ctx))]

Popped(x, outcome) ==
  [x EXCEPT !.at = "back", !.arg = outcome, !.ctx = Last(x).token,
            !.frames = SubSeq(@, 1, Len(x.frames) - 1)]

Tops(x, at, arg, f) ==
  [x EXCEPT !.at = at, !.arg = arg, !.frames = [@ EXCEPT ![Len(x.frames)] = f]]

Step(t, y) == task' = [task EXCEPT ![t] = y]

\* A task in a pattern has an innermost one.
LEMMA LastFrame ==
  ASSUME NEW x \in Records, x.frames # <<>>
  PROVE  /\ Len(x.frames) \in Nat \ {0} /\ DOMAIN x.frames = 1 .. Len(x.frames)
         /\ Len(x.frames) \in DOMAIN x.frames /\ Last(x) \in Frames
BY DEF Records, Last

\* What becomes of a record when its place and argument are set, ...
LEMMA SetsType ==
  ASSUME NEW x \in Records,
         NEW at \in Ats, NEW arg \in Args
  PROVE  /\ Sets(x, at, arg) \in Records
         /\ Sets(x, at, arg).at = at /\ Sets(x, at, arg).arg = arg
         /\ Sets(x, at, arg).ctx = x.ctx /\ Sets(x, at, arg).frames = x.frames
         /\ Sets(x, at, arg).run = x.run /\ Sets(x, at, arg).cancel = x.cancel
         /\ Sets(x, at, arg).deserted = x.deserted
BY DEF Sets, Records

\* ... when a pattern is entered, ...
LEMMA PushedType ==
  ASSUME NEW x \in Records, NEW p \in Plans, NEW id \in Numbers
  PROVE  LET y == Pushed(x, p, id) IN
         /\ y \in Records
         /\ y.at = "next" /\ y.arg = None /\ y.ctx = id
         /\ Len(y.frames) = Len(x.frames) + 1 /\ Len(x.frames) \in Nat
         /\ DOMAIN y.frames = 1 .. Len(y.frames)
         /\ Last(y) = Frame(p, x.ctx) /\ y.frames # <<>>
         /\ \A i \in 1 .. Len(x.frames) : y.frames[i] = x.frames[i]
         /\ y.run = x.run /\ y.cancel = x.cancel /\ y.deserted = x.deserted
<1> DEFINE y == Pushed(x, p, id)  f == Frame(p, x.ctx)
<1>1. f \in Frames
  BY DEF Frame, Frames, Records
<1>2. Append(x.frames, f) \in Seq(Frames)
  BY <1>1 DEF Records
<1>3. y = [x EXCEPT !.at = "next", !.arg = None, !.ctx = id, !.frames = Append(x.frames, f)]
  BY DEF Pushed, Records
<1>4. x.frames \in Seq(Frames)
  BY DEF Records, Args
<1> HIDE DEF f, y
<1>5. /\ y \in Records /\ y.at = "next" /\ y.arg = None /\ y.ctx = id
      /\ y.frames = Append(x.frames, f)
      /\ y.run = x.run /\ y.cancel = x.cancel /\ y.deserted = x.deserted
  BY <1>2, <1>3 DEF Records, Ats, Args
<1>6. /\ Len(y.frames) = Len(x.frames) + 1 /\ Len(x.frames) \in Nat
      /\ DOMAIN y.frames = 1 .. Len(y.frames)
      /\ y.frames[Len(x.frames) + 1] = f
      /\ \A i \in 1 .. Len(x.frames) : y.frames[i] = x.frames[i]
  BY <1>1, <1>4, <1>5
<1>7. Last(y) = f
  BY <1>6 DEF Last
<1>8. y.frames # <<>>
  BY <1>6
<1> QED BY <1>5, <1>6, <1>7, <1>8 DEF y, f

\* ... when one is left, ...
LEMMA PoppedType ==
  ASSUME NEW x \in Records, x.frames # <<>>, NEW outcome \in Outcomes
  PROVE  LET y == Popped(x, outcome) IN
         /\ y \in Records
         /\ y.at = "back" /\ y.arg = outcome /\ y.ctx = Last(x).token
         /\ Len(y.frames) = Len(x.frames) - 1 /\ DOMAIN y.frames = 1 .. Len(y.frames)
         /\ Len(x.frames) \in Nat /\ DOMAIN x.frames = 1 .. Len(x.frames)
         /\ \A i \in 1 .. Len(y.frames) : y.frames[i] = x.frames[i]
         /\ y.frames # <<>> => Last(y) = x.frames[Len(x.frames) - 1] /\ Len(x.frames) > 1
         /\ y.frames = <<>> => Len(x.frames) = 1
         /\ y.run = x.run /\ y.cancel = x.cancel /\ y.deserted = x.deserted
<1> DEFINE y == Popped(x, outcome)  g == SubSeq(x.frames, 1, Len(x.frames) - 1)
<1>1. /\ Len(x.frames) \in Nat \ {0} /\ Last(x) \in Frames /\ x.frames \in Seq(Frames)
      /\ DOMAIN x.frames = 1 .. Len(x.frames)
  BY LastFrame DEF Records
<1>2. /\ g \in Seq(Frames) /\ Len(g) = Len(x.frames) - 1
      /\ DOMAIN g = 1 .. Len(g)
      /\ \A i \in 1 .. Len(x.frames) - 1 : g[i] = x.frames[i]
  BY <1>1
<1>3. Last(x).token \in Numbers \cup {None}
  BY <1>1 DEF Frames
<1>4. y = [x EXCEPT !.at = "back", !.arg = outcome, !.ctx = Last(x).token, !.frames = g]
  BY DEF Popped, Records
<1> HIDE DEF g, y
<1>5. /\ y \in Records /\ y.at = "back" /\ y.arg = outcome /\ y.ctx = Last(x).token
      /\ y.frames = g
      /\ y.run = x.run /\ y.cancel = x.cancel /\ y.deserted = x.deserted
  BY <1>2, <1>3, <1>4 DEF Records, Ats, Args
<1>6. g # <<>> <=> Len(x.frames) > 1
  BY <1>1, <1>2
<1>7. g # <<>> => Len(g) \in 1 .. Len(x.frames) - 1
  BY <1>1, <1>2, <1>6
<1>8. g # <<>> => Last(y) = x.frames[Len(x.frames) - 1]
  BY <1>2, <1>5, <1>7 DEF Last
<1>9. y.frames = <<>> => Len(x.frames) = 1
  <2>1. \A n \in Nat \ {0} : n > 1 \/ n = 1
    OBVIOUS
  <2> QED BY <1>1, <1>5, <1>6, <2>1
<1> QED BY <1>1, <1>2, <1>5, <1>6, <1>8, <1>9 DEF y

\* ... and when the innermost one changes.
LEMMA TopsType ==
  ASSUME NEW x \in Records, x.frames # <<>>, NEW f \in Frames,
         NEW at \in Ats, NEW arg \in Args
  PROVE  LET y == Tops(x, at, arg, f) IN
         /\ y \in Records
         /\ y.at = at /\ y.arg = arg /\ y.ctx = x.ctx
         /\ Len(y.frames) = Len(x.frames) /\ DOMAIN y.frames = 1 .. Len(x.frames)
         /\ Len(x.frames) \in Nat \ {0} /\ DOMAIN x.frames = 1 .. Len(x.frames)
         /\ Last(y) = f /\ y.frames # <<>>
         /\ \A i \in 1 .. Len(x.frames) : y.frames[i] = IF i = Len(x.frames) THEN f ELSE x.frames[i]
         /\ y.run = x.run /\ y.cancel = x.cancel /\ y.deserted = x.deserted
<1> DEFINE y == Tops(x, at, arg, f)  g == [x.frames EXCEPT ![Len(x.frames)] = f]
<1>1. /\ Len(x.frames) \in Nat \ {0} /\ x.frames \in Seq(Frames)
      /\ DOMAIN x.frames = 1 .. Len(x.frames)
  BY LastFrame DEF Records
<1>2. /\ g \in Seq(Frames) /\ Len(g) = Len(x.frames) /\ DOMAIN g = 1 .. Len(x.frames)
      /\ \A i \in 1 .. Len(x.frames) : g[i] = IF i = Len(x.frames) THEN f ELSE x.frames[i]
  BY <1>1
<1>3. y = [x EXCEPT !.at = at, !.arg = arg, !.frames = g]
  BY DEF Tops, Records
<1> HIDE DEF g, y
<1>4. /\ y \in Records /\ y.at = at /\ y.arg = arg /\ y.ctx = x.ctx /\ y.frames = g
      /\ y.run = x.run /\ y.cancel = x.cancel /\ y.deserted = x.deserted
  BY <1>2, <1>3 DEF Records, Ats, Args
<1>5. Last(y) = f /\ y.frames # <<>>
  BY <1>1, <1>2, <1>4 DEF Last
<1> QED BY <1>1, <1>2, <1>4, <1>5 DEF y

TypeInv ==
  /\ task \in [Tasks -> Records]
  /\ current \in Tasks \cup {None}
  /\ minted \in Nat /\ runs \in Numbers

\* A task that takes back what was asked of it, and the others of a race with it.
Woken(x, outcome) == [x EXCEPT !.at = "back", !.arg = outcome, !.cancel = FALSE]
Rested(x)         == [x EXCEPT !.at = "idle", !.arg = None, !.run = 0, !.cancel = FALSE]
Called(x, item, run) == [x EXCEPT !.at = "call", !.arg = item, !.run = run]
Cut(x)            == [x EXCEPT !.cancel = TRUE]
Alone(x)          == [x EXCEPT !.deserted = TRUE]

\* The steps of a task that calls and returns.
LEMMA CallEffects ==
  ASSUME TypeInv, NEW t \in Tasks
  PROVE  /\ CallHop(t) => Step(t, Sets(task[t], "hop", None))
         /\ Enter(t) => Step(t, Pushed(task[t], task[t].arg, CurrentId(t)))
         /\ \A item : Call(t, item) => Step(t, Sets(task[t], "call", item))
         /\ \A s : Return(t, s) => Step(t, Popped(task[t], "value"))
         /\ GotCancelled(t) => Step(t, Popped(task[t], "cancelled"))
<1> USE DEF TypeInv, Step
<1>1. CallHop(t) => Step(t, Sets(task[t], "hop", None))
  BY DEF CallHop, Sets, Records
<1>2. Enter(t) => Step(t, Pushed(task[t], task[t].arg, CurrentId(t)))
  BY DEF Enter, Pushed, Records
<1>3. \A item : Call(t, item) => Step(t, Sets(task[t], "call", item))
  BY DEF Call, Sets, Records
<1>4. \A s : Return(t, s) => Step(t, Popped(task[t], "value"))
  BY DEF Return, Left, Popped, Records, Top, Deep, Last
<1>5. GotCancelled(t) => Step(t, Popped(task[t], "cancelled"))
  BY DEF GotCancelled, Left, Popped, Records, Top, Deep, Last
<1> QED BY <1>1, <1>2, <1>3, <1>4, <1>5

\* The steps that the event loop and the program take with one task.
LEMMA EventEffects ==
  ASSUME TypeInv, NEW t \in Tasks
  PROVE  /\ \A outcome : HopEnds(t, outcome) => Step(t, Sets(task[t], "back", outcome))
         /\ HopCancelled(t) => Step(t, Woken(task[t], "cancelled"))
         /\ Finish(t) => Step(t, IF t \in Roots THEN Rested(task[t]) ELSE Over(task[t].arg))
         /\ Begin(t) => IF t \in Doomed THEN Step(t, Over("cancelled"))
                        ELSE Step(t, Sets(task[t], "call", task[t].arg))
         /\ \A item : Start(t, item) => Step(t, Called(task[t], item, runs + 1))
         /\ CancelRoot(t) => Step(t, Cut(task[t]))
<1> USE DEF TypeInv, Step
<1>1. \A outcome : HopEnds(t, outcome) => Step(t, Sets(task[t], "back", outcome))
  BY DEF HopEnds, Sets, Records
<1>2. HopCancelled(t) => Step(t, Woken(task[t], "cancelled"))
  BY DEF HopCancelled, Woken, Records
<1>3. Finish(t) => Step(t, IF t \in Roots THEN Rested(task[t]) ELSE Over(task[t].arg))
  BY DEF Finish, Rested, Records
<1>4. Begin(t) => IF t \in Doomed THEN Step(t, Over("cancelled"))
                  ELSE Step(t, Sets(task[t], "call", task[t].arg))
  BY DEF Begin, Sets, Records
<1>5. \A item : Start(t, item) => Step(t, Called(task[t], item, runs + 1))
  BY DEF Start, Called, Records
<1>6. CancelRoot(t) => Step(t, Cut(task[t]))
  BY DEF CancelRoot, Cut, Records
<1> QED BY <1>1, <1>2, <1>3, <1>4, <1>5, <1>6

\* The steps that change the innermost pattern only.
LEMMA TopEffects ==
  ASSUME TypeInv, NEW t \in Tasks, task[t].frames # <<>>
  PROVE  /\ \A pos : GoOn(t, pos) =>
              Step(t, Tops(task[t], "next", None, [Last(task[t]) EXCEPT !.pos = pos]))
         /\ GatherEnds(t) => \E n, m :
              /\ n = Cardinality({k \in Top(t).kids : Ended(k, "value")})
              /\ m = Cardinality({k \in Top(t).kids : Ended(k, "error")})
              /\ IF t \in Doomed THEN Step(t, Woken(task[t], "cancelled"))
                 ELSE Step(t, Tops(task[t], "next", task[t].arg,
                        [Last(task[t]) EXCEPT !.pos = @ + 1, !.good = n, !.bad = m, !.kids = {}]))
         /\ \A k : Lost(t, k) => \E over \in BOOLEAN :
              /\ over <=> Top(t).kids = {k}
              /\ Step(t, Tops(task[t], IF over THEN "next" ELSE "kids", task[t].arg,
                        [Last(task[t]) EXCEPT !.pos = IF over THEN @ + 1 ELSE @,
                                              !.bad = @ + 1, !.kids = @ \ {k}]))
<1> DEFINE x == task[t]
<1>1. /\ x \in Records /\ x.frames \in Seq(Frames) /\ Last(x) \in Frames /\ Len(x.frames) \in DOMAIN x.frames
      /\ x.frames[Len(x.frames)] = Last(x) /\ x \in [DOMAIN x -> {x[i] : i \in DOMAIN x}]
  BY LastFrame DEF TypeInv, Records, Last
<1>2. ASSUME NEW pos, GoOn(t, pos)
      PROVE  Step(t, Tops(x, "next", None, [Last(x) EXCEPT !.pos = pos]))
  BY <1>1, <1>2 DEF GoOn, Tops, Step, Deep, TypeInv, Last
<1>3. ASSUME GatherEnds(t)
      PROVE  \E n, m :
              /\ n = Cardinality({k \in Top(t).kids : Ended(k, "value")})
              /\ m = Cardinality({k \in Top(t).kids : Ended(k, "error")})
              /\ IF t \in Doomed THEN Step(t, Woken(task[t], "cancelled"))
                 ELSE Step(t, Tops(task[t], "next", task[t].arg,
                        [Last(task[t]) EXCEPT !.pos = @ + 1, !.good = n, !.bad = m, !.kids = {}]))
  <2>1. CASE t \in Doomed
    BY <1>1, <1>3, <2>1 DEF GatherEnds, Woken, Step, TypeInv
  <2>2. CASE t \notin Doomed
    <3> DEFINE n == Cardinality({k \in Top(t).kids : Ended(k, "value")})
               m == Cardinality({k \in Top(t).kids : Ended(k, "error")})
               d == Len(x.frames)
               f == [Last(x) EXCEPT !.pos = @ + 1, !.good = n, !.bad = m, !.kids = {}]
    <3>1. task' = [task EXCEPT ![t].at = "next", ![t].frames[d] = f]
      BY <1>3, <2>2 DEF GatherEnds, Deep, Top, Last
    <3> HIDE DEF f
    <3>2. Step(t, Tops(x, "next", x.arg, f))
      BY <1>1, <3>1 DEF Tops, Step, Last, TypeInv, Records
    <3> QED BY <2>2, <3>2 DEF f
  <2> QED BY <2>1, <2>2
<1>4. ASSUME NEW k, Lost(t, k)
      PROVE  \E over \in BOOLEAN :
              /\ over <=> Top(t).kids = {k}
              /\ Step(t, Tops(task[t], IF over THEN "next" ELSE "kids", task[t].arg,
                        [Last(task[t]) EXCEPT !.pos = IF over THEN @ + 1 ELSE @,
                                              !.bad = @ + 1, !.kids = @ \ {k}]))
  <2> DEFINE over == Top(t).kids = {k}
             d == Len(x.frames)
             f == [Last(x) EXCEPT !.pos = IF over THEN @ + 1 ELSE @, !.bad = @ + 1, !.kids = @ \ {k}]
  <2>1. task' = [task EXCEPT ![t].at = IF over THEN "next" ELSE "kids", ![t].frames[d] = f]
    BY <1>4 DEF Lost, Deep, Top, Last
  <2> HIDE DEF over, f
  <2>2. Step(t, Tops(x, IF over THEN "next" ELSE "kids", x.arg, f))
    BY <1>1, <2>1 DEF Tops, Step, Last, TypeInv, Records
  <2> QED BY <2>2 DEF over, f
<1> QED BY <1>2, <1>3, <1>4

\* Below its first element that is too large a finite set of numbers has one that is not.
LEMMA Ranked ==
  ASSUME NEW N \in Nat, NEW S \in SUBSET (1 .. N), NEW i \in 1 .. Cardinality(S)
  PROVE  \E k \in S : Cardinality({j \in S : j < k}) = i - 1
<1> DEFINE Below(m) == {j \in S : j < m}
           T == {m \in 0 .. N + 1 : Cardinality(Below(m)) >= i}
<1>1. IsFiniteSet(S)
  <2>1. IsFiniteSet(1 .. N)
    BY FS_Interval
  <2> QED BY <2>1, FS_Subset
<1>2. ASSUME NEW m \in 0 .. N + 1
      PROVE  IsFiniteSet(Below(m)) /\ Cardinality(Below(m)) \in Nat
  <2>1. Below(m) \in SUBSET S
    OBVIOUS
  <2>2. IsFiniteSet(Below(m))
    BY <1>1, <2>1, FS_Subset
  <2> QED BY <2>2, FS_CardinalityType
<1>0. \A j \in S : j \in Nat /\ j >= 1 /\ j <= N
  OBVIOUS
<1>3. Below(N + 1) = S /\ Below(0) = {}
  <2>1. \A j \in S : j < N + 1 /\ ~ (j < 0)
    BY <1>0
  <2> QED BY <2>1
<1>4. i \in Nat /\ i >= 1 /\ i <= Cardinality(S) /\ Cardinality(S) \in Nat
  BY <1>1, FS_CardinalityType
<1>5. N + 1 \in T
  <2>1. N + 1 \in 0 .. N + 1 /\ Cardinality(S) >= i
    BY <1>4
  <2> HIDE DEF Below
  <2> QED BY <1>3, <2>1
<1>6. T \in SUBSET Nat /\ T # {}
  <2>1. T \in SUBSET Nat
    BY DEF T
  <2> HIDE DEF T
  <2> QED BY <1>5, <2>1
<1> HIDE DEF T
<1>7. PICK m \in T : \A l \in T : m <= l
  BY <1>6, LeastNatural
<1>8. m \in 0 .. N + 1 /\ Cardinality(Below(m)) >= i
  BY <1>7 DEF T
<1>9. m # 0
  <2>1. Cardinality({}) = 0
    BY FS_EmptySet
  <2>2. ~ (Cardinality(Below(0)) >= i)
    BY <1>3, <1>4, <2>1
  <2> QED BY <1>8, <2>2
<1>10. m - 1 \in 0 .. N + 1 /\ m - 1 \notin T
  BY <1>6, <1>7, <1>8, <1>9
<1>11. Cardinality(Below(m - 1)) < i
  BY <1>2, <1>4, <1>10 DEF T
<1>12. \A j \in S : j < m <=> (j < m - 1 \/ j = m - 1)
  BY <1>0, <1>8, <1>9
<1>13. m - 1 \in S
  <2> SUFFICES ASSUME m - 1 \notin S PROVE FALSE
    OBVIOUS
  <2>1. Below(m) = Below(m - 1)
    BY <1>12
  <2> HIDE DEF Below
  <2>2. Cardinality(Below(m)) \in Nat /\ Cardinality(Below(m - 1)) \in Nat
    BY <1>2, <1>8, <1>10
  <2> QED BY <1>4, <1>8, <1>11, <2>1, <2>2
<1>14. Below(m) = Below(m - 1) \cup {m - 1}
  BY <1>12, <1>13, <1>0
<1> HIDE DEF Below
<1>15. Cardinality(Below(m)) <= Cardinality(Below(m - 1)) + 1
  <2>1. Cardinality(Below(m - 1)) \in Nat /\ IsFiniteSet(Below(m - 1))
    BY <1>2, <1>10
  <2> QED BY <1>14, <2>1, FS_AddElement
<1>16. Cardinality(Below(m - 1)) = i - 1
  <2>2. Cardinality(Below(m)) \in Nat /\ Cardinality(Below(m - 1)) \in Nat
    BY <1>2, <1>8, <1>10
  <2> QED BY <2>2, <1>2, <1>4, <1>8, <1>10, <1>11, <1>15
<1> QED BY <1>13, <1>16 DEF Below

\* The tasks of fan-outs are finitely many.
LEMMA FreeKidsFinite ==
  /\ FreeKids \in SUBSET (1 .. MaxKids) /\ IsFiniteSet(FreeKids) /\ Cardinality(FreeKids) \in Nat
  /\ \A S \in SUBSET Kids : IsFiniteSet(S) /\ Cardinality(S) \in Nat
<1>1. FreeKids \in SUBSET (1 .. MaxKids)
  BY DEF FreeKids, Kids
<1>2. IsFiniteSet(1 .. MaxKids)
  BY WorkflowConstantsOK, FS_Interval DEF WorkflowConstantsOK
<1>3. \A S \in SUBSET Kids : IsFiniteSet(S) /\ Cardinality(S) \in Nat
  BY <1>2, FS_Subset, FS_CardinalityType DEF Kids
<1> QED BY <1>1, <1>3 DEF Kids

\* A fan-out of t over some free tasks, one for each item.
Spawned(t, items, new) ==
  /\ new \subseteq FreeKids /\ new # {} /\ t \notin new /\ Cardinality(new) = Len(items)
  /\ task' = [u \in Tasks |-> task'[u]]
  /\ task'[t] = Tops(task[t], "kids", task[t].arg, [Last(task[t]) EXCEPT !.kids = new])
  /\ \A k \in new : \E i \in DOMAIN items :
       task'[k] = Fresh("begin", items[i], task[t].ctx, task[t].run)
  /\ \A k \in Tasks \ (new \cup {t}) : task'[k] = task[k]

\* A fan-out of nothing goes on at once; any other starts one free task for each item.
LEMMA SpawnEffects ==
  ASSUME TypeInv, NEW t \in Tasks, task[t].frames # <<>>, task[t].at = "next",
         NEW items \in Seq(Plans \cup {"hop"}), Spawn(t, items)
  PROVE  \/ /\ items = <<>>
            /\ Step(t, Tops(task[t], "next", task[t].arg, [Last(task[t]) EXCEPT !.pos = @ + 1]))
            /\ UNCHANGED <<current, verdict>>
         \/ /\ \E new : Spawned(t, items, new)
            /\ current' = None /\ verdict' = verdict
<1> DEFINE x == task[t]
           n == Len(items)
           Kid(i) == CHOOSE k \in FreeKids : Cardinality({j \in FreeKids : j < k}) = i - 1
           new == {Kid(i) : i \in 1..n}
<1>1. /\ x \in Records /\ x.frames \in Seq(Frames) /\ Last(x) \in Frames /\ Len(x.frames) \in DOMAIN x.frames
      /\ x.frames[Len(x.frames)] = Last(x)
  BY LastFrame DEF TypeInv, Records, Last
<1>2. CASE /\ n = 0
           /\ task' = [task EXCEPT ![t].frames[Deep(t)].pos = @ + 1]
           /\ UNCHANGED <<current, verdict>>
  <2>1. items = <<>>
    BY <1>2
  <2>2. task' = [task EXCEPT ![t].frames[Len(x.frames)].pos = @ + 1]
    BY <1>2 DEF Deep
  <2>3. Step(t, Tops(x, "next", x.arg, [Last(x) EXCEPT !.pos = @ + 1]))
    BY <1>1, <2>2 DEF Step, Tops, Last, TypeInv, Records
  <2> QED BY <1>2, <2>1, <2>3
<1>3. CASE /\ n \in 1..Cardinality(FreeKids)
           /\ task' = [k \in Tasks |->
              IF k = t THEN [task[t] EXCEPT !.at = "kids", !.frames[Deep(t)].kids = new]
              ELSE IF k \in new
              THEN Fresh("begin", items[CHOOSE i \in 1..n : Kid(i) = k],
                         task[t].ctx, task[t].run)
              ELSE task[k]]
           /\ current' = None
           /\ UNCHANGED verdict
  <2>0. n \in Nat /\ n >= 1 /\ n <= Cardinality(FreeKids) /\ Cardinality(FreeKids) \in Nat
    <3>1. n \in 1 .. Cardinality(FreeKids)
      BY <1>3
    <3> HIDE DEF n
    <3> QED BY <3>1, FreeKidsFinite
  <2>1. ASSUME NEW i \in 1 .. n
        PROVE  Kid(i) \in FreeKids /\ Cardinality({j \in FreeKids : j < Kid(i)}) = i - 1
    <3>1. i \in 1 .. Cardinality(FreeKids) /\ MaxKids \in Nat
      <4> HIDE DEF n
      <4> QED BY <2>0, WorkflowConstantsOK DEF WorkflowConstantsOK
    <3>2. \E k \in FreeKids : Cardinality({j \in FreeKids : j < k}) = i - 1
      BY <3>1, Ranked, FreeKidsFinite
    <3> QED BY <3>2
  <2> HIDE DEF Kid
  <2>2. \A i, j \in 1 .. n : Kid(i) = Kid(j) => i = j
    <3> SUFFICES ASSUME NEW i \in 1 .. n, NEW j \in 1 .. n, Kid(i) = Kid(j) PROVE i = j
      OBVIOUS
    <3>1. Cardinality({l \in FreeKids : l < Kid(i)}) = i - 1
      BY <2>1
    <3>2. Cardinality({l \in FreeKids : l < Kid(j)}) = j - 1
      BY <2>1
    <3>3. i - 1 = j - 1
      BY <3>1, <3>2
    <3> QED BY <3>3
  <2>3. Cardinality(new) = n
    <3> DEFINE f == [i \in 1 .. n |-> Kid(i)]
    <3>1. f \in Bijection(1 .. n, new)
      BY <2>2 DEF Bijection, Injection, Surjection, IsInjective
    <3>2. ExistsBijection(1 .. n, new)
      BY <3>1 DEF ExistsBijection
    <3>4. n \in Nat
      OBVIOUS
    <3> HIDE DEF n
    <3>3. IsFiniteSet(1 .. n) /\ Cardinality(1 .. n) = n
      BY <3>4, FS_Interval
    <3> QED BY <3>2, <3>3, FS_Bijection
  <2>4. new \subseteq FreeKids /\ new # {} /\ t \notin new
    <3>4. 1 \in 1 .. n
      BY <2>0
    <3>1. Kid(1) \in new
      BY <3>4
    <3>2. t \notin FreeKids
      BY DEF FreeKids
    <3> QED BY <2>1, <3>1, <3>2
  <2>5. ASSUME NEW k \in new
        PROVE  \E i \in DOMAIN items : task'[k] = Fresh("begin", items[i], x.ctx, x.run)
    <3>1. (CHOOSE i \in 1..n : Kid(i) = k) \in 1 .. n
      <4>1. \E i \in 1 .. n : Kid(i) = k
        OBVIOUS
      <4> QED BY <4>1
    <3>2. k \in Tasks /\ k # t /\ DOMAIN items = 1 .. n
      BY <2>4 DEF FreeKids, Tasks
    <3> QED BY <1>3, <3>1, <3>2
  <2>6. task'[t] = [task[t] EXCEPT !.at = "kids", !.frames[Deep(t)].kids = new]
    BY <1>3
  <2> HIDE DEF new
  <2>7. task'[t] = Tops(x, "kids", x.arg, [Last(x) EXCEPT !.kids = new])
    BY <1>1, <2>6 DEF Tops, Last, TypeInv, Records, Deep
  <2>8. task' = [u \in Tasks |-> task'[u]] /\ \A k \in Tasks \ (new \cup {t}) : task'[k] = task[k]
    BY <1>3
  <2>9. Spawned(t, items, new)
    BY <2>3, <2>4, <2>5, <2>7, <2>8 DEF Spawned
  <2> QED BY <1>3, <2>9
<1> QED BY <1>2, <1>3 DEF Spawn

FanOut(p) == Kind[p] \in {"all", "vote", "first"}

\* What a pattern starts at once, and how it judges what came of it.
Fans(f, items) ==
  \/ FanOut(f.plan) /\ f.pos = 1 /\ items = Parts[f.plan]
  \/ Kind[f.plan] = "orchestrate" /\ f.pos = 2 /\ Len(items) <= Len(Parts[f.plan])

Concludes(f, success) ==
  /\ FanOut(f.plan) => f.pos # 1
  /\ Kind[f.plan] = "all" => (success <=> f.bad = 0)
  /\ Kind[f.plan] \in {"vote", "first"} => (success <=> f.good > 0)

Returned(t, f) ==
  /\ Step(t, Popped(task[t], "value"))
  /\ \E success \in BOOLEAN :
       /\ verdict' = [plan |-> f.plan, success |-> success, good |-> f.good, bad |-> f.bad]
       /\ FanOut(f.plan) => task[t].at = "next" /\ Concludes(f, success)

\* The steps that end a race for its tasks too.
LEMMA RaceEffects ==
  ASSUME TypeInv, NEW t \in Tasks, task[t].frames # <<>>
  PROVE  /\ \A k : Won(t, k) =>
              /\ task' = [u \in Tasks |-> task'[u]]
              /\ task'[t] = Tops(task[t], "next", task[t].arg,
                                 [Last(task[t]) EXCEPT !.pos = @ + 1, !.good = 1, !.kids = {}])
              /\ \A u \in Tasks \ {t} :
                   task'[u] = IF u \in Last(task[t]).kids /\ task[u].at # "done"
                              THEN Cut(task[u]) ELSE task[u]
         /\ RaceCancelled(t) =>
              /\ task' = [u \in Tasks |-> task'[u]]
              /\ task'[t] = Woken(task[t], "cancelled")
              /\ \A u \in Tasks \ {t} :
                   task'[u] = IF u \in Last(task[t]).kids THEN Alone(task[u]) ELSE task[u]
<1> DEFINE x == task[t]
           f == [Last(x) EXCEPT !.pos = @ + 1, !.good = 1, !.kids = {}]
<1>1. /\ x \in Records /\ x.frames \in Seq(Frames) /\ Last(x) \in Frames /\ Len(x.frames) \in DOMAIN x.frames
      /\ x.frames[Len(x.frames)] = Last(x)
  BY LastFrame DEF TypeInv, Records, Last
<1>2. ASSUME NEW k, Won(t, k)
      PROVE  /\ task' = [u \in Tasks |-> task'[u]]
             /\ task'[t] = Tops(x, "next", x.arg, f)
             /\ \A u \in Tasks \ {t} :
                   task'[u] = IF u \in Last(x).kids /\ task[u].at # "done"
                              THEN Cut(task[u]) ELSE task[u]
  <2>1. task'[t] = [x EXCEPT !.at = "next", !.frames[Len(x.frames)] = f]
    BY <1>2 DEF Won, Top, Deep, Last
  <2> HIDE DEF f
  <2>2. task'[t] = Tops(x, "next", x.arg, f)
    BY <1>1, <2>1 DEF Tops, Records
  <2> QED BY <1>2, <2>2 DEF Won, Cut, Top, Last
<1>3. RaceCancelled(t) =>
              /\ task' = [u \in Tasks |-> task'[u]]
              /\ task'[t] = Woken(x, "cancelled")
              /\ \A u \in Tasks \ {t} :
                   task'[u] = IF u \in Last(x).kids THEN Alone(task[u]) ELSE task[u]
  BY DEF RaceCancelled, Woken, Alone, Top, Last
<1> QED BY <1>2, <1>3

\* A pattern calls a part, returns, or fans out.
LEMMA ProceedEffects ==
  ASSUME TypeInv, NEW t \in Tasks, task[t].frames # <<>>, Proceed(t)
  PROVE  LET x == task[t]
             f == Last(x)
         IN  /\ x.at = "next" /\ current = t
             /\ UNCHANGED <<minted, runs, hops>>
             /\ \/ /\ \E item \in Plans \cup {"hop"} : Step(t, Sets(x, "call", item))
                   /\ ~ FanOut(f.plan) /\ UNCHANGED <<current, verdict>>
                \/ Returned(t, f) /\ current' = current
                \/ \E items \in Seq(Plans \cup {"hop"}) :
                     /\ Fans(f, items)
                     /\ \/ /\ items = <<>> /\ UNCHANGED <<current, verdict>>
                           /\ Step(t, Tops(x, "next", x.arg, [f EXCEPT !.pos = @ + 1]))
                        \/ /\ \E new : Spawned(t, items, new)
                           /\ current' = None /\ verdict' = verdict
<1> DEFINE x == task[t]  f == Last(x)  n == Len(Parts[f.plan])
<1>1. f \in Frames /\ f.plan \in Plans /\ f.pos \in Nat \ {0} /\ f.good \in Nat /\ f.bad \in Nat
      /\ x \in Records /\ f = Top(t)
  BY LastFrame DEF TypeInv, Frames, Top, Last
<1>2. Parts[f.plan] \in Seq(Plans \cup {"hop"})
  BY <1>1, WorkflowConstantsOK DEF WorkflowConstantsOK
<1>3. /\ x.at = "next" /\ current = t
      /\ UNCHANGED <<minted, runs, hops>>
  BY DEF Proceed, Running
<1>4. ASSUME NEW items \in Seq(Plans \cup {"hop"}), Fans(f, items), Spawn(t, items)
      PROVE  \/ /\ items = <<>> /\ UNCHANGED <<current, verdict>>
                /\ Step(t, Tops(x, "next", x.arg, [f EXCEPT !.pos = @ + 1]))
             \/ /\ \E new : Spawned(t, items, new)
                /\ current' = None /\ verdict' = verdict
  BY <1>3, <1>4, SpawnEffects
<1>5. ASSUME NEW item \in Plans \cup {"hop"}, Call(t, item), ~ FanOut(f.plan)
      PROVE  /\ \E i \in Plans \cup {"hop"} : Step(t, Sets(x, "call", i))
             /\ ~ FanOut(f.plan) /\ UNCHANGED <<current, verdict>>
  BY <1>5, CallEffects DEF Call
<1>6. ASSUME NEW success \in BOOLEAN, Return(t, success), FanOut(f.plan) => Concludes(f, success)
      PROVE  Returned(t, f) /\ current' = current
  BY <1>1, <1>3, <1>6, CallEffects DEF Return, Returned
<1>7. CASE Kind[f.plan] = "chain" /\ Chain(t)
  <2>1. ~ FanOut(f.plan)
    BY <1>7 DEF FanOut
  <2>2. CASE f.pos <= n
    <3>1. Parts[f.plan][f.pos] \in Plans \cup {"hop"}
      BY <1>1, <1>2, <2>2
    <3> QED BY <1>1, <1>3, <1>5, <1>7, <2>1, <2>2, <3>1 DEF Chain
  <2>3. CASE ~ (f.pos <= n)
    BY <1>1, <1>3, <1>6, <1>7, <2>1, <2>3 DEF Chain
  <2> QED BY <2>2, <2>3
<1>8. CASE Kind[f.plan] = "route" /\ RouteOne(t)
  <2>1. ~ FanOut(f.plan)
    BY <1>8 DEF FanOut
  <2>2. \A i \in DOMAIN Parts[f.plan] : Parts[f.plan][i] \in Plans \cup {"hop"}
    BY <1>2
  <2>3. f.pos = 1 \/ f.pos = 2 \/ f.pos > 2
    BY <1>1
  <2>4. \/ \E item \in Plans \cup {"hop"} : Call(t, item)
        \/ \E success \in BOOLEAN : Return(t, success)
    <3>1. CASE f.pos = 1
      BY <1>1, <1>8, <3>1 DEF RouteOne
    <3>2. CASE f.pos = 2
      BY <1>1, <1>8, <2>2, <3>2 DEF RouteOne
    <3>3. CASE f.pos > 2
      <4>1. f.pos # 1 /\ f.pos # 2
        BY <1>1, <3>3
      <4> QED BY <1>1, <1>8, <3>3, <4>1 DEF RouteOne
    <3> QED BY <2>3, <3>1, <3>2, <3>3
  <2> QED BY <1>3, <1>5, <1>6, <2>1, <2>4
<1>9. CASE FanOut(f.plan) /\ f.pos = 1 /\ Spawn(t, Parts[f.plan])
  <2>1. Fans(f, Parts[f.plan])
    BY <1>9 DEF Fans
  <2> QED BY <1>2, <1>3, <1>4, <1>9, <2>1
<1>10. CASE Kind[f.plan] = "all" /\ GatherAll(t)
  <2>1. FanOut(f.plan) /\ ~ (Kind[f.plan] \in {"vote", "first"})
    BY <1>10 DEF FanOut
  <2>2. CASE f.pos = 1
    BY <1>1, <1>9, <1>10, <2>1, <2>2 DEF GatherAll
  <2>3. CASE f.pos # 1
    <3>1. Return(t, f.bad = 0) /\ Concludes(f, f.bad = 0)
      BY <1>1, <1>10, <2>1, <2>3 DEF GatherAll, Concludes
    <3>2. Returned(t, f) /\ current' = current
      BY <1>1, <1>6, <3>1
    <3> QED BY <1>3, <3>2
  <2> QED BY <2>2, <2>3
<1>11. CASE Kind[f.plan] = "vote" /\ Vote(t)
  <2>1. FanOut(f.plan)
    BY <1>11 DEF FanOut
  <2>2. CASE f.pos = 1
    BY <1>1, <1>9, <1>11, <2>1, <2>2 DEF Vote
  <2>3. CASE f.pos # 1
    <3> DEFINE s == f.good > 0
    <3>1. Return(t, s) /\ Concludes(f, s)
      BY <1>1, <1>11, <2>1, <2>3 DEF Vote, Concludes
    <3>3. s \in BOOLEAN
      BY <1>1
    <3> HIDE DEF s
    <3>2. Returned(t, f) /\ current' = current
      BY <1>6, <3>1, <3>3
    <3> QED BY <1>3, <3>2
  <2> QED BY <2>2, <2>3
<1>12. CASE Kind[f.plan] = "first" /\ Race(t)
  <2>1. FanOut(f.plan)
    BY <1>12 DEF FanOut
  <2>2. CASE f.pos = 1
    BY <1>1, <1>9, <1>12, <2>1, <2>2 DEF Race
  <2>3. CASE f.pos # 1
    <3> DEFINE s == f.good > 0
    <3>1. Return(t, s) /\ Concludes(f, s)
      BY <1>1, <1>12, <2>1, <2>3 DEF Race, Concludes
    <3>3. s \in BOOLEAN
      BY <1>1
    <3> HIDE DEF s
    <3>2. Returned(t, f) /\ current' = current
      BY <1>6, <3>1, <3>3
    <3> QED BY <1>3, <3>2
  <2> QED BY <2>2, <2>3
<1>13. CASE Kind[f.plan] = "orchestrate" /\ Orchestrate(t)
  <2>1. ~ FanOut(f.plan)
    BY <1>13 DEF FanOut
  <2>2. CASE f.pos = 1
    BY <1>1, <1>3, <1>5, <1>13, <2>1, <2>2 DEF Orchestrate
  <2>3. CASE f.pos = 2
    <3>1. PICK m \in 0 .. n : Spawn(t, SubSeq(Parts[f.plan], 1, m))
      BY <1>1, <1>13, <2>3 DEF Orchestrate
    <3> DEFINE items == SubSeq(Parts[f.plan], 1, m)
    <3>2. items \in Seq(Plans \cup {"hop"}) /\ Len(items) <= n
      BY <1>2
    <3>3. Fans(f, items)
      BY <1>13, <2>3, <3>2 DEF Fans
    <3> HIDE DEF items
    <3>4. \/ /\ items = <<>> /\ UNCHANGED <<current, verdict>>
             /\ Step(t, Tops(x, "next", x.arg, [f EXCEPT !.pos = @ + 1]))
          \/ /\ \E new : Spawned(t, items, new)
             /\ current' = None /\ verdict' = verdict
      BY <1>4, <3>1, <3>2, <3>3 DEF items
    <3> QED BY <1>3, <3>2, <3>3, <3>4
  <2>4. CASE f.pos \notin {1, 2}
    <3>1. f.pos = 3 \/ f.pos > 3
      BY <1>1, <2>4
    <3>4. Call(t, "hop") \/ Return(t, f.bad = 0)
      <4>1. CASE f.pos = 3
        BY <1>1, <1>13, <4>1 DEF Orchestrate
      <4>2. CASE f.pos > 3
        <5>1. f.pos # 1 /\ f.pos # 2 /\ f.pos # 3
          BY <1>1, <4>2
        <5> QED BY <1>1, <1>13, <4>2, <5>1 DEF Orchestrate
      <4> QED BY <3>1, <4>1, <4>2
    <3>2. CASE Call(t, "hop")
      BY <1>3, <1>5, <2>1, <3>2
    <3>3. CASE Return(t, f.bad = 0)
      BY <1>3, <1>6, <2>1, <3>3
    <3> QED BY <3>2, <3>3, <3>4
  <2> QED BY <2>2, <2>3, <2>4
<1>14. CASE Kind[f.plan] = "optimize" /\ Optimize(t)
  <2>1. ~ FanOut(f.plan)
    BY <1>14 DEF FanOut
  <2>2. Call(t, "hop") \/ Return(t, FALSE)
    BY <1>14 DEF Optimize
  <2> QED BY <1>3, <1>5, <1>6, <2>1, <2>2
<1> QED BY <1>1, <1>7, <1>8, <1>10, <1>11, <1>12, <1>13, <1>14 DEF Proceed

\* A pattern that got an answer returns, goes on, or passes a cancellation by.
LEMMA BackEffects ==
  ASSUME TypeInv, NEW t \in Tasks, task[t].frames # <<>>, Back(t)
  PROVE  LET x == task[t]
             f == Last(x)
         IN  /\ x.at = "back" /\ current = t
             /\ UNCHANGED <<current, minted, runs, hops>>
             /\ \/ /\ x.arg \in {"value", "error"} /\ Step(t, Popped(x, "value"))
                   /\ \E success \in BOOLEAN :
                        verdict' = [plan |-> f.plan, success |-> success,
                                    good |-> f.good, bad |-> f.bad]
                \/ /\ x.arg \in {"value", "error"} /\ verdict' = None
                   /\ \E pos \in {f.pos + 1, f.pos + 2} :
                        Step(t, Tops(x, "next", None, [f EXCEPT !.pos = pos]))
                \/ x.arg = "cancelled" /\ Step(t, Popped(x, "cancelled")) /\ verdict' = None
<1> DEFINE x == task[t]  f == Last(x)
<1>1. f \in Frames /\ f = Top(t) /\ f.pos \in Nat
  BY LastFrame DEF TypeInv, Top, Last, Frames
<1>2. /\ x.at = "back" /\ current = t
      /\ UNCHANGED <<current, minted, runs, hops>>
  BY DEF Back, Running, GotValue, GotError, GotCancelled, GoOn, Return
<1>3. ASSUME NEW success \in BOOLEAN, Return(t, success)
      PROVE  /\ Step(t, Popped(x, "value"))
             /\ verdict' = [plan |-> f.plan, success |-> success, good |-> f.good, bad |-> f.bad]
  BY <1>1, <1>3, CallEffects DEF Return
<1>4. ASSUME NEW pos, GoOn(t, pos)
      PROVE  Step(t, Tops(x, "next", None, [f EXCEPT !.pos = pos])) /\ verdict' = None
  BY <1>4, TopEffects DEF GoOn
<1>5. CASE x.arg = "value" /\ GotValue(t)
  <2>1. Return(t, TRUE) \/ GoOn(t, f.pos + 1)
    BY <1>1, <1>5 DEF GotValue
  <2> QED BY <1>2, <1>3, <1>4, <1>5, <2>1
<1>6. CASE x.arg = "error" /\ GotError(t)
  <2>1. Return(t, FALSE) \/ GoOn(t, f.pos + 1) \/ GoOn(t, f.pos + 2)
    BY <1>1, <1>6 DEF GotError
  <2> QED BY <1>2, <1>3, <1>4, <1>6, <2>1
<1>7. CASE x.arg = "cancelled" /\ GotCancelled(t)
  BY <1>2, <1>7, CallEffects DEF GotCancelled
<1> QED BY <1>5, <1>6, <1>7 DEF Back

-----------------------------------------------------------------------------
(* One correlation id for each execution.                                  *)

\* The id of a task is that of its execution from the first pattern on; what a pattern
\* restores when it is left is that again, or None for the outermost of a root.
Scoped(t, x) ==
  LET n == Len(x.frames) IN
  /\ x.at \in {"next", "kids"} => n > 0
  /\ x.at \in {"idle", "done"} => n = 0
  /\ \A i \in 1 .. n : x.frames[i].token = IF i = 1 /\ t \in Roots THEN None ELSE x.run
  /\ t \in Roots => x.at \notin {"begin", "done"} /\ x.ctx = IF n = 0 THEN None ELSE x.run
  /\ t \in Kids  => x.at # "idle" /\ (x.at # "done" => x.ctx = x.run)

\* An execution that was started and has not made its first call has no id yet.
Pending == current # None /\ task[current].at = "call" /\ task[current].ctx = None

Counted == IF Pending THEN minted + 1 = runs /\ task[current].run = runs ELSE minted = runs

Base ==
  /\ TypeInv
  /\ \A t \in Tasks : Scoped(t, task[t])
  /\ \A t \in Tasks : task[t].at \in Active <=> current = t
  /\ Counted
  /\ \A h \in hops : h.id = h.run

\* Tasks, numbers and None are told apart.
LEMMA Apart == /\ None \notin Tasks /\ None \notin Nat /\ Roots \cap Kids = {}
               /\ None \notin Numbers /\ Numbers \subseteq Nat /\ MaxRuns \in Nat
               /\ 0 \in Numbers
BY WorkflowConstantsOK DEF WorkflowConstantsOK, Tasks, Kids, Numbers

\* Whoever is neither called for the first time nor idle has an id.
LEMMA HasId ==
  ASSUME NEW t \in Tasks, NEW x \in Records, Scoped(t, x), x.at \notin {"idle", "done"}
  PROVE  /\ x.ctx # None => x.ctx = x.run
         /\ x.ctx = None => Len(x.frames) = 0 /\ t \in Roots
<1>1. x.run \in Numbers /\ x.run # None
  BY Apart DEF Records
<1> QED BY <1>1 DEF Scoped, Tasks

\* Steps that leave the scopes of a task alone.
LEMMA ScopeStays ==
  ASSUME NEW t \in Tasks, NEW x \in Records, NEW y \in Records, Scoped(t, x),
         y.ctx = x.ctx, y.run = x.run, Len(y.frames) = Len(x.frames),
         \A i \in 1 .. Len(x.frames) : y.frames[i].token = x.frames[i].token,
         \/ y.at = x.at
         \/ x.at \notin {"idle", "done"} /\ y.at \in {"call", "hop", "back"}
         \/ x.at \notin {"idle", "done"} /\ y.at \in {"next", "kids"} /\ Len(x.frames) > 0
  PROVE  Scoped(t, y)
BY DEF Scoped

\* A pattern is entered with the id of the execution, ...
LEMMA ScopeEntered ==
  ASSUME NEW t \in Tasks, NEW x \in Records, Scoped(t, x), x.at = "call", NEW p \in Plans
  PROVE  Scoped(t, Pushed(x, p, x.run))
<1> DEFINE y == Pushed(x, p, x.run)
<1>1. x.run \in Numbers /\ Frame(p, x.ctx).token = x.ctx
  BY DEF Records, Frame
<1>2. /\ y \in Records /\ y.at = "next" /\ y.ctx = x.run /\ y.run = x.run
      /\ Len(y.frames) = Len(x.frames) + 1 /\ Len(x.frames) \in Nat
      /\ Last(y) = Frame(p, x.ctx)
      /\ \A i \in 1 .. Len(x.frames) : y.frames[i] = x.frames[i]
  BY <1>1, PushedType
<1>3. y.frames[Len(x.frames) + 1].token = x.ctx
  BY <1>1, <1>2 DEF Last
<1> HIDE DEF y
<1>4. ASSUME NEW i \in 1 .. Len(x.frames) + 1
      PROVE  y.frames[i].token = IF i = 1 /\ t \in Roots THEN None ELSE x.run
  <2>1. CASE i = Len(x.frames) + 1
    <3>1. t \in Roots => (i = 1 <=> Len(x.frames) = 0)
      BY <1>2, <2>1
    <3> QED BY <1>2, <1>3, <2>1, <3>1, Apart DEF Scoped, Tasks
  <2>2. CASE i \in 1 .. Len(x.frames)
    BY <1>2, <2>2 DEF Scoped
  <2> QED BY <1>2, <2>1, <2>2
<1>5. Len(y.frames) > 0 /\ Len(y.frames) # 0
  BY <1>2
<1>6. Scoped(t, y)
  BY <1>2, <1>4, <1>5 DEF Scoped
<1> QED BY <1>6 DEF y

\* ... and left with the one it was entered with.
LEMMA ScopeLeft ==
  ASSUME NEW t \in Tasks, NEW x \in Records, Scoped(t, x), x.frames # <<>>,
         NEW outcome \in Outcomes
  PROVE  Scoped(t, Popped(x, outcome))
<1> DEFINE y == Popped(x, outcome)
<1>1. /\ y \in Records /\ y.at = "back" /\ y.ctx = Last(x).token /\ y.run = x.run
      /\ Len(y.frames) = Len(x.frames) - 1 /\ Len(x.frames) \in Nat
      /\ \A i \in 1 .. Len(y.frames) : y.frames[i] = x.frames[i]
  BY PoppedType
<1>2. Len(x.frames) \in Nat \ {0}
  BY LastFrame
<1> HIDE DEF y
<1>3. \A i \in 1 .. Len(y.frames) : i \in 1 .. Len(x.frames)
  BY <1>1
<1>4. y.ctx = IF Len(y.frames) = 0 /\ t \in Roots THEN None ELSE x.run
  <2>1. Len(x.frames) \in 1 .. Len(x.frames) /\ (Len(x.frames) = 1 <=> Len(y.frames) = 0)
    BY <1>1, <1>2
  <2> QED BY <1>1, <2>1 DEF Last, Scoped
<1>5. x.at # "done" /\ x.at # "idle"
  BY <1>2 DEF Scoped
<1>6. \A i \in 1 .. Len(y.frames) : y.frames[i].token = IF i = 1 /\ t \in Roots THEN None ELSE y.run
  BY <1>1, <1>3 DEF Scoped
<1>7. Scoped(t, y)
  BY <1>1, <1>4, <1>5, <1>6, Apart DEF Scoped
<1> QED BY <1>7 DEF y

\* The other changes of a record keep its scopes.
LEMMA ScopeOps ==
  ASSUME NEW t \in Tasks, NEW x \in Records, Scoped(t, x)
  PROVE  /\ Woken(x, "cancelled") \in Records
         /\ x.at \in {"hop", "kids"} => Scoped(t, Woken(x, "cancelled"))
         /\ Cut(x) \in Records /\ Scoped(t, Cut(x))
         /\ Alone(x) \in Records /\ Scoped(t, Alone(x))
         /\ Rested(x) \in Records
         /\ t \in Roots /\ Len(x.frames) = 0 => Scoped(t, Rested(x))
         /\ \A o \in Args : Over(o) \in Records /\ (t \in Kids => Scoped(t, Over(o)))
         /\ \A item \in Plans \cup {"hop"}, run \in Numbers :
              /\ Called(x, item, run) \in Records
              /\ x.at = "idle" => Scoped(t, Called(x, item, run))
<1>0. 0 \in Numbers
  BY Apart
<1>1. Woken(x, "cancelled") \in Records
  BY DEF Woken, Records, Outcomes, Ats, Args
<1>2. x.at \in {"hop", "kids"} => Scoped(t, Woken(x, "cancelled"))
  BY DEF Woken, Records, Scoped
<1>3. Cut(x) \in Records /\ Scoped(t, Cut(x))
  BY DEF Cut, Records, Scoped
<1>4. Alone(x) \in Records /\ Scoped(t, Alone(x))
  BY DEF Alone, Records, Scoped
<1>5. Rested(x) \in Records
  BY <1>0 DEF Rested, Records, Ats, Args
<1>6. t \in Roots /\ Len(x.frames) = 0 => Scoped(t, Rested(x))
  BY Apart DEF Rested, Records, Scoped
<1>7. ASSUME NEW o \in Args
      PROVE  Over(o) \in Records /\ (t \in Kids => Scoped(t, Over(o)))
  <2>1. Over(o).frames = <<>> /\ Over(o).at = "done"
    BY DEF Over, Fresh
  <2>2. Len(<<>>) = 0 /\ <<>> \in Seq(Frames)
    OBVIOUS
  <2>3. Over(o) \in Records
    BY <1>0, <2>2 DEF Over, Fresh, Records, Ats, Args
  <2> QED BY <2>1, <2>2, <2>3, Apart DEF Scoped
<1>8. ASSUME NEW item \in Plans \cup {"hop"}, NEW run \in Numbers
      PROVE  /\ Called(x, item, run) \in Records
             /\ x.at = "idle" => Scoped(t, Called(x, item, run))
  <2>1. Called(x, item, run) \in Records
    BY DEF Called, Records, Ats, Args
  <2>2. /\ Called(x, item, run).at = "call" /\ Called(x, item, run).ctx = x.ctx
        /\ Called(x, item, run).frames = x.frames /\ Called(x, item, run).run = run
    BY DEF Called, Records, Ats, Args
  <2>3. x.at = "idle" => Len(x.frames) = 0 /\ t \notin Kids
    BY DEF Scoped
  <2>4. x.at = "idle" => t \in Roots
    BY <2>3 DEF Tasks
  <2> QED BY <2>1, <2>2, <2>3, <2>4, Apart DEF Scoped
<1> QED BY <1>1, <1>2, <1>3, <1>4, <1>5, <1>6, <1>7, <1>8

\* One task is given a new record, and the counters are in order.
LEMMA BaseOfStep ==
  ASSUME Base, NEW t \in Tasks, NEW y \in Records, Step(t, y), Scoped(t, y),
         current \in {None, t}, current' = IF y.at \in Active THEN t ELSE None,
         minted' \in Nat, runs' \in Numbers,
         IF y.at = "call" /\ y.ctx = None THEN minted' + 1 = runs' /\ y.run = runs'
         ELSE minted' = runs',
         \A h \in hops' : h.id = h.run
  PROVE  Base'
<1>1. /\ task' \in [Tasks -> Records] /\ task'[t] = y
      /\ \A u \in Tasks \ {t} : task'[u] = task[u]
  BY DEF Base, TypeInv, Step
<1>2. t # None
  BY Apart
<1>3. TypeInv'
  BY <1>1 DEF TypeInv
<1>4. \A u \in Tasks : Scoped(u, task'[u])
  BY <1>1 DEF Base
<1>5. \A u \in Tasks : task'[u].at \in Active <=> current' = u
  <2> TAKE u \in Tasks
  <2>1. CASE u = t
    BY <1>1, <1>2, <2>1
  <2>2. CASE u # t
    <3>1. task[u].at \notin Active
      BY <2>2, Apart DEF Base
    <3> QED BY <1>1, <2>2, <3>1, Apart
  <2> QED BY <2>1, <2>2
<1>6. Pending' <=> y.at = "call" /\ y.ctx = None
  <2>1. CASE y.at \in Active
    BY <1>1, <1>2, <2>1 DEF Pending
  <2>2. CASE y.at \notin Active
    <3>1. current' = None /\ y.at # "call"
      BY <2>2 DEF Active
    <3> QED BY <3>1 DEF Pending
  <2> QED BY <2>1, <2>2
<1>7. Counted'
  <2>1. CASE y.at = "call" /\ y.ctx = None
    <3>1. current' = t
      BY <2>1 DEF Active
    <3> QED BY <1>1, <1>6, <2>1, <3>1 DEF Counted
  <2>2. CASE ~ (y.at = "call" /\ y.ctx = None)
    BY <1>6, <2>2 DEF Counted
  <2> QED BY <2>1, <2>2
<1> QED BY <1>3, <1>4, <1>5, <1>7 DEF Base

\* Many tasks are given new records.
LEMMA BaseOfSteps ==
  ASSUME Base, task' \in [Tasks -> Records], \A u \in Tasks : Scoped(u, task'[u]),
         NEW t \in Tasks, current \in {None, t},
         current' = IF task'[t].at \in Active THEN t ELSE None,
         \A u \in Tasks \ {t} : task'[u].at \notin Active,
         ~ Pending, task'[t].at # "call", UNCHANGED <<minted, runs, hops>>
  PROVE  Base'
<1>1. TypeInv'
  BY DEF TypeInv, Base
<1>2. \A u \in Tasks : task'[u].at \in Active <=> current' = u
  BY Apart
<1>3. ~ Pending'
  <2>1. current' \in {None, t}
    OBVIOUS
  <2> QED BY <2>1 DEF Pending
<1>4. Counted'
  BY <1>3 DEF Counted, Base
<1> QED BY <1>1, <1>2, <1>4 DEF Base

\* In a task that calls, what is told apart by an id.
LEMMA IdOfCall ==
  ASSUME Base, NEW t \in Tasks, current = t, task[t].at = "call"
  PROVE  /\ CurrentId(t) = task[t].run
         /\ CurrentId(t) \in Numbers
         /\ (Mint(t) /\ runs' = runs => minted' \in Nat /\ minted' = runs')
<1> DEFINE x == task[t]
<1>1. x \in Records /\ Scoped(t, x) /\ minted \in Nat /\ runs \in Nat /\ t # None
  BY Apart DEF Base, TypeInv
<1>2. x.run \in Numbers
  BY <1>1 DEF Records
<1>3. CASE x.ctx = None
  <2>1. Pending
    BY <1>1, <1>3 DEF Pending
  <2>2. minted + 1 = runs /\ x.run = runs
    BY <2>1 DEF Base, Counted
  <2> QED BY <1>1, <1>2, <1>3, <2>2 DEF CurrentId, Mint
<1>4. CASE x.ctx # None
  <2>1. ~ Pending
    BY <1>4 DEF Pending
  <2>2. minted = runs
    BY <2>1 DEF Base, Counted
  <2>3. x.ctx = x.run
    BY <1>1, <1>4, HasId
  <2> QED BY <1>1, <1>2, <1>4, <2>2, <2>3 DEF CurrentId, Mint
<1> QED BY <1>3, <1>4

\* What the steps below have in common.
LEMMA Facts ==
  ASSUME Base, NEW t \in Tasks
  PROVE  /\ TypeInv /\ task[t] \in Records /\ Scoped(t, task[t]) /\ t # None
         /\ Len(task[t].frames) \in Nat
         /\ Len(task[t].frames) = 0 <=> task[t].frames = <<>>
         /\ Len(task[t].frames) > 0 <=> task[t].frames # <<>>
         /\ task[t].at \in {"next", "kids"} => task[t].frames # <<>>
         /\ task[t].at \in {"next", "back", "call"} <=> current = t
         /\ current \in {None, t} /\ ~ Pending => minted = runs
<1>1. task[t] \in Records
  BY DEF Base, TypeInv
<1>2. task[t].frames \in Seq(Frames)
  BY <1>1 DEF Records
<1>3. /\ Len(task[t].frames) \in Nat
      /\ Len(task[t].frames) = 0 <=> task[t].frames = <<>>
  BY <1>2
<1> HIDE DEF Records
<1>4. Len(task[t].frames) > 0 <=> task[t].frames # <<>>
  BY <1>3
<1> QED BY <1>1, <1>3, <1>4, Apart DEF Base, Counted, Active, Scoped

\* A call sends its message under the id of its execution.
LEMMA BaseCalls ==
  ASSUME Base, NEW t \in Tasks, CallHop(t) \/ Enter(t)
  PROVE  Base'
<1> DEFINE x == task[t]
<1>1. TypeInv /\ x \in Records /\ Scoped(t, x) /\ x.at = "call" /\ current = t
  BY Facts DEF CallHop, Enter, Running
<1>2. x.run \in Numbers /\ CurrentId(t) = x.run
  BY <1>1, IdOfCall DEF Records
<1>3. CASE CallHop(t)
  <2> DEFINE y == Sets(x, "hop", None)
  <2>1. Step(t, y)
    BY <1>1, <1>3, CallEffects
  <2>2. /\ y \in Records /\ y.at = "hop" /\ y.ctx = x.ctx /\ y.frames = x.frames /\ y.run = x.run
    <3>1. "hop" \in Ats /\ None \in Args
      BY DEF Ats, Args
    <3> QED BY <1>1, <3>1, SetsType
  <2> HIDE DEF y
  <2>3. Scoped(t, y)
    BY <1>1, <2>2, ScopeStays
  <2>4. minted' \in Nat /\ minted' = runs' /\ runs' \in Numbers
    BY <1>1, <1>3, IdOfCall DEF CallHop, TypeInv
  <2>5. \A h \in hops' : h.id = h.run
    BY <1>2, <1>3 DEF CallHop, Base
  <2>6. current' = None
    BY <1>3 DEF CallHop
  <2> QED BY <1>1, <2>1, <2>2, <2>3, <2>4, <2>5, <2>6, BaseOfStep DEF Active
<1>4. CASE Enter(t)
  <2> DEFINE y == Pushed(x, x.arg, x.run)
  <2>0. x.arg \in Plans
    BY <1>4 DEF Enter
  <2>1. Step(t, y)
    BY <1>1, <1>2, <1>4, CallEffects
  <2>2. y \in Records /\ y.at = "next"
    BY <1>1, <1>2, <2>0, PushedType
  <2>3. Scoped(t, y)
    BY <1>1, <2>0, ScopeEntered
  <2> HIDE DEF y
  <2>4. minted' \in Nat /\ minted' = runs' /\ runs' \in Numbers
    BY <1>1, <1>4, IdOfCall DEF Enter, TypeInv
  <2>5. \A h \in hops' : h.id = h.run
    BY <1>4 DEF Enter, Base
  <2>6. current' = t
    BY <1>1, <1>4 DEF Enter
  <2> QED BY <1>1, <2>1, <2>2, <2>3, <2>4, <2>5, <2>6, BaseOfStep DEF Active
<1> QED BY <1>3, <1>4

\* Steps after which nobody is called without an id, and none is made.
LEMMA BaseOfQuiet ==
  ASSUME Base, NEW t \in Tasks, NEW y \in Records, Step(t, y), Scoped(t, y),
         current \in {None, t}, current' = IF y.at \in Active THEN t ELSE None,
         ~ Pending, y.at = "call" => y.ctx # None, UNCHANGED <<minted, runs, hops>>
  PROVE  Base'
<1>1. minted' \in Nat /\ runs' \in Numbers /\ minted' = runs'
  BY Facts DEF Base, TypeInv
<1>2. \A h \in hops' : h.id = h.run
  BY DEF Base
<1> QED BY <1>1, <1>2, BaseOfStep

\* The innermost pattern of a task goes on, or waits.
LEMMA BaseOfTops ==
  ASSUME Base, NEW t \in Tasks, task[t].frames # <<>>, NEW f \in Frames,
         f.token = Last(task[t]).token, NEW at \in {"next", "kids"}, NEW arg \in Args,
         task[t].at \in {"next", "back", "kids"}
  PROVE  LET y == Tops(task[t], at, arg, f) IN y \in Records /\ Scoped(t, y) /\ y.at = at
<1> DEFINE x == task[t]  y == Tops(x, at, arg, f)
<1>1. TypeInv /\ x \in Records /\ Scoped(t, x) /\ Len(x.frames) > 0
  BY Facts
<1>0. at \in Ats
  BY DEF Ats
<1>2. /\ y \in Records /\ y.at = at /\ y.ctx = x.ctx /\ y.run = x.run
      /\ Len(y.frames) = Len(x.frames)
      /\ \A i \in 1 .. Len(x.frames) : y.frames[i] = IF i = Len(x.frames) THEN f ELSE x.frames[i]
  BY <1>0, <1>1, TopsType
<1> HIDE DEF y
<1>3. \A i \in 1 .. Len(x.frames) : y.frames[i].token = x.frames[i].token
  BY <1>2 DEF Last
<1>4. Scoped(t, y)
  BY <1>1, <1>2, <1>3, ScopeStays
<1> QED BY <1>2, <1>4 DEF y

\* The tasks of a fan-out begin with the id of the one that starts them.
LEMMA BaseSpawned ==
  ASSUME Base, NEW t \in Tasks, task[t].at = "next", NEW items \in Seq(Plans \cup {"hop"}),
         NEW new, Spawned(t, items, new), current' = None, UNCHANGED <<minted, runs, hops>>
  PROVE  Base'
<1> DEFINE x == task[t]  y == Tops(x, "kids", x.arg, [Last(x) EXCEPT !.kids = new])
<1>1. /\ TypeInv /\ x \in Records /\ Scoped(t, x) /\ x.frames # <<>> /\ Last(x) \in Frames
      /\ Len(x.frames) > 0 /\ Len(x.frames) # 0 /\ current = t /\ ~ Pending
  BY Facts, LastFrame DEF Pending
<1>2. new \subseteq Kids /\ task'[t] = y /\ t \notin new
  BY DEF Spawned, FreeKids
<1>3. [Last(x) EXCEPT !.kids = new] \in Frames 
      /\ [Last(x) EXCEPT !.kids = new].token = Last(x).token
  BY <1>1, <1>2 DEF Frames
<1>4. y \in Records /\ Scoped(t, y) /\ y.at = "kids"
  <2> DEFINE f == [Last(x) EXCEPT !.kids = new]
  <2>1. x.arg \in Args
    BY <1>1 DEF Records
  <2> HIDE DEF f
  <2>2. f \in Frames /\ f.token = Last(x).token
    BY <1>3 DEF f
  <2>3. LET z == Tops(x, "kids", x.arg, f) IN z \in Records /\ Scoped(t, z) /\ z.at = "kids"
    BY <1>1, <2>1, <2>2, BaseOfTops
  <2> QED BY <2>3 DEF f
<1> HIDE DEF y
<1>5. x.ctx = x.run /\ x.run \in Numbers
  BY <1>1 DEF Scoped, Tasks, Records
<1>6. ASSUME NEW k \in new
      PROVE  task'[k] \in Records /\ Scoped(k, task'[k]) /\ task'[k].at = "begin"
  <2>1. PICK i \in DOMAIN items : task'[k] = Fresh("begin", items[i], x.ctx, x.run)
    BY DEF Spawned
  <2>2. items[i] \in Plans \cup {"hop"}
    BY <2>1
  <2>3. <<>> \in Seq(Frames) /\ Len(<<>>) = 0
    OBVIOUS
  <2>4. task'[k] \in Records
    BY <1>5, <2>1, <2>2, <2>3 DEF Fresh, Records, Ats, Args
  <2>5. k \in Kids /\ k \notin Roots
    BY <1>2, Apart
  <2>6. Scoped(k, task'[k])
    BY <1>5, <2>1, <2>3, <2>5, Apart DEF Scoped, Fresh
  <2> QED BY <2>1, <2>4, <2>6 DEF Fresh
<1>7. ASSUME NEW k \in Tasks \ (new \cup {t})
      PROVE  task'[k] \in Records /\ Scoped(k, task'[k]) /\ task'[k].at \notin Active
  <2>1. task'[k] = task[k]
    BY DEF Spawned
  <2>2. task[k].at \notin Active
    BY <1>1 DEF Base
  <2> QED BY <2>1, <2>2, Facts
<1>8. \A u \in Tasks : task'[u] \in Records /\ Scoped(u, task'[u]) /\ task'[u].at \notin Active
  <2> TAKE u \in Tasks
  <2>1. CASE u = t
    BY <1>2, <1>4, <2>1 DEF Active
  <2>2. CASE u \in new
    BY <1>6, <2>2 DEF Active
  <2> QED BY <1>7, <2>1, <2>2
<1>9. task' = [u \in Tasks |-> task'[u]]
  BY DEF Spawned
<1>10. task' \in [Tasks -> Records]
  BY <1>8, <1>9
<1>11. task'[t].at # "call"
  BY <1>8 DEF Active
<1> QED BY <1>1, <1>8, <1>10, <1>11, BaseOfSteps

\* A pattern goes on.
LEMMA BaseProceed ==
  ASSUME Base, NEW t \in Tasks, Proceed(t)
  PROVE  Base'
<1> DEFINE x == task[t]  f == Last(x)
<1>1. /\ TypeInv /\ x \in Records /\ Scoped(t, x) /\ x.frames # <<>> /\ f \in Frames
      /\ Len(x.frames) > 0 /\ Len(x.frames) # 0 /\ current = t /\ ~ Pending /\ x.at = "next"
  BY Facts, LastFrame DEF Proceed, Running, Pending
<1>2. UNCHANGED <<minted, runs, hops>>
  BY <1>1, ProceedEffects
<1>3. ASSUME NEW item \in Plans \cup {"hop"}, Step(t, Sets(x, "call", item)), current' = current
      PROVE  Base'
  <2> DEFINE y == Sets(x, "call", item)
  <2>1. /\ y \in Records /\ y.at = "call" /\ y.ctx = x.ctx /\ y.frames = x.frames /\ y.run = x.run
    <3>1. item \in Args /\ "call" \in Ats
      BY DEF Args, Ats
    <3> QED BY <1>1, <3>1, SetsType
  <2> HIDE DEF y
  <2>2. Scoped(t, y)
    BY <1>1, <2>1, ScopeStays
  <2>3. x.ctx # None
    BY <1>1, HasId
  <2>4. Step(t, y)
    BY <1>3 DEF y
  <2> QED BY <1>1, <1>2, <1>3, <2>1, <2>2, <2>3, <2>4, BaseOfQuiet DEF Active
<1>4. ASSUME Returned(t, f), current' = current PROVE Base'
  <2> DEFINE y == Popped(x, "value")
  <2>1. y \in Records /\ y.at = "back" /\ Scoped(t, y)
    BY <1>1, PoppedType, ScopeLeft DEF Outcomes
  <2>2. Step(t, y)
    BY <1>4 DEF Returned
  <2> HIDE DEF y
  <2> QED BY <1>1, <1>2, <1>4, <2>1, <2>2, BaseOfQuiet DEF Active
<1>5. ASSUME Step(t, Tops(x, "next", x.arg, [f EXCEPT !.pos = @ + 1])), current' = current PROVE Base'
  <2> DEFINE g == [f EXCEPT !.pos = @ + 1]  y == Tops(x, "next", x.arg, g)
  <2>1. g \in Frames /\ g.token = f.token
    BY <1>1 DEF Frames
  <2>2. x.arg \in Args
    BY <1>1 DEF Records
  <2>4. Step(t, y)
    BY <1>5
  <2> HIDE DEF g
  <2>3. y \in Records /\ Scoped(t, y) /\ y.at = "next"
    BY <1>1, <2>1, <2>2, BaseOfTops
  <2> HIDE DEF y
  <2> QED BY <1>1, <1>2, <1>5, <2>3, <2>4, BaseOfQuiet DEF Active
<1>6. ASSUME NEW items \in Seq(Plans \cup {"hop"}), NEW new, Spawned(t, items, new), current' = None
      PROVE  Base'
  BY <1>1, <1>2, <1>6, BaseSpawned
<1> QED BY <1>1, <1>3, <1>4, <1>5, <1>6, ProceedEffects

\* An answer arrives.
LEMMA BaseBack ==
  ASSUME Base, NEW t \in Tasks, Back(t)
  PROVE  Base'
<1> DEFINE x == task[t]  f == Last(x)
<1>1. /\ TypeInv /\ x \in Records /\ Scoped(t, x) /\ x.frames # <<>> /\ f \in Frames
      /\ current = t /\ ~ Pending /\ x.at = "back"
  BY Facts, LastFrame DEF Back, Running, Pending, Deep
<1>2. UNCHANGED <<current, minted, runs, hops>>
  BY <1>1, BackEffects
<1>3. ASSUME NEW outcome \in Outcomes, Step(t, Popped(x, outcome)) PROVE Base'
  <2> DEFINE y == Popped(x, outcome)
  <2>1. y \in Records /\ y.at = "back" /\ Scoped(t, y)
    BY <1>1, PoppedType, ScopeLeft
  <2>2. Step(t, y)
    BY <1>3
  <2> HIDE DEF y
  <2> QED BY <1>1, <1>2, <2>1, <2>2, BaseOfQuiet DEF Active
<1>4. ASSUME NEW pos \in {f.pos + 1, f.pos + 2}, Step(t, Tops(x, "next", None, [f EXCEPT !.pos = pos]))
      PROVE  Base'
  <2> DEFINE g == [f EXCEPT !.pos = pos]  y == Tops(x, "next", None, g)
  <2>1. g \in Frames /\ g.token = f.token
    BY <1>1 DEF Frames
  <2>4. Step(t, y)
    BY <1>4
  <2> HIDE DEF g
  <2>3. y \in Records /\ Scoped(t, y) /\ y.at = "next"
    <3>1. None \in Args
      BY DEF Args
    <3> QED BY <1>1, <2>1, <3>1, BaseOfTops
  <2> HIDE DEF y
  <2> QED BY <1>1, <1>2, <2>3, <2>4, BaseOfQuiet DEF Active
<1> QED BY <1>1, <1>3, <1>4, BackEffects DEF Outcomes

\* The steps of one task that leave its scopes alone, and the ends of tasks.
LEMMA BaseEvents ==
  ASSUME Base, NEW t \in Tasks,
         \/ Finish(t) \/ HopCancelled(t) \/ (t \in Kids /\ Begin(t)) \/ CancelRoot(t)
         \/ \E outcome \in {"value", "error"} : HopEnds(t, outcome)
         \/ \E item \in Programs : t \in Roots /\ Start(t, item)
  PROVE  Base'
<1> DEFINE x == task[t]
<1>1. /\ TypeInv /\ x \in Records /\ Scoped(t, x)
      /\ Len(x.frames) \in Nat /\ (Len(x.frames) = 0 <=> x.frames = <<>>)
      /\ x.arg \in Args /\ x.run \in Numbers
  BY Facts DEF Records
<1>2. CASE Finish(t)
  <2>1. /\ x.at = "back" /\ current = t /\ ~ Pending /\ Len(x.frames) = 0
        /\ current' = None /\ UNCHANGED <<minted, runs, hops>>
    BY <1>2 DEF Finish, Running, Pending, Deep
  <2>2. CASE t \in Roots
    <3>1. Rested(x) \in Records /\ Scoped(t, Rested(x)) /\ Rested(x).at = "idle"
      BY <1>1, <2>1, <2>2, ScopeOps DEF Rested, Records
    <3>2. Step(t, Rested(x))
      BY <1>1, <1>2, <2>2, EventEffects
    <3> QED BY <2>1, <3>1, <3>2, BaseOfQuiet DEF Active
  <2>3. CASE t \notin Roots
    <3>1. t \in Kids
      BY <2>3 DEF Tasks
    <3>2. Over(x.arg) \in Records /\ Scoped(t, Over(x.arg)) /\ Over(x.arg).at = "done"
      BY <1>1, <3>1, ScopeOps DEF Over, Fresh
    <3>3. Step(t, Over(x.arg))
      BY <1>1, <1>2, <2>3, EventEffects
    <3> QED BY <2>1, <3>2, <3>3, BaseOfQuiet DEF Active
  <2> QED BY <2>2, <2>3
<1>3. CASE HopCancelled(t)
  <2>1. /\ x.at = "hop" /\ current = None /\ ~ Pending
        /\ current' = t /\ UNCHANGED <<minted, runs, hops>>
    BY <1>3 DEF HopCancelled, Pending
  <2> DEFINE y == Woken(x, "cancelled")
  <2>2. y \in Records /\ Scoped(t, y) /\ y.at = "back"
    BY <1>1, <2>1, ScopeOps DEF Woken, Records
  <2>3. Step(t, y)
    BY <1>1, <1>3, EventEffects
  <2> QED BY <2>1, <2>2, <2>3, BaseOfQuiet DEF Active
<1>4. CASE t \in Kids /\ Begin(t)
  <2>1. /\ x.at = "begin" /\ current = None /\ ~ Pending /\ UNCHANGED <<minted, runs, hops>>
    BY <1>4 DEF Begin, Pending
  <2>2. CASE t \in Doomed
    <3> DEFINE y == Over("cancelled")
    <3>0. "cancelled" \in Args
      BY DEF Args, Outcomes
    <3>1. y \in Records /\ Scoped(t, y) /\ y.at = "done"
      BY <1>1, <1>4, <3>0, ScopeOps DEF Over, Fresh
    <3>2. Step(t, y)
      BY <1>1, <1>4, <2>2, EventEffects
    <3>3. current' = None
      BY <1>4, <2>1, <2>2 DEF Begin
    <3> HIDE DEF y
    <3> QED BY <2>1, <3>1, <3>2, <3>3, BaseOfQuiet DEF Active
  <2>3. CASE t \notin Doomed
    <3> DEFINE y == Sets(x, "call", x.arg)
    <3>0. "call" \in Ats
      BY DEF Ats
    <3>1. y \in Records /\ y.at = "call" /\ y.ctx = x.ctx /\ y.frames = x.frames /\ y.run = x.run
      BY <1>1, <3>0, SetsType
    <3>2. Step(t, y)
      BY <1>1, <1>4, <2>3, EventEffects
    <3>3. current' = t
      BY <1>4, <2>3 DEF Begin
    <3> HIDE DEF y
    <3>4. Scoped(t, y)
      BY <1>1, <2>1, <3>1, ScopeStays
    <3>5. y.ctx # None
      BY <1>1, <1>4, <2>1, <3>1, HasId, Apart
    <3> QED BY <2>1, <3>1, <3>2, <3>3, <3>4, <3>5, BaseOfQuiet DEF Active
  <2> QED BY <2>2, <2>3
<1>5. CASE CancelRoot(t)
  <2>1. /\ x.at \in {"hop", "kids"} /\ current = None /\ ~ Pending
        /\ current' = None /\ UNCHANGED <<minted, runs, hops>>
    BY <1>5 DEF CancelRoot, Pending
  <2>2. Cut(x) \in Records /\ Scoped(t, Cut(x)) /\ Cut(x).at = x.at
    BY <1>1, ScopeOps DEF Cut, Records
  <2>3. Step(t, Cut(x))
    BY <1>1, <1>5, EventEffects
  <2> QED BY <2>1, <2>2, <2>3, BaseOfQuiet DEF Active
<1>6. ASSUME NEW outcome \in {"value", "error"}, HopEnds(t, outcome) PROVE Base'
  <2>1. /\ x.at = "hop" /\ current = None /\ ~ Pending
        /\ current' = t /\ UNCHANGED <<minted, runs, hops>>
    BY <1>6 DEF HopEnds, Pending
  <2> DEFINE y == Sets(x, "back", outcome)
  <2>0. "back" \in Ats /\ outcome \in Args
    BY DEF Ats, Args, Outcomes
  <2>2. y \in Records /\ y.at = "back" /\ y.ctx = x.ctx /\ y.frames = x.frames /\ y.run = x.run
    BY <1>1, <2>0, SetsType
  <2>3. Step(t, y)
    BY <1>1, <1>6, EventEffects
  <2> HIDE DEF y
  <2>4. Scoped(t, y)
    BY <1>1, <2>1, <2>2, ScopeStays
  <2> QED BY <2>1, <2>2, <2>3, <2>4, BaseOfQuiet DEF Active
<1>7. ASSUME NEW item \in Programs, t \in Roots, Start(t, item) PROVE Base'
  <2>1. /\ x.at = "idle" /\ current = None /\ ~ Pending /\ runs < MaxRuns
        /\ current' = t /\ runs' = runs + 1 /\ UNCHANGED <<minted, hops>>
    BY <1>7 DEF Start, Pending
  <2>2. minted = runs /\ minted \in Nat /\ runs \in Numbers
    BY <2>1, Facts DEF Base, TypeInv
  <2>3. runs' \in Numbers /\ minted' + 1 = runs' /\ minted' \in Nat
    BY <2>1, <2>2, Apart DEF Numbers
  <2>4. item \in Plans \cup {"hop"}
    BY WorkflowConstantsOK DEF WorkflowConstantsOK
  <2> DEFINE y == Called(x, item, runs + 1)
  <2>5. y \in Records /\ Scoped(t, y)
    BY <1>1, <2>1, <2>3, <2>4, ScopeOps
  <2>6. y.at = "call" /\ y.ctx = x.ctx /\ y.run = runs'
    BY <1>1, <2>1 DEF Called, Records
  <2>7. Step(t, y)
    BY <1>1, <1>7, EventEffects
  <2>8. x.ctx = None
    BY <1>1, <1>7, <2>1 DEF Scoped
  <2>9. \A h \in hops' : h.id = h.run
    BY <2>1 DEF Base
  <2> HIDE DEF y
  <2> QED BY <2>1, <2>3, <2>5, <2>6, <2>7, <2>8, <2>9, BaseOfStep DEF Active
<1> QED BY <1>2, <1>3, <1>4, <1>5, <1>6, <1>7

\* The steps that end the waiting for a fan-out, or some of it.
LEMMA BaseFanOuts ==
  ASSUME Base, NEW t \in Tasks, GatherEnds(t) \/ RaceCancelled(t) \/ \E k \in Kids : Won(t, k) \/ Lost(t, k)
  PROVE  Base'
<1> DEFINE x == task[t]  f == Last(x)
<1>1. /\ x.at = "kids" /\ current = None /\ ~ Pending /\ UNCHANGED <<minted, runs, hops>>
  BY DEF GatherEnds, RaceCancelled, Won, Lost, Gathers, Races, Waiting, Pending
<1>2. /\ TypeInv /\ x \in Records /\ Scoped(t, x) /\ x.frames # <<>> /\ f \in Frames
      /\ x.arg \in Args /\ Top(t) = f
  BY <1>1, Facts, LastFrame DEF Records, Top, Last
<1>10. f.pos \in Nat /\ f.good \in Nat /\ f.bad \in Nat /\ f.bad + 1 \in Nat /\ f.kids \in SUBSET Kids
  BY <1>2 DEF Frames
<1>3. ASSUME NEW g \in Frames, g.token = f.token, NEW at \in {"next", "kids"},
             Step(t, Tops(x, at, x.arg, g)), current' = IF at = "next" THEN t ELSE None
      PROVE  Base'
  <2> DEFINE y == Tops(x, at, x.arg, g)
  <2>1. y \in Records /\ Scoped(t, y) /\ y.at = at
    BY <1>1, <1>2, <1>3, BaseOfTops
  <2>2. Step(t, y)
    BY <1>3
  <2> HIDE DEF y
  <2> QED BY <1>1, <1>3, <2>1, <2>2, BaseOfQuiet DEF Active
<1>4. ASSUME NEW k \in Kids, Lost(t, k) PROVE Base'
  <2>1. PICK over \in BOOLEAN :
          /\ over <=> Top(t).kids = {k}
          /\ Step(t, Tops(x, IF over THEN "next" ELSE "kids", x.arg,
                        [f EXCEPT !.pos = IF over THEN @ + 1 ELSE @, !.bad = @ + 1, !.kids = @ \ {k}]))
    BY <1>2, <1>4, TopEffects
  <2> DEFINE g == [f EXCEPT !.pos = IF over THEN @ + 1 ELSE @, !.bad = @ + 1, !.kids = @ \ {k}]
             at == IF over THEN "next" ELSE "kids"
  <2>2. g \in Frames /\ g.token = f.token
    <3>1. g = [f EXCEPT !.pos = IF over THEN f.pos + 1 ELSE f.pos, !.good = f.good,
                        !.bad = f.bad + 1, !.kids = f.kids \ {k}]
      BY <1>2 DEF Frames
    <3>2. f.kids \ {k} \in SUBSET Kids /\ (IF over THEN f.pos + 1 ELSE f.pos) \in {f.pos, f.pos + 1}
      BY <1>10
    <3>3. f.good \in Nat /\ f.bad + 1 \in Nat
      BY <1>10
    <3>4. (IF over THEN f.pos + 1 ELSE f.pos) \in Nat \ {0}
      BY <1>2 DEF Frames
    <3> DEFINE pos == IF over THEN f.pos + 1 ELSE f.pos
               bad == f.bad + 1
               kids == f.kids \ {k}
    <3>5. pos \in Nat \ {0} /\ bad \in Nat /\ kids \in SUBSET Kids
      BY <3>2, <3>3, <3>4
    <3> HIDE DEF pos, bad, kids
    <3>6. g = [f EXCEPT !.pos = pos, !.good = f.good, !.bad = bad, !.kids = kids]
      BY <3>1 DEF pos, bad, kids
    <3> HIDE DEF g
    <3> QED BY <1>2, <1>10, <3>5, <3>6 DEF Frames
  <2>3. current' = IF over THEN t ELSE None
    BY <1>4, <2>1 DEF Lost
  <2>4. at \in {"next", "kids"} /\ (at = "next" <=> over)
    OBVIOUS
  <2>5. Step(t, Tops(x, at, x.arg, g))
    BY <2>1
  <2> HIDE DEF g, at
  <2> QED BY <1>3, <2>2, <2>3, <2>4, <2>5
<1>5. CASE GatherEnds(t)
  <2>0. current' = t
    BY <1>5 DEF GatherEnds
  <2>1. PICK n, m :
          /\ n = Cardinality({k \in Top(t).kids : Ended(k, "value")})
          /\ m = Cardinality({k \in Top(t).kids : Ended(k, "error")})
          /\ IF t \in Doomed THEN Step(t, Woken(x, "cancelled"))
             ELSE Step(t, Tops(x, "next", x.arg,
                        [f EXCEPT !.pos = @ + 1, !.good = n, !.bad = m, !.kids = {}]))
    BY <1>2, <1>5, TopEffects
  <2>2. n \in Nat /\ m \in Nat
    <3>1. f.kids \subseteq Kids
      BY <1>2 DEF Frames
    <3>2. {k \in Top(t).kids : Ended(k, "value")} \in SUBSET Kids /\ {k \in Top(t).kids : Ended(k, "error")} \in SUBSET Kids
      BY <1>2, <3>1
    <3> QED BY <2>1, <3>2, FreeKidsFinite
  <2>3. CASE t \in Doomed
    <3> DEFINE y == Woken(x, "cancelled")
    <3>1. y \in Records /\ Scoped(t, y) /\ y.at = "back"
      BY <1>1, <1>2, ScopeOps DEF Woken, Records
    <3>2. Step(t, y)
      BY <2>1, <2>3
    <3> HIDE DEF y
    <3> QED BY <1>1, <2>0, <3>1, <3>2, BaseOfQuiet DEF Active
  <2>4. CASE t \notin Doomed
    <3> DEFINE g == [f EXCEPT !.pos = @ + 1, !.good = n, !.bad = m, !.kids = {}]
    <3>1. g \in Frames /\ g.token = f.token
      <4> DEFINE pos == f.pos + 1
      <4>2. pos \in Nat \ {0}
        BY <1>10
      <4> HIDE DEF pos
      <4>3. g = [f EXCEPT !.pos = pos, !.good = n, !.bad = m, !.kids = {}]
        BY DEF pos
      <4> HIDE DEF g
      <4> QED BY <1>2, <2>2, <4>2, <4>3 DEF Frames
    <3>2. Step(t, Tops(x, "next", x.arg, g))
      BY <2>1, <2>4
    <3> HIDE DEF g
    <3> QED BY <1>3, <2>0, <3>1, <3>2
  <2> QED BY <2>3, <2>4
<1>6. ASSUME task' = [u \in Tasks |-> task'[u]], current' = t,
             task'[t] \in Records, Scoped(t, task'[t]), task'[t].at \in {"next", "back"},
             \A u \in Tasks \ {t} : task'[u] \in {task[u], Cut(task[u]), Alone(task[u])}
      PROVE  Base'
  <2>1. ASSUME NEW u \in Tasks \ {t}
        PROVE  task'[u] \in Records /\ Scoped(u, task'[u]) /\ task'[u].at \notin Active
    <3>1. task[u] \in Records /\ Scoped(u, task[u]) /\ task[u].at \notin Active
      BY <1>1, Facts, Apart DEF Base
    <3>2. Cut(task[u]).at = task[u].at /\ Alone(task[u]).at = task[u].at
      BY <3>1 DEF Cut, Alone, Records
    <3> QED BY <1>6, <3>1, <3>2, ScopeOps
  <2>2. task' \in [Tasks -> Records]
    BY <1>6, <2>1
  <2>3. \A u \in Tasks : Scoped(u, task'[u])
    BY <1>6, <2>1
  <2>4. task'[t].at \in Active /\ task'[t].at # "call"
    BY <1>6 DEF Active
  <2> QED BY <1>1, <1>6, <2>1, <2>2, <2>3, <2>4, BaseOfSteps
<1>7. CASE RaceCancelled(t)
  <2>1. /\ task' = [u \in Tasks |-> task'[u]] /\ task'[t] = Woken(x, "cancelled") /\ current' = t
        /\ \A u \in Tasks \ {t} : task'[u] \in {task[u], Alone(task[u])}
    BY <1>2, <1>7, RaceEffects DEF RaceCancelled
  <2>2. Woken(x, "cancelled") \in Records /\ Scoped(t, Woken(x, "cancelled"))
        /\ Woken(x, "cancelled").at = "back"
    BY <1>1, <1>2, ScopeOps DEF Woken, Records
  <2> QED BY <1>6, <2>1, <2>2
<1>8. ASSUME NEW k \in Kids, Won(t, k) PROVE Base'
  <2> DEFINE g == [f EXCEPT !.pos = @ + 1, !.good = 1, !.kids = {}]
  <2>1. /\ task' = [u \in Tasks |-> task'[u]] /\ task'[t] = Tops(x, "next", x.arg, g) /\ current' = t
        /\ \A u \in Tasks \ {t} : task'[u] \in {task[u], Cut(task[u])}
    BY <1>2, <1>8, RaceEffects DEF Won
  <2>2. g \in Frames /\ g.token = f.token
    <3>1. g = [f EXCEPT !.pos = f.pos + 1, !.good = 1, !.bad = f.bad, !.kids = {}]
      BY <1>2 DEF Frames
    <3> DEFINE pos == f.pos + 1
    <3>2. pos \in Nat \ {0}
      BY <1>10
    <3> HIDE DEF pos
    <3>3. g = [f EXCEPT !.pos = pos, !.good = 1, !.bad = f.bad, !.kids = {}]
      BY <3>1 DEF pos
    <3> HIDE DEF g
    <3> QED BY <1>2, <1>10, <3>2, <3>3 DEF Frames
  <2> HIDE DEF g
  <2>3. task'[t] \in Records /\ Scoped(t, task'[t]) /\ task'[t].at = "next"
    BY <1>1, <1>2, <2>1, <2>2, BaseOfTops
  <2> QED BY <1>6, <2>1, <2>3
<1> QED BY <1>4, <1>5, <1>7, <1>8

\* The program has not begun anything.
LEMMA BaseInit == Init => Base
<1> SUFFICES ASSUME Init PROVE Base
  OBVIOUS
<1>0. <<>> \in Seq(Frames) /\ Len(<<>>) = 0 /\ 0 \in Numbers
  BY Apart
<1>1. ASSUME NEW t \in Tasks
      PROVE  task[t] \in Records /\ Scoped(t, task[t]) /\ task[t].at \notin Active
  <2>1. task[t] = Fresh(IF t \in Roots THEN "idle" ELSE "done", None, None, 0)
    BY <1>1 DEF Init
  <2>2. task[t] \in Records
    BY <1>0, <2>1 DEF Fresh, Records, Ats, Args
  <2> QED BY <1>0, <2>1, <2>2, Apart DEF Scoped, Fresh, Active
<1>2. task \in [Tasks -> Records]
  BY <1>1 DEF Init
<1>3. Counted
  BY DEF Init, Counted, Pending
<1> QED BY <1>0, <1>1, <1>2, <1>3, Apart DEF Init, Base, TypeInv

\* No step gives an execution another id.
LEMMA BaseStep == Base /\ [Next]_vars => Base'
<1> SUFFICES ASSUME Base, [Next]_vars PROVE Base'
  OBVIOUS
<1>1. CASE UNCHANGED vars
  BY <1>1 DEF vars, Base, TypeInv, Counted, Pending
<1>2. \A k \in Kids : k \in Tasks
  BY DEF Tasks
<1>3. \A r \in Roots : r \in Tasks
  BY DEF Tasks
<1> QED
  BY <1>1, <1>2, <1>3, BaseCalls, BaseProceed, BaseBack, BaseEvents, BaseFanOuts
  DEF Next, Progress, TaskStep, HandlerEnds

\* All messages of one execution carry one correlation id and no two executions share
\* one: the id that is made for an execution is its number, whatever tasks, patterns
\* and cancellations the execution is made of.
THEOREM OneIdCorrect == Spec => []OneIdPerRun
<1>1. Base => OneIdPerRun
  BY DEF Base, OneIdPerRun
<1> QED
  BY BaseInit, BaseStep, <1>1, PTL DEF Spec

-----------------------------------------------------------------------------
(* Who is cancelled.  Doomed is computed level by level, so facts about it *)
(* need an induction; LeastNatural is what it rests on.                    *)

Own == {t \in Tasks : task[t].cancel}

Grown(S) == S \cup UNION {Top(t).kids : t \in {u \in S : Gathers(u)}}

Levels(g, n) == g = [m \in 0 .. n |-> IF m = 0 THEN Own ELSE Grown(g[m - 1])]

\* There are levels: at the least number for which there are none, there are some.
LEMMA LevelsExist == \E g : Levels(g, MaxKids)
<1> DEFINE T == {n \in Nat : ~ \E g : Levels(g, n)}
<1>1. MaxKids \in Nat
  BY WorkflowConstantsOK DEF WorkflowConstantsOK
<1>2. SUFFICES ASSUME T # {} PROVE FALSE
  BY <1>1
<1>3. T \in SUBSET Nat
  OBVIOUS
<1> HIDE DEF T
<1>4. PICK n \in T : \A m \in T : n <= m
  BY <1>2, <1>3, LeastNatural
<1>5. n \in Nat /\ ~ \E g : Levels(g, n)
  BY <1>4 DEF T
<1>6. CASE n = 0
  <2> DEFINE g == [m \in 0 .. 0 |-> Own]
  <2>1. \A m \in 0 .. 0 : m = 0
    OBVIOUS
  <2>2. g = [m \in 0 .. 0 |-> IF m = 0 THEN Own ELSE Grown(g[m - 1])]
    BY <2>1
  <2> HIDE DEF g
  <2>3. Levels(g, 0)
    BY <2>2 DEF Levels
  <2> QED BY <1>5, <1>6, <2>3
<1>7. CASE n # 0
  <2>1. n - 1 \in Nat /\ ~ (n <= n - 1)
    BY <1>5, <1>7
  <2>2. n - 1 \notin T
    BY <1>4, <2>1
  <2>3. PICK h : Levels(h, n - 1)
    BY <2>1, <2>2 DEF T
  <2> DEFINE g == [m \in 0 .. n |-> IF m = n THEN Grown(h[n - 1]) ELSE h[m]]
  <2>4. \A m \in 0 .. n - 1 : m \in 0 .. n /\ m # n /\ g[m] = h[m]
    BY <1>5, <2>1
  <2>5. ASSUME NEW m \in 0 .. n
        PROVE  g[m] = IF m = 0 THEN Own ELSE Grown(g[m - 1])
    <3>1. CASE m = n
      <4>1. n - 1 \in 0 .. n - 1
        BY <2>1
      <4>2. g[n - 1] = h[n - 1]
        BY <2>4, <4>1
      <4>3. g[n] = Grown(h[n - 1])
        BY <1>5
      <4> QED BY <1>7, <3>1, <4>2, <4>3
    <3>2. CASE m # n
      <4>1. m \in 0 .. n - 1
        BY <1>5, <2>5, <3>2
      <4>2. g[m] = h[m]
        BY <2>4, <4>1
      <4>3. h[m] = IF m = 0 THEN Own ELSE Grown(h[m - 1])
        BY <2>3, <4>1 DEF Levels
      <4>4. m # 0 => m - 1 \in 0 .. n - 1
        BY <2>1, <4>1
      <4>5. m # 0 => g[m - 1] = h[m - 1]
        BY <2>4, <4>4
      <4> QED BY <4>2, <4>3, <4>5
    <3> QED BY <3>1, <3>2
  <2>6. g = [m \in 0 .. n |-> g[m]]
    OBVIOUS
  <2> HIDE DEF g
  <2>7. g = [m \in 0 .. n |-> IF m = 0 THEN Own ELSE Grown(g[m - 1])]
    BY <2>5, <2>6
  <2>8. Levels(g, n)
    BY <2>7 DEF Levels
  <2> QED BY <1>5, <2>8
<1> QED BY <1>6, <1>7

\* So the levels of the model are what their definition says.
LEMMA DoomedLevels == Levels(DoomedWithin, MaxKids)
<1>1. \A f : Levels(f, MaxKids) <=>
        f = [n \in 0 .. MaxKids |->
               IF n = 0 THEN {t \in Tasks : task[t].cancel}
               ELSE LET before == f[n - 1]
                    IN  before \cup UNION {Top(t).kids : t \in {u \in before : Gathers(u)}}]
  BY DEF Levels, Own, Grown
<1>2. DoomedWithin = CHOOSE f : Levels(f, MaxKids)
  BY DEF DoomedWithin, Levels, Own, Grown
<1> QED BY <1>2, LevelsExist

\* The first level, and each from the one before.
LEMMA LevelFacts ==
  /\ DoomedWithin[0] = Own
  /\ \A n \in 1 .. MaxKids : DoomedWithin[n] = Grown(DoomedWithin[n - 1])
  /\ MaxKids \in Nat /\ Doomed = DoomedWithin[MaxKids]
<1>1. MaxKids \in Nat
  BY WorkflowConstantsOK DEF WorkflowConstantsOK
<1> DEFINE D == DoomedWithin
<1>2. D = [m \in 0 .. MaxKids |-> IF m = 0 THEN Own ELSE Grown(D[m - 1])]
  BY DoomedLevels DEF Levels
<1> HIDE DEF D
<1>3. D[0] = Own
  BY <1>1, <1>2
<1>4. ASSUME NEW n \in 1 .. MaxKids PROVE D[n] = Grown(D[n - 1])
  <2>1. n \in 0 .. MaxKids /\ n # 0
    BY <1>1
  <2> QED BY <1>2, <2>1
<1> QED BY <1>1, <1>3, <1>4 DEF D, Doomed

\* Every level is within Doomed.
LEMMA LevelsRise ==
  ASSUME NEW n \in 0 .. MaxKids
  PROVE  DoomedWithin[n] \subseteq Doomed
<1> DEFINE T == {j \in Nat : j <= MaxKids /\ ~ (DoomedWithin[MaxKids - j] \subseteq Doomed)}
<1>1. CASE T = {}
  <2>1. MaxKids - n \in Nat /\ MaxKids - n <= MaxKids /\ MaxKids - (MaxKids - n) = n
    BY LevelFacts
  <2> QED BY <1>1, <2>1
<1>2. CASE T # {}
  <2>1. T \in SUBSET Nat
    OBVIOUS
  <2> HIDE DEF T
  <2>2. PICK j \in T : \A m \in T : j <= m
    BY <1>2, <2>1, LeastNatural
  <2>3. j \in Nat /\ j <= MaxKids /\ ~ (DoomedWithin[MaxKids - j] \subseteq Doomed)
    BY <2>2 DEF T
  <2>4. j # 0
    <3>1. MaxKids - 0 = MaxKids
      BY LevelFacts
    <3> QED BY <2>3, <3>1, LevelFacts
  <2>5. j - 1 \in Nat /\ j - 1 <= MaxKids /\ ~ (j <= j - 1)
    BY <2>3, <2>4, LevelFacts
  <2>6. DoomedWithin[MaxKids - (j - 1)] \subseteq Doomed
    BY <2>2, <2>5 DEF T
  <2>7. MaxKids - (j - 1) \in 1 .. MaxKids /\ (MaxKids - (j - 1)) - 1 = MaxKids - j
    BY <2>3, <2>5, LevelFacts
  <2>8. DoomedWithin[MaxKids - (j - 1)] = Grown(DoomedWithin[MaxKids - j])
    BY <2>7, LevelFacts
  <2> QED BY <2>3, <2>6, <2>8 DEF Grown
<1> QED BY <1>1, <1>2

\* A task is cancelled because cancel() was called on it, or with the one that gathers it.
LEMMA WhyDoomed ==
  /\ Own \subseteq Doomed
  /\ \A k \in Doomed : k \in Own \/ \E t \in Doomed : Gathers(t) /\ k \in Top(t).kids
<1>1. Own \subseteq Doomed
  <2>1. 0 \in 0 .. MaxKids
    BY LevelFacts
  <2> QED BY <2>1, LevelFacts, LevelsRise
<1>2. ASSUME NEW k \in Doomed, k \notin Own
      PROVE  \E t \in Doomed : Gathers(t) /\ k \in Top(t).kids
  <2> DEFINE T == {n \in 0 .. MaxKids : k \in DoomedWithin[n]}
  <2>1. MaxKids \in T
    BY LevelFacts
  <2>2. T \in SUBSET Nat
    BY LevelFacts
  <2> HIDE DEF T
  <2>3. PICK n \in T : \A m \in T : n <= m
    BY <2>1, <2>2, LeastNatural
  <2>4. n \in 0 .. MaxKids /\ k \in DoomedWithin[n]
    BY <2>3 DEF T
  <2>5. n # 0
    BY <1>2, <2>4, LevelFacts
  <2>6. n \in 1 .. MaxKids /\ n - 1 \in 0 .. MaxKids /\ ~ (n <= n - 1)
    BY <2>4, <2>5, LevelFacts
  <2>7. k \notin DoomedWithin[n - 1]
    BY <2>3, <2>6 DEF T
  <2>8. k \in Grown(DoomedWithin[n - 1])
    BY <2>4, <2>6, LevelFacts
  <2>9. PICK t \in DoomedWithin[n - 1] : Gathers(t) /\ k \in Top(t).kids
    BY <2>7, <2>8 DEF Grown
  <2> QED BY <2>6, <2>9, LevelsRise
<1> QED BY <1>1, <1>2

-----------------------------------------------------------------------------
(* Nobody works for nobody.                                                *)

Underway(x) == x.at \notin {"idle", "done"} /\ ~ (x.at = "back" /\ x.arg = "cancelled")

WaitsFor(t, k) == task[t].at = "kids" /\ k \in Last(task[t]).kids

\* Whoever is at work has somebody who waits for it, one and not itself, or was told to
\* stop; and nobody is told to stop for whom somebody waits.
Care ==
  /\ \A k \in Kids : Underway(task[k]) =>
       (\E t \in Tasks : WaitsFor(t, k)) \/ task[k].cancel \/ task[k].deserted
  /\ \A t, u \in Tasks, k \in Kids : WaitsFor(t, k) /\ WaitsFor(u, k) => t = u
  /\ \A t \in Tasks : ~ WaitsFor(t, t)
  /\ \A t \in Tasks, k \in Kids : WaitsFor(t, k) => ~ task[k].cancel

\* Who is awaited.
LEMMA AwaitedIs ==
  \A k : k \in Awaited <=> \E t \in Tasks : WaitsFor(t, k)
BY DEF Awaited, Waiting, WaitsFor, Top, Last

\* One task is given a new record.
LEMMA CareOfStep ==
  ASSUME Base, Care, NEW t \in Tasks, NEW y, Step(t, y),
         Underway(y) => \/ t \in Roots
                        \/ /\ Underway(task[t])
                           /\ task[t].cancel => y.cancel
                           /\ task[t].deserted => y.deserted,
         t \in Kids /\ y.cancel => task[t].cancel,
         y.at = "kids" => task[t].at = "kids" /\ Last(y).kids \subseteq Last(task[t]).kids,
         task[t].at = "kids" => \A k \in Last(task[t]).kids :
           (y.at = "kids" /\ k \in Last(y).kids) \/ (k \in Tasks /\ task[k].at = "done")
  PROVE  Care'
<1>1. task'[t] = y /\ \A u \in Tasks \ {t} : task'[u] = task[u]
  BY DEF Base, TypeInv, Step
<1>2. \A u \in Tasks, k \in Kids : WaitsFor(u, k)' => WaitsFor(u, k)
  BY <1>1 DEF WaitsFor
<1>3. \A k \in Kids : k \in Tasks
  BY DEF Tasks
<1>4. ASSUME NEW k \in Kids, Underway(task'[k])
      PROVE  (\E u \in Tasks : WaitsFor(u, k)') \/ task'[k].cancel \/ task'[k].deserted
  <2>1. k \notin Roots
    BY Apart
  <2>2. Underway(task[k])
    BY <1>1, <1>3, <1>4, <2>1
  <2>3. CASE task[k].cancel \/ task[k].deserted
    BY <1>1, <1>3, <1>4, <2>1, <2>3
  <2>4. ASSUME NEW u \in Tasks, WaitsFor(u, k) PROVE WaitsFor(u, k)'
    <3>1. CASE u = t
      <4>1. task[k].at # "done"
        BY <2>2 DEF Underway
      <4> QED BY <1>1, <2>4, <3>1, <4>1 DEF WaitsFor
    <3>2. CASE u # t
      BY <1>1, <2>4, <3>2 DEF WaitsFor
    <3> QED BY <3>1, <3>2
  <2> QED BY <2>2, <2>3, <2>4 DEF Care
<1>5. \A u, v \in Tasks, k \in Kids : WaitsFor(u, k)' /\ WaitsFor(v, k)' => u = v
  BY <1>2 DEF Care
<1>6. \A u \in Tasks : ~ WaitsFor(u, u)'
  BY <1>1 DEF Care, WaitsFor
<1>7. \A u \in Tasks, k \in Kids : WaitsFor(u, k)' => ~ task'[k].cancel
  BY <1>1, <1>2, <1>3 DEF Care
<1> QED BY <1>4, <1>5, <1>6, <1>7 DEF Care

\* A call leaves everybody with whom it had.
LEMMA CareCalls ==
  ASSUME Base, Care, NEW t \in Tasks, CallHop(t) \/ Enter(t)
  PROVE  Care'
<1> DEFINE x == task[t]
<1>1. TypeInv /\ x \in Records /\ x.at = "call" /\ current = t
  BY Facts DEF CallHop, Enter, Running
<1>2. Underway(x)
  BY <1>1 DEF Underway
<1>3. CASE CallHop(t)
  <2> DEFINE y == Sets(x, "hop", None)
  <2>1. Step(t, y)
    BY <1>1, <1>3, CallEffects
  <2>2. y.at = "hop" /\ y.cancel = x.cancel /\ y.deserted = x.deserted
    BY <1>1 DEF Sets, Records
  <2> HIDE DEF y
  <2> QED BY <1>1, <1>2, <2>1, <2>2, CareOfStep
<1>4. CASE Enter(t)
  <2> DEFINE y == Pushed(x, x.arg, CurrentId(t))
  <2>1. Step(t, y)
    BY <1>1, <1>4, CallEffects
  <2>2. y.at = "next" /\ y.cancel = x.cancel /\ y.deserted = x.deserted
    BY <1>1 DEF Pushed, Records
  <2> HIDE DEF y
  <2> QED BY <1>1, <1>2, <2>1, <2>2, CareOfStep
<1> QED BY <1>3, <1>4

\* A fan-out starts tasks for which nobody waits, and waits for them.
LEMMA CareSpawned ==
  ASSUME Base, Care, NEW t \in Tasks, task[t].at = "next", NEW items, NEW new,
         Spawned(t, items, new)
  PROVE  Care'
<1> DEFINE x == task[t]
<1>1. /\ TypeInv /\ x \in Records /\ x.frames # <<>> /\ Last(x) \in Frames
  BY Facts, LastFrame
<1>2. /\ new \subseteq Kids /\ t \notin new /\ x.arg \in Args
      /\ \A k \in new, u \in Tasks : task[k].at = "done" /\ ~ WaitsFor(u, k)
  BY <1>1, AwaitedIs DEF Spawned, FreeKids, Records
<1>3. [Last(x) EXCEPT !.kids = new] \in Frames
  BY <1>1, <1>2 DEF Frames
<1>4. task'[t].at = "kids" /\ Last(task'[t]).kids = new /\ task'[t].cancel = x.cancel
      /\ task'[t].deserted = x.deserted
  <2> DEFINE f == [Last(x) EXCEPT !.kids = new]
  <2>1. f \in Frames /\ f.kids = new
    BY <1>1, <1>3 DEF Frames
  <2> HIDE DEF f
  <2>2. "kids" \in Ats
    BY DEF Ats
  <2>3. LET y == Tops(x, "kids", x.arg, f) IN
          y.at = "kids" /\ Last(y) = f /\ y.cancel = x.cancel /\ y.deserted = x.deserted
    BY <1>1, <1>2, <2>1, <2>2, TopsType
  <2>4. task'[t] = Tops(x, "kids", x.arg, f)
    BY DEF Spawned, f
  <2> QED BY <2>1, <2>3, <2>4
<1>5. \A k \in new : ~ task'[k].cancel /\ task'[k].at = "begin"
  <2> TAKE k \in new
  <2>1. PICK i \in DOMAIN items : task'[k] = Fresh("begin", items[i], x.ctx, x.run)
    BY DEF Spawned
  <2> QED BY <2>1 DEF Fresh
<1>6. \A u \in Tasks \ (new \cup {t}) : task'[u] = task[u]
  BY DEF Spawned
<1>7. \A u \in Tasks, k \in Kids :
        WaitsFor(u, k)' <=> (u = t /\ k \in new) \/ (WaitsFor(u, k) /\ u \notin new)
  BY <1>2, <1>4, <1>5, <1>6 DEF WaitsFor
<1>8. \A u \in new, k \in Kids : ~ WaitsFor(u, k)
  BY <1>2 DEF WaitsFor
<1>9. \A u \in Tasks, k \in Kids : WaitsFor(u, k)' <=> (u = t /\ k \in new) \/ WaitsFor(u, k)
  BY <1>7, <1>8
<1>10. \A k \in Kids : k \in Tasks
  BY DEF Tasks
<1>11. ASSUME NEW k \in Kids, Underway(task'[k])
       PROVE  (\E u \in Tasks : WaitsFor(u, k)') \/ task'[k].cancel \/ task'[k].deserted
  <2>1. CASE k \in new
    BY <1>9, <2>1
  <2>2. CASE k \notin new
    <3>1. Underway(task[k]) /\ task'[k].cancel = task[k].cancel
          /\ task'[k].deserted = task[k].deserted
      <4>1. CASE k = t
        BY <1>4, <4>1 DEF Underway
      <4>2. CASE k # t
        BY <1>6, <1>10, <1>11, <2>2, <4>2
      <4> QED BY <4>1, <4>2
    <3> QED BY <1>9, <3>1 DEF Care
  <2> QED BY <2>1, <2>2
<1>12. \A u, v \in Tasks, k \in Kids : WaitsFor(u, k)' /\ WaitsFor(v, k)' => u = v
  BY <1>2, <1>9 DEF Care
<1>13. \A u \in Tasks : ~ WaitsFor(u, u)'
  <2> SUFFICES ASSUME NEW u \in Tasks, WaitsFor(u, u)' PROVE FALSE
    OBVIOUS
  <2>1. CASE u = t
    BY <1>2, <1>4, <2>1 DEF WaitsFor
  <2>2. CASE u \in new
    BY <1>5, <2>2 DEF WaitsFor
  <2>3. CASE u \notin new \cup {t}
    BY <1>6, <2>3 DEF WaitsFor, Care
  <2> QED BY <2>1, <2>2, <2>3
<1>14. \A u \in Tasks, k \in Kids : WaitsFor(u, k)' => ~ task'[k].cancel
  <2> SUFFICES ASSUME NEW u \in Tasks, NEW k \in Kids, WaitsFor(u, k)' PROVE ~ task'[k].cancel
    OBVIOUS
  <2>1. CASE k \in new
    BY <1>5, <2>1
  <2>2. CASE k \notin new
    <3>1. WaitsFor(u, k)
      BY <1>9, <2>2
    <3>2. ~ task[k].cancel
      BY <3>1 DEF Care
    <3> QED BY <1>4, <1>6, <1>10, <2>2, <3>2
  <2> QED BY <2>1, <2>2
<1> QED BY <1>11, <1>12, <1>13, <1>14 DEF Care

\* A pattern goes on, returns or fans out.
LEMMA CareProceeds ==
  ASSUME Base, Care, NEW t \in Tasks, Proceed(t) \/ Back(t)
  PROVE  Care'
<1> DEFINE x == task[t]  f == Last(x)
<1>1. /\ TypeInv /\ x \in Records /\ x.frames # <<>> /\ x.at \in {"next", "back"}
      /\ current = t /\ x.arg \in Args /\ f \in Frames
  BY Facts, LastFrame DEF Proceed, Back, Running, Deep, Records
<1>2. ASSUME NEW y, Step(t, y), y.at # "kids", Underway(y) => Underway(x),
             y.cancel = x.cancel, y.deserted = x.deserted
      PROVE  Care'
  BY <1>1, <1>2, CareOfStep
<1>3. ASSUME NEW item, Step(t, Sets(x, "call", item)), x.at = "next" PROVE Care'
  <2> DEFINE y == Sets(x, "call", item)
  <2>1. y.at = "call" /\ y.cancel = x.cancel /\ y.deserted = x.deserted
    BY <1>1 DEF Sets, Records
  <2>2. Step(t, y)
    BY <1>3
  <2> HIDE DEF y
  <2> QED BY <1>2, <1>3, <2>1, <2>2 DEF Underway
<1>4. ASSUME NEW outcome \in Outcomes, Step(t, Popped(x, outcome)),
             outcome = "cancelled" \/ Underway(x)
      PROVE  Care'
  <2> DEFINE y == Popped(x, outcome)
  <2>1. y.at = "back" /\ y.arg = outcome /\ y.cancel = x.cancel /\ y.deserted = x.deserted
    BY <1>1, PoppedType
  <2>2. Step(t, y)
    BY <1>4
  <2> HIDE DEF y
  <2>3. Underway(y) => Underway(x)
    BY <1>4, <2>1 DEF Underway
  <2> QED BY <1>2, <2>1, <2>2, <2>3
<1>5. ASSUME NEW g, NEW arg, Step(t, Tops(x, "next", arg, g)), Underway(x)
      PROVE  Care'
  <2> DEFINE y == Tops(x, "next", arg, g)
  <2>1. y.at = "next" /\ y.cancel = x.cancel /\ y.deserted = x.deserted
    BY <1>1 DEF Tops, Records
  <2>2. Step(t, y)
    BY <1>5
  <2> HIDE DEF y
  <2> QED BY <1>2, <1>5, <2>1, <2>2
<1>6. x.at = "next" => Underway(x)
  BY DEF Underway
<1>7. x.arg \in {"value", "error"} => Underway(x)
  BY <1>1 DEF Underway
<1>8. CASE Proceed(t)
  <2>1. x.at = "next"
    BY <1>8 DEF Proceed, Running
  <2>2. ASSUME Returned(t, f) PROVE Care'
    BY <1>4, <1>6, <2>1, <2>2 DEF Returned, Outcomes
  <2>3. ASSUME NEW items, NEW new, Spawned(t, items, new) PROVE Care'
    BY <2>1, <2>3, CareSpawned
  <2> QED BY <1>1, <1>3, <1>5, <1>6, <1>8, <2>1, <2>2, <2>3, ProceedEffects
<1>9. CASE Back(t)
  <2>1. ASSUME NEW pos, Step(t, Tops(x, "next", None, [f EXCEPT !.pos = pos])), Underway(x)
        PROVE  Care'
    BY <1>5, <2>1
  <2> QED BY <1>1, <1>4, <1>7, <1>9, <2>1, BackEffects DEF Outcomes
<1> QED BY <1>8, <1>9

\* Tasks begin, end, and hear of their handlers and of cancellations.
LEMMA CareEvents ==
  ASSUME Base, Care, NEW t \in Tasks,
         \/ Finish(t) \/ HopCancelled(t) \/ (t \in Kids /\ Begin(t)) \/ (t \in Roots /\ CancelRoot(t))
         \/ \E outcome \in {"value", "error"} : HopEnds(t, outcome)
         \/ \E item \in Programs : t \in Roots /\ Start(t, item)
  PROVE  Care'
<1> DEFINE x == task[t]
<1>1. TypeInv /\ x \in Records
  BY Facts
<1>2. CASE Finish(t)
  <2>1. x.at = "back"
    BY <1>2 DEF Finish, Running
  <2> DEFINE y == IF t \in Roots THEN Rested(x) ELSE Over(x.arg)
  <2>2. y.at \in {"idle", "done"} /\ ~ y.cancel
    BY <1>1 DEF Rested, Over, Fresh, Records
  <2>3. Step(t, y)
    BY <1>1, <1>2, EventEffects
  <2> HIDE DEF y
  <2>4. ~ Underway(y)
    BY <2>2 DEF Underway
  <2> QED BY <2>1, <2>2, <2>3, <2>4, CareOfStep
<1>3. CASE HopCancelled(t)
  <2>1. x.at = "hop"
    BY <1>3 DEF HopCancelled
  <2> DEFINE y == Woken(x, "cancelled")
  <2>2. y.at = "back" /\ y.arg = "cancelled" /\ ~ y.cancel
    BY <1>1 DEF Woken, Records
  <2>3. Step(t, y)
    BY <1>1, <1>3, EventEffects
  <2> HIDE DEF y
  <2>4. ~ Underway(y)
    BY <2>2 DEF Underway
  <2> QED BY <2>1, <2>2, <2>3, <2>4, CareOfStep
<1>4. CASE t \in Kids /\ Begin(t)
  <2>1. x.at = "begin" /\ Underway(x)
    BY <1>4 DEF Begin, Underway
  <2> DEFINE y == IF t \in Doomed THEN Over("cancelled") ELSE Sets(x, "call", x.arg)
  <2>2. /\ y.at \in {"done", "call"} /\ (y.cancel => x.cancel)
        /\ y.at # "done" => y.cancel = x.cancel /\ y.deserted = x.deserted
    BY <1>1 DEF Sets, Over, Fresh, Records
  <2>3. Step(t, y)
    BY <1>1, <1>4, EventEffects
  <2> HIDE DEF y
  <2>4. y.at # "done" \/ ~ Underway(y)
    BY <2>2 DEF Underway
  <2> QED BY <2>1, <2>2, <2>3, <2>4, CareOfStep
<1>5. CASE t \in Roots /\ CancelRoot(t)
  <2>1. Cut(x).at = x.at /\ Last(Cut(x)) = Last(x)
    BY <1>1 DEF Cut, Records, Last
  <2>2. Step(t, Cut(x)) /\ t \notin Kids
    BY <1>1, <1>5, EventEffects, Apart
  <2> QED BY <1>5, <2>1, <2>2, CareOfStep
<1>6. ASSUME NEW outcome \in {"value", "error"}, HopEnds(t, outcome) PROVE Care'
  <2>1. x.at = "hop" /\ Underway(x)
    BY <1>6 DEF HopEnds, Underway
  <2> DEFINE y == Sets(x, "back", outcome)
  <2>2. y.at = "back" /\ y.cancel = x.cancel /\ y.deserted = x.deserted
    BY <1>1 DEF Sets, Records
  <2>3. Step(t, y)
    BY <1>1, <1>6, EventEffects
  <2> HIDE DEF y
  <2> QED BY <2>1, <2>2, <2>3, CareOfStep
<1>7. ASSUME NEW item \in Programs, t \in Roots, Start(t, item) PROVE Care'
  <2>1. x.at = "idle"
    BY <1>7 DEF Start
  <2> DEFINE y == Called(x, item, runs + 1)
  <2>2. y.at = "call"
    BY <1>1 DEF Called, Records
  <2>3. Step(t, y) /\ t \notin Kids
    BY <1>1, <1>7, EventEffects, Apart
  <2> HIDE DEF y
  <2> QED BY <1>7, <2>1, <2>2, <2>3, CareOfStep
<1> QED BY <1>2, <1>3, <1>4, <1>5, <1>6, <1>7

\* The steps that end the waiting for a fan-out, or some of it.
LEMMA CareFanOuts ==
  ASSUME Base, Care, NEW t \in Tasks, GatherEnds(t) \/ RaceCancelled(t) \/ \E k \in Kids : Won(t, k) \/ Lost(t, k)
  PROVE  Care'
<1> DEFINE x == task[t]  f == Last(x)
<1>1. /\ TypeInv /\ x.at = "kids" /\ x \in Records /\ x.frames # <<>> /\ f \in Frames /\ Underway(x)
      /\ f.kids \subseteq Kids /\ Top(t) = f /\ x.arg \in Args
  <2>1. x.at = "kids"
    BY DEF GatherEnds, RaceCancelled, Won, Lost, Gathers, Races, Waiting
  <2>2. x.frames # <<>> /\ x \in Records /\ TypeInv
    BY <2>1, Facts
  <2> QED BY <2>1, <2>2, LastFrame DEF Records, Frames, Underway, Top, Last
<1>2. \A k \in Kids : k \in Tasks
  BY DEF Tasks
<1>3. \A k \in f.kids : WaitsFor(t, k) /\ k # t
  BY <1>1 DEF WaitsFor, Care
<1>4. ASSUME NEW g \in Frames, NEW at \in {"next", "kids"}, Step(t, Tops(x, at, x.arg, g)),
             at = "kids" => g.kids \subseteq f.kids,
             \A k \in f.kids : (at = "kids" /\ k \in g.kids) \/ task[k].at = "done"
      PROVE  Care'
  <2> DEFINE y == Tops(x, at, x.arg, g)
  <2>1. y.at = at /\ Last(y) = g /\ y.cancel = x.cancel /\ y.deserted = x.deserted
    <3>1. at \in Ats
      BY DEF Ats
    <3> QED BY <1>1, <3>1, TopsType
  <2>2. Step(t, y)
    BY <1>4
  <2>3. \A k \in f.kids : (y.at = "kids" /\ k \in Last(y).kids) \/ (k \in Tasks /\ task[k].at = "done")
    BY <1>1, <1>2, <1>4, <2>1
  <2> HIDE DEF y
  <2> QED BY <1>1, <1>4, <2>1, <2>2, <2>3, CareOfStep
<1>5. CASE GatherEnds(t)
  <2>1. PICK n, m : IF t \in Doomed THEN Step(t, Woken(x, "cancelled"))
                    ELSE Step(t, Tops(x, "next", x.arg,
                           [f EXCEPT !.pos = @ + 1, !.good = n, !.bad = m, !.kids = {}]))
    BY <1>1, <1>5, TopEffects
  <2>2. \A k \in f.kids : k \in Tasks /\ task[k].at = "done"
    BY <1>1, <1>2, <1>5 DEF GatherEnds
  <2>3. ASSUME NEW y, Step(t, y), y.at = "next" \/ (y.at = "back" /\ y.arg = "cancelled"),
               y.at = "next" => y.cancel = x.cancel /\ y.deserted = x.deserted,
               y.cancel => x.cancel
        PROVE  Care'
    <3>1. Underway(y) => y.at = "next"
      BY <2>3 DEF Underway
    <3> QED BY <1>1, <2>2, <2>3, <3>1, CareOfStep
  <2>4. CASE t \in Doomed
    <3> DEFINE y == Woken(x, "cancelled")
    <3>1. y.at = "back" /\ y.arg = "cancelled" /\ ~ y.cancel
      BY <1>1 DEF Woken, Records
    <3>2. Step(t, y)
      BY <2>1, <2>4
    <3> HIDE DEF y
    <3> QED BY <2>3, <3>1, <3>2
  <2>5. CASE t \notin Doomed
    <3> DEFINE g == [f EXCEPT !.pos = @ + 1, !.good = n, !.bad = m, !.kids = {}]
               y == Tops(x, "next", x.arg, g)
    <3>1. Step(t, y)
      BY <2>1, <2>5
    <3> HIDE DEF g
    <3>2. y.at = "next" /\ y.cancel = x.cancel /\ y.deserted = x.deserted
      BY <1>1 DEF Tops, Records
    <3> HIDE DEF y
    <3> QED BY <2>3, <3>1, <3>2
  <2> QED BY <2>4, <2>5
<1>6. ASSUME NEW k \in Kids, Lost(t, k) PROVE Care'
  <2>1. PICK over \in BOOLEAN :
          /\ over <=> Top(t).kids = {k}
          /\ Step(t, Tops(x, IF over THEN "next" ELSE "kids", x.arg,
                        [f EXCEPT !.pos = IF over THEN @ + 1 ELSE @, !.bad = @ + 1, !.kids = @ \ {k}]))
    BY <1>1, <1>6, TopEffects
  <2> DEFINE g == [f EXCEPT !.pos = IF over THEN @ + 1 ELSE @, !.bad = @ + 1, !.kids = @ \ {k}]
             at == IF over THEN "next" ELSE "kids"
             y == Tops(x, at, x.arg, g)
  <2>2. task[k].at = "done"
    BY <1>6 DEF Lost, Ended
  <2>3. g.kids = f.kids \ {k}
    BY <1>1 DEF Frames
  <2>4. at \in {"next", "kids"} /\ (at = "next" <=> over) /\ at \in Ats
    BY DEF Ats
  <2>5. Step(t, y)
    BY <2>1
  <2> HIDE DEF g, at
  <2>6. y.at = at /\ Last(y) = g /\ y.cancel = x.cancel /\ y.deserted = x.deserted
    BY <1>1 DEF Tops, Records, Last
  <2> HIDE DEF y
  <2>7. \A j \in f.kids : (y.at = "kids" /\ j \in Last(y).kids) \/ (j \in Tasks /\ task[j].at = "done")
    BY <1>1, <1>2, <2>1, <2>2, <2>3, <2>4, <2>6
  <2> QED BY <1>1, <2>3, <2>5, <2>6, <2>7, CareOfStep
<1>7. CASE RaceCancelled(t)
  <2>1. /\ task'[t] = Woken(x, "cancelled")
        /\ \A u \in Tasks \ {t} : task'[u] = IF u \in f.kids THEN Alone(task[u]) ELSE task[u]
    BY <1>1, <1>7, RaceEffects
  <2>2. task'[t].at = "back" /\ task'[t].arg = "cancelled" /\ ~ task'[t].cancel
    BY <1>1, <2>1 DEF Woken, Records
  <2>3. \A u \in Tasks \ {t} :
           /\ task'[u].at = task[u].at /\ task'[u].arg = task[u].arg /\ Last(task'[u]) = Last(task[u])
           /\ task'[u].cancel = task[u].cancel /\ (task[u].deserted => task'[u].deserted)
           /\ u \in f.kids => task'[u].deserted
    <3> TAKE u \in Tasks \ {t}
    <3>1. task[u] \in Records
      BY Facts
    <3> QED BY <2>1, <3>1 DEF Alone, Last, Records
  <2>4. \A u \in Tasks, k \in Kids : WaitsFor(u, k)' <=> WaitsFor(u, k) /\ u # t
    BY <2>2, <2>3 DEF WaitsFor
  <2>5. ~ Underway(task'[t])
    BY <2>2 DEF Underway
  <2>6. ASSUME NEW k \in Kids, Underway(task'[k])
        PROVE  (\E u \in Tasks : WaitsFor(u, k)') \/ task'[k].cancel \/ task'[k].deserted
    <3>1. k \in Tasks \ {t} /\ Underway(task[k])
      BY <1>2, <2>3, <2>5, <2>6 DEF Underway
    <3>2. CASE task[k].cancel \/ task[k].deserted
      BY <2>3, <3>1, <3>2
    <3>3. ASSUME NEW u \in Tasks, WaitsFor(u, k)
          PROVE  (\E v \in Tasks : WaitsFor(v, k)') \/ task'[k].deserted
      BY <2>3, <2>4, <3>1, <3>3 DEF WaitsFor
    <3> QED BY <3>1, <3>2, <3>3 DEF Care
  <2>7. \A u, v \in Tasks, k \in Kids : WaitsFor(u, k)' /\ WaitsFor(v, k)' => u = v
    BY <2>4 DEF Care
  <2>8. \A u \in Tasks : ~ WaitsFor(u, u)'
    BY <2>2, <2>3 DEF WaitsFor, Care
  <2>9. \A u \in Tasks, k \in Kids : WaitsFor(u, k)' => ~ task'[k].cancel
    BY <1>2, <2>2, <2>3, <2>4 DEF Care
  <2> QED BY <2>6, <2>7, <2>8, <2>9 DEF Care
<1>8. ASSUME NEW k \in Kids, Won(t, k) PROVE Care'
  <2> DEFINE g == [f EXCEPT !.pos = @ + 1, !.good = 1, !.kids = {}]
  <2>1. /\ task'[t] = Tops(x, "next", x.arg, g)
        /\ \A u \in Tasks \ {t} :
             task'[u] = IF u \in f.kids /\ task[u].at # "done" THEN Cut(task[u]) ELSE task[u]
    BY <1>1, <1>8, RaceEffects
  <2> HIDE DEF g
  <2>2. task'[t].at = "next" /\ task'[t].cancel = x.cancel /\ task'[t].deserted = x.deserted
    BY <1>1, <2>1 DEF Tops, Records
  <2>3. \A u \in Tasks \ {t} :
           /\ task'[u].at = task[u].at /\ task'[u].arg = task[u].arg /\ Last(task'[u]) = Last(task[u])
           /\ (task[u].cancel => task'[u].cancel) /\ task[u].deserted = task'[u].deserted
           /\ u \in f.kids /\ task[u].at # "done" => task'[u].cancel
           /\ u \notin f.kids => task'[u].cancel = task[u].cancel
    <3> TAKE u \in Tasks \ {t}
    <3>1. task[u] \in Records
      BY Facts
    <3> QED BY <2>1, <3>1 DEF Cut, Last, Records
  <2>4. \A u \in Tasks, k1 \in Kids : WaitsFor(u, k1)' <=> WaitsFor(u, k1) /\ u # t
    BY <2>2, <2>3 DEF WaitsFor
  <2>5. \A u \in Tasks, k1 \in Kids : WaitsFor(u, k1)' => k1 \notin f.kids
    BY <1>3, <2>4 DEF Care
  <2>6. ASSUME NEW k1 \in Kids, Underway(task'[k1])
        PROVE  (\E u \in Tasks : WaitsFor(u, k1)') \/ task'[k1].cancel \/ task'[k1].deserted
    <3>1. k1 \in Tasks /\ Underway(task[k1])
      BY <1>1, <1>2, <2>3, <2>6 DEF Underway
    <3>2. CASE task[k1].cancel \/ task[k1].deserted
      BY <2>2, <2>3, <3>1, <3>2
    <3>3. ASSUME NEW u \in Tasks, WaitsFor(u, k1)
          PROVE  (\E v \in Tasks : WaitsFor(v, k1)') \/ task'[k1].cancel
      <4>1. CASE u # t
        BY <2>4, <3>3, <4>1
      <4>2. CASE u = t
        <5>1. k1 \in f.kids /\ k1 # t /\ task[k1].at # "done"
          BY <1>3, <3>1, <3>3, <4>2 DEF WaitsFor, Underway
        <5> QED BY <2>3, <3>1, <5>1
      <4> QED BY <4>1, <4>2
    <3> QED BY <3>1, <3>2, <3>3 DEF Care
  <2>7. \A u, v \in Tasks, k1 \in Kids : WaitsFor(u, k1)' /\ WaitsFor(v, k1)' => u = v
    BY <2>4 DEF Care
  <2>8. \A u \in Tasks : ~ WaitsFor(u, u)'
    BY <2>2, <2>3 DEF WaitsFor, Care
  <2>9. \A u \in Tasks, k1 \in Kids : WaitsFor(u, k1)' => ~ task'[k1].cancel
    BY <1>2, <2>2, <2>3, <2>4, <2>5 DEF Care
  <2> QED BY <2>6, <2>7, <2>8, <2>9 DEF Care
<1> QED BY <1>5, <1>6, <1>7, <1>8

\* Nobody is at work.
LEMMA CareInit == Init => Care
<1> SUFFICES ASSUME Init PROVE Care
  OBVIOUS
<1>1. \A t \in Tasks : task[t].at \in {"idle", "done"}
  BY DEF Init, Fresh
<1>2. \A k \in Kids : k \in Tasks
  BY DEF Tasks
<1> QED BY <1>1, <1>2 DEF Care, WaitsFor, Underway

\* No step leaves a task at work to itself.
LEMMA CareStep == Base /\ Care /\ [Next]_vars => Care'
<1> SUFFICES ASSUME Base, Care, [Next]_vars PROVE Care'
  OBVIOUS
<1>1. CASE UNCHANGED vars
  BY <1>1 DEF vars, Care, WaitsFor
<1>2. \A k \in Kids : k \in Tasks
  BY DEF Tasks
<1>3. \A r \in Roots : r \in Tasks
  BY DEF Tasks
<1> QED
  BY <1>1, <1>2, <1>3, CareCalls, CareProceeds, CareEvents, CareFanOuts
  DEF Next, Progress, TaskStep, HandlerEnds

\* Nobody works for a result that nobody waits for, whichever task of a race wins, whoever
\* is cancelled and in whatever order tasks end.
THEOREM AwaitedCorrect == Spec => []AwaitedOrCancelled
<1>1. Care => AwaitedOrCancelled
  <2> SUFFICES ASSUME Care, NEW k \in Kids, task[k].at \in {"begin", "hop", "kids"}
               PROVE  k \in Awaited \cup Doomed \/ task[k].deserted
    BY DEF AwaitedOrCancelled
  <2>1. Underway(task[k]) /\ k \in Tasks
    BY DEF Underway, Tasks
  <2> QED BY <2>1, AwaitedIs, WhyDoomed DEF Care, Own
<1> QED
  BY BaseInit, BaseStep, CareInit, CareStep, <1>1, PTL DEF Spec

-----------------------------------------------------------------------------
(* Who ends as cancelled.                                                  *)

\* Only tasks are cancelled.
LEMMA DoomedTasks ==
  ASSUME Base
  PROVE  \A n \in 0 .. MaxKids : DoomedWithin[n] \subseteq Tasks
<1> DEFINE D == DoomedWithin
           T == {n \in 0 .. MaxKids : ~ (D[n] \subseteq Tasks)}
<1>1. /\ D[0] = Own
      /\ \A n \in 1 .. MaxKids : D[n] = Grown(D[n - 1])
      /\ MaxKids \in Nat /\ Doomed = D[MaxKids]
  BY LevelFacts
<1>2. T = {}
  <2> SUFFICES ASSUME T # {} PROVE FALSE
    OBVIOUS
  <2>1. T \in SUBSET Nat
    BY <1>1
  <2> HIDE DEF T
  <2>2. PICK n \in T : \A m \in T : n <= m
    BY <2>1, LeastNatural
  <2>3. n \in 0 .. MaxKids /\ ~ (D[n] \subseteq Tasks)
    BY <2>2 DEF T
  <2> HIDE DEF D
  <2>4. n # 0
    BY <1>1, <2>3 DEF Own
  <2>5. n \in 1 .. MaxKids /\ n - 1 \in 0 .. MaxKids /\ ~ (n <= n - 1)
    BY <1>1, <2>3, <2>4
  <2>6. D[n - 1] \subseteq Tasks
    BY <2>2, <2>5 DEF T
  <2>7. ASSUME NEW u \in Tasks, Gathers(u) PROVE Top(u).kids \subseteq Tasks
    <3>1. task[u] \in Records /\ task[u].frames # <<>> /\ Top(u) = Last(task[u])
      BY <2>7, Facts DEF Gathers, Waiting, Top, Last
    <3> QED BY <3>1, LastFrame DEF Frames, Tasks
  <2> QED BY <1>1, <2>3, <2>5, <2>6, <2>7 DEF Grown
<1> QED BY <1>2

\* Who is cancelled stays so, but for the tasks in gone, if nobody outside gone is
\* cancelled because of one inside.
LEMMA DoomedStays ==
  ASSUME Base, NEW gone,
         \A u \in Own : u \in gone \/ u \in Own',
         \A u \in Tasks, k \in Tasks : Gathers(u) /\ k \in Top(u).kids =>
           k \in gone \/ (u \notin gone /\ Gathers(u)' /\ k \in Top(u)'.kids)
  PROVE  \A u \in Doomed : u \in gone \/ u \in Doomed'
<1> DEFINE D == DoomedWithin
           T == {n \in 0 .. MaxKids : ~ \A u \in D[n] : u \in gone \/ u \in D'[n]}
<1>1. /\ D[0] = Own
      /\ \A n \in 1 .. MaxKids : D[n] = Grown(D[n - 1])
      /\ MaxKids \in Nat /\ Doomed = D[MaxKids]
  BY LevelFacts
<1>2. (/\ DoomedWithin[0] = Own
       /\ \A n \in 1 .. MaxKids : DoomedWithin[n] = Grown(DoomedWithin[n - 1])
       /\ MaxKids \in Nat /\ Doomed = DoomedWithin[MaxKids])'
  BY LevelFacts, PTL
<1>3. /\ D'[0] = Own'
      /\ \A n \in 1 .. MaxKids :
           D'[n] = D'[n - 1] \cup UNION {Top(t)'.kids : t \in {u \in D'[n - 1] : Gathers(u)'}}
      /\ Doomed' = D'[MaxKids]
  BY <1>2 DEF Grown
<1>4. T = {}
  <2> SUFFICES ASSUME T # {} PROVE FALSE
    OBVIOUS
  <2>1. T \in SUBSET Nat
    BY <1>1
  <2> HIDE DEF T
  <2>2. PICK n \in T : \A m \in T : n <= m
    BY <2>1, LeastNatural
  <2>3. n \in 0 .. MaxKids /\ ~ \A u \in D[n] : u \in gone \/ u \in D'[n]
    BY <2>2 DEF T
  <2> HIDE DEF D
  <2>4. n # 0
    BY <1>1, <1>3, <2>3
  <2>5. n \in 1 .. MaxKids /\ n - 1 \in 0 .. MaxKids /\ ~ (n <= n - 1)
    BY <1>1, <2>3, <2>4
  <2>6. \A u \in D[n - 1] : u \in gone \/ u \in D'[n - 1]
    BY <2>2, <2>5 DEF T
  <2>7. D[n] = Grown(D[n - 1])
    BY <1>1, <2>5
  <2>8. D'[n] = D'[n - 1] \cup UNION {Top(t)'.kids : t \in {u \in D'[n - 1] : Gathers(u)'}}
    BY <1>3, <2>5
  <2>9. Grown(D[n - 1]) = D[n - 1] \cup UNION {Top(t).kids : t \in {u \in D[n - 1] : Gathers(u)}}
    BY DEF Grown
  <2>10. ASSUME NEW k \in D[n], k \notin gone PROVE k \in D'[n]
    <3>1. CASE k \in D[n - 1]
      BY <2>6, <2>7, <2>8, <2>10, <3>1
    <3>2. CASE k \notin D[n - 1]
      <4>1. PICK u \in D[n - 1] : Gathers(u) /\ k \in Top(u).kids
        BY <2>7, <2>9, <3>2
      <4>4. u \in Tasks /\ k \in Tasks
        BY <2>3, <2>5, <4>1, DoomedTasks DEF D
      <4>2. u \notin gone /\ Gathers(u)' /\ k \in Top(u)'.kids
        BY <2>10, <4>1, <4>4
      <4>3. u \in D'[n - 1]
        BY <2>6, <4>1, <4>2
      <4> QED BY <2>7, <2>8, <4>2, <4>3
    <3> QED BY <3>1, <3>2
  <2> QED BY <2>3, <2>10
<1>5. MaxKids \in 0 .. MaxKids
  BY <1>1
<1> HIDE DEF D
<1> QED BY <1>1, <1>3, <1>4, <1>5

\* Whoever is cancelled although nobody told it to stop is cancelled with the one that gathers it.
LEMMA DoomedBy ==
  ASSUME Base, Care, NEW t \in Tasks, NEW k \in Kids, WaitsFor(t, k), k \in Doomed
  PROVE  t \in Doomed /\ Gathers(t)
<1>1. k \in Tasks /\ k \notin Own
  BY DEF Care, Own, Tasks
<1>2. PICK u \in Doomed : Gathers(u) /\ k \in Top(u).kids
  BY <1>1, WhyDoomed
<1>3. u \in Tasks => WaitsFor(u, k)
  BY <1>2 DEF WaitsFor, Gathers, Waiting, Top, Last
<1>4. u \in Tasks
  <2>1. MaxKids \in 0 .. MaxKids
    BY LevelFacts
  <2> QED BY <2>1, DoomedTasks, LevelFacts
<1> QED BY <1>2, <1>3, <1>4 DEF Care

Cancelled(x) == x.at \in {"back", "done"} /\ x.arg = "cancelled"

\* Tasks end with an outcome, and those that are gathered end as cancelled only if
\* the task that gathers them is cancelled too.
Rightly ==
  /\ \A t \in Tasks : task[t].at = "back" => task[t].arg \in Outcomes
  /\ \A t \in Tasks, k \in Kids : WaitsFor(t, k) /\ task[k].at = "done" => task[k].arg \in Outcomes
  /\ \A t \in Tasks, k \in Kids : WaitsFor(t, k) /\ Gathers(t) /\ Cancelled(task[k]) => t \in Doomed

\* What of a task matters here, but for being cancelled in addition.
Alike(x, y) == y.at = x.at /\ y.arg = x.arg /\ Last(y) = Last(x) /\ (x.cancel => y.cancel)

\* One task goes on, new ones begin, and the others stay alike.
LEMMA RightlyOfSteps ==
  ASSUME Base, Care, Rightly, NEW t \in Tasks, NEW new \in SUBSET Kids,
         \A k \in new : task[k].at = "done" /\ task'[k].at = "begin" /\ k # t,
         \A k \in new, u \in Tasks : ~ WaitsFor(u, k),
         \A u \in Tasks \ (new \cup {t}) : Alike(task[u], task'[u]),
         task'[t].at \in {"back", "done"} => task'[t].arg \in Outcomes,
         Cancelled(task'[t]) => Cancelled(task[t]) \/ t \in Doomed,
         task'[t].at = "kids" => \A k \in Last(task'[t]).kids :
           k \in new \/ (WaitsFor(t, k) /\ ~ Gathers(t)'),
         Gathers(t) => \A k \in Last(task[t]).kids : task[k].at = "done"
  PROVE  Rightly'
<1>0. \A k \in Kids : k \in Tasks
  BY DEF Tasks
<1>1. \A u \in Tasks, k \in Kids : WaitsFor(u, k)' =>
        \/ k \in new
        \/ WaitsFor(u, k) /\ u \notin new /\ (u = t => ~ Gathers(t)')
  <2> SUFFICES ASSUME NEW u \in Tasks, NEW k \in Kids, WaitsFor(u, k)', k \notin new
               PROVE  WaitsFor(u, k) /\ u \notin new /\ (u = t => ~ Gathers(t)')
    OBVIOUS
  <2>1. CASE u = t
    BY <2>1 DEF WaitsFor
  <2>2. CASE u \in new
    BY <2>2 DEF WaitsFor
  <2>3. CASE u \notin new \cup {t}
    BY <2>3 DEF WaitsFor, Alike
  <2> QED BY <2>1, <2>2, <2>3
<1>2. ASSUME NEW u \in Tasks, task'[u].at = "back" PROVE task'[u].arg \in Outcomes
  BY <1>2 DEF Rightly, Alike
<1>3. ASSUME NEW u \in Tasks, NEW k \in Kids, WaitsFor(u, k)', task'[k].at = "done"
      PROVE  task'[k].arg \in Outcomes
  <2>1. CASE k = t
    BY <1>3, <2>1
  <2>2. CASE k # t
    <3>1. k \notin new /\ Alike(task[k], task'[k]) /\ WaitsFor(u, k)
      BY <1>0, <1>1, <1>3, <2>2
    <3> QED BY <1>3, <3>1 DEF Rightly, Alike
  <2> QED BY <2>1, <2>2
<1>4. ASSUME NEW u \in Tasks, Gathers(u), u # t, u \notin new
      PROVE  Gathers(u)' /\ Top(u)' = Top(u)
  BY <1>4 DEF Gathers, Waiting, Top, Alike, Last
<1>5. \A u \in Doomed : u \in {t} \cup {v \in Tasks : task[v].at = "done"} \/ u \in Doomed'
  <2> DEFINE gone == {t} \cup {v \in Tasks : task[v].at = "done"}
  <2>1. \A u \in Own : u \in gone \/ u \in Own'
    BY DEF Own, Alike
  <2>2. ASSUME NEW u \in Tasks, NEW k \in Tasks, Gathers(u), k \in Top(u).kids, k \notin gone
        PROVE  u \notin gone /\ Gathers(u)' /\ k \in Top(u)'.kids
    <3>1. u # t
      BY <2>2 DEF Top, Last
    <3>2. task[u].at # "done" /\ u \notin new
      BY <2>2 DEF Gathers, Waiting
    <3> QED BY <1>4, <2>2, <3>1, <3>2
  <2> HIDE DEF gone
  <2>3. \A u \in Doomed : u \in gone \/ u \in Doomed'
    BY <2>1, <2>2, DoomedStays
  <2> QED BY <2>3 DEF gone
<1>6. ASSUME NEW u \in Tasks, NEW k \in Kids, WaitsFor(u, k)', Gathers(u)', Cancelled(task'[k])
      PROVE  u \in Doomed'
  <2>1. k \notin new
    BY <1>6 DEF Cancelled
  <2>2. WaitsFor(u, k) /\ u # t /\ u \notin new
    BY <1>1, <1>6, <2>1
  <2>3. Gathers(u)
    BY <1>6, <2>2 DEF Gathers, Waiting, Top, Alike, Last
  <2>4. u \in Doomed
    <3>1. CASE k = t
      BY <1>6, <2>2, <2>3, <3>1, DoomedBy DEF Rightly
    <3>2. CASE k # t
      <4>1. Alike(task[k], task'[k])
        BY <1>0, <2>1, <3>2
      <4> QED BY <1>6, <2>2, <2>3, <4>1 DEF Rightly, Cancelled, Alike
    <3> QED BY <3>1, <3>2
  <2>5. task[u].at # "done"
    BY <2>2 DEF WaitsFor
  <2> QED BY <1>5, <2>2, <2>4, <2>5
<1> QED BY <1>2, <1>3, <1>6 DEF Rightly

\* One task goes on.
LEMMA RightlyOfStep ==
  ASSUME Base, Care, Rightly, NEW t \in Tasks, NEW y, Step(t, y),
         y.at \in {"back", "done"} => y.arg \in Outcomes,
         Cancelled(y) => Cancelled(task[t]) \/ t \in Doomed,
         y.at = "kids" => /\ task[t].at = "kids" /\ Last(y).kids \subseteq Last(task[t]).kids
                          /\ Kind[Last(y).plan] = "first",
         Gathers(t) => \A k \in Last(task[t]).kids : task[k].at = "done"
  PROVE  Rightly'
<1>1. task'[t] = y /\ \A u \in Tasks \ {t} : task'[u] = task[u]
  BY DEF Base, TypeInv, Step
<1>2. \A u \in Tasks \ ({} \cup {t}) : Alike(task[u], task'[u])
  BY <1>1 DEF Alike
<1>3. y.at = "kids" => ~ Gathers(t)' /\ \A k \in Last(y).kids : WaitsFor(t, k)
  BY <1>1 DEF Gathers, Top, Last, WaitsFor
<1>4. {} \in SUBSET Kids
  OBVIOUS
<1>5. \A k \in {} : FALSE
  OBVIOUS
<1> QED BY <1>1, <1>2, <1>3, <1>4, <1>5, RightlyOfSteps

\* The steps of the running task.
LEMMA RightlyRuns ==
  ASSUME Base, Care, Rightly, NEW t \in Tasks,
         CallHop(t) \/ Enter(t) \/ Proceed(t) \/ Back(t) \/ Finish(t)
  PROVE  Rightly'
<1> DEFINE x == task[t]  f == Last(x)
<1>1. TypeInv /\ x \in Records /\ x.at \in {"call", "next", "back"} /\ ~ Gathers(t)
  BY Facts DEF CallHop, Enter, Proceed, Back, Finish, Running, Gathers, Waiting
<1>2. x.at = "back" => x.arg \in Outcomes
  BY DEF Rightly
<1>3. ASSUME NEW y, Step(t, y), y.at \in {"hop", "call", "next", "idle"} PROVE Rightly'
  BY <1>1, <1>3, RightlyOfStep DEF Cancelled
<1>4. ASSUME NEW y, Step(t, y), y.at \in {"back", "done"}, y.arg \in Outcomes,
             y.arg = "cancelled" => x.at = "back" /\ x.arg = "cancelled"
      PROVE  Rightly'
  <2>1. Cancelled(y) => Cancelled(task[t])
    BY <1>4 DEF Cancelled
  <2>2. y.at # "kids"
    BY <1>4
  <2> QED BY <1>1, <1>4, <2>1, <2>2, RightlyOfStep
<1>5. CASE CallHop(t)
  <2> DEFINE y == Sets(x, "hop", None)
  <2>1. Step(t, y) /\ y.at = "hop"
    BY <1>1, <1>5, CallEffects DEF Sets, Records
  <2> HIDE DEF y
  <2> QED BY <1>3, <2>1
<1>6. CASE Enter(t)
  <2> DEFINE y == Pushed(x, x.arg, CurrentId(t))
  <2>1. Step(t, y) /\ y.at = "next"
    BY <1>1, <1>6, CallEffects DEF Pushed, Records
  <2> HIDE DEF y
  <2> QED BY <1>3, <2>1
<1>7. ASSUME NEW outcome \in Outcomes, Step(t, Popped(x, outcome)),
             outcome = "cancelled" => x.at = "back" /\ x.arg = "cancelled"
      PROVE  Rightly'
  <2> DEFINE y == Popped(x, outcome)
  <2>1. y.at = "back" /\ y.arg = outcome
    BY <1>1 DEF Popped, Records
  <2>2. Step(t, y)
    BY <1>7
  <2> HIDE DEF y
  <2> QED BY <1>4, <1>7, <2>1, <2>2
<1>8. ASSUME NEW arg, NEW g, Step(t, Tops(x, "next", arg, g)) PROVE Rightly'
  <2> DEFINE y == Tops(x, "next", arg, g)
  <2>1. y.at = "next" /\ Step(t, y)
    BY <1>1, <1>8 DEF Tops, Records
  <2> HIDE DEF y
  <2> QED BY <1>3, <2>1
<1>9. CASE Proceed(t)
  <2>1. x.at = "next" /\ x.frames # <<>> /\ f \in Frames
    BY <1>1, <1>9, Facts, LastFrame DEF Proceed, Running
  <2>2. ASSUME NEW item, Step(t, Sets(x, "call", item)) PROVE Rightly'
    <3> DEFINE y == Sets(x, "call", item)
    <3>1. y.at = "call" /\ Step(t, y)
      BY <1>1, <2>2 DEF Sets, Records
    <3> HIDE DEF y
    <3> QED BY <1>3, <3>1
  <2>3. ASSUME Returned(t, f) PROVE Rightly'
    BY <1>7, <2>3 DEF Returned, Outcomes
  <2>4. ASSUME NEW items, NEW new, Spawned(t, items, new) PROVE Rightly'
    <3>1. /\ new \in SUBSET Kids /\ t \notin new
          /\ \A k \in new, u \in Tasks : task[k].at = "done" /\ ~ WaitsFor(u, k)
      BY <2>4, AwaitedIs DEF Spawned, FreeKids
    <3>2. [f EXCEPT !.kids = new] \in Frames /\ [f EXCEPT !.kids = new].kids = new /\ x.arg \in Args
      BY <1>1, <2>1, <3>1 DEF Frames, Records
    <3>3. task'[t].at = "kids" /\ Last(task'[t]).kids = new
      <4> DEFINE g == [f EXCEPT !.kids = new]
      <4>1. g \in Frames /\ g.kids = new /\ task'[t] = Tops(x, "kids", x.arg, g) /\ "kids" \in Ats
        BY <2>4, <3>2 DEF Spawned, Ats
      <4> HIDE DEF g
      <4>2. LET y == Tops(x, "kids", x.arg, g) IN y.at = "kids" /\ Last(y) = g
        BY <1>1, <2>1, <3>2, <4>1, TopsType
      <4> QED BY <4>1, <4>2
    <3>4. ASSUME NEW k \in new PROVE task'[k].at = "begin"
      <4>1. PICK i \in DOMAIN items : task'[k] = Fresh("begin", items[i], x.ctx, x.run)
        BY <2>4 DEF Spawned
      <4> QED BY <4>1 DEF Fresh
    <3>5. \A u \in Tasks \ (new \cup {t}) : Alike(task[u], task'[u])
      BY <2>4 DEF Spawned, Alike
    <3>6. ~ Cancelled(task'[t]) /\ task'[t].at \notin {"back", "done"}
      BY <3>3 DEF Cancelled
    <3> QED BY <1>1, <3>1, <3>3, <3>4, <3>5, <3>6, RightlyOfSteps
  <2> QED BY <1>1, <1>8, <1>9, <2>1, <2>2, <2>3, <2>4, ProceedEffects
<1>10. CASE Back(t)
  <2>1. x.at = "back" /\ x.frames # <<>>
    BY <1>1, <1>10, Facts DEF Back, Running, Deep
  <2> QED BY <1>1, <1>7, <1>8, <1>10, <2>1, BackEffects DEF Outcomes
<1>11. CASE Finish(t)
  <2>1. x.at = "back"
    BY <1>11 DEF Finish, Running
  <2>2. CASE t \in Roots
    <3>1. Step(t, Rested(x)) /\ Rested(x).at = "idle"
      BY <1>1, <1>11, <2>2, EventEffects DEF Rested, Records
    <3> QED BY <1>3, <3>1
  <2>3. CASE t \notin Roots
    <3>1. Step(t, Over(x.arg)) /\ Over(x.arg).at = "done" /\ Over(x.arg).arg = x.arg
      BY <1>1, <1>11, <2>3, EventEffects DEF Over, Fresh
    <3> QED BY <1>2, <1>4, <2>1, <3>1
  <2> QED BY <2>2, <2>3
<1> QED BY <1>5, <1>6, <1>9, <1>10, <1>11

\* What the event loop does.
LEMMA RightlyEvents ==
  ASSUME Base, Care, Rightly, NEW t \in Tasks,
         \/ HopCancelled(t) \/ Begin(t) \/ GatherEnds(t) \/ RaceCancelled(t)
         \/ \E outcome \in {"value", "error"} : HopEnds(t, outcome)
         \/ \E item \in Programs : Start(t, item)
         \/ \E k \in Kids : Won(t, k) \/ Lost(t, k)
  PROVE  Rightly'
<1> DEFINE x == task[t]  f == Last(x)
<1>1. TypeInv /\ x \in Records
  BY Facts
<1>2. ASSUME NEW y, Step(t, y), y.at \in {"call", "next"},
             Gathers(t) => \A k \in Last(task[t]).kids : task[k].at = "done"
      PROVE  Rightly'
  BY <1>1, <1>2, RightlyOfStep DEF Cancelled
<1>3. ASSUME NEW y, Step(t, y), y.at \in {"back", "done"}, y.arg \in Outcomes,
             y.arg = "cancelled" => t \in Doomed,
             Gathers(t) => \A k \in Last(task[t]).kids : task[k].at = "done"
      PROVE  Rightly'
  <2>1. Cancelled(y) => t \in Doomed
    BY <1>3 DEF Cancelled
  <2>2. y.at # "kids"
    BY <1>3
  <2> QED BY <1>1, <1>3, <2>1, <2>2, RightlyOfStep
<1>4. x.at # "kids" => ~ Gathers(t)
  BY DEF Gathers, Waiting
<1>5. x.at = "kids" => x.frames # <<>> /\ f \in Frames /\ Top(t) = f /\ f.kids \subseteq Kids
  BY <1>1, Facts, LastFrame DEF Frames, Top, Last
<1>6. Woken(x, "cancelled").at = "back" /\ Woken(x, "cancelled").arg = "cancelled"
      /\ "cancelled" \in Outcomes
  BY <1>1 DEF Woken, Records, Outcomes
<1>7. CASE HopCancelled(t)
  <2>1. x.at # "kids" /\ t \in Doomed /\ Step(t, Woken(x, "cancelled"))
    BY <1>1, <1>7, EventEffects DEF HopCancelled
  <2> QED BY <1>3, <1>4, <1>6, <2>1
<1>8. CASE Begin(t)
  <2>1. x.at # "kids"
    BY <1>8 DEF Begin
  <2>2. CASE t \in Doomed
    <3>1. Step(t, Over("cancelled")) /\ Over("cancelled").at = "done" /\ Over("cancelled").arg = "cancelled"
      BY <1>1, <1>8, <2>2, EventEffects DEF Over, Fresh
    <3> QED BY <1>3, <1>4, <1>6, <2>1, <2>2, <3>1
  <2>3. CASE t \notin Doomed
    <3> DEFINE y == Sets(x, "call", x.arg)
    <3>1. Step(t, y) /\ y.at = "call"
      BY <1>1, <1>8, <2>3, EventEffects DEF Sets, Records
    <3> HIDE DEF y
    <3> QED BY <1>2, <1>4, <2>1, <3>1
  <2> QED BY <2>2, <2>3
<1>9. ASSUME NEW outcome \in {"value", "error"}, HopEnds(t, outcome) PROVE Rightly'
  <2> DEFINE y == Sets(x, "back", outcome)
  <2>1. Step(t, y) /\ y.at = "back" /\ y.arg = outcome
    BY <1>1, <1>9, EventEffects DEF Sets, Records
  <2>2. x.at # "kids"
    BY <1>9 DEF HopEnds
  <2> HIDE DEF y
  <2> QED BY <1>3, <1>4, <2>1, <2>2 DEF Outcomes
<1>10. ASSUME NEW item \in Programs, Start(t, item) PROVE Rightly'
  <2> DEFINE y == Called(x, item, runs + 1)
  <2>1. Step(t, y) /\ y.at = "call"
    BY <1>1, <1>10, EventEffects DEF Called, Records
  <2>2. x.at # "kids"
    BY <1>10 DEF Start
  <2> HIDE DEF y
  <2> QED BY <1>2, <1>4, <2>1, <2>2
<1>11. CASE GatherEnds(t)
  <2>0. x.at = "kids"
    BY <1>11 DEF GatherEnds, Gathers, Waiting
  <2>1. PICK n, m : IF t \in Doomed THEN Step(t, Woken(x, "cancelled"))
                    ELSE Step(t, Tops(x, "next", x.arg,
                           [f EXCEPT !.pos = @ + 1, !.good = n, !.bad = m, !.kids = {}]))
    BY <1>1, <1>5, <1>11, <2>0, TopEffects
  <2>2. \A k \in Last(task[t]).kids : task[k].at = "done"
    BY <1>5, <1>11, <2>0 DEF GatherEnds
  <2>3. CASE t \in Doomed
    BY <1>3, <1>6, <2>1, <2>2, <2>3
  <2>4. CASE t \notin Doomed
    <3> DEFINE g == [f EXCEPT !.pos = @ + 1, !.good = n, !.bad = m, !.kids = {}]
               y == Tops(x, "next", x.arg, g)
    <3>1. Step(t, y)
      BY <2>1, <2>4
    <3> HIDE DEF g
    <3>2. y.at = "next"
      BY <1>1 DEF Tops, Records
    <3> HIDE DEF y
    <3> QED BY <1>2, <2>2, <3>1, <3>2
  <2> QED BY <2>3, <2>4
<1>12. ASSUME NEW k \in Kids, Lost(t, k) PROVE Rightly'
  <2>0. x.at = "kids" /\ ~ Gathers(t)
    BY <1>12 DEF Lost, Races, Waiting
  <2>1. Kind[f.plan] = "first"
    BY <1>5, <2>0 DEF Gathers, Waiting
  <2>2. PICK over \in BOOLEAN :
          Step(t, Tops(x, IF over THEN "next" ELSE "kids", x.arg,
                        [f EXCEPT !.pos = IF over THEN @ + 1 ELSE @, !.bad = @ + 1, !.kids = @ \ {k}]))
    BY <1>1, <1>5, <1>12, <2>0, TopEffects
  <2> DEFINE g == [f EXCEPT !.pos = IF over THEN @ + 1 ELSE @, !.bad = @ + 1, !.kids = @ \ {k}]
             at == IF over THEN "next" ELSE "kids"
             y == Tops(x, at, x.arg, g)
  <2>3. g.kids \subseteq f.kids /\ g.plan = f.plan
    BY <1>5, <2>0 DEF Frames
  <2>4. at \in {"next", "kids"}
    OBVIOUS
  <2>5. Step(t, y)
    BY <2>2
  <2> HIDE DEF g, at
  <2>6. y.at = at /\ Last(y) = g
    BY <1>1, <1>5, <2>0 DEF Tops, Records, Last
  <2> HIDE DEF y
  <2>7. ~ Cancelled(y) /\ y.at \notin {"back", "done"}
    BY <2>4, <2>6 DEF Cancelled
  <2> QED BY <2>0, <2>1, <2>3, <2>5, <2>6, <2>7, RightlyOfStep
<1>13. ASSUME Races(t), task'[t].at \in {"next", "back"},
              task'[t].at = "back" => task'[t].arg = "cancelled" /\ t \in Doomed,
              \A u \in Tasks \ {t} : task'[u] \in {task[u], Cut(task[u]), Alone(task[u])}
       PROVE  Rightly'
  <2>1. ASSUME NEW u \in Tasks \ {t} PROVE Alike(task[u], task'[u])
    <3>1. task[u] \in Records
      BY Facts
    <3> QED BY <1>13, <3>1 DEF Alike, Cut, Alone, Records, Last
  <2>2. {} \in SUBSET Kids /\ (\A k \in {} : FALSE) /\ \A u \in Tasks \ ({} \cup {t}) : u \in Tasks \ {t}
    OBVIOUS
  <2>3. ~ Gathers(t) /\ task'[t].at # "kids"
    BY <1>13 DEF Races
  <2>4. task'[t].at \in {"back", "done"} => task'[t].arg \in Outcomes
    BY <1>13 DEF Outcomes
  <2>5. Cancelled(task'[t]) => t \in Doomed
    BY <1>13 DEF Cancelled
  <2> QED BY <2>1, <2>2, <2>3, <2>4, <2>5, RightlyOfSteps
<1>14. CASE RaceCancelled(t)
  <2>0. Races(t) /\ x.at = "kids" /\ t \in Doomed
    BY <1>14 DEF RaceCancelled, Races, Waiting
  <2>1. /\ task'[t] = Woken(x, "cancelled")
        /\ \A u \in Tasks \ {t} : task'[u] \in {task[u], Alone(task[u])}
    BY <1>1, <1>5, <1>14, <2>0, RaceEffects
  <2> QED BY <1>6, <1>13, <2>0, <2>1
<1>15. ASSUME NEW k \in Kids, Won(t, k) PROVE Rightly'
  <2>0. Races(t) /\ x.at = "kids"
    BY <1>15 DEF Won, Races, Waiting
  <2> DEFINE g == [f EXCEPT !.pos = @ + 1, !.good = 1, !.kids = {}]
  <2>1. /\ task'[t] = Tops(x, "next", x.arg, g)
        /\ \A u \in Tasks \ {t} : task'[u] \in {task[u], Cut(task[u])}
    BY <1>1, <1>5, <1>15, <2>0, RaceEffects
  <2> HIDE DEF g
  <2>2. task'[t].at = "next"
    BY <1>1, <2>1 DEF Tops, Records
  <2> QED BY <1>13, <2>0, <2>1, <2>2
<1> QED BY <1>7, <1>8, <1>9, <1>10, <1>11, <1>12, <1>14, <1>15

\* Steps that leave everybody where it is.
LEMMA DoomedKept ==
  ASSUME Base, \A u \in Own : u \in Own',
         \A u \in Tasks : (Gathers(u)' <=> Gathers(u)) /\ Top(u)' = Top(u)
  PROVE  \A u \in Doomed : u \in Doomed'
<1> DEFINE gone == {}
<1>1. \A u : u \notin gone
  OBVIOUS
<1>2. \A u \in Own : u \in gone \/ u \in Own'
  OBVIOUS
<1>3. \A u \in Tasks, k \in Tasks : Gathers(u) /\ k \in Top(u).kids =>
          k \in gone \/ (u \notin gone /\ Gathers(u)' /\ k \in Top(u)'.kids)
  OBVIOUS
<1> HIDE DEF gone
<1>4. \A u \in Doomed : u \in gone \/ u \in Doomed'
  BY <1>2, <1>3, DoomedStays
<1> QED BY <1>1, <1>4

\* Who is cancelled from outside does not move.
LEMMA RightlyCancelled ==
  ASSUME Base, Care, Rightly, NEW t \in Tasks, CancelRoot(t)
  PROVE  Rightly'
<1>1. task[t] \in Records /\ Step(t, Cut(task[t]))
  BY Facts, EventEffects
<1>2. \A u \in Tasks : Alike(task[u], task'[u])
  BY <1>1 DEF Step, Base, TypeInv, Cut, Records, Alike, Last
<1>3. \A u \in Tasks : Gathers(u)' <=> Gathers(u)
  BY <1>2 DEF Gathers, Waiting, Top, Alike, Last
<1>4. \A u \in Tasks : Top(u)' = Top(u)
  BY <1>2 DEF Top, Last, Alike
<1>5. \A u \in Own : u \in Own'
  BY <1>2 DEF Own, Alike
<1>6. \A u \in Doomed : u \in Doomed'
  BY <1>3, <1>4, <1>5, DoomedKept
<1>7. \A u \in Tasks, k \in Kids : WaitsFor(u, k)' <=> WaitsFor(u, k)
  BY <1>2 DEF WaitsFor, Alike
<1>8. \A k \in Kids : k \in Tasks
  BY DEF Tasks
<1>9. \A u \in Tasks : (Cancelled(task'[u]) <=> Cancelled(task[u]))
  BY <1>2 DEF Alike, Cancelled
<1> QED BY <1>2, <1>3, <1>6, <1>7, <1>8, <1>9 DEF Rightly, Alike

\* No step ends a gathered task as cancelled by itself.
LEMMA RightlyStep == Base /\ Care /\ Rightly /\ [Next]_vars => Rightly'
<1> SUFFICES ASSUME Base, Care, Rightly, [Next]_vars PROVE Rightly'
  OBVIOUS
<1>1. CASE UNCHANGED vars
  <2>1. task' = task
    BY <1>1 DEF vars
  <2>2. \A u \in Own : u \in Own'
    BY <2>1 DEF Own
  <2>3. \A u \in Tasks : (Gathers(u)' <=> Gathers(u)) /\ Top(u)' = Top(u)
    BY <2>1 DEF Gathers, Waiting, Top
  <2>4. \A u \in Doomed : u \in Doomed'
    BY <2>2, <2>3, DoomedKept
  <2> QED BY <2>1, <2>3, <2>4 DEF Rightly, WaitsFor
<1>2. \A k \in Kids : k \in Tasks
  BY DEF Tasks
<1>3. \A r \in Roots : r \in Tasks
  BY DEF Tasks
<1> QED
  BY <1>1, <1>2, <1>3, RightlyRuns, RightlyEvents, RightlyCancelled
  DEF Next, Progress, TaskStep, HandlerEnds

-----------------------------------------------------------------------------
(* What the tasks of a fan-out came to.                                    *)

Size(f)  == Len(Parts[f.plan])
First(f) == Kind[f.plan] = "first"

\* Nothing is counted before a fan-out has begun, and nothing twice.
Within(f) ==
  /\ f.good + f.bad + Cardinality(f.kids) <= Size(f)
  /\ \/ Kind[f.plan] = "orchestrate" /\ f.pos <= 2
     \/ FanOut(f.plan) /\ ~ First(f) /\ f.pos = 1
     => f.good = 0 /\ f.bad = 0

\* A fan-out that goes on has not begun, or is settled.
Poised(f) ==
  FanOut(f.plan) =>
    \/ f.pos = 1 /\ f.good = 0 /\ f.bad = 0
    \/ f.pos # 1 /\ IF First(f) THEN f.good > 0 \/ f.bad = Size(f) ELSE f.good + f.bad = Size(f)

\* One that waits does so for all that have not been counted.
Awaiting(f) ==
  /\ f.kids # {}
  /\ (Kind[f.plan] = "orchestrate" /\ f.pos = 2) \/ (FanOut(f.plan) /\ f.pos = 1)
  /\ FanOut(f.plan) => f.good = 0 /\ f.bad + Cardinality(f.kids) = Size(f)
  /\ ~ First(f) => f.good = 0 /\ f.bad = 0

\* Fan-outs are left before the pattern around them goes on.
Tallied(x) ==
  /\ x.at = "begin" => x.frames = <<>>
  /\ \A i \in 1 .. Len(x.frames) :
       /\ Within(x.frames[i])
       /\ FanOut(x.frames[i].plan) =>
            /\ i = Len(x.frames)
            /\ x.at \in {"next", "kids"} \/ (x.at = "back" /\ x.arg = "cancelled")
  /\ x.at = "next" => Poised(Last(x))
  /\ x.at = "kids" => Awaiting(Last(x))

\* What is known of any pattern being executed.
LEMMA FrameFields ==
  ASSUME NEW f \in Frames
  PROVE  /\ f.plan \in Plans /\ f.pos \in Nat \ {0} /\ f.good \in Nat /\ f.bad \in Nat
         /\ f.kids \in SUBSET Kids /\ IsFiniteSet(f.kids) /\ Cardinality(f.kids) \in Nat
         /\ Size(f) \in Nat /\ (FanOut(f.plan) => Kind[f.plan] # "orchestrate")
         /\ (First(f) => FanOut(f.plan))
<1>1. f.kids \in SUBSET Kids /\ f.plan \in Plans /\ f.pos \in Nat \ {0} /\ f.good \in Nat /\ f.bad \in Nat
  BY DEF Frames
<1>2. Parts[f.plan] \in Seq(Plans \cup {"hop"})
  BY <1>1, WorkflowConstantsOK DEF WorkflowConstantsOK
<1>3. Size(f) \in Nat
  BY <1>2 DEF Size
<1> QED BY <1>1, <1>3, FreeKidsFinite DEF FanOut, First

\* A pattern is entered.
LEMMA FrameStarts ==
  ASSUME NEW f \in Frames, f.pos = 1, f.good = 0, f.bad = 0, f.kids = {}
  PROVE  Within(f) /\ Poised(f)
<1>1. Cardinality(f.kids) = 0
  BY FS_EmptySet
<1> QED BY <1>1, FrameFields DEF Within, Poised

\* A pattern that is no fan-out goes on.
LEMMA FrameGoes ==
  ASSUME NEW f \in Frames, NEW g \in Frames, Within(f), ~ FanOut(f.plan), g.pos >= f.pos,
         g.plan = f.plan, g.good = f.good, g.bad = f.bad, g.kids = f.kids
  PROVE  Within(g) /\ Poised(g)
<1>1. f.pos \in Nat /\ g.pos \in Nat /\ Size(g) = Size(f)
  BY FrameFields DEF Size
<1>2. g.pos <= 2 => f.pos <= 2
  BY <1>1
<1> QED BY <1>1, <1>2 DEF Within, Poised

\* There is nothing to start.
LEMMA FrameSkips ==
  ASSUME NEW f \in Frames, NEW g \in Frames, Within(f), Poised(f), Fans(f, <<>>), g.pos = f.pos + 1,
         g.plan = f.plan, g.good = f.good, g.bad = f.bad, g.kids = f.kids
  PROVE  Within(g) /\ Poised(g)
<1>1. /\ f.pos \in {1, 2} /\ Size(g) = Size(f) /\ g.pos = f.pos + 1
      /\ f.good = 0 /\ f.bad = 0
      /\ (FanOut(f.plan) => f.pos = 1 /\ Parts[f.plan] = <<>>)
      /\ (Kind[f.plan] = "orchestrate" => f.pos = 2)
  BY FrameFields DEF Size, Fans, Within, Poised
<1>2. FanOut(f.plan) => Size(f) = 0
  BY <1>1 DEF Size
<1>3. g.pos # 1 /\ ~ (Kind[g.plan] = "orchestrate" /\ g.pos <= 2)
  BY <1>1
<1>4. Within(g)
  BY <1>1, <1>3 DEF Within
<1>5. Poised(g)
  BY <1>1, <1>2, <1>3 DEF Poised
<1> QED BY <1>4, <1>5

\* A fan-out begins.
LEMMA FrameSpawns ==
  ASSUME NEW f \in Frames, NEW g \in Frames, Within(f), Poised(f), NEW items, Fans(f, items),
         g.pos = f.pos, g.plan = f.plan, g.good = f.good, g.bad = f.bad, g.kids # {},
         Cardinality(g.kids) = Len(items)
  PROVE  Within(g) /\ Awaiting(g)
<1>1. /\ Size(g) = Size(f) /\ f.good = 0 /\ f.bad = 0
      /\ (FanOut(f.plan) => f.pos = 1) /\ (~ FanOut(f.plan) => Kind[f.plan] = "orchestrate" /\ f.pos = 2)
  BY FrameFields DEF Size, Fans, Within, Poised
<1>2. /\ Cardinality(g.kids) \in Nat /\ Size(f) \in Nat
      /\ Cardinality(g.kids) <= Size(f) /\ (FanOut(f.plan) => Cardinality(g.kids) = Size(f))
  BY FrameFields DEF Size, Fans
<1>3. /\ g.good + g.bad + Cardinality(g.kids) <= Size(g) /\ g.good = 0 /\ g.bad = 0
      /\ (FanOut(f.plan) => g.bad + Cardinality(g.kids) = Size(g))
  BY <1>1, <1>2
<1>4. Within(g)
  BY <1>3 DEF Within
<1>5. Awaiting(g)
  <2>1. (FanOut(g.plan) /\ g.pos = 1) \/ (Kind[g.plan] = "orchestrate" /\ g.pos = 2)
    BY <1>1
  <2> QED BY <1>1, <1>3, <2>1 DEF Awaiting
<1> QED BY <1>4, <1>5

\* All tasks of a fan-out have ended.
LEMMA FrameGathers ==
  ASSUME NEW f \in Frames, NEW g \in Frames, Within(f), Awaiting(f), ~ First(f), g.pos = f.pos + 1,
         g.plan = f.plan, g.kids = {}, g.good + g.bad = Cardinality(f.kids)
  PROVE  Within(g) /\ Poised(g)
<1>1. Cardinality(g.kids) = 0 /\ Size(g) = Size(f) /\ (First(g) <=> First(f))
  BY FS_EmptySet DEF Size, First
<1>2. /\ f.good \in Nat /\ f.bad \in Nat /\ Cardinality(f.kids) \in Nat /\ Size(f) \in Nat
      /\ g.good \in Nat /\ g.bad \in Nat /\ f.pos \in Nat \ {0}
  BY FrameFields
<1>3. g.good + g.bad + 0 <= Size(f)
  BY <1>2 DEF Within
<1>4. g.pos # 1 /\ ~ (Kind[g.plan] = "orchestrate" /\ g.pos <= 2)
  BY <1>2, FrameFields DEF Awaiting
<1>5. FanOut(f.plan) => g.good + g.bad = Size(f)
  BY <1>2 DEF Awaiting
<1> QED BY <1>1, <1>3, <1>4, <1>5 DEF Within, Poised

\* A race is won.
LEMMA FrameWins ==
  ASSUME NEW f \in Frames, NEW g \in Frames, Awaiting(f), First(f), g.pos = f.pos + 1,
         g.plan = f.plan, g.kids = {}, g.good = 1, g.bad = f.bad
  PROVE  Within(g) /\ Poised(g)
<1>1. Cardinality(g.kids) = 0 /\ Size(g) = Size(f) /\ (First(g) <=> First(f)) /\ Cardinality(f.kids) # 0
  BY FS_EmptySet, FrameFields DEF Size, First, Awaiting
<1>2. /\ f.bad \in Nat /\ Cardinality(f.kids) \in Nat /\ Size(f) \in Nat /\ f.pos \in Nat \ {0}
      /\ FanOut(f.plan) /\ Kind[f.plan] # "orchestrate"
  BY FrameFields
<1>3. g.good + g.bad + 0 <= Size(f) /\ g.good > 0 /\ g.pos # 1
  BY <1>1, <1>2 DEF Awaiting
<1> QED BY <1>1, <1>2, <1>3 DEF Within, Poised

\* A task of a race has failed: the last one, or one of many.
LEMMA FrameLoses ==
  ASSUME NEW f \in Frames, NEW g \in Frames, Awaiting(f), First(f), NEW k \in f.kids,
         g.plan = f.plan, g.kids = f.kids \ {k}, g.good = f.good, g.bad = f.bad + 1
  PROVE  /\ f.kids = {k} /\ g.pos = f.pos + 1 => Within(g) /\ Poised(g)
         /\ f.kids # {k} /\ g.pos = f.pos     => Within(g) /\ Awaiting(g)
<1>1. Size(g) = Size(f) /\ (First(g) <=> First(f))
  BY DEF Size, First
<1>2. /\ f.bad \in Nat /\ Cardinality(f.kids) \in Nat /\ Size(f) \in Nat /\ f.pos \in Nat \ {0}
      /\ FanOut(f.plan) /\ Kind[f.plan] # "orchestrate" /\ IsFiniteSet(f.kids)
  BY FrameFields
<1>3. Cardinality(g.kids) = Cardinality(f.kids) - 1
  BY <1>2, FS_RemoveElement
<1>4. f.pos = 1 /\ f.good = 0 /\ f.bad + Cardinality(f.kids) = Size(f)
  BY <1>2 DEF Awaiting
<1>5. g.good = 0 /\ g.bad + Cardinality(g.kids) = Size(f) /\ Cardinality(g.kids) \in Int /\ g.bad \in Nat
  BY <1>2, <1>3, <1>4
<1>6. f.kids = {k} => Cardinality(g.kids) = 0
  BY FS_EmptySet
<1>7. g.good + g.bad + Cardinality(g.kids) <= Size(f)
  BY <1>2, <1>5
<1>8. Within(g)
  BY <1>1, <1>2, <1>7 DEF Within
<1>9. f.kids = {k} => g.bad = Size(f)
  BY <1>2, <1>5, <1>6
<1>10. f.kids # {k} => g.kids # {}
  OBVIOUS
<1>11. f.pos + 1 # 1
  BY <1>2
<1> QED BY <1>1, <1>2, <1>4, <1>5, <1>8, <1>9, <1>10, <1>11 DEF Poised, Awaiting

\* A task between two calls of the same pattern, or of none.
LEMMA TallySet ==
  ASSUME NEW x \in Records, NEW y, Tallied(x), y.frames = x.frames,
         y.at \notin {"begin", "next", "kids"},
         \/ y.at = "back" /\ y.arg = "cancelled"
         \/ x.at \notin {"next", "kids", "back"}
         \/ x.frames # <<>> /\ ~ FanOut(Last(x).plan)
  PROVE  Tallied(y)
<1>1. ASSUME NEW i \in 1 .. Len(x.frames), FanOut(x.frames[i].plan)
      PROVE  i = Len(x.frames) /\ y.at = "back" /\ y.arg = "cancelled"
  BY <1>1 DEF Tallied, Last
<1> QED BY <1>1 DEF Tallied

\* A task in no pattern.
LEMMA TallyEmpty ==
  ASSUME NEW y, y.frames = <<>>, y.at \notin {"next", "kids"}
  PROVE  Tallied(y)
BY DEF Tallied

\* A pattern is entered.
LEMMA TallyPushed ==
  ASSUME NEW x \in Records, Tallied(x), x.at = "call", NEW p \in Plans, NEW id \in Numbers
  PROVE  Tallied(Pushed(x, p, id))
<1> DEFINE y == Pushed(x, p, id)  f == Frame(p, x.ctx)
<1>1. /\ y \in Records /\ y.at = "next" /\ Len(y.frames) = Len(x.frames) + 1 /\ Len(x.frames) \in Nat
      /\ Last(y) = f /\ y.frames # <<>>
      /\ \A i \in 1 .. Len(x.frames) : y.frames[i] = x.frames[i]
  BY PushedType
<1>2. f.pos = 1 /\ f.good = 0 /\ f.bad = 0 /\ f.kids = {}
  BY DEF Frame
<1> HIDE DEF y, f
<1>3. f \in Frames
  BY <1>1, LastFrame
<1>4. Within(f) /\ Poised(f)
  BY <1>2, <1>3, FrameStarts
<1>5. y.frames[Len(x.frames) + 1] = f
  BY <1>1 DEF Last
<1>6. ASSUME NEW i \in 1 .. Len(x.frames) + 1
      PROVE  Within(y.frames[i]) /\ (FanOut(y.frames[i].plan) => i = Len(x.frames) + 1)
  <2>1. CASE i = Len(x.frames) + 1
    BY <1>4, <1>5, <2>1
  <2>2. CASE i \in 1 .. Len(x.frames)
    BY <1>1, <2>2 DEF Tallied
  <2> QED BY <1>1, <2>1, <2>2
<1>7. Tallied(y)
  BY <1>1, <1>4, <1>6 DEF Tallied
<1> QED BY <1>7 DEF y

\* A pattern is left: the one around it is no fan-out.
LEMMA TallyPopped ==
  ASSUME NEW x \in Records, Tallied(x), x.frames # <<>>, NEW outcome \in Outcomes
  PROVE  /\ Tallied(Popped(x, outcome))
         /\ Popped(x, outcome).frames # <<>> => ~ FanOut(Last(Popped(x, outcome)).plan)
<1> DEFINE y == Popped(x, outcome)
<1>1. /\ y.at = "back" /\ Len(y.frames) = Len(x.frames) - 1 /\ Len(x.frames) \in Nat
      /\ \A i \in 1 .. Len(y.frames) : y.frames[i] = x.frames[i]
      /\ y \in Records
  BY PoppedType
<1> HIDE DEF y
<1>2. \A i \in 1 .. Len(y.frames) : i \in 1 .. Len(x.frames) /\ i # Len(x.frames)
  BY <1>1
<1>3. \A i \in 1 .. Len(y.frames) : Within(y.frames[i]) /\ ~ FanOut(y.frames[i].plan)
  BY <1>1, <1>2 DEF Tallied
<1>4. y.frames # <<>> => Len(y.frames) \in 1 .. Len(y.frames)
  BY <1>1, LastFrame
<1> QED BY <1>1, <1>3, <1>4 DEF Tallied, Last, y

\* The innermost pattern changes.
LEMMA TallyTops ==
  ASSUME NEW x \in Records, Tallied(x), x.frames # <<>>, NEW f \in Frames, f.plan = Last(x).plan,
         NEW at \in {"next", "kids"}, NEW arg \in Args,
         Within(f), at = "next" => Poised(f), at = "kids" => Awaiting(f)
  PROVE  Tallied(Tops(x, at, arg, f))
<1> DEFINE y == Tops(x, at, arg, f)
<1>1. at \in Ats
  BY DEF Ats
<1>2. /\ y.at = at /\ Len(y.frames) = Len(x.frames) /\ Last(y) = f
      /\ \A i \in 1 .. Len(x.frames) : y.frames[i] = IF i = Len(x.frames) THEN f ELSE x.frames[i]
  BY <1>1, TopsType
<1> HIDE DEF y
<1>3. ASSUME NEW i \in 1 .. Len(x.frames)
      PROVE  Within(y.frames[i]) /\ (FanOut(y.frames[i].plan) => i = Len(x.frames))
  BY <1>2 DEF Tallied
<1>4. Tallied(y)
  BY <1>2, <1>3 DEF Tallied
<1> QED BY <1>4 DEF y

\* Of the tasks of a fan-out that have all ended, those that succeeded and those that
\* failed are all, unless one was cancelled.
LEMMA TwoKinds ==
  ASSUME NEW S \in SUBSET Kids, \A k \in S : Ended(k, "value") \/ Ended(k, "error")
  PROVE  LET A == {k \in S : Ended(k, "value")}
             C == {k \in S : Ended(k, "error")}
         IN  Cardinality(A) + Cardinality(C) = Cardinality(S)
<1> DEFINE A == {k \in S : Ended(k, "value")}
           C == {k \in S : Ended(k, "error")}
<1>1. A \cup C = S
  OBVIOUS
<1>2. A \cap C = {}
  BY DEF Ended
<1>3. IsFiniteSet(A) /\ IsFiniteSet(C) /\ Cardinality(A) \in Nat /\ Cardinality(C) \in Nat
  BY FreeKidsFinite
<1> HIDE DEF A, C
<1>4. Cardinality(A \cup C) = Cardinality(A) + Cardinality(C) - Cardinality(A \cap C)
  BY <1>3, FS_Union
<1>5. Cardinality(S) = Cardinality(A) + Cardinality(C)
  BY <1>1, <1>2, <1>3, <1>4, FS_EmptySet
<1> QED BY <1>5 DEF A, C

Tally == \A t \in Tasks : Tallied(task[t])

\* One task is given a new record.
LEMMA TallyOfStep ==
  ASSUME Base, Tally, NEW t \in Tasks, NEW y, Step(t, y), Tallied(y)
  PROVE  Tally'
<1>1. task'[t] = y /\ \A u \in Tasks \ {t} : task'[u] = task[u]
  BY DEF Base, TypeInv, Step
<1> QED BY <1>1 DEF Tally

\* A task is told to stop, or left by the one that raced it.
LEMMA TallySame ==
  ASSUME NEW x \in Records, Tallied(x)
  PROVE  Tallied(Cut(x)) /\ Tallied(Alone(x))
<1>1. Cut(x).at = x.at /\ Cut(x).arg = x.arg /\ Cut(x).frames = x.frames
  BY DEF Cut, Records
<1>2. Alone(x).at = x.at /\ Alone(x).arg = x.arg /\ Alone(x).frames = x.frames
  BY DEF Alone, Records
<1>3. ASSUME NEW y, y.at = x.at, y.arg = x.arg, y.frames = x.frames PROVE Tallied(y)
  BY <1>3 DEF Tallied, Last
<1> QED BY <1>1, <1>2, <1>3

\* What a fan-out returns.
LEMMA VerdictReturned ==
  ASSUME NEW f \in Frames, NEW success \in BOOLEAN, Poised(f),
         FanOut(f.plan) => Concludes(f, success),
         verdict' = [plan |-> f.plan, success |-> success, good |-> f.good, bad |-> f.bad]
  PROVE  VerdictAgrees'
<1>1. f.good \in Nat /\ f.bad \in Nat /\ Size(f) \in Nat /\ Size(f) = Len(Parts[f.plan])
  BY FrameFields DEF Size
<1>2. CASE ~ FanOut(f.plan)
  BY <1>2 DEF VerdictAgrees, FanOut
<1>3. CASE FanOut(f.plan)
  <2>1. f.pos # 1 /\ IF First(f) THEN f.good > 0 \/ f.bad = Size(f) ELSE f.good + f.bad = Size(f)
    BY <1>3 DEF Poised, Concludes
  <2>2. CASE Kind[f.plan] = "first"
    <3>1. ~ success => f.bad = Size(f)
      BY <1>1, <1>3, <2>1, <2>2 DEF Concludes, First
    <3> QED BY <1>1, <2>2, <3>1 DEF VerdictAgrees
  <2>3. CASE Kind[f.plan] = "all"
    <3>1. f.good + f.bad = Size(f) /\ (success <=> f.bad = 0)
      BY <1>3, <2>1, <2>3 DEF Concludes, First
    <3> QED BY <1>1, <2>3, <3>1 DEF VerdictAgrees
  <2>4. CASE Kind[f.plan] = "vote"
    <3>1. f.good + f.bad = Size(f) /\ (success <=> f.good > 0)
      BY <1>3, <2>1, <2>4 DEF Concludes, First
    <3>2. success <=> f.bad < Size(f)
      BY <1>1, <3>1
    <3> QED BY <1>1, <2>4, <3>2 DEF VerdictAgrees
  <2> QED BY <1>3, <2>2, <2>3, <2>4 DEF FanOut
<1> QED BY <1>2, <1>3

\* A call.
LEMMA TallyCalls ==
  ASSUME Base, Tally, VerdictAgrees, NEW t \in Tasks, CallHop(t) \/ Enter(t)
  PROVE  Tally' /\ VerdictAgrees'
<1> DEFINE x == task[t]
<1>1. TypeInv /\ x \in Records /\ x.at = "call" /\ current = t /\ Tallied(x)
  BY Facts DEF CallHop, Enter, Running, Tally
<1>2. VerdictAgrees'
  BY DEF CallHop, Enter, VerdictAgrees
<1>3. CASE CallHop(t)
  <2> DEFINE y == Sets(x, "hop", None)
  <2>1. Step(t, y) /\ y.at = "hop" /\ y.frames = x.frames
    BY <1>1, <1>3, CallEffects DEF Sets, Records
  <2> HIDE DEF y
  <2>2. Tallied(y)
    BY <1>1, <2>1, TallySet
  <2> QED BY <1>2, <2>1, <2>2, TallyOfStep
<1>4. CASE Enter(t)
  <2>1. x.arg \in Plans /\ CurrentId(t) \in Numbers
    BY <1>1, <1>4, IdOfCall DEF Enter
  <2>2. Step(t, Pushed(x, x.arg, CurrentId(t)))
    BY <1>1, <1>4, CallEffects
  <2>3. Tallied(Pushed(x, x.arg, CurrentId(t)))
    BY <1>1, <2>1, TallyPushed
  <2> QED BY <1>2, <2>2, <2>3, TallyOfStep
<1> QED BY <1>3, <1>4

\* A pattern goes on, returns or fans out.
LEMMA TallyProceeds ==
  ASSUME Base, Tally, VerdictAgrees, NEW t \in Tasks, Proceed(t)
  PROVE  Tally' /\ VerdictAgrees'
<1> DEFINE x == task[t]  f == Last(x)
<1>1. /\ TypeInv /\ x \in Records /\ x.frames # <<>> /\ f \in Frames /\ x.at = "next"
      /\ x.arg \in Args /\ Tallied(x)
  BY Facts, LastFrame DEF Proceed, Running, Tally, Records
<1>2. Within(f) /\ Poised(f)
  BY <1>1, LastFrame DEF Tallied, Last
<1>3. ASSUME NEW item, Step(t, Sets(x, "call", item)), ~ FanOut(f.plan) PROVE Tally'
  <2> DEFINE y == Sets(x, "call", item)
  <2>1. Step(t, y) /\ y.at = "call" /\ y.frames = x.frames
    BY <1>1, <1>3 DEF Sets, Records
  <2> HIDE DEF y
  <2>2. Tallied(y)
    BY <1>1, <1>3, <2>1, TallySet
  <2> QED BY <2>1, <2>2, TallyOfStep
<1>4. ASSUME Returned(t, f) PROVE Tally' /\ VerdictAgrees'
  <2>1. Step(t, Popped(x, "value"))
    BY <1>4 DEF Returned
  <2>2. Tallied(Popped(x, "value"))
    BY <1>1, TallyPopped DEF Outcomes
  <2>3. PICK success \in BOOLEAN :
          /\ verdict' = [plan |-> f.plan, success |-> success, good |-> f.good, bad |-> f.bad]
          /\ FanOut(f.plan) => Concludes(f, success)
    BY <1>4 DEF Returned
  <2>4. VerdictAgrees'
    BY <1>1, <1>2, <2>3, VerdictReturned
  <2> QED BY <2>1, <2>2, <2>4, TallyOfStep
<1>5. ASSUME Fans(f, <<>>), Step(t, Tops(x, "next", x.arg, [f EXCEPT !.pos = @ + 1])) PROVE Tally'
  <2> DEFINE pos == f.pos + 1  g == [f EXCEPT !.pos = pos]
  <2>1. pos \in Nat \ {0}
    BY <1>1, FrameFields
  <2>2. g \in Frames /\ g.pos = pos /\ g.plan = f.plan /\ g.good = f.good /\ g.bad = f.bad /\ g.kids = f.kids
    <3> HIDE DEF pos
    <3> QED BY <1>1, <2>1 DEF Frames
  <2>3. Step(t, Tops(x, "next", x.arg, g)) /\ g.pos = f.pos + 1
    BY <1>5, <2>2
  <2> HIDE DEF g, pos
  <2>4. Within(g) /\ Poised(g)
    BY <1>1, <1>2, <1>5, <2>2, <2>3, FrameSkips
  <2>5. Tallied(Tops(x, "next", x.arg, g))
    BY <1>1, <2>2, <2>4, TallyTops
  <2> QED BY <2>3, <2>5, TallyOfStep
<1>6. ASSUME NEW items, NEW new, Fans(f, items), Spawned(t, items, new) PROVE Tally'
  <2> DEFINE g == [f EXCEPT !.kids = new]
  <2>1. new \in SUBSET Kids /\ new # {} /\ Cardinality(new) = Len(items)
    BY <1>6 DEF Spawned, FreeKids
  <2>2. g \in Frames /\ g.pos = f.pos /\ g.plan = f.plan /\ g.good = f.good /\ g.bad = f.bad /\ g.kids = new
    BY <1>1, <2>1 DEF Frames
  <2>3. task'[t] = Tops(x, "kids", x.arg, g)
    BY <1>6 DEF Spawned
  <2> HIDE DEF g
  <2>4. Within(g) /\ Awaiting(g)
    BY <1>1, <1>2, <1>6, <2>1, <2>2, FrameSpawns
  <2>5. Tallied(task'[t])
    BY <1>1, <2>2, <2>3, <2>4, TallyTops
  <2>6. ASSUME NEW k \in new PROVE Tallied(task'[k])
    <3>1. PICK i \in DOMAIN items : task'[k] = Fresh("begin", items[i], x.ctx, x.run)
      BY <1>6 DEF Spawned
    <3>2. task'[k].frames = <<>> /\ task'[k].at = "begin"
      BY <3>1 DEF Fresh
    <3> QED BY <3>2, TallyEmpty
  <2>7. \A u \in Tasks \ (new \cup {t}) : task'[u] = task[u]
    BY <1>6 DEF Spawned
  <2> QED BY <2>5, <2>6, <2>7 DEF Tally
<1>7. verdict' = verdict => VerdictAgrees'
  BY DEF VerdictAgrees
<1> QED BY <1>1, <1>3, <1>4, <1>5, <1>6, <1>7, ProceedEffects

\* An answer arrives.
LEMMA TallyBack ==
  ASSUME Base, Tally, VerdictAgrees, NEW t \in Tasks, Back(t)
  PROVE  Tally' /\ VerdictAgrees'
<1> DEFINE x == task[t]  f == Last(x)
<1>1. /\ TypeInv /\ x \in Records /\ x.frames # <<>> /\ f \in Frames /\ x.at = "back" /\ Tallied(x)
      /\ Len(x.frames) \in 1 .. Len(x.frames)
  BY Facts, LastFrame DEF Back, Running, Tally, Deep
<1>2. Within(f) /\ (x.arg # "cancelled" => ~ FanOut(f.plan))
  BY <1>1 DEF Tallied, Last
<1>3. ASSUME NEW outcome \in Outcomes, Step(t, Popped(x, outcome)) PROVE Tally'
  BY <1>1, <1>3, TallyPopped, TallyOfStep
<1>4. ASSUME NEW pos \in {f.pos + 1, f.pos + 2}, Step(t, Tops(x, "next", None, [f EXCEPT !.pos = pos])),
             x.arg # "cancelled"
      PROVE  Tally'
  <2> DEFINE g == [f EXCEPT !.pos = pos]
  <2>1. pos \in Nat \ {0} /\ pos >= f.pos
    BY <1>1, FrameFields
  <2>2. g \in Frames /\ g.pos = pos /\ g.plan = f.plan /\ g.good = f.good /\ g.bad = f.bad /\ g.kids = f.kids
    BY <1>1, <2>1 DEF Frames
  <2> HIDE DEF g
  <2>4. Within(g) /\ Poised(g)
    BY <1>1, <1>2, <1>4, <2>1, <2>2, FrameGoes
  <2>5. Tallied(Tops(x, "next", None, g))
    <3>1. None \in Args
      BY DEF Args
    <3> QED BY <1>1, <2>2, <2>4, <3>1, TallyTops
  <2> QED BY <1>4, <2>5, TallyOfStep DEF g
<1>5. verdict' = None => VerdictAgrees'
  BY DEF VerdictAgrees
<1>6. ASSUME NEW success \in BOOLEAN, ~ FanOut(f.plan),
             verdict' = [plan |-> f.plan, success |-> success, good |-> f.good, bad |-> f.bad]
      PROVE  VerdictAgrees'
  BY <1>6 DEF VerdictAgrees, FanOut
<1> QED BY <1>1, <1>2, <1>3, <1>4, <1>5, <1>6, BackEffects DEF Outcomes

\* Tasks begin, end, and hear of their handlers and of cancellations.
LEMMA TallyEvents ==
  ASSUME Base, Tally, VerdictAgrees, NEW t \in Tasks,
         \/ Finish(t) \/ HopCancelled(t) \/ Begin(t) \/ CancelRoot(t)
         \/ \E outcome \in {"value", "error"} : HopEnds(t, outcome)
         \/ \E item \in Programs : Start(t, item)
  PROVE  Tally' /\ VerdictAgrees'
<1> DEFINE x == task[t]
<1>1. TypeInv /\ x \in Records /\ Tallied(x) /\ (Len(x.frames) = 0 <=> x.frames = <<>>) /\ Scoped(t, x)
  BY Facts DEF Tally
<1>2. VerdictAgrees'
  BY DEF Finish, HopCancelled, Begin, CancelRoot, HopEnds, Start, VerdictAgrees
<1>3. ASSUME NEW y, Step(t, y), y.frames = <<>>, y.at \notin {"next", "kids"} PROVE Tally'
  BY <1>3, TallyEmpty, TallyOfStep
<1>4. ASSUME NEW y, Step(t, y), y.frames = x.frames, y.at = "back", x.at = "hop" PROVE Tally'
  BY <1>1, <1>4, TallySet, TallyOfStep
<1>5. CASE Finish(t)
  <2>1. x.frames = <<>>
    BY <1>1, <1>5 DEF Finish, Deep
  <2>2. CASE t \in Roots
    <3>1. Step(t, Rested(x)) /\ Rested(x).at = "idle" /\ Rested(x).frames = x.frames
      BY <1>1, <1>5, <2>2, EventEffects DEF Rested, Records
    <3> QED BY <1>2, <1>3, <2>1, <3>1
  <2>3. CASE t \notin Roots
    <3>1. Step(t, Over(x.arg)) /\ Over(x.arg).at = "done" /\ Over(x.arg).frames = <<>>
      BY <1>1, <1>5, <2>3, EventEffects DEF Over, Fresh
    <3> QED BY <1>2, <1>3, <3>1
  <2> QED BY <2>2, <2>3
<1>6. CASE HopCancelled(t)
  <2>1. Step(t, Woken(x, "cancelled")) /\ x.at = "hop"
    BY <1>1, <1>6, EventEffects DEF HopCancelled
  <2>2. Woken(x, "cancelled").at = "back" /\ Woken(x, "cancelled").frames = x.frames
    BY <1>1 DEF Woken, Records
  <2> QED BY <1>2, <1>4, <2>1, <2>2
<1>7. CASE Begin(t)
  <2>1. x.frames = <<>>
    BY <1>1, <1>7 DEF Begin, Tallied
  <2>2. CASE t \in Doomed
    <3>1. Step(t, Over("cancelled")) /\ Over("cancelled").at = "done" /\ Over("cancelled").frames = <<>>
      BY <1>1, <1>7, <2>2, EventEffects DEF Over, Fresh
    <3> QED BY <1>2, <1>3, <3>1
  <2>3. CASE t \notin Doomed
    <3> DEFINE y == Sets(x, "call", x.arg)
    <3>1. Step(t, y) /\ y.at = "call" /\ y.frames = x.frames
      BY <1>1, <1>7, <2>3, EventEffects DEF Sets, Records
    <3> HIDE DEF y
    <3> QED BY <1>2, <1>3, <2>1, <3>1
  <2> QED BY <2>2, <2>3
<1>8. CASE CancelRoot(t)
  <2>1. Step(t, Cut(x))
    BY <1>1, <1>8, EventEffects
  <2> QED BY <1>1, <1>2, <2>1, TallySame, TallyOfStep
<1>9. ASSUME NEW outcome \in {"value", "error"}, HopEnds(t, outcome) PROVE Tally'
  <2> DEFINE y == Sets(x, "back", outcome)
  <2>1. Step(t, y) /\ y.at = "back" /\ y.frames = x.frames
    BY <1>1, <1>9, EventEffects DEF Sets, Records
  <2>2. x.at = "hop"
    BY <1>9 DEF HopEnds
  <2> HIDE DEF y
  <2> QED BY <1>4, <2>1, <2>2
<1>10. ASSUME NEW item \in Programs, Start(t, item) PROVE Tally'
  <2> DEFINE y == Called(x, item, runs + 1)
  <2>1. Step(t, y) /\ y.at = "call" /\ y.frames = x.frames
    BY <1>1, <1>10, EventEffects DEF Called, Records
  <2>2. x.frames = <<>>
    BY <1>1, <1>10 DEF Start, Scoped
  <2> HIDE DEF y
  <2> QED BY <1>3, <2>1, <2>2
<1> QED BY <1>2, <1>5, <1>6, <1>7, <1>8, <1>9, <1>10

\* Fan-outs end: all their tasks are counted, once.
LEMMA TallyFanOuts ==
  ASSUME Base, Care, Rightly, Tally, VerdictAgrees, NEW t \in Tasks,
         GatherEnds(t) \/ RaceCancelled(t) \/ \E k \in Kids : Won(t, k) \/ Lost(t, k)
  PROVE  Tally' /\ VerdictAgrees'
<1> DEFINE x == task[t]  f == Last(x)
<1>1. /\ TypeInv /\ x \in Records /\ x.frames # <<>> /\ f \in Frames /\ x.at = "kids"
      /\ x.arg \in Args /\ Tallied(x) /\ Top(t) = f /\ Len(x.frames) \in 1 .. Len(x.frames)
  <2>1. x.at = "kids"
    BY DEF GatherEnds, RaceCancelled, Won, Lost, Gathers, Races, Waiting
  <2> QED BY <2>1, Facts, LastFrame DEF Tally, Records, Top, Last
<1>2. Within(f) /\ Awaiting(f)
  BY <1>1 DEF Tallied, Last
<1>3. VerdictAgrees'
  BY DEF GatherEnds, RaceCancelled, Won, Lost, VerdictAgrees
<1>4. f.pos \in Nat \ {0} /\ f.bad \in Nat /\ f.good \in Nat /\ f.kids \in SUBSET Kids
  BY <1>1, FrameFields
<1>5. Tallied(Woken(x, "cancelled"))
  <2>1. Woken(x, "cancelled").at = "back" /\ Woken(x, "cancelled").arg = "cancelled"
        /\ Woken(x, "cancelled").frames = x.frames
    BY <1>1 DEF Woken, Records
  <2> QED BY <1>1, <2>1, TallySet
<1>6. CASE GatherEnds(t)
  <2>1. PICK n, m :
          /\ n = Cardinality({k \in Top(t).kids : Ended(k, "value")})
          /\ m = Cardinality({k \in Top(t).kids : Ended(k, "error")})
          /\ IF t \in Doomed THEN Step(t, Woken(x, "cancelled"))
             ELSE Step(t, Tops(x, "next", x.arg,
                        [f EXCEPT !.pos = @ + 1, !.good = n, !.bad = m, !.kids = {}]))
    BY <1>1, <1>6, TopEffects
  <2>2. Gathers(t) /\ ~ First(f) /\ \A k \in f.kids : task[k].at = "done"
    BY <1>1, <1>6 DEF GatherEnds, Gathers, First
  <2>3. CASE t \in Doomed
    BY <1>3, <1>5, <2>1, <2>3, TallyOfStep
  <2>4. CASE t \notin Doomed
    <3>1. ASSUME NEW k \in f.kids PROVE Ended(k, "value") \/ Ended(k, "error")
      <4>1. k \in Kids /\ WaitsFor(t, k)
        BY <1>1, <1>4 DEF WaitsFor
      <4>2. task[k].at = "done" /\ task[k].arg \in Outcomes
        BY <2>2, <4>1 DEF Rightly
      <4>3. ~ Cancelled(task[k])
        BY <2>2, <2>4, <4>1 DEF Rightly
      <4> QED BY <4>2, <4>3 DEF Cancelled, Ended, Outcomes
    <3>2. n + m = Cardinality(f.kids) /\ n \in Nat /\ m \in Nat
      <4>1. /\ n = Cardinality({k \in f.kids : Ended(k, "value")})
            /\ m = Cardinality({k \in f.kids : Ended(k, "error")})
        BY <1>1, <2>1
      <4>2. /\ {k \in f.kids : Ended(k, "value")} \in SUBSET Kids
            /\ {k \in f.kids : Ended(k, "error")} \in SUBSET Kids
        BY <1>4
      <4>3. n \in Nat /\ m \in Nat
        BY <4>1, <4>2, FreeKidsFinite
      <4> QED BY <1>4, <3>1, <4>1, <4>3, TwoKinds
    <3> DEFINE pos == f.pos + 1
               g == [f EXCEPT !.pos = pos, !.good = n, !.bad = m, !.kids = {}]
    <3>3. pos \in Nat \ {0}
      BY <1>4
    <3>4. Step(t, Tops(x, "next", x.arg, g))
      BY <2>1, <2>4
    <3>5. /\ g \in Frames /\ g.pos = pos /\ g.plan = f.plan /\ g.good = n /\ g.bad = m /\ g.kids = {}
      <4> HIDE DEF pos
      <4> QED BY <1>1, <3>2, <3>3 DEF Frames
    <3>6. g.pos = f.pos + 1
      BY <3>5
    <3> HIDE DEF g, pos
    <3>7. Within(g) /\ Poised(g)
      BY <1>1, <1>2, <2>2, <3>2, <3>5, <3>6, FrameGathers
    <3>8. Tallied(Tops(x, "next", x.arg, g))
      BY <1>1, <3>5, <3>7, TallyTops
    <3> QED BY <1>3, <3>4, <3>8, TallyOfStep
  <2> QED BY <2>3, <2>4
<1>7. ASSUME NEW k \in Kids, Lost(t, k) PROVE Tally'
  <2>1. k \in f.kids /\ First(f)
    BY <1>1, <1>7 DEF Lost, Races, Gathers, Waiting, First
  <2>2. PICK over \in BOOLEAN :
          /\ over <=> Top(t).kids = {k}
          /\ Step(t, Tops(x, IF over THEN "next" ELSE "kids", x.arg,
                        [f EXCEPT !.pos = IF over THEN @ + 1 ELSE @, !.bad = @ + 1, !.kids = @ \ {k}]))
    BY <1>1, <1>7, TopEffects
  <2> DEFINE pos == IF over THEN f.pos + 1 ELSE f.pos
             bad == f.bad + 1
             kids == f.kids \ {k}
             g == [f EXCEPT !.pos = pos, !.bad = bad, !.kids = kids]
             at == IF over THEN "next" ELSE "kids"
  <2>3. pos \in Nat \ {0} /\ bad \in Nat /\ kids \in SUBSET Kids
    BY <1>4
  <2>4. Step(t, Tops(x, at, x.arg, g))
    BY <2>2
  <2>5. at \in {"next", "kids"} /\ (at = "next" <=> over)
    OBVIOUS
  <2>6. /\ g \in Frames /\ g.pos = pos /\ g.plan = f.plan /\ g.good = f.good /\ g.bad = bad /\ g.kids = kids
    <3> HIDE DEF pos, bad, kids, at
    <3> QED BY <1>1, <2>3 DEF Frames
  <2> HIDE DEF g, at
  <2>7. g.bad = f.bad + 1 /\ g.kids = f.kids \ {k}
        /\ (over => g.pos = f.pos + 1) /\ (~ over => g.pos = f.pos)
    BY <2>6
  <2> HIDE DEF pos, bad, kids
  <2>8. (over => Within(g) /\ Poised(g)) /\ (~ over => Within(g) /\ Awaiting(g))
    BY <1>1, <1>2, <2>1, <2>2, <2>6, <2>7, FrameLoses
  <2>9. Tallied(Tops(x, at, x.arg, g))
    BY <1>1, <2>5, <2>6, <2>8, TallyTops
  <2> QED BY <2>4, <2>9, TallyOfStep
<1>8. ASSUME Tallied(task'[t]),
             \A u \in Tasks \ {t} : task'[u] \in {task[u], Cut(task[u]), Alone(task[u])}
      PROVE  Tally'
  <2>1. ASSUME NEW u \in Tasks \ {t} PROVE Tallied(task'[u])
    BY <1>8, Facts, TallySame DEF Tally
  <2> QED BY <1>8, <2>1 DEF Tally
<1>9. CASE RaceCancelled(t)
  <2>1. /\ task'[t] = Woken(x, "cancelled")
        /\ \A u \in Tasks \ {t} : task'[u] \in {task[u], Alone(task[u])}
    BY <1>1, <1>9, RaceEffects
  <2> QED BY <1>3, <1>5, <1>8, <2>1
<1>10. ASSUME NEW k \in Kids, Won(t, k) PROVE Tally'
  <2>1. First(f)
    BY <1>1, <1>10 DEF Won, Races, Gathers, Waiting, First
  <2> DEFINE pos == f.pos + 1
             g == [f EXCEPT !.pos = pos, !.good = 1, !.kids = {}]
  <2>2. /\ task'[t] = Tops(x, "next", x.arg, g)
        /\ \A u \in Tasks \ {t} : task'[u] \in {task[u], Cut(task[u])}
    BY <1>1, <1>10, RaceEffects
  <2>3. pos \in Nat \ {0}
    BY <1>4
  <2>4. /\ g \in Frames /\ g.pos = pos /\ g.plan = f.plan /\ g.good = 1 /\ g.bad = f.bad /\ g.kids = {}
    <3> HIDE DEF pos
    <3> QED BY <1>1, <2>3 DEF Frames
  <2>5. g.pos = f.pos + 1
    BY <2>4
  <2> HIDE DEF g, pos
  <2>6. Within(g) /\ Poised(g)
    BY <1>1, <1>2, <2>1, <2>4, <2>5, FrameWins
  <2>7. Tallied(Tops(x, "next", x.arg, g))
    BY <1>1, <2>4, <2>6, TallyTops
  <2> QED BY <1>8, <2>2, <2>7
<1> QED BY <1>3, <1>6, <1>7, <1>9, <1>10

-----------------------------------------------------------------------------
(* The invariant and what follows from it.                                 *)

WorkflowInv == Base /\ Care /\ Rightly /\ Tally /\ VerdictAgrees

\* The invariant holds at first ...
LEMMA WorkflowInit == Init => WorkflowInv
<1> SUFFICES ASSUME Init PROVE WorkflowInv
  OBVIOUS
<1>1. ASSUME NEW t \in Tasks
      PROVE  task[t].at \in {"idle", "done"} /\ task[t].frames = <<>> /\ task[t].arg = None
  BY DEF Init, Fresh
<1>2. Tally
  BY <1>1, TallyEmpty DEF Tally
<1>3. Rightly
  BY <1>1 DEF Rightly, WaitsFor
<1>4. VerdictAgrees
  BY DEF Init, VerdictAgrees
<1> QED BY <1>2, <1>3, <1>4, BaseInit, CareInit DEF WorkflowInv

\* ... and is kept by every step.
LEMMA WorkflowStep == WorkflowInv /\ [Next]_vars => WorkflowInv'
<1> SUFFICES ASSUME WorkflowInv, [Next]_vars PROVE WorkflowInv'
  OBVIOUS
<1>1. Base /\ Care /\ Rightly /\ Tally /\ VerdictAgrees
  BY DEF WorkflowInv
<1>2. ASSUME UNCHANGED vars PROVE Tally' /\ VerdictAgrees'
  BY <1>1, <1>2 DEF vars, Tally, VerdictAgrees
<1>3. \A k \in Kids : k \in Tasks
  BY DEF Tasks
<1>4. \A r \in Roots : r \in Tasks
  BY DEF Tasks
<1>5. Tally' /\ VerdictAgrees'
  BY <1>1, <1>2, <1>3, <1>4, TallyCalls, TallyProceeds, TallyBack, TallyEvents, TallyFanOuts
  DEF Next, Progress, TaskStep, HandlerEnds
<1> QED BY <1>1, <1>5, BaseStep, CareStep, RightlyStep DEF WorkflowInv

\* What a fan-out returns agrees with what became of every one of its tasks.
THEOREM VerdictCorrect == Spec => []VerdictAgrees
<1>1. WorkflowInv => VerdictAgrees
  BY DEF WorkflowInv
<1> QED
  BY WorkflowInit, WorkflowStep, <1>1, PTL DEF Spec

\* Every variable has its type, and no pattern waits for more tasks than it has parts.
THEOREM WorkflowsTypeCorrect == Spec => []TypeOK
<1>1. WorkflowInv => TypeOK
  <2> SUFFICES ASSUME WorkflowInv PROVE TypeOK
    OBVIOUS
  <2>1. Base /\ TypeInv /\ Tally
    BY DEF WorkflowInv, Base
  <2>2. Numbers \subseteq Ids /\ MaxRuns \in Nat
    <3>1. \A a, b \in Nat : a <= a * (b + 1)
      OBVIOUS
    <3>2. MaxRuns \in Nat /\ MaxKids \in Nat
      BY WorkflowConstantsOK DEF WorkflowConstantsOK
    <3>3. MaxRuns <= MaxRuns * (MaxKids + 1) /\ MaxRuns * (MaxKids + 1) \in Nat
      BY <3>1, <3>2
    <3> DEFINE m == MaxRuns * (MaxKids + 1)
    <3> HIDE DEF m
    <3>4. MaxRuns <= m /\ m \in Nat
      BY <3>3 DEF m
    <3>5. 0 .. MaxRuns \subseteq 0 .. m
      BY <3>2, <3>4
    <3> QED BY <3>2, <3>5 DEF Numbers, Ids, m
  <2>3. ASSUME NEW f \in Frames, Within(f) PROVE FrameOK(f)
    <3>1. f.token \in Ids \cup {None}
      BY <2>2 DEF Frames
    <3> QED BY <2>3, <3>1, FrameFields DEF FrameOK, Within, Size
  <2>4. ASSUME NEW t \in Tasks
        PROVE  /\ task[t].at \in {"idle", "done", "begin", "call", "next", "back", "hop", "kids"}
               /\ task[t].arg \in Plans \cup {"hop", "value", "error", "cancelled", None}
               /\ task[t].ctx \in Ids \cup {None}
               /\ \A i \in DOMAIN task[t].frames : FrameOK(task[t].frames[i])
               /\ task[t].cancel \in BOOLEAN
               /\ task[t].at \in {"call", "next", "back"} <=> current = t
               /\ Waiting(t) => Deep(t) > 0 /\ Top(t).kids # {}
    <3>1. task[t] \in Records /\ Tallied(task[t])
      BY <2>1, Facts DEF Tally
    <3>2. task[t].at \in Ats /\ task[t].arg \in Args /\ task[t].ctx \in Ids \cup {None} /\ task[t].cancel \in BOOLEAN
      BY <2>2, <3>1 DEF Records
    <3>3. \A i \in DOMAIN task[t].frames : i \in 1 .. Len(task[t].frames) /\ task[t].frames[i] \in Frames
      BY <3>1 DEF Records
    <3>4. \A i \in DOMAIN task[t].frames : FrameOK(task[t].frames[i])
      BY <2>3, <3>1, <3>3 DEF Tallied
    <3>5. task[t].at \in {"call", "next", "back"} <=> current = t
      BY <2>1, Facts
    <3>6. Waiting(t) => Deep(t) > 0 /\ Top(t).kids # {}
      BY <2>1, <3>1, Facts DEF Waiting, Deep, Top, Tallied, Awaiting, Last
    <3>7. task[t].arg \in Plans \cup {"hop", "value", "error", "cancelled", None}
      BY <3>2 DEF Args, Outcomes
    <3> QED BY <3>2, <3>4, <3>5, <3>6, <3>7 DEF Ats
  <2>5. DOMAIN task = Tasks
    BY <2>1 DEF TypeInv
  <2> QED BY <2>1, <2>4, <2>5 DEF TypeOK, TypeInv, Numbers
<1> QED
  BY WorkflowInit, WorkflowStep, <1>1, PTL DEF Spec

-----------------------------------------------------------------------------
(* Who is cancelled with whom.                                             *)

\* Doomed is the least set that has everybody on whom cancel() was called, and with
\* everybody who gathers tasks has those tasks: it is within any such set, ...
Least ==
  \A S : Own \subseteq S /\ (\A u \in S : Gathers(u) => Top(u).kids \subseteq S) => Doomed \subseteq S

LEMMA DoomedLeast == Least
<1> SUFFICES ASSUME NEW S, Own \subseteq S, \A u \in S : Gathers(u) => Top(u).kids \subseteq S
             PROVE  Doomed \subseteq S
  BY DEF Least
<1> DEFINE D == DoomedWithin
           T == {n \in 0 .. MaxKids : ~ (D[n] \subseteq S)}
<1>1. /\ D[0] = Own
      /\ \A n \in 1 .. MaxKids : D[n] = Grown(D[n - 1])
      /\ MaxKids \in Nat /\ Doomed = D[MaxKids]
  BY LevelFacts
<1>2. T = {}
  <2> SUFFICES ASSUME T # {} PROVE FALSE
    OBVIOUS
  <2>1. T \in SUBSET Nat
    BY <1>1
  <2> HIDE DEF T
  <2>2. PICK n \in T : \A m \in T : n <= m
    BY <2>1, LeastNatural
  <2>3. n \in 0 .. MaxKids /\ ~ (D[n] \subseteq S)
    BY <2>2 DEF T
  <2> HIDE DEF D
  <2>4. n # 0
    BY <1>1, <2>3
  <2>5. n \in 1 .. MaxKids /\ n - 1 \in 0 .. MaxKids /\ ~ (n <= n - 1)
    BY <1>1, <2>3, <2>4
  <2>6. D[n - 1] \subseteq S
    BY <2>2, <2>5 DEF T
  <2> QED BY <1>1, <2>3, <2>5, <2>6 DEF Grown
<1>3. MaxKids \in 0 .. MaxKids
  BY <1>1
<1> HIDE DEF D
<1> QED BY <1>1, <1>2, <1>3

\* ... and it is one itself: every level that does not have them all has one more task
\* than the one before, and there are as many levels as tasks.
LEMMA DoomedClosed ==
  ASSUME Base
  PROVE  \A u \in Doomed : Gathers(u) => Top(u).kids \subseteq Doomed
<1> DEFINE D == DoomedWithin
           Full(n) == Grown(D[n]) = D[n]
           Large(n) == Cardinality(D[n] \cap Kids) >= n
           T == {n \in 0 .. MaxKids : ~ (Full(n) \/ Large(n))}
<1>1. /\ D[0] = Own
      /\ \A n \in 1 .. MaxKids : D[n] = Grown(D[n - 1])
      /\ MaxKids \in Nat /\ Doomed = D[MaxKids]
  BY LevelFacts
<1>2. \A u \in Tasks : Gathers(u) => Top(u).kids \subseteq Kids
  <2> SUFFICES ASSUME NEW u \in Tasks, Gathers(u) PROVE Top(u).kids \subseteq Kids
    OBVIOUS
  <2>1. task[u] \in Records /\ task[u].frames # <<>> /\ Top(u) = Last(task[u])
    BY Facts DEF Gathers, Waiting, Top, Last
  <2> QED BY <2>1, LastFrame DEF Frames
<1>3. \A n \in 0 .. MaxKids : D[n] \subseteq Tasks
  BY DoomedTasks
<1>4. \A n \in 0 .. MaxKids : IsFiniteSet(D[n] \cap Kids) /\ Cardinality(D[n] \cap Kids) \in Nat
  <2>1. \A n \in 0 .. MaxKids : D[n] \cap Kids \in SUBSET Kids
    OBVIOUS
  <2> QED BY <2>1, FreeKidsFinite
<1>5. T = {}
  <2> SUFFICES ASSUME T # {} PROVE FALSE
    OBVIOUS
  <2>1. T \in SUBSET Nat
    BY <1>1
  <2> HIDE DEF T
  <2>2. PICK n \in T : \A m \in T : n <= m
    BY <2>1, LeastNatural
  <2>3. n \in 0 .. MaxKids /\ ~ Full(n) /\ ~ Large(n)
    BY <2>2 DEF T
  <2> HIDE DEF D, Full, Large
  <2>4. n # 0
    <3>1. 0 \in 0 .. MaxKids
      BY <1>1
    <3>2. Large(0)
      BY <1>4, <3>1 DEF Large
    <3> QED BY <2>3, <3>2
  <2>5. n \in 1 .. MaxKids /\ n - 1 \in 0 .. MaxKids /\ ~ (n <= n - 1) /\ n \in Nat
    BY <1>1, <2>3, <2>4
  <2>6. Full(n - 1) \/ Large(n - 1)
    BY <2>2, <2>5 DEF T
  <2>7. D[n] = Grown(D[n - 1])
    BY <1>1, <2>5
  <2>8. ~ Full(n - 1)
    BY <2>3, <2>7 DEF Full
  <2>9. D[n - 1] \subseteq D[n] /\ D[n] # D[n - 1]
    BY <2>7, <2>8 DEF Grown, Full
  <2>10. PICK k \in D[n] : k \notin D[n - 1]
    BY <2>9
  <2>11. k \in Kids
    <3>1. PICK u \in D[n - 1] : Gathers(u) /\ k \in Top(u).kids
      BY <2>7, <2>10 DEF Grown
    <3> QED BY <1>2, <1>3, <2>5, <3>1
  <2>12. (D[n - 1] \cap Kids) \cup {k} \subseteq D[n] \cap Kids
    BY <2>9, <2>10, <2>11
  <2>13. Cardinality((D[n - 1] \cap Kids) \cup {k}) = Cardinality(D[n - 1] \cap Kids) + 1
    BY <1>4, <2>5, <2>10, FS_AddElement
  <2>14. Cardinality((D[n - 1] \cap Kids) \cup {k}) <= Cardinality(D[n] \cap Kids)
    BY <1>4, <2>3, <2>12, FS_Subset
  <2>15. Cardinality(D[n - 1] \cap Kids) >= n - 1 /\ ~ (Cardinality(D[n] \cap Kids) >= n)
    BY <2>3, <2>6, <2>8 DEF Large
  <2>16. Cardinality(D[n - 1] \cap Kids) \in Nat /\ Cardinality(D[n] \cap Kids) \in Nat
    BY <1>4, <2>3, <2>5
  <2>17. \A a, b \in Nat : a >= n - 1 /\ a + 1 <= b => b >= n
    BY <2>5
  <2> QED BY <2>13, <2>14, <2>15, <2>16, <2>17
<1>6. MaxKids \in 0 .. MaxKids
  BY <1>1
<1>7. CASE Full(MaxKids)
  <2>1. Grown(Doomed) = Doomed
    BY <1>1, <1>7
  <2> QED BY <2>1 DEF Grown
<1>8. CASE Large(MaxKids)
  <2>1. IsFiniteSet(Kids) /\ Cardinality(Kids) = MaxKids
    BY <1>1, FS_Interval DEF Kids
  <2>2. D[MaxKids] \cap Kids \subseteq Kids /\ Cardinality(D[MaxKids] \cap Kids) >= MaxKids
    BY <1>8
  <2> HIDE DEF D
  <2>3. Cardinality(D[MaxKids] \cap Kids) <= MaxKids
    BY <2>1, FS_Subset
  <2>4. D[MaxKids] \cap Kids = Kids
    BY <1>1, <1>4, <1>6, <2>1, <2>2, <2>3, FS_Subset
  <2> QED BY <1>1, <1>2, <1>3, <1>6, <2>4
<1> HIDE DEF T
<1>9. Full(MaxKids) \/ Large(MaxKids)
  BY <1>5, <1>6 DEF T
<1> QED BY <1>7, <1>8, <1>9

-----------------------------------------------------------------------------
(* The order among the tasks: who waits for whom, and for which execution. *)

\* Waiting goes one way, from a task to others of its execution; a task that runs is not
\* cancelled, but for one that has been told so, and neither is one that has nothing to do.
Ordered ==
  \E rank \in [Tasks -> Nat] :
    \A t \in Tasks, k \in Kids : WaitsFor(t, k) => rank[t] < rank[k]
OfOneRun ==
  \A t \in Tasks, k \in Kids :
    WaitsFor(t, k) /\ task[k].at # "done" => task[k].run = task[t].run
Sober == \A t \in Doomed : task[t].at \in Active => Cancelled(task[t])
Calm  == \A t \in Tasks : task[t].at = "idle" => ~ task[t].cancel

\* The order among the tasks.
Orderly == Ordered /\ OfOneRun /\ Sober /\ Calm

\* A task that begins nothing and waits for nobody new.
Goes(x, y) ==
  /\ y.at = "kids" => /\ x.at = "kids" /\ Last(y).kids \subseteq Last(x).kids
                      /\ Last(y).plan = Last(x).plan
  /\ y.at # "done" => x.at # "done"
  /\ y.at \notin {"idle", "done"} /\ x.at # "idle" => y.run = x.run

\* A step in which all tasks do only that.
GoOnly == \A u \in Tasks : Goes(task[u], task'[u])

\* Who waits, and how, then.
LEMMA GoingWaits ==
  ASSUME GoOnly
  PROVE  /\ \A u \in Tasks, k \in Kids : WaitsFor(u, k)' => WaitsFor(u, k)
         /\ \A u \in Tasks : Gathers(u)' => Gathers(u) /\ Top(u)'.kids \subseteq Top(u).kids
         /\ \A u \in Tasks : Races(u)' => Races(u)
         /\ \A u \in Tasks : Waiting(u)' => Waiting(u) /\ task'[u].run = task[u].run
<1> USE DEF GoOnly, Goes
<1>1. \A u \in Tasks, k \in Kids : WaitsFor(u, k)' => WaitsFor(u, k)
  BY DEF WaitsFor
<1>2. \A u \in Tasks : Gathers(u)' => Gathers(u) /\ Top(u)'.kids \subseteq Top(u).kids
  BY DEF Gathers, Waiting, Top, Last
<1>3. \A u \in Tasks : Races(u)' => Races(u)
  BY DEF Races, Gathers, Waiting, Top, Last
<1>4. \A u \in Tasks : Waiting(u)' => Waiting(u) /\ task'[u].run = task[u].run
  BY DEF Waiting
<1> QED BY <1>1, <1>2, <1>3, <1>4

\* Whoever waits for nobody new waits in the same order, and for its own execution.
LEMMA GoingOrder ==
  ASSUME Base, Base', Ordered, OfOneRun, GoOnly
  PROVE  Ordered' /\ OfOneRun'
<1>1. Ordered'
  BY GoingWaits DEF Ordered
<1>2. ASSUME NEW t \in Tasks, NEW k \in Kids, WaitsFor(t, k)', task'[k].at # "done"
      PROVE  task'[k].run = task'[t].run
  <2>1. k \in Tasks /\ task[k].at # "idle" /\ task'[k].at # "idle"
    BY DEF Base, Scoped, Tasks
  <2>2. task[k].at # "done" /\ task'[k].run = task[k].run
    BY <1>2, <2>1 DEF GoOnly, Goes
  <2>3. WaitsFor(t, k) /\ task'[t].run = task[t].run
    BY <1>2, GoingWaits DEF WaitsFor, Waiting
  <2> QED BY <2>2, <2>3 DEF OfOneRun
<1> QED BY <1>1, <1>2 DEF OfOneRun

\* Whom a step can cancel: nobody outside a set that is closed.
LEMMA DoomedInside ==
  ASSUME NEW R, Own' \subseteq R, \A u \in R : Gathers(u)' => Top(u)'.kids \subseteq R
  PROVE  Doomed' \subseteq R
<1>1. Least'
  BY DoomedLeast, PTL
<1>2. \A S : Own' \subseteq S /\ (\A u \in S : Gathers(u)' => Top(u)'.kids \subseteq S) => Doomed' \subseteq S
  BY <1>1 DEF Least
<1> QED BY <1>2

\* Only tasks are cancelled.
LEMMA DoomedAreTasks ==
  ASSUME Base
  PROVE  Doomed \subseteq Tasks
<1>1. MaxKids \in 0 .. MaxKids
  BY LevelFacts
<1> QED BY <1>1, DoomedTasks, LevelFacts

\* If cancel() is called on nobody, nobody is cancelled who was not.
LEMMA DoomedShrinks ==
  ASSUME Base, GoOnly, Own' \subseteq Own
  PROVE  Doomed' \subseteq Doomed
<1>1. \A u \in Doomed : Gathers(u)' => Top(u)'.kids \subseteq Doomed
  BY GoingWaits, DoomedClosed, DoomedAreTasks
<1> QED BY <1>1, WhyDoomed, DoomedInside

\* If cancel() is called on tasks of some executions, only tasks of those are cancelled.
LEMMA DoomedGrows ==
  ASSUME Base, OfOneRun, GoOnly, NEW R, \A u \in Own' : u \in Own \/ task[u].run \in R
  PROVE  \A u \in Doomed' : u \in Doomed \/ task[u].at = "done" \/ task[u].run \in R
<1> DEFINE S == Doomed \cup {u \in Tasks : task[u].at = "done" \/ task[u].run \in R}
<1>1. Own' \subseteq S
  <2>1. Own' \subseteq Tasks
    BY DEF Own
  <2> QED BY <2>1, WhyDoomed
<1>2. ASSUME NEW u \in S, Gathers(u)' PROVE Top(u)'.kids \subseteq S
  <2>1. u \in Tasks
    BY DoomedAreTasks
  <2>2. Gathers(u) /\ Top(u)'.kids \subseteq Top(u).kids
    BY <1>2, <2>1, GoingWaits
  <2>3. CASE u \in Doomed
    BY <2>2, <2>3, DoomedClosed
  <2>4. CASE u \notin Doomed
    <3>1. task[u].at = "kids" /\ task[u].run \in R /\ Top(u) = Last(task[u])
      BY <1>2, <2>2, <2>4 DEF Gathers, Waiting, Top, Last
    <3>2. Top(u).kids \subseteq Kids
      BY <2>1, <3>1, Facts, LastFrame DEF Frames
    <3>3. ASSUME NEW k \in Top(u).kids PROVE k \in S
      <4>1. k \in Kids /\ k \in Tasks /\ WaitsFor(u, k)
        BY <3>1, <3>2, <3>3 DEF WaitsFor, Tasks
      <4> QED BY <2>1, <3>1, <4>1 DEF OfOneRun
    <3> QED BY <2>2, <3>3
  <2> QED BY <2>3, <2>4
<1> HIDE DEF S
<1>3. Doomed' \subseteq S
  BY <1>1, <1>2, DoomedInside
<1> QED BY <1>3 DEF S

\* Nobody is cancelled with tasks that wait for it.
LEMMA DoomedBelow ==
  ASSUME Base, GoOnly, NEW rank \in [Tasks -> Nat], NEW t \in Tasks, t \notin Doomed,
         \A u \in Tasks, k \in Kids : WaitsFor(u, k) => rank[u] < rank[k],
         \A u \in Own' : u \in Own \/ rank[t] < rank[u]
  PROVE  t \notin Doomed'
<1> DEFINE S == Doomed \cup {u \in Tasks : rank[t] < rank[u]}
<1>1. Own' \subseteq S
  <2>1. Own' \subseteq Tasks
    BY DEF Own
  <2> QED BY <2>1, WhyDoomed
<1>2. ASSUME NEW u \in S, Gathers(u)' PROVE Top(u)'.kids \subseteq S
  <2>1. u \in Tasks
    BY DoomedAreTasks
  <2>2. Gathers(u) /\ Top(u)'.kids \subseteq Top(u).kids
    BY <1>2, <2>1, GoingWaits
  <2>3. CASE u \in Doomed
    BY <2>2, <2>3, DoomedClosed
  <2>4. CASE u \notin Doomed
    <3>1. task[u].at = "kids" /\ rank[t] < rank[u] /\ Top(u) = Last(task[u])
      BY <1>2, <2>2, <2>4 DEF Gathers, Waiting, Top, Last
    <3>2. Top(u).kids \subseteq Kids
      BY <2>1, <3>1, Facts, LastFrame DEF Frames
    <3>3. ASSUME NEW k \in Top(u).kids PROVE k \in S
      <4>1. k \in Kids /\ k \in Tasks /\ WaitsFor(u, k)
        BY <3>1, <3>2, <3>3 DEF WaitsFor, Tasks
      <4>2. rank[u] < rank[k] /\ rank[t] \in Nat /\ rank[u] \in Nat /\ rank[k] \in Nat
        BY <2>1, <4>1
      <4> QED BY <3>1, <4>1, <4>2
    <3> QED BY <2>2, <3>3
  <2> QED BY <2>3, <2>4
<1>3. t \notin S
  <2>1. rank[t] \in Nat
    OBVIOUS
  <2> QED BY <2>1
<1> HIDE DEF S
<1>4. Doomed' \subseteq S
  BY <1>1, <1>2, DoomedInside
<1> QED BY <1>3, <1>4

\* Which executions a step can leave tasks of behind.
LEMMA LooseGrows ==
  ASSUME Base, Base', GoOnly, NEW R,
         \A u \in Doomed' : u \in Doomed \/ task[u].at = "done" \/ task[u].run \in R,
         \A k \in Kids : task'[k].deserted /\ task'[k].at # "done" =>
           task[k].deserted \/ task[k].run \in R
  PROVE  Loose' \subseteq Loose \cup R
<1>1. ASSUME NEW k \in Kids, task'[k].deserted, task'[k].at # "done"
      PROVE  task'[k].run \in Loose \cup R
  <2>1. k \in Tasks /\ task[k].at # "idle" /\ task'[k].at # "idle"
    BY DEF Base, Scoped, Tasks
  <2>2. task[k].at # "done" /\ task'[k].run = task[k].run
    BY <1>1, <2>1 DEF GoOnly, Goes
  <2> QED BY <1>1, <2>2 DEF Loose
<1>2. ASSUME NEW t \in Doomed', Races(t)'
      PROVE  task'[t].run \in Loose \cup R
  <2>1. Doomed' \subseteq Tasks
    <3>1. (Base => Doomed \subseteq Tasks)'
      BY DoomedAreTasks, PTL
    <3> QED BY <3>1
  <2>2. Races(t) /\ task'[t].run = task[t].run
    BY <1>2, <2>1, GoingWaits DEF Races
  <2>3. task[t].at = "kids"
    BY <2>2 DEF Races, Waiting
  <2> QED BY <1>2, <2>2, <2>3 DEF Loose
<1>3. ASSUME NEW n \in Loose' PROVE n \in Loose \cup R
  <2>1. \/ \E k \in Kids : task'[k].deserted /\ task'[k].at # "done" /\ n = task'[k].run
        \/ \E t \in Doomed' : Races(t)' /\ n = task'[t].run
    BY DEF Loose
  <2> QED BY <1>1, <1>2, <2>1
<1> QED BY <1>3

-----------------------------------------------------------------------------
(* Steps that keep the order.                                              *)

\* What the program sees of a record, and whether its task was told to stop.
Shown(x) ==
  IF x.at = "idle" THEN "idle"
  ELSE IF x.at = "back" /\ x.frames = <<>> THEN x.arg ELSE "busy"
Told(x) == x.cancel \/ (x.at = "back" /\ x.arg = "cancelled")

\* A step of one task that keeps the order.
Tidy(t, y) ==
  /\ Goes(task[t], y)
  /\ y.cancel => task[t].cancel
  /\ y.deserted => task[t].deserted
  /\ y.at \in Active => Cancelled(y) \/ t \notin Doomed
  /\ y.at = "idle" => ~ y.cancel
  /\ Cancelled(y) => t \in Doomed \/ Cancelled(task[t])

\* A step after which nobody ends as cancelled who was not told to before.
AsTold == GoOnly /\ \A u \in Tasks : Cancelled(task'[u]) => u \in Doomed \/ Cancelled(task[u])

\* It sends nothing, and a root that answers does it as the contract says.
Answers(t, y) ==
  /\ y.at # "hop"
  /\ t \in Roots =>
       /\ Shown(task[t]) = "busy" /\ y.run = task[t].run
       /\ Told(y) <=> Told(task[t])
       /\ \/ Shown(y) = "busy"
          \/ Shown(y) \in Outcomes /\ (Shown(y) = "cancelled" <=> Told(task[t]))

\* Nobody gathers a root.
LEMMA RootDoomed ==
  ASSUME Base, NEW t \in Roots
  PROVE  t \in Doomed <=> task[t].cancel
<1>1. t \in Tasks /\ t \notin Kids
  BY Apart DEF Tasks
<1>2. ASSUME t \in Doomed, t \notin Own PROVE FALSE
  <2>1. PICK u \in Doomed : Gathers(u) /\ t \in Top(u).kids
    BY <1>2, WhyDoomed
  <2>2. u \in Tasks
    BY DoomedAreTasks
  <2>3. task[u].at = "kids" /\ Top(u) = Last(task[u])
    BY <2>1 DEF Gathers, Waiting, Top, Last
  <2>4. Last(task[u]).kids \subseteq Kids
    BY <2>2, <2>3, Facts, LastFrame DEF Frames
  <2> QED BY <1>1, <2>1, <2>3, <2>4
<1> QED BY <1>1, <1>2, WhyDoomed DEF Own

\* A task on which cancel() was not called goes on, ...
LEMMA GoesOn ==
  ASSUME Base, NEW t \in Tasks, t \notin Doomed, NEW y,
         y.at \in {"call", "next"} \/ (y.at = "back" /\ y.arg \in {"value", "error"}),
         y.run = task[t].run, y.cancel => task[t].cancel, y.deserted => task[t].deserted,
         task[t].at \notin {"idle", "done"}, ~ Cancelled(task[t]),
         task[t].at = "back" => task[t].frames # <<>>
  PROVE  Tidy(t, y) /\ Answers(t, y)
<1>1. Goes(task[t], y)
  BY DEF Goes
<1>2. Tidy(t, y)
  BY <1>1 DEF Tidy, Cancelled
<1>3. t \notin Own
  BY WhyDoomed
<1>4. ~ task[t].cancel /\ ~ y.cancel
  BY <1>3 DEF Own
<1>5. Shown(task[t]) = "busy" /\ ~ Told(task[t]) /\ ~ Told(y)
  BY <1>4 DEF Shown, Told, Cancelled
<1>6. Shown(y) = "busy" \/ (Shown(y) \in Outcomes /\ Shown(y) # "cancelled")
  BY DEF Shown, Outcomes
<1> QED BY <1>2, <1>5, <1>6 DEF Answers

\* ... and one on which it was, or in which the cancellation is under way, is cancelled.
LEMMA GivesUp ==
  ASSUME Base, NEW t \in Tasks, t \in Doomed \/ Cancelled(task[t]), NEW y,
         y.at = "back" /\ y.arg = "cancelled",
         y.run = task[t].run, y.cancel => task[t].cancel, y.deserted => task[t].deserted,
         task[t].at \notin {"idle", "done"},
         task[t].at = "back" => task[t].frames # <<>>
  PROVE  Tidy(t, y) /\ Answers(t, y)
<1>1. Goes(task[t], y)
  BY DEF Goes
<1>2. Tidy(t, y)
  BY <1>1 DEF Tidy, Cancelled
<1>3. t \in Roots => Told(task[t])
  BY RootDoomed DEF Told, Cancelled
<1>4. Shown(task[t]) = "busy" /\ Told(y)
  BY DEF Shown, Told
<1>5. Shown(y) = "busy" \/ Shown(y) = "cancelled"
  BY DEF Shown
<1> QED BY <1>2, <1>3, <1>4, <1>5 DEF Answers, Outcomes

\* The running task enters a pattern, goes on in it or leaves it.
LEMMA RunsTidily ==
  ASSUME Base, Rightly, Orderly, NEW t \in Tasks, Enter(t) \/ Proceed(t) \/ Back(t)
  PROVE  /\ UNCHANGED <<runs, hops>>
         /\ \/ \E y : Step(t, y) /\ Tidy(t, y) /\ Answers(t, y)
            \/ task[t].at = "next" /\ \E items, new : Spawned(t, items, new)
<1> DEFINE x == task[t]  f == Last(x)
<1>1. /\ TypeInv /\ x \in Records /\ x.at \in {"call", "next", "back"} /\ x.arg \in Args
      /\ x.at \in {"next", "back"} => x.frames # <<>>
  BY Facts DEF Enter, Proceed, Back, Running, Deep, Records
<1>2. UNCHANGED <<runs, hops>>
  BY DEF Enter, Proceed, Back, GotValue, GotError, GotCancelled, GoOn, Return
<1>3. ~ Cancelled(x) => t \notin Doomed
  BY <1>1 DEF Orderly, Sober, Active
<1>4. ASSUME NEW y, Step(t, y), ~ Cancelled(x),
             y.at \in {"call", "next"} \/ (y.at = "back" /\ y.arg = "value"),
             y.run = x.run, y.cancel = x.cancel, y.deserted = x.deserted
      PROVE  \E z : Step(t, z) /\ Tidy(t, z) /\ Answers(t, z)
  <2>1. Tidy(t, y) /\ Answers(t, y)
    BY <1>1, <1>3, <1>4, GoesOn
  <2> QED BY <1>4, <2>1
<1>5. ASSUME Step(t, Popped(x, "value")), ~ Cancelled(x)
      PROVE  \E z : Step(t, z) /\ Tidy(t, z) /\ Answers(t, z)
  <2> DEFINE y == Popped(x, "value")
  <2>1. y.at = "back" /\ y.arg = "value" /\ y.run = x.run /\ y.cancel = x.cancel /\ y.deserted = x.deserted
    BY <1>1 DEF Popped, Records
  <2>2. Step(t, y)
    BY <1>5
  <2> HIDE DEF y
  <2> QED BY <1>4, <1>5, <2>1, <2>2
<1>6. ASSUME NEW arg, NEW g, Step(t, Tops(x, "next", arg, g)), ~ Cancelled(x)
      PROVE  \E z : Step(t, z) /\ Tidy(t, z) /\ Answers(t, z)
  <2> DEFINE y == Tops(x, "next", arg, g)
  <2>1. y.at = "next" /\ y.run = x.run /\ y.cancel = x.cancel /\ y.deserted = x.deserted
    BY <1>1 DEF Tops, Records
  <2>2. Step(t, y)
    BY <1>6
  <2> HIDE DEF y
  <2> QED BY <1>4, <1>6, <2>1, <2>2
<1>7. CASE Enter(t)
  <2> DEFINE y == Pushed(x, x.arg, CurrentId(t))
  <2>0. x.at = "call" /\ ~ Cancelled(x)
    BY <1>7 DEF Enter, Running, Cancelled
  <2>1. y.at = "next" /\ y.run = x.run /\ y.cancel = x.cancel /\ y.deserted = x.deserted
    BY <1>1 DEF Pushed, Records
  <2>2. Step(t, y)
    BY <1>1, <1>7, CallEffects
  <2> HIDE DEF y
  <2> QED BY <1>2, <1>4, <2>0, <2>1, <2>2
<1>8. CASE Proceed(t)
  <2>1. x.at = "next" /\ ~ Cancelled(x) /\ x.frames # <<>>
    BY <1>1, <1>8 DEF Proceed, Running, Cancelled
  <2>2. ASSUME NEW item, Step(t, Sets(x, "call", item))
        PROVE  \E z : Step(t, z) /\ Tidy(t, z) /\ Answers(t, z)
    <3> DEFINE y == Sets(x, "call", item)
    <3>1. y.at = "call" /\ y.run = x.run /\ y.cancel = x.cancel /\ y.deserted = x.deserted
      BY <1>1 DEF Sets, Records
    <3>2. Step(t, y)
      BY <2>2
    <3> HIDE DEF y
    <3> QED BY <1>4, <2>1, <3>1, <3>2
  <2>3. ASSUME Returned(t, f)
        PROVE  \E z : Step(t, z) /\ Tidy(t, z) /\ Answers(t, z)
    BY <1>5, <2>1, <2>3 DEF Returned
  <2> QED BY <1>1, <1>2, <1>6, <1>8, <2>1, <2>2, <2>3, ProceedEffects
<1>9. CASE Back(t)
  <2>1. x.at = "back" /\ x.frames # <<>>
    BY <1>1, <1>9 DEF Back, Running
  <2>2. x.arg \in {"value", "error"} => ~ Cancelled(x)
    BY DEF Cancelled
  <2>3. ASSUME x.arg = "cancelled", Step(t, Popped(x, "cancelled"))
        PROVE  \E z : Step(t, z) /\ Tidy(t, z) /\ Answers(t, z)
    <3> DEFINE y == Popped(x, "cancelled")
    <3>1. y.at = "back" /\ y.arg = "cancelled" /\ y.run = x.run /\ y.cancel = x.cancel
          /\ y.deserted = x.deserted
      BY <1>1 DEF Popped, Records
    <3>2. Step(t, y) /\ Cancelled(x)
      BY <2>1, <2>3 DEF Cancelled
    <3> HIDE DEF y
    <3>3. Tidy(t, y) /\ Answers(t, y)
      BY <2>1, <3>1, <3>2, GivesUp
    <3> QED BY <3>2, <3>3
  <2>4. \/ \E z : Step(t, z) /\ Tidy(t, z) /\ Answers(t, z)
        \/ x.arg \in {"value", "error"} /\ Step(t, Popped(x, "value"))
        \/ x.arg \in {"value", "error"} /\ \E arg, g : Step(t, Tops(x, "next", arg, g))
    BY <1>1, <1>9, <2>1, <2>3, BackEffects
  <2> QED BY <1>2, <1>5, <1>6, <2>2, <2>4
<1> QED BY <1>7, <1>8, <1>9

\* The event loop wakes a task, or one that began or ended is over.
LEMMA WakesTidily ==
  ASSUME Base, Rightly, Orderly, NEW t \in Tasks,
         \/ HopCancelled(t) \/ GatherEnds(t) \/ (t \in Kids /\ (Begin(t) \/ Finish(t)))
         \/ \E outcome \in {"value", "error"} : HopEnds(t, outcome)
         \/ \E k \in Kids : Lost(t, k)
  PROVE  UNCHANGED <<runs, hops>> /\ \E y : Step(t, y) /\ Tidy(t, y) /\ Answers(t, y)
<1> DEFINE x == task[t]  f == Last(x)
<1>1. /\ TypeInv /\ x \in Records /\ x.arg \in Args
      /\ x.at = "kids" => x.frames # <<>> /\ f \in Frames /\ Top(t) = f
  BY Facts, LastFrame DEF Records, Top, Last
<1>2. UNCHANGED <<runs, hops>>
  BY DEF HopCancelled, GatherEnds, Begin, Finish, HopEnds, Lost
<1>3. ASSUME t \in Doomed, Step(t, Woken(x, "cancelled")), x.at \in {"hop", "kids"}
      PROVE  \E z : Step(t, z) /\ Tidy(t, z) /\ Answers(t, z)
  <2> DEFINE y == Woken(x, "cancelled")
  <2>1. y.at = "back" /\ y.arg = "cancelled" /\ y.run = x.run /\ ~ y.cancel /\ y.deserted = x.deserted
    BY <1>1 DEF Woken, Records
  <2>2. Step(t, y)
    BY <1>3
  <2> HIDE DEF y
  <2>3. Tidy(t, y) /\ Answers(t, y)
    BY <1>3, <2>1, GivesUp
  <2> QED BY <2>2, <2>3
<1>4. ASSUME NEW y, Step(t, y), t \notin Doomed, x.at \in {"hop", "kids", "begin"},
             y.at \in {"call", "next"} \/ (y.at = "back" /\ y.arg \in {"value", "error"}),
             y.run = x.run, y.cancel = x.cancel, y.deserted = x.deserted
      PROVE  \E z : Step(t, z) /\ Tidy(t, z) /\ Answers(t, z)
  <2>1. ~ Cancelled(x)
    BY <1>4 DEF Cancelled
  <2>2. Tidy(t, y) /\ Answers(t, y)
    BY <1>4, <2>1, GoesOn
  <2> QED BY <1>4, <2>2
<1>5. ASSUME NEW arg, Step(t, Over(arg)), t \in Kids, x.at \in {"back", "begin"},
             t \in Doomed \/ (x.at = "back" /\ x.arg = arg)
      PROVE  \E z : Step(t, z) /\ Tidy(t, z) /\ Answers(t, z)
  <2>1. Over(arg).at = "done" /\ ~ Over(arg).cancel /\ ~ Over(arg).deserted
    BY DEF Over, Fresh
  <2>2. Cancelled(Over(arg)) => t \in Doomed \/ Cancelled(x)
    BY <1>5 DEF Cancelled, Over, Fresh
  <2>3. Tidy(t, Over(arg))
    BY <2>1, <2>2 DEF Tidy, Goes, Active
  <2>4. Answers(t, Over(arg))
    BY <1>5, <2>1, Apart DEF Answers
  <2> QED BY <1>5, <2>3, <2>4
<1>6. CASE HopCancelled(t)
  BY <1>1, <1>2, <1>3, <1>6, EventEffects DEF HopCancelled
<1>7. ASSUME NEW outcome \in {"value", "error"}, HopEnds(t, outcome)
      PROVE  \E z : Step(t, z) /\ Tidy(t, z) /\ Answers(t, z)
  <2> DEFINE y == Sets(x, "back", outcome)
  <2>1. y.at = "back" /\ y.arg = outcome /\ y.run = x.run /\ y.cancel = x.cancel /\ y.deserted = x.deserted
    BY <1>1 DEF Sets, Records
  <2>2. Step(t, y)
    BY <1>1, <1>7, EventEffects
  <2> HIDE DEF y
  <2> QED BY <1>4, <1>7, <2>1, <2>2 DEF HopEnds
<1>8. CASE t \in Kids /\ Begin(t)
  <2>1. x.at = "begin"
    BY <1>8 DEF Begin
  <2>2. CASE t \in Doomed
    <3>1. Step(t, Over("cancelled"))
      BY <1>1, <1>8, <2>2, EventEffects
    <3> QED BY <1>2, <1>5, <1>8, <2>1, <2>2, <3>1
  <2>3. CASE t \notin Doomed
    <3> DEFINE y == Sets(x, "call", x.arg)
    <3>1. y.at = "call" /\ y.run = x.run /\ y.cancel = x.cancel /\ y.deserted = x.deserted
      BY <1>1 DEF Sets, Records
    <3>2. Step(t, y)
      BY <1>1, <1>8, <2>3, EventEffects
    <3> HIDE DEF y
    <3> QED BY <1>2, <1>4, <2>1, <2>3, <3>1, <3>2
  <2> QED BY <2>2, <2>3
<1>9. CASE t \in Kids /\ Finish(t)
  <2>1. x.at = "back" /\ t \notin Roots
    BY <1>9, Apart DEF Finish, Running
  <2>2. Step(t, Over(x.arg))
    BY <1>1, <1>9, <2>1, EventEffects
  <2> QED BY <1>2, <1>5, <1>9, <2>1, <2>2
<1>10. CASE GatherEnds(t)
  <2>1. x.at = "kids"
    BY <1>10 DEF GatherEnds, Gathers, Waiting
  <2>2. PICK n, m : IF t \in Doomed THEN Step(t, Woken(x, "cancelled"))
                    ELSE Step(t, Tops(x, "next", x.arg,
                           [f EXCEPT !.pos = @ + 1, !.good = n, !.bad = m, !.kids = {}]))
    BY <1>1, <1>10, <2>1, TopEffects
  <2>3. CASE t \in Doomed
    BY <1>2, <1>3, <2>1, <2>2, <2>3
  <2>4. CASE t \notin Doomed
    <3> DEFINE g == [f EXCEPT !.pos = @ + 1, !.good = n, !.bad = m, !.kids = {}]
               y == Tops(x, "next", x.arg, g)
    <3>1. Step(t, y)
      BY <2>2, <2>4
    <3> HIDE DEF g
    <3>2. y.at = "next" /\ y.run = x.run /\ y.cancel = x.cancel /\ y.deserted = x.deserted
      BY <1>1 DEF Tops, Records
    <3> HIDE DEF y
    <3> QED BY <1>2, <1>4, <2>1, <2>4, <3>1, <3>2
  <2> QED BY <2>3, <2>4
<1>11. ASSUME NEW k \in Kids, Lost(t, k)
       PROVE  \E z : Step(t, z) /\ Tidy(t, z) /\ Answers(t, z)
  <2>1. x.at = "kids" /\ t \notin Doomed
    BY <1>11 DEF Lost, Races, Waiting
  <2>2. PICK over \in BOOLEAN :
          Step(t, Tops(x, IF over THEN "next" ELSE "kids", x.arg,
                        [f EXCEPT !.pos = IF over THEN @ + 1 ELSE @, !.bad = @ + 1, !.kids = @ \ {k}]))
    BY <1>1, <1>11, <2>1, TopEffects
  <2> DEFINE g == [f EXCEPT !.pos = IF over THEN @ + 1 ELSE @, !.bad = @ + 1, !.kids = @ \ {k}]
             at == IF over THEN "next" ELSE "kids"
             y == Tops(x, at, x.arg, g)
  <2>3. g.kids \subseteq f.kids /\ g.plan = f.plan
    BY <1>1, <2>1 DEF Frames
  <2>4. at \in {"next", "kids"}
    OBVIOUS
  <2>5. Step(t, y)
    BY <2>2
  <2> HIDE DEF g, at
  <2>6. y.at = at /\ Last(y) = g /\ y.run = x.run /\ y.cancel = x.cancel /\ y.deserted = x.deserted
    BY <1>1, <2>1 DEF Tops, Records, Last
  <2> HIDE DEF y
  <2>7. CASE at = "next"
    BY <1>4, <2>1, <2>5, <2>6, <2>7
  <2>8. CASE at = "kids"
    <3>1. Goes(x, y) /\ y.at = "kids"
      BY <2>1, <2>3, <2>6, <2>8 DEF Goes
    <3>2. Tidy(t, y)
      BY <2>6, <3>1 DEF Tidy, Active, Cancelled
    <3>3. Answers(t, y)
      BY <2>1, <2>6, <3>1 DEF Answers, Shown, Told
    <3> QED BY <2>5, <3>2, <3>3
  <2> QED BY <2>4, <2>7, <2>8
<1> QED BY <1>2, <1>6, <1>7, <1>8, <1>9, <1>10, <1>11

\* What a step of one task leaves of the order.
LEMMA TidyStep ==
  ASSUME Base, Base', Orderly, NEW t \in Tasks, NEW y, Step(t, y), Tidy(t, y)
  PROVE  Orderly' /\ Loose' \subseteq Loose /\ AsTold
<1>1. task'[t] = y /\ \A u \in Tasks \ {t} : task'[u] = task[u]
  BY DEF Base, TypeInv, Step
<1>2. GoOnly
  <2>1. \A u \in Tasks : Goes(task[u], task[u])
    BY DEF Goes
  <2> QED BY <1>1, <2>1 DEF GoOnly, Tidy
<1>3. Own' \subseteq Own
  BY <1>1 DEF Own, Tidy
<1>4. Doomed' \subseteq Doomed
  BY <1>2, <1>3, DoomedShrinks
<1>5. Ordered' /\ OfOneRun'
  BY <1>2, GoingOrder DEF Orderly
<1>6. Sober'
  <2>1. Doomed \subseteq Tasks
    BY DoomedAreTasks
  <2> QED BY <1>1, <1>4, <2>1 DEF Sober, Orderly, Tidy
<1>7. Calm'
  BY <1>1 DEF Calm, Orderly, Tidy
<1>8. Loose' \subseteq Loose \cup {}
  <2>1. \A k \in Kids : k \in Tasks
    BY DEF Tasks
  <2>2. \A k \in Kids : task'[k].deserted /\ task'[k].at # "done" => task[k].deserted
    BY <1>1, <2>1 DEF Tidy
  <2> QED BY <1>2, <1>4, <2>2, LooseGrows
<1>9. AsTold
  BY <1>1, <1>2 DEF AsTold, Tidy
<1> QED BY <1>5, <1>6, <1>7, <1>8, <1>9 DEF Orderly

\* A fan-out: its tasks come after the one that starts them.
LEMMA SpawnTidily ==
  ASSUME Base, Base', Care, Orderly, NEW t \in Tasks, task[t].at = "next",
         NEW items, NEW new, Spawned(t, items, new)
  PROVE  /\ Orderly' /\ Loose' \subseteq Loose
         /\ task'[t].at = "kids" /\ task'[t].run = task[t].run /\ task'[t].cancel = task[t].cancel
         /\ \A u \in Tasks \ {t} : task'[u] = task[u] \/ (u \in Kids /\ task'[u].at = "begin")
         /\ \A k \in Kids : WaitsFor(t, k)' => task'[k].at = "begin"
<1> DEFINE x == task[t]
<1>1. /\ TypeInv /\ x \in Records /\ x.frames # <<>> /\ Last(x) \in Frames
      /\ t \notin Doomed
  BY Facts, LastFrame DEF Orderly, Sober, Active, Cancelled
<1>2. /\ new \subseteq Kids /\ new \subseteq Tasks /\ t \notin new /\ x.arg \in Args
      /\ \A k \in new, u \in Tasks : task[k].at = "done" /\ ~ WaitsFor(u, k)
  BY <1>1, AwaitedIs DEF Spawned, FreeKids, Records, Tasks
<1>3. task'[t].at = "kids" /\ Last(task'[t]).kids = new /\ task'[t].cancel = x.cancel
      /\ task'[t].deserted = x.deserted /\ task'[t].run = x.run
  <2> DEFINE f == [Last(x) EXCEPT !.kids = new]
  <2>1. f \in Frames /\ f.kids = new
    BY <1>1, <1>2 DEF Frames
  <2>2. task'[t] = Tops(x, "kids", x.arg, f)
    BY DEF Spawned
  <2> HIDE DEF f
  <2>3. "kids" \in Ats
    BY DEF Ats
  <2>4. LET y == Tops(x, "kids", x.arg, f) IN
          y.at = "kids" /\ Last(y) = f /\ y.cancel = x.cancel /\ y.deserted = x.deserted /\ y.run = x.run
    BY <1>1, <1>2, <2>1, <2>3, TopsType
  <2> QED BY <2>1, <2>2, <2>4
<1>4. \A k \in new : /\ ~ task'[k].cancel /\ ~ task'[k].deserted
                     /\ task'[k].at = "begin" /\ task'[k].run = x.run
  <2> TAKE k \in new
  <2>1. PICK i \in DOMAIN items : task'[k] = Fresh("begin", items[i], x.ctx, x.run)
    BY DEF Spawned
  <2> QED BY <2>1 DEF Fresh
<1>5. \A u \in Tasks \ (new \cup {t}) : task'[u] = task[u]
  BY DEF Spawned
<1>6. \A u \in Tasks, k \in Kids :
        WaitsFor(u, k)' => \/ u = t /\ k \in new
                           \/ WaitsFor(u, k) /\ u \notin new \cup {t} /\ k \notin new
  <2> SUFFICES ASSUME NEW u \in Tasks, NEW k \in Kids, WaitsFor(u, k)', ~ (u = t /\ k \in new)
               PROVE  WaitsFor(u, k) /\ u \notin new \cup {t} /\ k \notin new
    OBVIOUS
  <2>1. u # t
    BY <1>3 DEF WaitsFor
  <2>2. u \notin new
    BY <1>4 DEF WaitsFor
  <2>3. WaitsFor(u, k)
    BY <1>5, <2>1, <2>2 DEF WaitsFor
  <2> QED BY <1>2, <2>1, <2>2, <2>3
<1>7. Ordered'
  <2>1. PICK rank \in [Tasks -> Nat] : \A u \in Tasks, k \in Kids : WaitsFor(u, k) => rank[u] < rank[k]
    BY DEF Orderly, Ordered
  <2> DEFINE next == [u \in Tasks |-> IF u \in new THEN rank[t] + 1 ELSE rank[u]]
  <2>2. next \in [Tasks -> Nat]
    OBVIOUS
  <2>3. \A k \in Kids : k \in Tasks
    BY DEF Tasks
  <2>4. rank[t] \in Nat /\ rank[t] < rank[t] + 1
    OBVIOUS
  <2>5. \A u \in Tasks, k \in Kids : WaitsFor(u, k)' => next[u] < next[k]
    <3> SUFFICES ASSUME NEW u \in Tasks, NEW k \in Kids, WaitsFor(u, k)' PROVE next[u] < next[k]
      OBVIOUS
    <3>1. CASE u = t /\ k \in new
      BY <1>2, <2>3, <2>4, <3>1
    <3>2. CASE WaitsFor(u, k) /\ u \notin new \cup {t} /\ k \notin new
      BY <2>1, <2>3, <3>2
    <3> QED BY <1>6, <3>1, <3>2
  <2> HIDE DEF next
  <2> QED BY <2>2, <2>5 DEF Ordered
<1>8. OfOneRun'
  <2> SUFFICES ASSUME NEW u \in Tasks, NEW k \in Kids, WaitsFor(u, k)', task'[k].at # "done"
               PROVE  task'[k].run = task'[u].run
    BY DEF OfOneRun
  <2>1. CASE u = t /\ k \in new
    BY <1>3, <1>4, <2>1
  <2>2. CASE WaitsFor(u, k) /\ u \notin new \cup {t} /\ k \notin new
    <3>1. k \in Tasks /\ task'[u] = task[u]
      BY <1>5, <2>2 DEF Tasks
    <3>2. task'[k].at = "done" \/ (task'[k].run = task[k].run /\ task[k].at # "done")
      <4>1. CASE k = t
        BY <1>3, <4>1
      <4>2. CASE k # t
        BY <1>5, <2>2, <3>1, <4>2
      <4> QED BY <4>1, <4>2
    <3> QED BY <2>2, <3>1, <3>2 DEF Orderly, OfOneRun
  <2> QED BY <1>6, <2>1, <2>2
<1>9. Doomed' \subseteq Doomed
  <2>1. Own' \subseteq Own
    BY <1>2, <1>3, <1>4, <1>5 DEF Own
  <2>2. \A u \in Doomed : Gathers(u)' => Top(u)'.kids \subseteq Doomed
    <3> SUFFICES ASSUME NEW u \in Doomed, Gathers(u)' PROVE Top(u)'.kids \subseteq Doomed
      OBVIOUS
    <3>1. u \in Tasks /\ u # t
      BY <1>1, DoomedAreTasks
    <3>2. u \notin new
      BY <1>4 DEF Gathers, Waiting
    <3>3. Gathers(u) /\ Top(u)' = Top(u)
      BY <1>5, <3>1, <3>2 DEF Gathers, Waiting, Top
    <3> QED BY <3>3, DoomedClosed
  <2> QED BY <2>1, <2>2, WhyDoomed, DoomedInside
<1>10. \A u \in Doomed' : u \in Tasks /\ u # t /\ (u \in new \/ task'[u] = task[u])
  BY <1>1, <1>5, <1>9, DoomedAreTasks
<1>11. Sober'
  <2> SUFFICES ASSUME NEW u \in Doomed', task'[u].at \in Active PROVE Cancelled(task'[u])
    BY DEF Sober
  <2>1. u \notin new
    BY <1>4 DEF Active
  <2> QED BY <1>9, <1>10, <2>1 DEF Orderly, Sober
<1>12. Calm'
  BY <1>3, <1>4, <1>5 DEF Calm, Orderly
<1>13. Loose' \subseteq Loose
  <2>1. ASSUME NEW k \in Kids, task'[k].deserted, task'[k].at # "done" PROVE task'[k].run \in Loose
    <3>1. k \in Tasks /\ k \notin new
      BY <1>4, <2>1 DEF Tasks
    <3>2. task[k].deserted /\ task[k].at # "done" /\ task'[k].run = task[k].run
      BY <1>3, <1>5, <2>1, <3>1
    <3> QED BY <3>2 DEF Loose
  <2>2. ASSUME NEW u \in Doomed', Races(u)' PROVE task'[u].run \in Loose
    <3>1. u \notin new
      BY <1>4, <2>2 DEF Races, Waiting
    <3>2. Races(u) /\ task'[u] = task[u] /\ u \in Doomed
      BY <1>9, <1>10, <2>2, <3>1 DEF Races, Gathers, Waiting, Top
    <3> QED BY <3>2 DEF Loose
  <2>3. ASSUME NEW n \in Loose' PROVE n \in Loose
    <3>1. \/ \E k \in Kids : task'[k].deserted /\ task'[k].at # "done" /\ n = task'[k].run
          \/ \E u \in Doomed' : Races(u)' /\ n = task'[u].run
      BY DEF Loose
    <3> QED BY <2>1, <2>2, <3>1
  <2> QED BY <2>3
<1>14. ASSUME NEW u \in Tasks \ {t} PROVE task'[u] = task[u] \/ (u \in Kids /\ task'[u].at = "begin")
  BY <1>2, <1>4, <1>5
<1>15. \A k \in Kids : WaitsFor(t, k)' => task'[k].at = "begin"
  BY <1>3, <1>4 DEF WaitsFor
<1> QED BY <1>3, <1>7, <1>8, <1>11, <1>12, <1>13, <1>14, <1>15 DEF Orderly

\* Nobody moves but the one whose race is over.
LEMMA RaceGoes ==
  ASSUME Base, Base', Orderly, NEW t \in Tasks, task[t].at = "kids", current = None,
         task'[t].at \in {"next", "back"}, task'[t].run = task[t].run,
         \A u \in Tasks \ {t} :
           task'[u] \in {task[u], Alone(task[u])} \/ (u \in Kids /\ task'[u] = Cut(task[u])),
         ~ (t \in Doomed' /\ task'[t].at = "next"),
         task'[t].at = "back" => task'[t].arg = "cancelled"
  PROVE  /\ GoOnly /\ Sober' /\ Calm'
         /\ \A u \in Tasks \ {t} :
              /\ task'[u].at = task[u].at /\ task'[u].run = task[u].run
              /\ task'[u].arg = task[u].arg
<1>1. ASSUME NEW u \in Tasks \ {t}
      PROVE  /\ task'[u].at = task[u].at /\ task'[u].run = task[u].run /\ Last(task'[u]) = Last(task[u])
             /\ task'[u].arg = task[u].arg
             /\ task[u].at = "idle" => task'[u].cancel = task[u].cancel
  <2>1. task[u] \in Records /\ (u \in Kids => task[u].at # "idle")
    BY Facts DEF Scoped
  <2> QED BY <2>1 DEF Cut, Alone, Records, Last
<1>2. GoOnly
  BY <1>1 DEF GoOnly, Goes
<1>3. Calm'
  BY <1>1 DEF Calm, Orderly
<1>4. \A u \in Tasks : task[u].at \notin Active
  BY Apart DEF Base
<1>5. Sober'
  <2> SUFFICES ASSUME NEW u \in Doomed', task'[u].at \in Active, u \in Tasks PROVE Cancelled(task'[u])
    <3>1. (Base => Doomed \subseteq Tasks)'
      BY DoomedAreTasks, PTL
    <3> QED BY <3>1 DEF Sober
  <2>1. u = t
    BY <1>1, <1>4
  <2> QED BY <2>1 DEF Cancelled, Active
<1> QED BY <1>1, <1>2, <1>3, <1>5

\* The losers of a race are of the winner's execution, and so is everybody who is
\* cancelled with them.
LEMMA WonTidily ==
  ASSUME Base, Base', Care, Orderly, NEW t \in Tasks, NEW j \in Kids, Won(t, j)
  PROVE  /\ Orderly' /\ Loose' \subseteq Loose \cup {task[t].run} /\ AsTold /\ t \notin Doomed
         /\ task[t].at = "kids" /\ task'[t].at = "next"
         /\ task'[t].run = task[t].run /\ task'[t].cancel = task[t].cancel
         /\ \A u \in Tasks \ {t} :
              task'[u] = task[u] \/ (u \in Kids /\ task'[u].at = task[u].at /\ task'[u].run = task[u].run)
<1> DEFINE x == task[t]  f == Last(x)  g == [f EXCEPT !.pos = @ + 1, !.good = 1, !.kids = {}]
<1>1. x.at = "kids" /\ t \notin Doomed /\ current = None
  BY DEF Won, Races, Waiting
<1>2. TypeInv /\ x \in Records /\ x.frames # <<>> /\ f \in Frames /\ f.kids \subseteq Kids
  BY <1>1, Facts, LastFrame DEF Frames
<1>3. /\ task'[t] = Tops(x, "next", x.arg, g)
      /\ \A u \in Tasks \ {t} :
           task'[u] = IF u \in f.kids /\ task[u].at # "done" THEN Cut(task[u]) ELSE task[u]
  BY <1>2, RaceEffects
<1> HIDE DEF g
<1>4. task'[t].at = "next" /\ task'[t].cancel = x.cancel /\ task'[t].run = x.run /\ task'[t].deserted = x.deserted
  BY <1>2, <1>3 DEF Tops, Records
<1>5. PICK rank \in [Tasks -> Nat] : \A u \in Tasks, k \in Kids : WaitsFor(u, k) => rank[u] < rank[k]
  BY DEF Orderly, Ordered
<1>6. ASSUME NEW u \in Tasks \ {t}
      PROVE  /\ task'[u] = task[u] \/ (u \in Kids /\ task'[u] = Cut(task[u]))
             /\ task'[u].deserted = task[u].deserted
             /\ task'[u].at = task[u].at /\ Last(task'[u]) = Last(task[u]) /\ task'[u].run = task[u].run
             /\ task'[u].cancel =>
                  task[u].cancel \/ (task[u].run = x.run /\ rank[t] < rank[u])
  <2>1. task[u] \in Records
    BY Facts
  <2>2. CASE u \in f.kids /\ task[u].at # "done"
    <3>1. u \in Kids /\ WaitsFor(t, u) /\ task'[u] = Cut(task[u])
      BY <1>1, <1>2, <1>3, <2>2 DEF WaitsFor
    <3>2. task[u].run = x.run /\ rank[t] < rank[u]
      BY <1>5, <2>2, <3>1 DEF Orderly, OfOneRun
    <3> QED BY <2>1, <3>1, <3>2 DEF Cut, Records, Last
  <2>3. CASE ~ (u \in f.kids /\ task[u].at # "done")
    BY <1>3, <2>3
  <2> QED BY <2>2, <2>3
<1>7. GoOnly
  <2>1. Goes(task[t], task'[t])
    BY <1>1, <1>4 DEF Goes
  <2>2. ASSUME NEW u \in Tasks \ {t} PROVE Goes(task[u], task'[u])
    <3>1. task'[u].at = task[u].at /\ Last(task'[u]) = Last(task[u]) /\ task'[u].run = task[u].run
      BY <1>6
    <3> QED BY <3>1 DEF Goes
  <2> QED BY <2>1, <2>2 DEF GoOnly
<1>8. \A u \in Own' : u \in Tasks /\ (u \in Own \/ (task[u].run = x.run /\ rank[t] < rank[u]))
  BY <1>4, <1>6 DEF Own
<1>9. t \notin Doomed'
  <2>1. \A u \in Own' : u \in Own \/ rank[t] < rank[u]
    BY <1>8
  <2> QED BY <1>1, <1>5, <1>7, <2>1, DoomedBelow
<1>10. \A u \in Doomed' : u \in Doomed \/ task[u].at = "done" \/ task[u].run \in {x.run}
  <2> DEFINE R == {x.run}
  <2>1. \A u \in Own' : u \in Own \/ task[u].run \in R
    BY <1>8
  <2> HIDE DEF R
  <2>2. \A u \in Doomed' : u \in Doomed \/ task[u].at = "done" \/ task[u].run \in R
    BY <1>7, <2>1, DoomedGrows DEF Orderly
  <2> QED BY <2>2 DEF R
<1>11. Loose' \subseteq Loose \cup {x.run}
  <2>1. \A k \in Kids : k \in Tasks
    BY DEF Tasks
  <2>2. \A k \in Kids : task'[k].deserted /\ task'[k].at # "done" =>
          task[k].deserted \/ task[k].run \in {x.run}
    BY <1>4, <1>6, <2>1
  <2> QED BY <1>7, <1>10, <2>2, LooseGrows
<1>12. Sober' /\ Calm'
  BY <1>1, <1>4, <1>6, <1>9, RaceGoes
<1>13. Ordered' /\ OfOneRun'
  BY <1>7, GoingOrder DEF Orderly
<1>14. ASSUME NEW u \in Tasks \ {t}
       PROVE  task'[u] = task[u] \/ (u \in Kids /\ task'[u].at = task[u].at /\ task'[u].run = task[u].run)
  BY <1>6
<1>15. AsTold
  <2>1. \A u \in Tasks \ {t} : task'[u].at = task[u].at /\ task'[u].arg = task[u].arg
    BY <1>1, <1>4, <1>6, <1>9, RaceGoes
  <2>2. ~ Cancelled(task'[t])
    BY <1>4 DEF Cancelled
  <2> QED BY <1>7, <2>1, <2>2 DEF AsTold, Cancelled
<1> QED BY <1>1, <1>4, <1>11, <1>12, <1>13, <1>14, <1>15 DEF Orderly

\* Whom a cancelled race leaves behind was counted as such before.
LEMMA DesertsTidily ==
  ASSUME Base, Base', Orderly, NEW t \in Tasks, RaceCancelled(t)
  PROVE  /\ Orderly' /\ Loose' \subseteq Loose /\ AsTold
         /\ Answers(t, task'[t])
         /\ \A u \in Tasks \ {t} :
              task'[u] = task[u] \/ (u \in Kids /\ task'[u].at = task[u].at /\ task'[u].run = task[u].run)
<1> DEFINE x == task[t]  f == Last(x)
<1>1. x.at = "kids" /\ t \in Doomed /\ current = None /\ Races(t)
  BY DEF RaceCancelled, Races, Waiting
<1>2. TypeInv /\ x \in Records /\ x.frames # <<>> /\ f \in Frames /\ f.kids \subseteq Kids
  BY <1>1, Facts, LastFrame DEF Frames
<1>3. /\ task'[t] = Woken(x, "cancelled")
      /\ \A u \in Tasks \ {t} : task'[u] = IF u \in f.kids THEN Alone(task[u]) ELSE task[u]
  BY <1>2, RaceEffects
<1>4. /\ task'[t].at = "back" /\ task'[t].arg = "cancelled" /\ ~ task'[t].cancel
      /\ task'[t].run = x.run /\ task'[t].deserted = x.deserted
  BY <1>2, <1>3 DEF Woken, Records
<1>5. ASSUME NEW u \in Tasks \ {t}
      PROVE  /\ task'[u] \in {task[u], Alone(task[u])}
             /\ task'[u] = task[u] \/ u \in Kids
             /\ task'[u].at = task[u].at /\ task'[u].run = task[u].run
             /\ task'[u].cancel = task[u].cancel
             /\ task'[u].deserted /\ task[u].at # "done" => task[u].deserted \/ task[u].run = x.run
  <2>1. task[u] \in Records
    BY Facts
  <2>2. CASE u \in f.kids
    <3>1. u \in Kids /\ WaitsFor(t, u) /\ task'[u] = Alone(task[u])
      BY <1>1, <1>2, <1>3, <2>2 DEF WaitsFor
    <3>2. task[u].at # "done" => task[u].run = x.run
      BY <3>1 DEF Orderly, OfOneRun
    <3> QED BY <2>1, <3>1, <3>2 DEF Alone, Records
  <2>3. CASE u \notin f.kids
    BY <1>3, <2>3
  <2> QED BY <2>2, <2>3
<1>6. GoOnly /\ Sober' /\ Calm'
  BY <1>1, <1>4, <1>5, RaceGoes
<1>7. Doomed' \subseteq Doomed
  <2>1. Own' \subseteq Own
    BY <1>4, <1>5 DEF Own
  <2> QED BY <1>6, <2>1, DoomedShrinks
<1>8. Loose' \subseteq Loose \cup {x.run}
  <2>1. \A k \in Kids : k \in Tasks
    BY DEF Tasks
  <2>2. \A k \in Kids : task'[k].deserted /\ task'[k].at # "done" =>
          task[k].deserted \/ task[k].run \in {x.run}
    BY <1>4, <1>5, <2>1
  <2> QED BY <1>6, <1>7, <2>2, LooseGrows
<1>9. x.run \in Loose
  BY <1>1 DEF Loose
<1>10. Ordered' /\ OfOneRun'
  BY <1>6, GoingOrder DEF Orderly
<1>11. Answers(t, task'[t])
  BY <1>1, <1>4, GivesUp
<1>12. ASSUME NEW u \in Tasks \ {t}
       PROVE  task'[u] = task[u] \/ (u \in Kids /\ task'[u].at = task[u].at /\ task'[u].run = task[u].run)
  BY <1>5
<1>13. AsTold
  <2>1. \A u \in Tasks \ {t} : task'[u].at = task[u].at /\ task'[u].arg = task[u].arg
    BY <1>1, <1>4, <1>5, RaceGoes
  <2> QED BY <1>1, <1>6, <2>1 DEF AsTold, Cancelled
<1> QED BY <1>6, <1>8, <1>9, <1>10, <1>11, <1>12, <1>13 DEF Orderly

\* The program cancels a task of its own, and with it tasks of that execution.
LEMMA CancelTidily ==
  ASSUME Base, Base', Orderly, NEW t \in Tasks, CancelRoot(t)
  PROVE  /\ Orderly' /\ Loose' \subseteq Loose \cup {task[t].run}
         /\ Step(t, Cut(task[t])) /\ AsTold
<1> DEFINE x == task[t]
<1>1. TypeInv /\ x \in Records /\ Step(t, Cut(x)) /\ x.at \in {"hop", "kids"} /\ current = None
  BY Facts, EventEffects DEF CancelRoot
<1>2. /\ task'[t].at = x.at /\ task'[t].run = x.run /\ Last(task'[t]) = Last(x)
      /\ task'[t].deserted = x.deserted
      /\ \A u \in Tasks \ {t} : task'[u] = task[u]
  BY <1>1 DEF Step, TypeInv, Cut, Records, Last
<1>3. GoOnly
  BY <1>1, <1>2 DEF GoOnly, Goes
<1>4. \A u \in Doomed' : u \in Doomed \/ task[u].at = "done" \/ task[u].run \in {x.run}
  <2> DEFINE R == {x.run}
  <2>1. \A u \in Own' : u \in Own \/ task[u].run \in R
    BY <1>2 DEF Own
  <2> HIDE DEF R
  <2>2. \A u \in Doomed' : u \in Doomed \/ task[u].at = "done" \/ task[u].run \in R
    BY <1>3, <2>1, DoomedGrows DEF Orderly
  <2> QED BY <2>2 DEF R
<1>5. Loose' \subseteq Loose \cup {x.run}
  <2>1. \A k \in Kids : k \in Tasks
    BY DEF Tasks
  <2>2. \A k \in Kids : task'[k].deserted /\ task'[k].at # "done" =>
          task[k].deserted \/ task[k].run \in {x.run}
    BY <1>2, <2>1
  <2> QED BY <1>3, <1>4, <2>2, LooseGrows
<1>6. Ordered' /\ OfOneRun'
  BY <1>3, GoingOrder DEF Orderly
<1>7. \A u \in Tasks : task'[u].at \notin Active
  BY <1>1, <1>2, Apart DEF Base, Active
<1>8. Sober'
  <2>1. (Base => Doomed \subseteq Tasks)'
    BY DoomedAreTasks, PTL
  <2> QED BY <1>7, <2>1 DEF Sober
<1>9. Calm'
  BY <1>1, <1>2 DEF Calm, Orderly
<1>10. AsTold
  <2>1. ~ Cancelled(task'[t])
    BY <1>1, <1>2 DEF Cancelled
  <2> QED BY <1>2, <1>3, <2>1 DEF AsTold
<1> QED BY <1>1, <1>5, <1>6, <1>8, <1>9, <1>10 DEF Orderly

\* The steps of a root that the program sees, and a call.
LEMMA RootTidily ==
  ASSUME Base, Orderly, NEW t \in Tasks,
         CallHop(t) \/ (t \in Roots /\ Finish(t)) \/ (t \in Roots /\ \E item \in Programs : Start(t, item))
  PROVE  \E y : Step(t, y) /\ Tidy(t, y)
<1> DEFINE x == task[t]
<1>1. TypeInv /\ x \in Records
  BY Facts
<1>2. CASE CallHop(t)
  <2> DEFINE y == Sets(x, "hop", None)
  <2>1. y.at = "hop" /\ y.run = x.run /\ y.cancel = x.cancel /\ y.deserted = x.deserted
    BY <1>1 DEF Sets, Records
  <2>2. Step(t, y) /\ x.at = "call"
    BY <1>1, <1>2, CallEffects DEF CallHop, Running
  <2> HIDE DEF y
  <2>3. Tidy(t, y)
    BY <2>1, <2>2 DEF Tidy, Goes, Active, Cancelled
  <2> QED BY <2>2, <2>3
<1>3. CASE t \in Roots /\ Finish(t)
  <2> DEFINE y == Rested(x)
  <2>1. y.at = "idle" /\ ~ y.cancel /\ y.deserted = x.deserted
    BY <1>1 DEF Rested, Records
  <2>2. Step(t, y) /\ x.at = "back"
    BY <1>1, <1>3, EventEffects DEF Finish, Running
  <2> HIDE DEF y
  <2>3. Tidy(t, y)
    BY <2>1, <2>2 DEF Tidy, Goes, Active, Cancelled
  <2> QED BY <2>2, <2>3
<1>4. ASSUME NEW item \in Programs, t \in Roots, Start(t, item) PROVE \E y : Step(t, y) /\ Tidy(t, y)
  <2> DEFINE y == Called(x, item, runs + 1)
  <2>1. y.at = "call" /\ y.cancel = x.cancel /\ y.deserted = x.deserted
    BY <1>1 DEF Called, Records
  <2>2. Step(t, y) /\ x.at = "idle"
    BY <1>1, <1>4, EventEffects DEF Start
  <2> HIDE DEF y
  <2>3. t \notin Doomed
    BY <1>4, <2>2, RootDoomed DEF Orderly, Calm
  <2>4. Tidy(t, y)
    BY <2>1, <2>2, <2>3 DEF Tidy, Goes, Active, Cancelled
  <2> QED BY <2>2, <2>4
<1> QED BY <1>2, <1>3, <1>4

\* Nobody is cancelled or waited for at first, ...
LEMMA OrderlyInit == Init => Orderly
<1> SUFFICES ASSUME Init PROVE Orderly
  OBVIOUS
<1>1. \A t \in Tasks : task[t].at \in {"idle", "done"} /\ ~ task[t].cancel
  BY DEF Init, Fresh
<1>2. Base
  BY BaseInit
<1>3. Ordered
  <2> DEFINE rank == [t \in Tasks |-> 0]
  <2>1. rank \in [Tasks -> Nat]
    OBVIOUS
  <2>2. \A t \in Tasks, k \in Kids : ~ WaitsFor(t, k)
    BY <1>1 DEF WaitsFor
  <2> HIDE DEF rank
  <2> QED BY <2>1, <2>2 DEF Ordered
<1>4. OfOneRun
  BY <1>1 DEF OfOneRun, WaitsFor
<1>5. Sober
  BY <1>1, <1>2, DoomedAreTasks DEF Sober, Active
<1> QED BY <1>1, <1>3, <1>4, <1>5 DEF Orderly, Calm

\* ... and no step brings the order into disorder.
LEMMA OrderlyStep == Base /\ Care /\ Rightly /\ Orderly /\ [Next]_vars => Orderly'
<1> SUFFICES ASSUME Base, Care, Rightly, Orderly, [Next]_vars PROVE Orderly'
  OBVIOUS
<1>b. Base'
  BY BaseStep
<1>1. CASE UNCHANGED vars
  <2>1. task' = task
    BY <1>1 DEF vars
  <2>2. GoOnly /\ Own' \subseteq Own
    BY <2>1 DEF GoOnly, Goes, Own
  <2>3. Doomed' \subseteq Doomed
    BY <2>2, DoomedShrinks
  <2> QED BY <1>b, <2>1, <2>2, <2>3, GoingOrder DEF Orderly, Sober, Calm
<1>2. \A k \in Kids : k \in Tasks
  BY DEF Tasks
<1>3. \A r \in Roots : r \in Tasks
  BY DEF Tasks
<1>4. ASSUME NEW t \in Tasks, CallHop(t) \/ Enter(t) \/ Proceed(t) \/ Back(t) \/ Finish(t) PROVE Orderly'
  <2>1. t \in Roots \/ t \in Kids
    BY DEF Tasks
  <2> QED BY <1>b, <1>4, <2>1, TidyStep, SpawnTidily, RunsTidily, WakesTidily, RootTidily
<1>5. ASSUME NEW t \in Tasks, HopCancelled(t) \/ GatherEnds(t) \/ HandlerEnds(t) PROVE Orderly'
  BY <1>b, <1>5, TidyStep, WakesTidily DEF HandlerEnds
<1>6. ASSUME NEW t \in Tasks, NEW k \in Kids, Won(t, k) \/ Lost(t, k) PROVE Orderly'
  BY <1>b, <1>6, TidyStep, WakesTidily, WonTidily
<1>7. ASSUME NEW t \in Tasks, RaceCancelled(t) \/ CancelRoot(t) PROVE Orderly'
  BY <1>b, <1>7, DesertsTidily, CancelTidily
<1>8. ASSUME NEW t \in Kids, Begin(t) PROVE Orderly'
  BY <1>b, <1>2, <1>8, TidyStep, WakesTidily
<1>9. ASSUME NEW t \in Roots, NEW item \in Programs, Start(t, item) PROVE Orderly'
  BY <1>b, <1>3, <1>9, TidyStep, RootTidily
<1> QED BY <1>1, <1>2, <1>3, <1>4, <1>5, <1>6, <1>7, <1>8, <1>9 DEF Next, Progress, TaskStep

-----------------------------------------------------------------------------
(* The contract.                                                           *)

\* The executions the program waits for, ...
Busy == {task[r].run : r \in {c \in Roots : Shown(task[c]) = "busy"}}

\* ... and those with a message out.
HopRuns == {task[u].run : u \in {v \in Tasks : task[v].at = "hop"}}

\* Whoever calls or waits and is not cancelled does it for an execution that goes on, or
\* that has left it behind: the first for whom it were not so would have nobody who waits.
LEMMA WorkIsWanted ==
  ASSUME Base, Care, Orderly, NEW t \in Tasks, task[t].at \in {"call", "kids"}, t \notin Doomed
  PROVE  task[t].run \in Busy \cup Loose
<1> DEFINE Stray(u) == /\ u \in Tasks /\ task[u].at \in {"call", "kids"} /\ u \notin Doomed
                       /\ task[u].run \notin Busy \cup Loose
<1>1. PICK rank \in [Tasks -> Nat] : \A u \in Tasks, k \in Kids : WaitsFor(u, k) => rank[u] < rank[k]
  BY DEF Orderly, Ordered
<1> DEFINE T == {rank[u] : u \in {v \in Tasks : Stray(v)}}
<1>2. SUFFICES ASSUME Stray(t) PROVE FALSE
  OBVIOUS
<1>3. T \in SUBSET Nat /\ T # {}
  BY <1>2
<1>4. PICK n \in T : \A m \in T : n <= m
  <2> HIDE DEF T
  <2> QED BY <1>3, LeastNatural
<1>5. PICK k \in Tasks : Stray(k) /\ n = rank[k]
  OBVIOUS
<1>6. k \notin Roots
  BY <1>5 DEF Busy, Shown
<1>7. k \in Kids /\ ~ task[k].deserted /\ ~ task[k].cancel
  BY <1>5, <1>6, WhyDoomed DEF Tasks, Loose, Own
<1>8. PICK u \in Tasks : WaitsFor(u, k)
  BY <1>5, <1>7 DEF Care, Underway
<1>9. task[u].run = task[k].run /\ task[u].at = "kids" /\ rank[u] < rank[k]
  BY <1>1, <1>5, <1>7, <1>8 DEF Orderly, OfOneRun, WaitsFor
<1>10. u \notin Doomed
  <2>1. CASE Gathers(u)
    BY <1>5, <1>8, <2>1, DoomedClosed DEF WaitsFor, Top, Last
  <2>2. CASE ~ Gathers(u)
    <3>1. Races(u)
      BY <1>9, <2>2 DEF Races, Waiting
    <3> QED BY <1>5, <1>9, <3>1 DEF Loose
  <2> QED BY <2>1, <2>2
<1>11. Stray(u)
  BY <1>5, <1>9, <1>10
<1>12. rank[u] \in T /\ rank[u] \in Nat /\ rank[k] \in Nat
  BY <1>11
<1> QED BY <1>4, <1>5, <1>9, <1>12

\* What the contract is about, in these terms.
LEMMA ContractView ==
  /\ Contract!Working = Busy \cup Loose
  /\ \A r \in Roots : Status(r) = Shown(task[r])
  /\ \A r \in Roots : Asked(r) <=> Told(task[r])
<1>1. \A r \in Roots : Status(r) = Shown(task[r])
  BY DEF Status, Answered, Shown
<1>2. \A r \in Roots : Asked(r) <=> Told(task[r])
  BY DEF Asked, Told
<1>3. Contract!Working = Busy \cup Loose
  BY <1>1 DEF Contract!Working, Contract!AtWork, Busy
<1> QED BY <1>1, <1>2, <1>3

\* A step in which only one task, and tasks of fan-outs, move: nothing, or an answer.
LEMMA QuietStep ==
  ASSUME NEW t \in Tasks, \A r \in Roots \ {t} : task'[r] = task[r],
         Answers(t, task'[t]), UNCHANGED <<runs, hops>>,
         Loose' \subseteq Loose, HopRuns' \subseteq HopRuns
  PROVE  Contract!ContractNext
<1> DEFINE x == task[t]  y == task'[t]
<1>1. \A r \in Roots : /\ Status(r) = Shown(task[r]) /\ Status(r)' = Shown(task'[r])
                       /\ Asked(r) <=> Told(task[r])
                       /\ Asked(r)' <=> Told(task'[r])
  BY DEF Status, Answered, Shown, Asked, Told
<1>2. {r \in Roots : Asked(r)}' = {r \in Roots : Asked(r)}
  <2>1. \A r \in Roots : Asked(r)' <=> Asked(r)
    BY <1>1 DEF Answers
  <2> QED BY <2>1
<1>3. [r \in Roots |-> task'[r].run] = [r \in Roots |-> task[r].run]
  BY DEF Answers
<1>4. \A r \in Roots \ {t} : Status(r)' = Status(r)
  BY <1>1
<1>5. CASE t \in Roots /\ Shown(y) # "busy"
  <2>1. PICK outcome \in {"value", "error", "cancelled"} :
          outcome = Shown(y) /\ Shown(x) = "busy" /\ (outcome = "cancelled" <=> Told(x))
    BY <1>5 DEF Answers, Outcomes
  <2>2. [r \in Roots |-> Status(r)'] = [[r \in Roots |-> Status(r)] EXCEPT ![t] = outcome]
    BY <1>1, <1>4, <1>5, <2>1
  <2>3. Contract!Answer(t, outcome)
    BY <1>1, <1>2, <1>3, <1>5, <2>1, <2>2
    DEF Contract!Answer, Contract!LooseEnds, Contract!AnswersCome, HopRuns
  <2> QED BY <1>5, <2>1, <2>3 DEF Contract!ContractNext
<1>6. CASE ~ (t \in Roots /\ Shown(y) # "busy")
  <2>1. \A r \in Roots : Status(r)' = Status(r)
    BY <1>1, <1>4, <1>6 DEF Answers
  <2>2. Contract!LooseEnds /\ Contract!AnswersCome
    BY DEF Contract!LooseEnds, Contract!AnswersCome, HopRuns
  <2>3. [r \in Roots |-> Status(r)'] = [r \in Roots |-> Status(r)]
    BY <2>1
  <2> QED BY <1>2, <1>3, <2>2, <2>3 DEF Contract!ContractNext
<1> QED BY <1>5, <1>6

\* What does not begin to wait for an answer.
LEMMA HopsFew ==
  ASSUME NEW t \in Tasks, task'[t].at # "hop",
         \A u \in Tasks \ {t} :
           \/ task'[u].at = "begin"
           \/ task'[u].at = task[u].at /\ task'[u].run = task[u].run
  PROVE  HopRuns' \subseteq HopRuns
BY DEF HopRuns

\* What a root that moves looks like then, with all others as they were.
LEMMA OneRoot ==
  ASSUME NEW t \in Roots, \A r \in Roots \ {t} : task'[r] = task[r]
  PROVE  /\ [r \in Roots |-> Status(r)]' = [[r \in Roots |-> Status(r)] EXCEPT ![t] = Shown(task'[t])]
         /\ [r \in Roots |-> task[r].run]' = [[r \in Roots |-> task[r].run] EXCEPT ![t] = task'[t].run]
         /\ Told(task'[t]) => {r \in Roots : Asked(r)}' = {r \in Roots : Asked(r)} \cup {t}
         /\ ~ Told(task'[t]) => {r \in Roots : Asked(r)}' = {r \in Roots : Asked(r)} \ {t}
         /\ Status(t) = Shown(task[t]) /\ (Asked(t) <=> Told(task[t]))
<1>1. \A r \in Roots : /\ Status(r) = Shown(task[r]) /\ Status(r)' = Shown(task'[r])
                       /\ Asked(r) <=> Told(task[r])
                       /\ Asked(r)' <=> Told(task'[r])
  BY DEF Status, Answered, Shown, Asked, Told
<1>2. [r \in Roots |-> Status(r)]' = [[r \in Roots |-> Status(r)] EXCEPT ![t] = Shown(task'[t])]
  <2>1. \A r \in Roots : Status(r)' = IF r = t THEN Shown(task'[t]) ELSE Status(r)
    BY <1>1
  <2> QED BY <2>1
<1>3. [r \in Roots |-> task[r].run]' = [[r \in Roots |-> task[r].run] EXCEPT ![t] = task'[t].run]
  OBVIOUS
<1>4. \A r \in Roots : Asked(r)' <=> IF r = t THEN Told(task'[t]) ELSE Asked(r)
  BY <1>1
<1> QED BY <1>1, <1>2, <1>3, <1>4

\* Tasks that are none of the program's move: its executions look the same.
LEMMA NoRoot ==
  ASSUME \A r \in Roots : Shown(task'[r]) = Shown(task[r]) /\ task'[r].run = task[r].run
                          /\ (Told(task'[r]) <=> Told(task[r]))
  PROVE  /\ [r \in Roots |-> Status(r)]' = [r \in Roots |-> Status(r)]
         /\ [r \in Roots |-> task[r].run]' = [r \in Roots |-> task[r].run]
         /\ {r \in Roots : Asked(r)}' = {r \in Roots : Asked(r)}
<1>1. \A r \in Roots : /\ Status(r) = Shown(task[r]) /\ Status(r)' = Shown(task'[r])
                       /\ Asked(r) <=> Told(task[r])
                       /\ Asked(r)' <=> Told(task'[r])
  BY DEF Status, Answered, Shown, Asked, Told
<1>2. \A r \in Roots : Status(r)' = Status(r) /\ (Asked(r)' <=> Asked(r))
  BY <1>1
<1> QED BY <1>2

\* Most steps of a task send nothing and leave the program's other tasks alone.
LEMMA TidyIsQuiet ==
  ASSUME Base, Base', Orderly, NEW t \in Tasks, NEW y,
         Step(t, y), Tidy(t, y), Answers(t, y), UNCHANGED <<runs, hops>>
  PROVE  Contract!ContractNext
<1>1. Loose' \subseteq Loose
  BY TidyStep
<1>2. task'[t] = y /\ \A u \in Tasks \ {t} : task'[u] = task[u]
  BY Facts DEF Step, TypeInv
<1>3. \A r \in Roots \ {t} : task'[r] = task[r]
  BY <1>2 DEF Tasks
<1>4. HopRuns' \subseteq HopRuns
  BY <1>2, HopsFew DEF Answers
<1> QED BY <1>1, <1>2, <1>3, <1>4, QuietStep

\* A fan-out that begins, ...
LEMMA SpawnIsQuiet ==
  ASSUME Base, Base', Care, Orderly, NEW t \in Tasks, task[t].at = "next",
         NEW items, NEW new, Spawned(t, items, new), UNCHANGED <<runs, hops>>
  PROVE  Contract!ContractNext
<1>1. /\ Loose' \subseteq Loose
      /\ task'[t].at = "kids" /\ task'[t].run = task[t].run /\ task'[t].cancel = task[t].cancel
      /\ \A u \in Tasks \ {t} : task'[u] = task[u] \/ (u \in Kids /\ task'[u].at = "begin")
  BY SpawnTidily
<1>2. Answers(t, task'[t])
  BY <1>1 DEF Answers, Shown, Told
<1>3. HopRuns' \subseteq HopRuns
  BY <1>1, HopsFew
<1>4. \A r \in Roots \ {t} : task'[r] = task[r]
  BY <1>1, Apart DEF Tasks
<1> QED BY <1>1, <1>2, <1>3, <1>4, QuietStep

\* ... and a race that is given up.
LEMMA DesertsQuietly ==
  ASSUME Base, Base', Orderly, NEW t \in Tasks, RaceCancelled(t)
  PROVE  Contract!ContractNext
<1>1. /\ Loose' \subseteq Loose /\ Answers(t, task'[t])
      /\ \A u \in Tasks \ {t} :
           task'[u] = task[u] \/ (u \in Kids /\ task'[u].at = task[u].at /\ task'[u].run = task[u].run)
  BY DesertsTidily
<1>2. HopRuns' \subseteq HopRuns
  BY <1>1, HopsFew DEF Answers
<1>3. \A r \in Roots \ {t} : task'[r] = task[r]
  BY <1>1, Apart DEF Tasks
<1>4. UNCHANGED <<runs, hops>>
  BY DEF RaceCancelled
<1> QED BY <1>1, <1>2, <1>3, <1>4, QuietStep

\* A message carries the id of an execution for which somebody works.
LEMMA CallSends ==
  ASSUME Base, Base', Care, Orderly, NEW t \in Tasks, CallHop(t)
  PROVE  Contract!ContractNext
<1>n. PICK n : n = task[t].run
  OBVIOUS
<1>1. /\ task[t].at = "call" /\ current = t /\ runs' = runs
      /\ hops' = hops \cup {[run |-> n, id |-> CurrentId(t)]}
  BY <1>n DEF CallHop, Running
<1>2. Step(t, Sets(task[t], "hop", None)) /\ TypeInv /\ task[t] \in Records
  BY CallEffects, Facts
<1>3. /\ task'[t] = Sets(task[t], "hop", None)
      /\ \A u \in Tasks \ {t} : task'[u] = task[u]
  BY <1>2 DEF Step, TypeInv
<1>4. task'[t].at = "hop" /\ task'[t].run = n /\ task'[t].cancel = task[t].cancel
  BY <1>n, <1>2, <1>3 DEF Sets, Records
<1>5. t \notin Doomed
  BY <1>1 DEF Orderly, Sober, Active, Cancelled
<1>6. n \in Contract!Working
  BY <1>n, <1>1, <1>5, WorkIsWanted, ContractView
<1>7. CurrentId(t) = n
  BY <1>n, <1>1, IdOfCall
<1>8. {h.id : h \in hops}' = {h.id : h \in hops} \cup {n}
  <2>1. hops' = hops \cup {[run |-> n, id |-> n]}
    BY <1>1, <1>7
  <2>2. [run |-> n, id |-> n].id = n
    OBVIOUS
  <2>3. \A m : m \in {h.id : h \in hops'} <=> m \in {h.id : h \in hops} \/ m = n
    BY <2>1, <2>2
  <2> QED BY <2>3
<1>9. HopRuns' = HopRuns \cup {n}
  BY <1>1, <1>3, <1>4 DEF HopRuns
<1>10. Loose' \subseteq Loose
  <2>1. \E y : Step(t, y) /\ Tidy(t, y)
    BY RootTidily
  <2> QED BY <2>1, TidyStep
<1>11. \A r \in Roots : Shown(task'[r]) = Shown(task[r]) /\ task'[r].run = task[r].run
                        /\ (Told(task'[r]) <=> Told(task[r]))
  <2>1. Shown(task'[t]) = Shown(task[t]) /\ task'[t].run = task[t].run /\ (Told(task'[t]) <=> Told(task[t]))
    BY <1>n, <1>1, <1>4 DEF Shown, Told
  <2> QED BY <1>3, <2>1 DEF Tasks
<1>12. Contract!Send(n)
  BY <1>1, <1>6, <1>8, <1>9, <1>10, <1>11, NoRoot DEF Contract!Send, Contract!LooseEnds, HopRuns
<1> QED BY <1>6, <1>12 DEF Contract!ContractNext

\* Who wins a race may leave behind what its losers race for.
LEMMA WonLeaves ==
  ASSUME Base, Base', Care, Orderly, NEW t \in Tasks, NEW j \in Kids, Won(t, j)
  PROVE  Contract!ContractNext
<1> DEFINE n == task[t].run
<1>1. /\ Loose' \subseteq Loose \cup {n} /\ t \notin Doomed
      /\ task[t].at = "kids" /\ task'[t].at = "next"
      /\ task'[t].run = task[t].run /\ task'[t].cancel = task[t].cancel
      /\ \A u \in Tasks \ {t} :
           task'[u] = task[u] \/ (u \in Kids /\ task'[u].at = task[u].at /\ task'[u].run = task[u].run)
  BY WonTidily
<1>2. n \in Contract!Working
  BY <1>1, WorkIsWanted, ContractView
<1>3. HopRuns' = HopRuns
  BY <1>1 DEF HopRuns
<1>4. \A r \in Roots : Shown(task'[r]) = Shown(task[r]) /\ task'[r].run = task[r].run
                       /\ (Told(task'[r]) <=> Told(task[r]))
  <2>1. Shown(task'[t]) = Shown(task[t]) /\ task'[t].run = task[t].run /\ (Told(task'[t]) <=> Told(task[t]))
    BY <1>1 DEF Shown, Told
  <2> QED BY <1>1, <2>1, Apart DEF Tasks
<1>5. UNCHANGED <<runs, hops>>
  BY DEF Won
<1>6. Contract!Leave(n)
  BY <1>1, <1>2, <1>3, <1>4, <1>5, NoRoot DEF Contract!Leave, HopRuns
<1> QED BY <1>2, <1>6 DEF Contract!ContractNext

\* The program begins an execution, is asked to stop it and takes its answer.
LEMMA ProgramObeys ==
  ASSUME Base, Base', Rightly, Orderly, NEW t \in Roots,
         CancelRoot(t) \/ Finish(t) \/ \E item \in Programs : Start(t, item)
  PROVE  Contract!ContractNext
<1> DEFINE x == task[t]
<1>1. TypeInv /\ x \in Records /\ t \in Tasks
  BY Facts DEF Tasks
<1>2. ASSUME NEW y, Step(t, y)
      PROVE  /\ task'[t] = y /\ \A u \in Tasks \ {t} : task'[u] = task[u]
             /\ \A r \in Roots \ {t} : task'[r] = task[r]
  BY <1>1, <1>2 DEF Step, TypeInv, Tasks
<1>3. CASE CancelRoot(t)
  <2>1. Loose' \subseteq Loose \cup {x.run} /\ Step(t, Cut(x))
    BY <1>1, <1>3, CancelTidily
  <2>2. x.at \in {"hop", "kids"} /\ ~ x.cancel /\ UNCHANGED <<runs, hops>>
    BY <1>3 DEF CancelRoot
  <2>3. task'[t].at = x.at /\ task'[t].run = x.run /\ task'[t].cancel
    BY <1>1, <1>2, <2>1 DEF Cut, Records
  <2>4. Shown(x) = "busy" /\ Shown(task'[t]) = "busy" /\ ~ Told(x) /\ Told(task'[t])
    BY <2>2, <2>3 DEF Shown, Told
  <2>5. HopRuns' = HopRuns
    BY <1>2, <2>1, <2>3 DEF HopRuns
  <2>6. [r \in Roots |-> Status(r)]' = [r \in Roots |-> Status(r)]
    <3>1. \A r \in Roots : Status(r) = Shown(task[r]) /\ Status(r)' = Shown(task'[r])
      BY DEF Status, Answered, Shown
    <3>2. \A r \in Roots : Status(r)' = Status(r)
      BY <1>2, <2>1, <2>4, <3>1
    <3> QED BY <3>2
  <2>7. [r \in Roots |-> task[r].run]' = [r \in Roots |-> task[r].run]
    BY <1>2, <2>1, <2>3, OneRoot
  <2>8. /\ {r \in Roots : Asked(r)}' = {r \in Roots : Asked(r)} \cup {t}
        /\ Status(t) = "busy" /\ ~ Asked(t)
    BY <1>2, <2>1, <2>4, OneRoot
  <2>9. Contract!Cancel(t)
    BY <2>1, <2>2, <2>5, <2>6, <2>7, <2>8 DEF Contract!Cancel, HopRuns
  <2> QED BY <2>9 DEF Contract!ContractNext
<1>4. CASE Finish(t)
  <2>1. Step(t, Rested(x)) /\ x.at = "back" /\ x.frames = <<>> /\ UNCHANGED <<runs, hops>>
    BY <1>1, <1>4, EventEffects, Facts DEF Finish, Running, Deep
  <2>2. Loose' \subseteq Loose
    <3>1. \E y : Step(t, y) /\ Tidy(t, y)
      BY <1>1, <1>4, RootTidily
    <3> QED BY <1>1, <3>1, TidyStep
  <2>a. task'[t] = Rested(x)
    BY <1>2, <2>1
  <2>3. task'[t].at = "idle" /\ task'[t].run = 0 /\ ~ task'[t].cancel
    BY <1>1, <2>a DEF Rested, Records
  <2>4. Shown(x) \in {"value", "error", "cancelled"} /\ Shown(task'[t]) = "idle" /\ ~ Told(task'[t])
    BY <1>1, <2>1, <2>3 DEF Shown, Told, Rightly, Outcomes
  <2>5. HopRuns' \subseteq HopRuns
    BY <1>1, <1>2, <2>1, <2>3, HopsFew
  <2>6. /\ [r \in Roots |-> Status(r)]' = [[r \in Roots |-> Status(r)] EXCEPT ![t] = "idle"]
        /\ [r \in Roots |-> task[r].run]' = [[r \in Roots |-> task[r].run] EXCEPT ![t] = 0]
        /\ {r \in Roots : Asked(r)}' = {r \in Roots : Asked(r)} \ {t}
        /\ Status(t) \in {"value", "error", "cancelled"}
    BY <1>2, <2>1, <2>3, <2>4, OneRoot
  <2>7. HopRuns' = HopRuns
    BY <1>1, <1>2, <2>1, <2>3 DEF HopRuns
  <2>8. Contract!Collect(t)
    BY <2>1, <2>2, <2>6, <2>7 DEF Contract!Collect, Contract!LooseEnds, HopRuns
  <2> QED BY <2>8 DEF Contract!ContractNext
<1>5. ASSUME NEW item \in Programs, Start(t, item) PROVE Contract!ContractNext
  <2>1. /\ Step(t, Called(x, item, runs + 1)) /\ x.at = "idle"
        /\ runs' = runs + 1 /\ UNCHANGED hops
    BY <1>1, <1>5, EventEffects DEF Start
  <2>2. Loose' \subseteq Loose
    <3>1. \E y : Step(t, y) /\ Tidy(t, y)
      BY <1>1, <1>5, RootTidily
    <3> QED BY <1>1, <3>1, TidyStep
  <2>a. task'[t] = Called(x, item, runs + 1)
    BY <1>2, <2>1
  <2>b. ~ x.cancel
    BY <1>1, <2>1 DEF Orderly, Calm
  <2>3. task'[t].at = "call" /\ task'[t].run = runs + 1 /\ task'[t].cancel = x.cancel /\ ~ x.cancel
    BY <1>1, <2>a, <2>b DEF Called, Records
  <2>4. /\ Shown(x) = "idle" /\ Shown(task'[t]) = "busy"
        /\ ~ Told(x) /\ ~ Told(task'[t])
    BY <2>1, <2>3 DEF Shown, Told
  <2>5. HopRuns' = HopRuns
    BY <1>1, <1>2, <2>1, <2>3 DEF HopRuns
  <2>6. /\ [r \in Roots |-> Status(r)]' = [[r \in Roots |-> Status(r)] EXCEPT ![t] = "busy"]
        /\ [r \in Roots |-> task[r].run]' = [[r \in Roots |-> task[r].run] EXCEPT ![t] = runs + 1]
        /\ {r \in Roots : Asked(r)}' = {r \in Roots : Asked(r)}
        /\ Status(t) = "idle"
    BY <1>2, <2>1, <2>3, <2>4, OneRoot
  <2>7. Contract!Execute(t)
    BY <2>1, <2>2, <2>5, <2>6 DEF Contract!Execute, Contract!LooseEnds, HopRuns
  <2> QED BY <2>7 DEF Contract!ContractNext
<1> QED BY <1>3, <1>4, <1>5

\* Every step of the patterns is one of the contract, or none at all.
LEMMA ContractStep ==
  Base /\ Care /\ Rightly /\ Orderly /\ [Next]_vars => [Contract!ContractNext]_(Contract!contract)
<1> SUFFICES ASSUME Base, Care, Rightly, Orderly, [Next]_vars
             PROVE  Contract!ContractNext \/ UNCHANGED Contract!contract
  OBVIOUS
<1>b. Base'
  BY BaseStep
<1>1. CASE UNCHANGED vars
  <2>1. UNCHANGED <<task, runs, hops>>
    BY <1>1 DEF vars
  <2>2. Loose' = Loose
    BY <2>1 DEF Loose, Doomed, DoomedWithin, Races, Gathers, Waiting, Top
  <2>3. \A r \in Roots : Shown(task'[r]) = Shown(task[r]) /\ task'[r].run = task[r].run
                         /\ (Told(task'[r]) <=> Told(task[r]))
    BY <2>1
  <2> QED BY <2>1, <2>2, <2>3, NoRoot DEF Contract!contract
<1>2. \A k \in Kids : k \in Tasks
  BY DEF Tasks
<1>3. ASSUME NEW t \in Tasks, Enter(t) \/ Proceed(t) \/ Back(t) PROVE Contract!ContractNext
  BY <1>b, <1>3, RunsTidily, TidyIsQuiet, SpawnIsQuiet
<1>4. ASSUME NEW t \in Tasks, HopCancelled(t) \/ GatherEnds(t) \/ HandlerEnds(t) PROVE Contract!ContractNext
  BY <1>b, <1>4, WakesTidily, TidyIsQuiet DEF HandlerEnds
<1>5. ASSUME NEW t \in Kids, Begin(t) \/ Finish(t) PROVE Contract!ContractNext
  BY <1>b, <1>2, <1>5, WakesTidily, TidyIsQuiet
<1>6. ASSUME NEW t \in Tasks, NEW k \in Kids, Lost(t, k) PROVE Contract!ContractNext
  BY <1>b, <1>6, WakesTidily, TidyIsQuiet
<1>7. ASSUME NEW t \in Roots, CancelRoot(t) \/ Finish(t) \/ \E item \in Programs : Start(t, item)
      PROVE  Contract!ContractNext
  BY <1>b, <1>7, ProgramObeys
<1>8. \A t \in Tasks : Finish(t) => Contract!ContractNext
  BY <1>5, <1>7 DEF Tasks
<1> QED
  BY <1>b, <1>1, <1>3, <1>4, <1>5, <1>6, <1>7, <1>8, CallSends, WonLeaves, DesertsQuietly
  DEF Next, Progress, TaskStep

\* The patterns keep their promise, however they are nested and whoever is cancelled: one
\* answer for each execution, as cancelled if and only if its caller was, and no message
\* under its id once it is over, unless it left somebody behind.
THEOREM WorkflowsImplementContract == Spec => ImplementsContract
<1> DEFINE Inv == Base /\ Care /\ Rightly /\ Orderly
<1>1. Init => Inv
  BY WorkflowInit, OrderlyInit DEF WorkflowInv
<1>2. Inv /\ [Next]_vars => Inv'
  BY BaseStep, CareStep, RightlyStep, OrderlyStep
<1>3. Init => Contract!ContractInit
  <2> SUFFICES ASSUME Init PROVE Contract!ContractInit
    OBVIOUS
  <2>1. /\ \A t \in Tasks : task[t] = Fresh(IF t \in Roots THEN "idle" ELSE "done", None, None, 0)
        /\ runs = 0 /\ hops = {}
    BY DEF Init
  <2>2. \A t \in Tasks : /\ task[t].at \in {"idle", "done"} /\ task[t].run = 0
                         /\ t \in Roots => task[t].at = "idle"
                         /\ ~ task[t].cancel /\ ~ task[t].deserted
    BY DEF Init, Fresh
  <2>3. Loose = {}
    <3>1. Base /\ \A t \in Tasks : ~ Races(t)
      BY <2>2, BaseInit DEF Races, Waiting
    <3>2. Doomed \subseteq Tasks
      BY <3>1, DoomedAreTasks
    <3> QED BY <2>2, <3>1, <3>2 DEF Loose, Tasks
  <2>4. \A r \in Roots : Status(r) = "idle" /\ ~ Asked(r) /\ task[r].run = 0
    BY <2>2 DEF Status, Asked, Tasks
  <2>5. \A u \in Tasks : task[u].at # "hop"
    BY <2>2
  <2> QED BY <2>1, <2>3, <2>4, <2>5 DEF Contract!ContractInit
<1>4. Inv /\ [Next]_vars => [Contract!ContractNext]_(Contract!contract)
  BY ContractStep
<1> QED
  BY <1>1, <1>2, <1>3, <1>4, PTL DEF Spec, ImplementsContract, Contract!ContractSpec

-----------------------------------------------------------------------------
(* Somebody can always go on.                                              *)

\* Whoever runs, or will be woken by the event loop or by the end of its handler.
Ready(t) ==
  \/ current = t
  \/ task[t].at \in {"begin", "hop"}
  \/ Gathers(t) /\ \A k \in Top(t).kids : task[k].at = "done"
  \/ Races(t) /\ (t \in Doomed \/ \E k \in Top(t).kids : Ended(k, "value") \/ Ended(k, "error"))

\* As long as anybody is at work, somebody is ready: no tasks wait for one another, and
\* none for one that is over (execute() of every pattern, nested in any way).
NeverStuck ==
  (\E t \in Tasks : task[t].at \notin {"idle", "done"}) => \E t \in Tasks : Ready(t)

\* No task of a race that is waited for ends as cancelled: as_completed() would raise that
\* in the task that waits, which was not cancelled.
Spared == \A t \in Tasks, k \in Kids : WaitsFor(t, k) /\ Races(t) => ~ Cancelled(task[k])

\* Nobody cancels it, since nobody else waits for it.
LEMMA RacersSpared ==
  ASSUME Base, Care, NEW t \in Tasks, NEW k \in Kids, WaitsFor(t, k), Races(t)
  PROVE  k \notin Doomed
<1>1. k \notin Own
  BY DEF Care, Own
<1>2. ASSUME k \in Doomed PROVE FALSE
  <2>1. PICK u \in Doomed : Gathers(u) /\ k \in Top(u).kids
    BY <1>1, <1>2, WhyDoomed
  <2>2. u \in Tasks /\ WaitsFor(u, k)
    BY <2>1, DoomedAreTasks DEF WaitsFor, Gathers, Waiting, Top, Last
  <2>3. u = t
    BY <2>2 DEF Care
  <2> QED BY <2>1, <2>3 DEF Races
<1> QED BY <1>2

\* Steps in which nobody begins to wait, ...
LEMMA SparedAsTold ==
  ASSUME Base, Care, Spared, AsTold
  PROVE  Spared'
<1> SUFFICES ASSUME NEW t \in Tasks, NEW k \in Kids, WaitsFor(t, k)', Races(t)' PROVE ~ Cancelled(task'[k])
  BY DEF Spared
<1>1. WaitsFor(t, k) /\ Races(t) /\ k \in Tasks
  BY GoingWaits DEF AsTold, Tasks
<1>2. k \notin Doomed /\ ~ Cancelled(task[k])
  BY <1>1, RacersSpared DEF Spared
<1> QED BY <1>1, <1>2 DEF AsTold

\* ... and one in which somebody does, for tasks that begin.
LEMMA SparedSpawned ==
  ASSUME Base, Base', Care, Orderly, Spared, NEW t \in Tasks, task[t].at = "next",
         NEW items, NEW new, Spawned(t, items, new)
  PROVE  Spared'
<1>1. /\ task'[t].at = "kids"
      /\ \A u \in Tasks \ {t} : task'[u] = task[u] \/ (u \in Kids /\ task'[u].at = "begin")
      /\ \A k \in Kids : WaitsFor(t, k)' => task'[k].at = "begin"
  BY SpawnTidily
<1> SUFFICES ASSUME NEW u \in Tasks, NEW k \in Kids, WaitsFor(u, k)', Races(u)' PROVE ~ Cancelled(task'[k])
  BY DEF Spared
<1>2. CASE u = t
  BY <1>1, <1>2 DEF Cancelled
<1>3. CASE u # t
  <2>1. task'[u] = task[u]
    BY <1>1, <1>3 DEF WaitsFor
  <2>2. WaitsFor(u, k) /\ Races(u)
    BY <2>1 DEF WaitsFor, Races, Gathers, Waiting, Top
  <2>3. ~ Cancelled(task[k]) /\ k \in Tasks
    BY <2>2 DEF Spared, Tasks
  <2> QED BY <1>1, <2>3 DEF Cancelled
<1> QED BY <1>2, <1>3

\* Every step spares them.
LEMMA SparedStep == Base /\ Care /\ Rightly /\ Orderly /\ Spared /\ [Next]_vars => Spared'
<1> SUFFICES ASSUME Base, Care, Rightly, Orderly, Spared, [Next]_vars PROVE Spared'
  OBVIOUS
<1>b. Base'
  BY BaseStep
<1>1. CASE UNCHANGED vars
  BY <1>1 DEF vars, Spared, WaitsFor, Races, Gathers, Waiting, Top
<1>2. \A k \in Kids : k \in Tasks
  BY DEF Tasks
<1>3. \A r \in Roots : r \in Tasks
  BY DEF Tasks
<1>4. ASSUME NEW t \in Tasks, \E y : Step(t, y) /\ Tidy(t, y) PROVE Spared'
  BY <1>b, <1>4, TidyStep, SparedAsTold
<1>5. ASSUME NEW t \in Tasks, CallHop(t) \/ Enter(t) \/ Proceed(t) \/ Back(t) \/ Finish(t) PROVE Spared'
  <2>1. t \in Roots \/ t \in Kids
    BY DEF Tasks
  <2> QED BY <1>b, <1>4, <1>5, <2>1, SparedSpawned, RunsTidily, WakesTidily, RootTidily
<1>6. ASSUME NEW t \in Tasks, HopCancelled(t) \/ GatherEnds(t) \/ HandlerEnds(t) PROVE Spared'
  BY <1>4, <1>6, WakesTidily DEF HandlerEnds
<1>7. ASSUME NEW t \in Tasks, NEW k \in Kids, Won(t, k) \/ Lost(t, k) PROVE Spared'
  BY <1>b, <1>4, <1>7, WakesTidily, WonTidily, SparedAsTold
<1>8. ASSUME NEW t \in Tasks, RaceCancelled(t) \/ CancelRoot(t) PROVE Spared'
  BY <1>b, <1>8, DesertsTidily, CancelTidily, SparedAsTold
<1>9. ASSUME NEW t \in Kids, Begin(t) PROVE Spared'
  BY <1>2, <1>4, <1>9, WakesTidily
<1>10. ASSUME NEW t \in Roots, NEW item \in Programs, Start(t, item) PROVE Spared'
  BY <1>3, <1>4, <1>10, RootTidily
<1> QED BY <1>1, <1>2, <1>3, <1>5, <1>6, <1>7, <1>8, <1>9, <1>10 DEF Next, Progress, TaskStep

\* The tasks of fan-outs are finitely many, so their ranks have a bound.
LEMMA RanksBounded ==
  ASSUME NEW rank \in [Tasks -> Nat]
  PROVE  \E m \in Nat : \A k \in Kids : rank[k] <= m
<1> DEFINE Bounded(n) == \E m \in Nat : \A k \in 1 .. n : rank[k] <= m
           T == {n \in 0 .. MaxKids : ~ Bounded(n)}
<1>1. MaxKids \in Nat /\ Kids = 1 .. MaxKids /\ \A k \in Kids : rank[k] \in Nat
  BY WorkflowConstantsOK DEF WorkflowConstantsOK, Kids, Tasks
<1>2. T = {}
  <2> SUFFICES ASSUME T # {} PROVE FALSE
    OBVIOUS
  <2>1. T \in SUBSET Nat
    BY <1>1
  <2> HIDE DEF T
  <2>2. PICK n \in T : \A m \in T : n <= m
    BY <2>1, LeastNatural
  <2>3. n \in 0 .. MaxKids /\ ~ Bounded(n)
    BY <2>2 DEF T
  <2>4. n # 0
    <3>1. 0 \in Nat /\ \A k \in 1 .. 0 : rank[k] <= 0
      OBVIOUS
    <3> QED BY <2>3, <3>1
  <2>5. n - 1 \in 0 .. MaxKids /\ ~ (n <= n - 1) /\ n \in Kids
    BY <1>1, <2>3, <2>4
  <2> HIDE DEF Bounded
  <2>6. Bounded(n - 1)
    BY <2>2, <2>5 DEF T
  <2>7. PICK m \in Nat : \A k \in 1 .. n - 1 : rank[k] <= m
    BY <2>6 DEF Bounded
  <2>8. m + rank[n] \in Nat /\ \A k \in 1 .. n : rank[k] <= m + rank[n]
    <3>1. rank[n] \in Nat
      BY <1>1, <2>5
    <3>2. ASSUME NEW k \in 1 .. n PROVE rank[k] <= m + rank[n]
      <4>1. rank[k] \in Nat
        BY <1>1, <2>3
      <4>2. k = n \/ k \in 1 .. n - 1
        BY <2>3
      <4> QED BY <2>7, <3>1, <4>1, <4>2
    <3> QED BY <3>1, <3>2
  <2> QED BY <2>3, <2>8 DEF Bounded
<1>3. MaxKids \in 0 .. MaxKids
  BY <1>1
<1>4. Bounded(MaxKids)
  BY <1>2, <1>3
<1> QED BY <1>1, <1>4

\* Were nobody ready, whoever waits would wait for somebody who waits.
LEMMA WaitingWaits ==
  ASSUME Base, Rightly, Tally, Spared, \A u \in Tasks : ~ Ready(u),
         NEW t \in Tasks, task[t].at \notin {"idle", "done"}
  PROVE  task[t].at = "kids" /\ \E k \in Kids : WaitsFor(t, k) /\ task[k].at \notin {"idle", "done"}
<1>1. task[t].at = "kids"
  <2>1. task[t].at \in Ats /\ (task[t].at \in {"call", "next", "back"} <=> current = t)
    BY Facts DEF Records
  <2> QED BY <2>1 DEF Ready, Ats
<1>2. /\ Waiting(t) /\ Top(t) = Last(task[t]) /\ Top(t).kids # {} /\ Top(t).kids \subseteq Kids
      /\ \A k \in Top(t).kids : WaitsFor(t, k)
  <2>1. task[t].frames # <<>> /\ Last(task[t]) \in Frames
    BY <1>1, Facts, LastFrame
  <2>2. Last(task[t]).kids # {} /\ Last(task[t]).kids \subseteq Kids
    BY <1>1, <2>1 DEF Tally, Tallied, Awaiting, Frames
  <2> QED BY <1>1, <2>2 DEF Waiting, Top, Last, WaitsFor
<1>3. \A k \in Kids : task[k].at # "idle"
  BY DEF Base, Scoped, Tasks
<1>4. CASE Gathers(t)
  <2>1. PICK k \in Top(t).kids : task[k].at # "done"
    BY <1>4 DEF Ready
  <2> QED BY <1>1, <1>2, <1>3, <2>1
<1>5. CASE ~ Gathers(t)
  <2>1. Races(t)
    BY <1>2, <1>5 DEF Races
  <2>2. PICK k \in Top(t).kids : WaitsFor(t, k) /\ k \in Kids
    BY <1>2
  <2>3. task[k].at # "done"
    <3> SUFFICES ASSUME task[k].at = "done" PROVE FALSE
      OBVIOUS
    <3>1. task[k].arg \in Outcomes /\ ~ Cancelled(task[k])
      BY <2>1, <2>2 DEF Rightly, Spared
    <3>2. Ended(k, "value") \/ Ended(k, "error")
      BY <3>1 DEF Ended, Outcomes, Cancelled
    <3> QED BY <2>1, <3>2 DEF Ready
  <2> QED BY <1>1, <1>3, <2>2, <2>3
<1> QED BY <1>4, <1>5

\* The event loop never runs out of work before the work is done, however patterns are
\* nested, whoever fails and whoever is cancelled.
THEOREM NobodyIsStuck == Spec => []NeverStuck
<1> DEFINE Inv == WorkflowInv /\ Orderly /\ Spared
<1>1. Init => Inv
  <2>1. Init => Spared
    <3> SUFFICES ASSUME Init PROVE Spared
      OBVIOUS
    <3>1. \A t \in Tasks : task[t].at # "kids"
      BY DEF Init, Fresh
    <3> QED BY <3>1 DEF Spared, WaitsFor
  <2> QED BY <2>1, WorkflowInit, OrderlyInit
<1>2. Inv /\ [Next]_vars => Inv'
  BY WorkflowStep, OrderlyStep, SparedStep DEF WorkflowInv
<1>3. Inv => NeverStuck
  <2> SUFFICES ASSUME Inv, NEW t \in Tasks, task[t].at \notin {"idle", "done"},
                      \A u \in Tasks : ~ Ready(u)
               PROVE  FALSE
    BY DEF NeverStuck
  <2>1. PICK rank \in [Tasks -> Nat] : \A u \in Tasks, k \in Kids : WaitsFor(u, k) => rank[u] < rank[k]
    BY DEF Orderly, Ordered
  <2>2. PICK top \in Nat : \A k \in Kids : rank[k] <= top
    BY RanksBounded
  <2> DEFINE W == {k \in Kids : task[k].at \notin {"idle", "done"}}
             T == {top - rank[k] : k \in W}
  <2>3. \A u \in Tasks : task[u].at \notin {"idle", "done"} => \E k \in W : WaitsFor(u, k)
    BY WaitingWaits DEF WorkflowInv
  <2>4. \A k \in W : k \in Kids /\ k \in Tasks /\ rank[k] \in Nat /\ rank[k] <= top
    BY <2>2 DEF Tasks
  <2>5. T # {} /\ T \in SUBSET Nat
    <3>1. W # {}
      BY <2>3
    <3>2. \A k \in W : top - rank[k] \in Nat
      BY <2>4
    <3> HIDE DEF W
    <3> QED BY <3>1, <3>2
  <2>6. PICK n \in T : \A m \in T : n <= m
    <3> HIDE DEF T
    <3> QED BY <2>5, LeastNatural
  <2>7. PICK k \in W : n = top - rank[k]
    OBVIOUS
  <2>8. PICK j \in W : WaitsFor(k, j)
    BY <2>3, <2>4
  <2>9. rank[k] < rank[j]
    BY <2>1, <2>4, <2>8
  <2>10. n <= top - rank[j]
    BY <2>6
  <2> QED BY <2>4, <2>7, <2>9, <2>10
<1> QED
  BY <1>1, <1>2, <1>3, PTL DEF Spec

=============================================================================
