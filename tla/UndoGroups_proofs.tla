-------------------------- MODULE UndoGroups_proofs --------------------------
(***************************************************************************)
(* Proofs about an undo group of unit edits, for all units, fields, data  *)
(* and group sizes: the type invariant, and that a redo restores what the *)
(* edits left, for any number of undo/redo pairs.  The heart of it is     *)
(* that the backward loop of ReversibleActions::Reverse undoes the        *)
(* forward one (lemma PassInvolution), by induction on the group.         *)
(***************************************************************************)
EXTENDS UndoGroups, NaturalsInduction, WellFoundedInduction, TLAPS

\* The unit data, and a group: the data with the UnitChanges of the group.
Key == Units \X Fields
GroupT == [m : [Key -> Values], acts : Seq(ChangeT)]

\* The groups of n actions.
GroupN(n) == {g \in GroupT : Len(g.acts) = n}

\* The group as ReversibleActions::Reverse sees it.
Current == [m |-> units, acts |-> actions]

\* The unit fields the UnitChanges of acts name.
Names(acts) == {<<acts[i].unit, acts[i].field>> : i \in 1..Len(acts)}

\* h is g after UnitChange::Reverse calls that kept every action's unit and
\* field and left the fields g's actions do not name as they were.
Frame(h, g) ==
  /\ \A j \in 1..Len(g.acts) : /\ h.acts[j].unit = g.acts[j].unit
                               /\ h.acts[j].field = g.acts[j].field
  /\ \A key \in Key \ Names(g.acts) : h.m[key] = g.m[key]

-----------------------------------------------------------------------------
(* The inductive invariant.                                                *)

\* While the group is not reversed (before its first undo, and after each
\* redo) the unit data is what the edits left; while it is reversed, the
\* backward loop of the next Reverse would bring that data back.
UInv ==
  /\ TypeOK
  /\ reversed => closed
  /\ ~reversed => units = after
  /\ reversed => ReversePass(Current, BackwardOrder(Len(actions))).m = after

-----------------------------------------------------------------------------
(* Induction and recursion.                                                *)

\* Induction over the naturals, stated on the set of counterexamples: a set
\* of naturals that misses 0 and misses k + 1 whenever it misses k is empty.
LEMMA SetInduction ==
  ASSUME NEW T \in SUBSET Nat, 0 \notin T,
         \A k \in Nat : k \notin T => k + 1 \notin T
  PROVE  T = {}
<1> SUFFICES ASSUME T # {} PROVE FALSE
  OBVIOUS
<1>1. PICK x \in T : \A y \in T : ~(<<y, x>> \in OpToRel(<, Nat))
  BY NatLessThanWellFounded, WFMin
<1>2. x \in Nat \ {0}
  OBVIOUS
<1>3. x - 1 \notin T
  <2>1. <<x - 1, x>> \in OpToRel(<, Nat)
    BY <1>2 DEF OpToRel
  <2>. QED  BY <1>1, <2>1
<1>4. (x - 1) + 1 \notin T
  BY <1>2, <1>3
<1>. QED  BY <1>2, <1>4

\* The loop's run satisfies its recursive definition.
LEMMA RunDef ==
  ASSUME NEW st, NEW S, NEW ord \in Seq(S)
  PROVE  ReverseRun(st, ord) =
           [k \in 0..Len(ord) |->
              IF k = 0 THEN st
              ELSE UnitChangeReverse(ReverseRun(st, ord)[k - 1], ord[k])]
<1>1. FiniteNatInductiveDefHypothesis(ReverseRun(st, ord), st,
        LAMBDA x, k : UnitChangeReverse(x, ord[k]), 0, Len(ord))
  BY DEF FiniteNatInductiveDefHypothesis, ReverseRun
<1>2. FiniteNatInductiveDefConclusion(ReverseRun(st, ord), st,
        LAMBDA x, k : UnitChangeReverse(x, ord[k]), 0, Len(ord))
  <2>1. Len(ord) \in Nat
    OBVIOUS
  <2>. QED  BY <1>1, <2>1, FiniteNatInductiveDef
<1>. QED  BY <1>2 DEF FiniteNatInductiveDefConclusion

\* The run starts from the group and takes one UnitChange::Reverse a step.
LEMMA RunSteps ==
  ASSUME NEW st, NEW S, NEW ord \in Seq(S)
  PROVE  /\ ReverseRun(st, ord)[0] = st
         /\ \A k \in 1..Len(ord) :
              ReverseRun(st, ord)[k] =
                UnitChangeReverse(ReverseRun(st, ord)[k - 1], ord[k])
<1> DEFINE r == ReverseRun(st, ord)
<1>1. r = [k \in 0..Len(ord) |->
             IF k = 0 THEN st ELSE UnitChangeReverse(r[k - 1], ord[k])]
  BY RunDef
<1>2. Len(ord) \in Nat
  OBVIOUS
<1> HIDE DEF r
<1>3. r[0] = st
  BY <1>1, <1>2
<1>4. ASSUME NEW k \in 1..Len(ord)
      PROVE  r[k] = UnitChangeReverse(r[k - 1], ord[k])
  <2>1. k \in 0..Len(ord) /\ k # 0
    BY <1>2
  <2>. QED  BY <1>1, <2>1
<1>. QED  BY <1>3, <1>4 DEF r

-----------------------------------------------------------------------------
(* UnitChange::Reverse.                                                    *)

\* It keeps a group of n actions a group of n actions.
LEMMA ReverseType ==
  ASSUME NEW n \in Nat, NEW g \in GroupN(n), NEW i \in 1..n
  PROVE  UnitChangeReverse(g, i) \in GroupN(n)
<1>0. g.m \in [Key -> Values] /\ g.acts \in Seq(ChangeT) /\ Len(g.acts) = n
  BY DEF GroupN, GroupT
<1>1. g.acts[i] \in ChangeT /\ <<g.acts[i].unit, g.acts[i].field>> \in Key
  <2>1. g.acts[i] \in ChangeT
    BY <1>0
  <2>. QED  BY <2>1 DEF ChangeT, Key
<1>2. g.m[<<g.acts[i].unit, g.acts[i].field>>] \in Values
  BY <1>0, <1>1
<1>3. [g.acts[i] EXCEPT !.data = g.m[<<g.acts[i].unit, g.acts[i].field>>]]
        \in ChangeT
  BY <1>1, <1>2 DEF ChangeT
<1>4. [g.m EXCEPT ![<<g.acts[i].unit, g.acts[i].field>>] = g.acts[i].data]
        \in [Key -> Values]
  BY <1>0, <1>1 DEF ChangeT
<1>5. /\ [g.acts EXCEPT ![i].data = g.m[<<g.acts[i].unit, g.acts[i].field>>]]
          \in Seq(ChangeT)
      /\ Len([g.acts EXCEPT ![i].data = g.m[<<g.acts[i].unit, g.acts[i].field>>]])
          = n
  BY <1>0, <1>3
<1>. QED  BY <1>4, <1>5 DEF UnitChangeReverse, GroupN, GroupT

\* Applied twice to the same action it changes nothing: the second call
\* writes back the value the first one read, and remembers the one it
\* wrote.
LEMMA ReverseTwice ==
  ASSUME NEW g \in GroupT, NEW i \in 1..Len(g.acts)
  PROVE  UnitChangeReverse(UnitChangeReverse(g, i), i) = g
<1> DEFINE a == g.acts[i]
           key == <<a.unit, a.field>>
           h == UnitChangeReverse(g, i)
<1>0. g.m \in [Key -> Values] /\ g.acts \in Seq(ChangeT)
  BY DEF GroupT
<1>1. a \in ChangeT /\ key \in Key
  <2>1. a \in ChangeT
    BY <1>0
  <2>. QED  BY <2>1 DEF ChangeT, Key
<1>2. /\ h.m = [g.m EXCEPT ![key] = a.data]
      /\ h.acts = [g.acts EXCEPT ![i].data = g.m[key]]
  BY DEF UnitChangeReverse
<1>3. /\ h.acts[i].unit = a.unit /\ h.acts[i].field = a.field
      /\ h.acts[i].data = g.m[key]
      /\ h.m[key] = a.data
  <2>1. h.acts[i] = [a EXCEPT !.data = g.m[key]]
    BY <1>0, <1>2
  <2>2. h.m[key] = a.data
    BY <1>0, <1>1, <1>2
  <2>. QED  BY <1>1, <2>1, <2>2 DEF ChangeT
<1>4. [h.m EXCEPT ![key] = g.m[key]] = g.m
  BY <1>0, <1>1, <1>2
<1>5. [h.acts EXCEPT ![i].data = a.data] = g.acts
  <2>1. a = [unit |-> a.unit, field |-> a.field, data |-> a.data]
    BY <1>1 DEF ChangeT
  <2>. QED  BY <1>0, <1>2, <2>1
<1>6. g = [m |-> g.m, acts |-> g.acts]
  BY DEF GroupT
<1>. QED  BY <1>3, <1>4, <1>5, <1>6 DEF UnitChangeReverse

-----------------------------------------------------------------------------
(* The loops of ReversibleActions::Reverse.                                *)

\* The two visiting orders are sequences of action indices; the backward
\* order of k actions visits k first, then the backward order of k - 1.
LEMMA OrderFacts ==
  ASSUME NEW n \in Nat
  PROVE  /\ ForwardOrder(n) \in Seq(1..n) /\ Len(ForwardOrder(n)) = n
         /\ BackwardOrder(n) \in Seq(1..n) /\ Len(BackwardOrder(n)) = n
         /\ ForwardOrder(n) \in Seq(Nat) /\ BackwardOrder(n) \in Seq(Nat)
         /\ \A k \in 1..n : ForwardOrder(n)[k] = k
         /\ n > 0 => /\ BackwardOrder(n)[1] = n
                     /\ \A j \in 1..n - 1 :
                          BackwardOrder(n)[j + 1] = BackwardOrder(n - 1)[j]
<1>1. ForwardOrder(n) \in Seq(1..n) /\ Len(ForwardOrder(n)) = n
  BY DEF ForwardOrder
<1>2. BackwardOrder(n) \in Seq(1..n) /\ Len(BackwardOrder(n)) = n
  BY DEF BackwardOrder
<1>3. ForwardOrder(n) \in Seq(Nat) /\ BackwardOrder(n) \in Seq(Nat)
  BY DEF ForwardOrder, BackwardOrder
<1>. QED  BY <1>1, <1>2, <1>3 DEF ForwardOrder, BackwardOrder

\* Every state of a loop over a group of n actions is a group of n actions.
LEMMA RunType ==
  ASSUME NEW n \in Nat, NEW g \in GroupN(n), NEW ord \in Seq(1..n)
  PROVE  \A k \in 0..Len(ord) : ReverseRun(g, ord)[k] \in GroupN(n)
<1> DEFINE r == ReverseRun(g, ord)
           T == {k \in Nat : k <= Len(ord) /\ r[k] \notin GroupN(n)}
<1>1. /\ r[0] = g
      /\ \A k \in 1..Len(ord) : r[k] = UnitChangeReverse(r[k - 1], ord[k])
  BY RunSteps
<1> HIDE DEF r
<1>2. 0 \notin T
  BY <1>1
<1>3. \A k \in Nat : k \notin T => k + 1 \notin T
  <2> SUFFICES ASSUME NEW k \in Nat, k \notin T, k + 1 <= Len(ord)
               PROVE  r[k + 1] \in GroupN(n)
    OBVIOUS
  <2>1. r[k] \in GroupN(n)
    OBVIOUS
  <2>2. r[k + 1] = UnitChangeReverse(r[k], ord[k + 1])
    <3>1. k + 1 \in 1..Len(ord) /\ (k + 1) - 1 = k
      OBVIOUS
    <3>. QED  BY <1>1, <3>1
  <2>3. ord[k + 1] \in 1..n
    OBVIOUS
  <2>. QED  BY <2>1, <2>2, <2>3, ReverseType
<1>4. T = {}
  BY <1>2, <1>3, SetInduction
<1>. QED
  <2> SUFFICES ASSUME NEW k \in 0..Len(ord) PROVE r[k] \in GroupN(n)
    BY DEF r
  <2>1. k \notin T
    BY <1>4
  <2>. QED  BY <2>1

\* A loop whose order starts with a visits a first and then the rest.
LEMMA RunCons ==
  ASSUME NEW g, NEW S, NEW ord \in Seq(S), NEW rest \in Seq(S),
         Len(ord) = Len(rest) + 1,
         \A j \in 1..Len(rest) : ord[j + 1] = rest[j]
  PROVE  \A j \in 0..Len(rest) :
           ReverseRun(g, ord)[j + 1] =
             ReverseRun(UnitChangeReverse(g, ord[1]), rest)[j]
<1> DEFINE r1 == ReverseRun(g, ord)
           r2 == ReverseRun(UnitChangeReverse(g, ord[1]), rest)
           T == {j \in Nat : j <= Len(rest) /\ r1[j + 1] # r2[j]}
<1>1. /\ r1[0] = g
      /\ \A k \in 1..Len(ord) : r1[k] = UnitChangeReverse(r1[k - 1], ord[k])
  BY RunSteps
<1>2. /\ r2[0] = UnitChangeReverse(g, ord[1])
      /\ \A k \in 1..Len(rest) : r2[k] = UnitChangeReverse(r2[k - 1], rest[k])
  BY RunSteps
<1> HIDE DEF r1, r2
<1>3. 0 \notin T
  <2>1. 1 \in 1..Len(ord) /\ 1 - 1 = 0
    OBVIOUS
  <2>. QED  BY <1>1, <1>2, <2>1
<1>4. \A j \in Nat : j \notin T => j + 1 \notin T
  <2> SUFFICES ASSUME NEW j \in Nat, j \notin T, j + 1 <= Len(rest)
               PROVE  r1[j + 2] = r2[j + 1]
    OBVIOUS
  <2>1. r1[j + 1] = r2[j]
    OBVIOUS
  <2>2. r1[j + 2] = UnitChangeReverse(r1[j + 1], ord[j + 2])
    <3>1. j + 2 \in 1..Len(ord) /\ (j + 2) - 1 = j + 1
      OBVIOUS
    <3>. QED  BY <1>1, <3>1
  <2>3. r2[j + 1] = UnitChangeReverse(r2[j], rest[j + 1])
    <3>1. j + 1 \in 1..Len(rest) /\ (j + 1) - 1 = j
      OBVIOUS
    <3>. QED  BY <1>2, <3>1
  <2>4. ord[j + 2] = rest[j + 1]
    <3>1. j + 1 \in 1..Len(rest) /\ (j + 1) + 1 = j + 2
      OBVIOUS
    <3>. QED  BY <3>1
  <2>. QED  BY <2>1, <2>2, <2>3, <2>4
<1>5. T = {}
  BY <1>3, <1>4, SetInduction
<1>. QED
  <2> SUFFICES ASSUME NEW j \in 0..Len(rest) PROVE r1[j + 1] = r2[j]
    BY DEF r1, r2
  <2>1. j \notin T
    BY <1>5
  <2>. QED  BY <2>1

\* The backward loop over k actions is UnitChange::Reverse on action k,
\* then the backward loop over the first k - 1.
LEMMA BackwardPassCons ==
  ASSUME NEW t, NEW k \in Nat \ {0}
  PROVE  ReversePass(t, BackwardOrder(k)) =
           ReversePass(UnitChangeReverse(t, k), BackwardOrder(k - 1))
<1>1. k - 1 \in Nat
  OBVIOUS
<1>2. /\ BackwardOrder(k) \in Seq(Nat) /\ Len(BackwardOrder(k)) = k
      /\ BackwardOrder(k)[1] = k
      /\ \A j \in 1..k - 1 : BackwardOrder(k)[j + 1] = BackwardOrder(k - 1)[j]
  BY OrderFacts
<1>3. BackwardOrder(k - 1) \in Seq(Nat) /\ Len(BackwardOrder(k - 1)) = k - 1
  BY <1>1, OrderFacts
<1>4. ReverseRun(t, BackwardOrder(k))[(k - 1) + 1] =
        ReverseRun(UnitChangeReverse(t, BackwardOrder(k)[1]),
                   BackwardOrder(k - 1))[k - 1]
  <2>1. k - 1 \in 0..Len(BackwardOrder(k - 1))
    BY <1>3
  <2>2. Len(BackwardOrder(k)) = Len(BackwardOrder(k - 1)) + 1
    BY <1>2, <1>3
  <2>3. \A j \in 1..Len(BackwardOrder(k - 1)) :
          BackwardOrder(k)[j + 1] = BackwardOrder(k - 1)[j]
    BY <1>2, <1>3
  <2>. QED  BY <1>2, <1>3, <2>1, <2>2, <2>3, RunCons
<1>. QED  BY <1>2, <1>3, <1>4 DEF ReversePass

\* The backward loop undoes the forward loop: after an undo (forward) and
\* a redo (backward) the group is back where it was, unit data and the
\* data each UnitChange holds alike.
LEMMA PassInvolution ==
  ASSUME NEW n \in Nat, NEW g \in GroupN(n)
  PROVE  ReversePass(ReversePass(g, ForwardOrder(n)), BackwardOrder(n)) = g
<1> DEFINE F == ReverseRun(g, ForwardOrder(n))
           T == {k \in Nat : k <= n /\ ReversePass(F[k], BackwardOrder(k)) # g}
<1>1. /\ F[0] = g
      /\ \A k \in 1..n : F[k] = UnitChangeReverse(F[k - 1], k)
  <2>1. /\ ForwardOrder(n) \in Seq(Nat) /\ Len(ForwardOrder(n)) = n
        /\ \A k \in 1..n : ForwardOrder(n)[k] = k
    BY OrderFacts
  <2>2. /\ F[0] = g
        /\ \A k \in 1..Len(ForwardOrder(n)) :
             F[k] = UnitChangeReverse(F[k - 1], ForwardOrder(n)[k])
    BY <2>1, RunSteps
  <2>. QED  BY <2>1, <2>2
<1>2. \A k \in 0..n : F[k] \in GroupN(n)
  BY OrderFacts, RunType
<1> HIDE DEF F
<1>3. 0 \notin T
  <2>1. BackwardOrder(0) \in Seq(Nat) /\ Len(BackwardOrder(0)) = 0
    BY OrderFacts
  <2>2. ReverseRun(g, BackwardOrder(0))[0] = g
    BY <2>1, RunSteps
  <2>. QED  BY <1>1, <2>1, <2>2 DEF ReversePass
<1>4. \A k \in Nat : k \notin T => k + 1 \notin T
  <2> SUFFICES ASSUME NEW k \in Nat, k \notin T, k + 1 <= n
               PROVE  ReversePass(F[k + 1], BackwardOrder(k + 1)) = g
    OBVIOUS
  <2>1. ReversePass(F[k], BackwardOrder(k)) = g
    OBVIOUS
  <2>2. F[k + 1] = UnitChangeReverse(F[k], k + 1)
    <3>1. k + 1 \in 1..n /\ (k + 1) - 1 = k
      OBVIOUS
    <3>. QED  BY <1>1, <3>1
  <2>3. UnitChangeReverse(F[k + 1], k + 1) = F[k]
    <3>1. F[k] \in GroupT /\ k + 1 \in 1..Len(F[k].acts)
      BY <1>2 DEF GroupN
    <3>. QED  BY <2>2, <3>1, ReverseTwice
  <2>4. ReversePass(F[k + 1], BackwardOrder(k + 1)) =
          ReversePass(UnitChangeReverse(F[k + 1], k + 1), BackwardOrder(k))
    <3>1. k + 1 \in Nat \ {0} /\ (k + 1) - 1 = k
      OBVIOUS
    <3>. QED  BY <3>1, BackwardPassCons
  <2>. QED  BY <2>1, <2>3, <2>4
<1>5. T = {}
  BY <1>3, <1>4, SetInduction
<1>6. ReversePass(g, ForwardOrder(n)) = F[n]
  BY OrderFacts DEF ReversePass, F
<1>. QED  BY <1>5, <1>6


\* One UnitChange::Reverse keeps every action's unit and field, and writes
\* only the field its action names.
LEMMA ReverseFrame ==
  ASSUME NEW n \in Nat, NEW g \in GroupN(n), NEW i \in 1..n
  PROVE  /\ \A j \in 1..n : /\ UnitChangeReverse(g, i).acts[j].unit = g.acts[j].unit
                            /\ UnitChangeReverse(g, i).acts[j].field = g.acts[j].field
         /\ \A key \in Key :
              key # <<g.acts[i].unit, g.acts[i].field>> =>
                UnitChangeReverse(g, i).m[key] = g.m[key]
<1> DEFINE a == g.acts[i]
           h == UnitChangeReverse(g, i)
<1>0. g.m \in [Key -> Values] /\ g.acts \in Seq(ChangeT) /\ Len(g.acts) = n
  BY DEF GroupN, GroupT
<1>1. a \in ChangeT
  BY <1>0
<1>2. /\ h.m = [g.m EXCEPT ![<<a.unit, a.field>>] = a.data]
      /\ h.acts = [g.acts EXCEPT ![i].data = g.m[<<a.unit, a.field>>]]
  BY DEF UnitChangeReverse
<1>3. ASSUME NEW j \in 1..n
      PROVE  h.acts[j].unit = g.acts[j].unit /\ h.acts[j].field = g.acts[j].field
  <2>1. CASE j = i
    <3>1. h.acts[j] = [a EXCEPT !.data = g.m[<<a.unit, a.field>>]]
      BY <1>0, <1>2, <2>1
    <3>. QED  BY <1>1, <2>1, <3>1 DEF ChangeT
  <2>2. CASE j # i
    BY <1>0, <1>2, <2>2
  <2>. QED  BY <2>1, <2>2
<1>4. ASSUME NEW key \in Key, key # <<a.unit, a.field>>
      PROVE  h.m[key] = g.m[key]
  BY <1>0, <1>2, <1>4
<1>. QED  BY <1>3, <1>4

\* A loop of UnitChange::Reverse calls keeps every action's unit and field
\* and leaves the fields the group does not name as they were.
LEMMA RunFrame ==
  ASSUME NEW n \in Nat, NEW g \in GroupN(n), NEW ord \in Seq(1..n)
  PROVE  \A k \in 0..Len(ord) : Frame(ReverseRun(g, ord)[k], g)
<1> DEFINE r == ReverseRun(g, ord)
           T == {k \in Nat : k <= Len(ord) /\ ~Frame(r[k], g)}
<1>1. /\ r[0] = g
      /\ \A k \in 1..Len(ord) : r[k] = UnitChangeReverse(r[k - 1], ord[k])
  BY RunSteps
<1>2. \A k \in 0..Len(ord) : r[k] \in GroupN(n)
  BY RunType
<1>3. Len(g.acts) = n
  BY DEF GroupN
<1> HIDE DEF r
<1>4. 0 \notin T
  BY <1>1 DEF Frame
<1>5. \A k \in Nat : k \notin T => k + 1 \notin T
  <2> SUFFICES ASSUME NEW k \in Nat, k \notin T, k + 1 <= Len(ord)
               PROVE  Frame(r[k + 1], g)
    OBVIOUS
  <2> DEFINE i == ord[k + 1]
  <2>1. Frame(r[k], g) /\ r[k] \in GroupN(n)
    BY <1>2
  <2>2. r[k + 1] = UnitChangeReverse(r[k], i) /\ i \in 1..n
    <3>1. k + 1 \in 1..Len(ord) /\ (k + 1) - 1 = k
      OBVIOUS
    <3>. QED  BY <1>1, <3>1
  <2>3. /\ \A j \in 1..n : /\ r[k + 1].acts[j].unit = r[k].acts[j].unit
                           /\ r[k + 1].acts[j].field = r[k].acts[j].field
        /\ \A key \in Key :
             key # <<r[k].acts[i].unit, r[k].acts[i].field>> =>
               r[k + 1].m[key] = r[k].m[key]
    <3>1. /\ \A j \in 1..n :
               /\ UnitChangeReverse(r[k], i).acts[j].unit = r[k].acts[j].unit
               /\ UnitChangeReverse(r[k], i).acts[j].field = r[k].acts[j].field
          /\ \A key \in Key :
               key # <<r[k].acts[i].unit, r[k].acts[i].field>> =>
                 UnitChangeReverse(r[k], i).m[key] = r[k].m[key]
      BY <2>1, <2>2, ReverseFrame
    <3>. QED  BY <2>2, <3>1
  <2>4. <<r[k].acts[i].unit, r[k].acts[i].field>> \in Names(g.acts)
    <3>1. <<r[k].acts[i].unit, r[k].acts[i].field>> =
            <<g.acts[i].unit, g.acts[i].field>>
      BY <1>3, <2>1, <2>2 DEF Frame
    <3>. QED  BY <1>3, <2>2, <3>1 DEF Names
  <2>. QED  BY <1>3, <2>1, <2>3, <2>4 DEF Frame
<1>6. T = {}
  BY <1>4, <1>5, SetInduction
<1>. QED
  <2> SUFFICES ASSUME NEW k \in 0..Len(ord) PROVE Frame(r[k], g)
    BY DEF r
  <2>1. k \notin T
    BY <1>6
  <2>. QED  BY <2>1

-----------------------------------------------------------------------------
(* The invariant is inductive, and the theorems.                          *)

\* A new group, before its first edit.
LEMMA InitUInv == Init => UInv
<1> SUFFICES ASSUME Init PROVE UInv
  OBVIOUS
<1>1. TypeOK
  <2>1. units \in [Units \X Fields -> Values] /\ before = units /\ after = units
    BY DEF Init
  <2>2. actions = <<>> /\ reversed = FALSE /\ closed = FALSE
    BY DEF Init
  <2>3. actions \in Seq(ChangeT) /\ Len(actions) <= MaxActions
    BY <2>2, UndoAssumption
  <2>. QED  BY <2>1, <2>2, <2>3 DEF TypeOK
<1>. QED  BY <1>1 DEF Init, UInv

\* An edit recorded into the open group.
LEMMA RecordUInv ==
  ASSUME UInv, NEW u \in Units, NEW f \in Fields, NEW v \in Values,
         Record(u, f, v)
  PROVE  UInv'
<1>1. ~reversed /\ reversed' = reversed
  BY DEF UInv, Record
<1>2. <<u, f>> \in Units \X Fields /\ units[<<u, f>>] \in Values
  BY DEF UInv, TypeOK
<1>3. [unit |-> u, field |-> f, data |-> units[<<u, f>>]] \in ChangeT
  BY <1>2 DEF ChangeT
<1>4. TypeOK'
  <2>1. units' \in [Units \X Fields -> Values] /\ after' = units'
    BY <1>2 DEF UInv, TypeOK, Record
  <2>2. actions' \in Seq(ChangeT) /\ Len(actions') <= MaxActions
    <3>1. actions \in Seq(ChangeT) /\ Len(actions) < MaxActions
      BY DEF UInv, TypeOK, Record
    <3>2. actions' = Append(actions, [unit |-> u, field |-> f,
                                      data |-> units[<<u, f>>]])
      BY DEF Record
    <3>. QED  BY <1>3, <3>1, <3>2, UndoAssumption
  <2>3. UNCHANGED <<reversed, closed, before>>
    BY DEF Record
  <2>. QED  BY <2>1, <2>2, <2>3 DEF UInv, TypeOK
<1>5. units' = after'
  BY DEF Record
<1>. QED  BY <1>1, <1>4, <1>5 DEF UInv

\* ReversibleActions::Reverse: the forward loop (undo) or the backward one
\* (redo), and the flip of reversed.
LEMMA ReverseUInv ==
  ASSUME UInv, Reverse
  PROVE  UInv'
<1> DEFINE n == Len(actions)
           ord == VisitOrder(reversed, n)
           res == ReversePass(Current, ord)
<1>1. n \in Nat /\ Current \in GroupN(n)
  BY DEF UInv, TypeOK, Current, GroupN, GroupT, Key
<1>2. ord \in Seq(1..n) /\ Len(ord) = n
  BY <1>1, OrderFacts DEF VisitOrder
<1>3. res \in GroupN(n)
  <2>1. n \in 0..Len(ord)
    BY <1>1, <1>2
  <2>. QED  BY <1>1, <1>2, <2>1, RunType DEF ReversePass
<1>4. /\ units' = res.m /\ actions' = res.acts
      /\ reversed' = ~reversed /\ closed' = TRUE
      /\ UNCHANGED <<before, after>>
  BY DEF Reverse, Current
<1>5. Current' = res /\ Len(actions') = n
  BY <1>3, <1>4 DEF Current, GroupN, GroupT
<1>6. TypeOK'
  <2>1. Len(actions') <= MaxActions
    BY <1>5 DEF UInv, TypeOK
  <2>. QED  BY <1>3, <1>4, <2>1 DEF UInv, TypeOK, GroupN, GroupT, Key
<1>7. CASE ~reversed
  \* The undo: the next Reverse, backward, undoes this forward loop.
  <2>1. res = ReversePass(Current, ForwardOrder(n))
    BY <1>7 DEF VisitOrder
  <2>2. ReversePass(res, BackwardOrder(n)) = Current
    BY <1>1, <2>1, PassInvolution
  <2>3. Current.m = after
    BY <1>7 DEF UInv, Current
  <2>. QED  BY <1>4, <1>5, <1>6, <1>7, <2>2, <2>3 DEF UInv
<1>8. CASE reversed
  \* The redo: the backward loop brings back what the edits left.
  <2>1. res = ReversePass(Current, BackwardOrder(n))
    BY <1>8 DEF VisitOrder
  <2>2. units' = after'
    BY <1>4, <1>8, <2>1 DEF UInv
  <2>. QED  BY <1>4, <1>6, <1>8, <2>2 DEF UInv
<1>. QED  BY <1>7, <1>8

\* Every step of the group, and a stutter, preserves UInv.
LEMMA NextUInv ==
  ASSUME UInv, [Next]_vars
  PROVE  UInv'
<1>1. CASE \E u \in Units, f \in Fields, v \in Values : Record(u, f, v)
  BY <1>1, RecordUInv
<1>2. CASE Reverse
  BY <1>2, ReverseUInv
<1>3. CASE UNCHANGED vars
  BY <1>3 DEF vars, UInv, TypeOK, Current
<1>. QED  BY <1>1, <1>2, <1>3 DEF Next

\* UInv holds in every state of every behaviour.
LEMMA UInvInvariant == Spec => []UInv
BY InitUInv, NextUInv, PTL DEF Spec

\* Type correctness of an undo group: Insert and the loops of
\* ReversibleActions::Reverse keep the unit data a map from unit fields to
\* data and the group a sequence of at most MaxActions UnitChanges.
THEOREM TypeCorrect == Spec => []TypeOK
<1>1. UInv => TypeOK  BY DEF UInv
<1>. QED  BY <1>1, UInvInvariant, PTL

\* A redo restores the edits: after any number of undo/redo pairs of a
\* group, whenever the group is not reversed the unit data is what the
\* edits left, because the backward loop of ReversibleActions::Reverse
\* undoes its forward loop, whatever fields the UnitChanges share.
THEOREM RedoRestoresHolds == Spec => []RedoRestores
<1>1. UInv => RedoRestores  BY DEF UInv, RedoRestores
<1>. QED  BY <1>1, UInvInvariant, PTL


-----------------------------------------------------------------------------
(* Refinement of UndoSpec.                                                 *)

\* ReversibleActions::Reverse keeps the fields the group names, and leaves
\* every other field as it was.
LEMMA ReverseKeepsFrame ==
  ASSUME UInv, Reverse
  PROVE  /\ EditedFields' = EditedFields
         /\ \A key \in Key \ EditedFields : units'[key] = units[key]
<1> DEFINE n == Len(actions)
           ord == VisitOrder(reversed, n)
           res == ReversePass(Current, ord)
<1>1. n \in Nat /\ Current \in GroupN(n)
  BY DEF UInv, TypeOK, Current, GroupN, GroupT, Key
<1>2. ord \in Seq(1..n) /\ Len(ord) = n
  BY <1>1, OrderFacts DEF VisitOrder
<1>3. res \in GroupN(n) /\ Frame(res, Current)
  <2>1. n \in 0..Len(ord)
    BY <1>1, <1>2
  <2>2. ReverseRun(Current, ord)[n] \in GroupN(n)
    BY <1>1, <1>2, <2>1, RunType
  <2>3. Frame(ReverseRun(Current, ord)[n], Current)
    BY <1>1, <1>2, <2>1, RunFrame
  <2>. QED  BY <1>2, <2>2, <2>3 DEF ReversePass
<1>4. units' = res.m /\ actions' = res.acts
  BY DEF Reverse, Current
<1>5. Len(actions') = n /\ Current.acts = actions /\ Current.m = units
  BY <1>3, <1>4 DEF GroupN, Current
<1>6. EditedFields' = EditedFields
  <2>1. \A j \in 1..n : /\ actions'[j].unit = actions[j].unit
                        /\ actions'[j].field = actions[j].field
    BY <1>3, <1>4, <1>5 DEF Frame
  <2>. QED  BY <1>5, <2>1 DEF EditedFields
<1>7. \A key \in Key \ EditedFields : units'[key] = units[key]
  <2>1. Names(Current.acts) = EditedFields
    BY <1>5 DEF Names, EditedFields
  <2>. QED  BY <1>3, <1>4, <1>5, <2>1 DEF Frame
<1>. QED  BY <1>6, <1>7

\* A new group is UndoSpec's initial state.
LEMMA InitRefines == Init => Abs!Init
<1> SUFFICES ASSUME Init PROVE Abs!Init
  OBVIOUS
<1>1. EditedFields = {}
  BY DEF Init, EditedFields
<1>. QED  BY <1>1 DEF Init, Abs!Init, Abs!Key

\* Every step of the group is an UndoSpec step or leaves its state alone:
\* Insert is an edit, the forward loop an undo, the backward loop a redo.
LEMMA NextRefines ==
  ASSUME UInv, UInv', [Next]_vars
  PROVE  [Abs!Next]_Abs!avars
<1>1. CASE \E u \in Units, f \in Fields, v \in Values : Record(u, f, v)
  <2>1. PICK u \in Units, f \in Fields, v \in Values : Record(u, f, v)
    BY <1>1
  <2>2. EditedFields' = EditedFields \cup {<<u, f>>}
    <3>1. actions' = Append(actions, [unit |-> u, field |-> f,
                                      data |-> units[<<u, f>>]])
      BY <2>1 DEF Record
    <3>2. actions \in Seq(ChangeT)
      BY DEF UInv, TypeOK
    <3> DEFINE L == Len(actions)
    <3>3. /\ L \in Nat /\ Len(actions') = L + 1
          /\ \A i \in 1..L : actions'[i] = actions[i]
          /\ actions'[L + 1].unit = u /\ actions'[L + 1].field = f
      BY <3>1, <3>2
    <3>4. ASSUME NEW i \in 1..Len(actions')
          PROVE  <<actions'[i].unit, actions'[i].field>>
                   \in EditedFields \cup {<<u, f>>}
      <4>1. CASE i \in 1..L
        BY <3>3, <4>1 DEF EditedFields
      <4>2. CASE i = L + 1
        BY <3>3, <4>2
      <4>. QED  BY <3>3, <4>1, <4>2
    <3>5. ASSUME NEW i \in 1..L
          PROVE  \E j \in 1..Len(actions') :
                   <<actions[i].unit, actions[i].field>> =
                     <<actions'[j].unit, actions'[j].field>>
      BY <3>3
    <3>6. \E j \in 1..Len(actions') :
            <<u, f>> = <<actions'[j].unit, actions'[j].field>>
      <4>1. L + 1 \in 1..Len(actions')
        BY <3>3
      <4>. QED  BY <3>3, <4>1
    <3>7. EditedFields' \subseteq EditedFields \cup {<<u, f>>}
      BY <3>4 DEF EditedFields
    <3>8. EditedFields \subseteq EditedFields'
      BY <3>5 DEF EditedFields
    <3>9. <<u, f>> \in EditedFields'
      BY <3>6 DEF EditedFields
    <3>. QED  BY <3>7, <3>8, <3>9
  <2>3. Abs!Edit(<<u, f>>, v)
    BY <2>1, <2>2 DEF Record, Abs!Edit
  <2>4. <<u, f>> \in Abs!Key
    BY DEF Abs!Key
  <2>. QED  BY <2>3, <2>4 DEF Abs!Next
<1>2. CASE Reverse /\ ~reversed
  <2>1. /\ EditedFields' = EditedFields
        /\ \A key \in Key \ EditedFields : units'[key] = units[key]
    BY <1>2, ReverseKeepsFrame
  <2>2. EditedFields # {}
    <3>1. actions # <<>> /\ actions \in Seq(ChangeT)
      BY <1>2 DEF Reverse, UInv, TypeOK
    <3>2. 1 \in 1..Len(actions)
      BY <3>1
    <3>. QED  BY <3>2 DEF EditedFields
  <2>3. units' \in [Abs!Key -> Values]
    BY DEF UInv, TypeOK, Abs!Key
  <2>4. reversed' /\ closed' /\ UNCHANGED after
    BY <1>2 DEF Reverse
  <2>5. Abs!Undo
    BY <1>2, <2>1, <2>2, <2>3, <2>4 DEF Abs!Undo, Abs!Key, Key
  <2>. QED  BY <2>5 DEF Abs!Next
<1>3. CASE Reverse /\ reversed
  <2>1. EditedFields' = EditedFields
    BY <1>3, ReverseKeepsFrame
  <2>2. units' = after /\ UNCHANGED after
    <3>1. units' = ReversePass(Current, BackwardOrder(Len(actions))).m
      BY <1>3 DEF Reverse, VisitOrder, Current
    <3>. QED  BY <1>3, <3>1 DEF UInv, Reverse
  <2>3. ~reversed' /\ closed' /\ closed
    BY <1>3 DEF Reverse, UInv
  <2>4. Abs!Redo
    BY <1>3, <2>1, <2>2, <2>3 DEF Abs!Redo
  <2>. QED  BY <2>4 DEF Abs!Next
<1>4. CASE UNCHANGED vars
  BY <1>4 DEF vars, Abs!avars, EditedFields
<1>. QED  BY <1>1, <1>2, <1>3, <1>4 DEF Next

\* The group implements the undo promise (UndoSpec under the mapping of
\* UndoGroups): an undo by ReversibleActions::Reverse rewrites only the
\* fields its UnitChanges name and a redo restores exactly what the edits
\* left, for every number of units, fields, values and edits.
THEOREM Refinement == Spec => UndoRefined
<1>1. Init => Abs!Init
  BY InitRefines
<1>2. UInv /\ UInv' /\ [Next]_vars => [Abs!Next]_Abs!avars
  BY NextRefines
<1>. QED  BY <1>1, <1>2, UInvInvariant, PTL DEF Spec, UndoRefined, Abs!Spec

=============================================================================
