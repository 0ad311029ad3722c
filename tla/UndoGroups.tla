----------------------------- MODULE UndoGroups -----------------------------
(***************************************************************************)
(* An undo group of unit edits (Reversibles.cpp, UnitChange.cpp).          *)
(* ReversibleActions holds the UnitChanges of one user operation in        *)
(* insertion order and a flag `reversed`.  Each UnitChange remembers one   *)
(* unit field and a value; its Reverse swaps that value with the field's   *)
(* current one.  ReversibleActions::Reverse runs the Reverse of every     *)
(* action, in insertion order when `reversed` is false and in reverse      *)
(* order when it is true, then flips `reversed`: the first call is the     *)
(* undo, the second the redo, and so on.                                   *)
(***************************************************************************)
EXTENDS Naturals, Sequences

CONSTANTS
  Units,       \* unit indices of the map
  Fields,      \* Chk::Unit::Field values
  Values,      \* field data (u32), abstracted to a small set
  MaxActions   \* bound: UnitChanges in the group

ASSUME UndoAssumption == MaxActions \in Nat /\ Values # {}

\* A UnitChange: its unit index, its field and the data it holds.
ChangeT == [unit : Units, field : Fields, data : Values]

VARIABLES
  units,     \* GuiMap unit field data: units[<<u, f>>]
  actions,   \* ReversibleActions::actions, in insertion order
  reversed,  \* ReversibleActions::reversed
  closed,    \* history: the group has been reversed at least once
  before,    \* history: the unit data before the first edit of the group
  after      \* history: the unit data after the last edit of the group

vars == <<units, actions, reversed, closed, before, after>>

-----------------------------------------------------------------------------
\* Mutant: UnitChange::Reverse writes the remembered data but does not
\* remember the data it replaced.
UnitChangeReverseKeepsData(st, i) ==
  LET a == st.acts[i]
  IN  [m    |-> [st.m EXCEPT ![<<a.unit, a.field>>] = a.data],
       acts |-> st.acts]

(* UnitChange::Reverse on action i: read the field, write the remembered   *)
(* data, remember what was read.                                           *)
UnitChangeReverse(st, i) ==
  LET a == st.acts[i]
  IN  [m    |-> [st.m EXCEPT ![<<a.unit, a.field>>] = a.data],
       acts |-> [st.acts EXCEPT ![i].data = st.m[<<a.unit, a.field>>]]]

\* The order in which ReversibleActions::Reverse visits the actions.
ForwardOrder(n) == [k \in 1..n |-> k]
BackwardOrder(n) == [k \in 1..n |-> n + 1 - k]

\* Mutant: both branches iterate in insertion order.
VisitOrderAlwaysForward(rev, n) == ForwardOrder(n)

\* The two loops of ReversibleActions::Reverse.
VisitOrder(rev, n) == IF rev THEN BackwardOrder(n) ELSE ForwardOrder(n)

\* A loop of ReversibleActions::Reverse: UnitChange::Reverse on the actions
\* in the order ord; run[k] is the group after the first k calls.
ReverseRun(st, ord) ==
  LET run[k \in 0..Len(ord)] ==
        IF k = 0 THEN st ELSE UnitChangeReverse(run[k - 1], ord[k])
  IN  run

\* The group after the whole loop.
ReversePass(st, ord) == ReverseRun(st, ord)[Len(ord)]

-----------------------------------------------------------------------------
Init ==
  /\ units \in [Units \X Fields -> Values]
  /\ actions = <<>>
  /\ reversed = FALSE
  /\ closed = FALSE
  /\ before = units
  /\ after = units

\* Mutant: UnitChange::Make called with the unit index and the field
\* swapped.
RecordArgsSwapped(u, f, v) ==
  /\ ~closed
  /\ Len(actions) < MaxActions
  /\ units' = [units EXCEPT ![<<u, f>>] = v]
  /\ actions' = Append(actions, [unit |-> f, field |-> u, data |-> units[<<u, f>>]])
  /\ after' = units'
  /\ UNCHANGED <<reversed, closed, before>>

\* The editor changes a field and records the change: it sets the new
\* data on the GuiMap, then Inserts UnitChange::Make(unit, field, old data)
\* into the open group.  A group receives edits until it is first undone.
Record(u, f, v) ==
  /\ ~closed
  /\ Len(actions) < MaxActions
  /\ units' = [units EXCEPT ![<<u, f>>] = v]
  /\ actions' = Append(actions, [unit |-> u, field |-> f, data |-> units[<<u, f>>]])
  /\ after' = units'
  /\ UNCHANGED <<reversed, closed, before>>

\* ReversibleActions::Reverse(guiMap): the whole loop, then the flag flip.
Reverse ==
  LET res == ReversePass([m |-> units, acts |-> actions],
                         VisitOrder(reversed, Len(actions)))
  IN  /\ actions # <<>>
      /\ units' = res.m
      /\ actions' = res.acts
      /\ reversed' = ~reversed
      /\ closed' = TRUE
      /\ UNCHANGED <<before, after>>

Next ==
  \/ \E u \in Units, f \in Fields, v \in Values : Record(u, f, v)
  \/ Reverse

Spec == Init /\ [][Next]_vars

-----------------------------------------------------------------------------
TypeOK ==
  /\ units \in [Units \X Fields -> Values]
  /\ actions \in Seq(ChangeT) /\ Len(actions) <= MaxActions
  /\ reversed \in BOOLEAN /\ closed \in BOOLEAN
  /\ before \in [Units \X Fields -> Values] /\ after \in [Units \X Fields -> Values]

\* Redo restores the edit: after any number of undo/redo pairs of the same
\* group, the unit data is what the edits left (ReversibleActions::Reverse
\* with reversed = TRUE must exactly invert the pass before it, which only
\* holds if it visits the UnitChanges in the opposite order).
RedoRestores ==
  (actions # <<>> /\ ~reversed) => units = after

\* Undo restores the state before the group: after an undo the unit data
\* is what it was before the first edit of the group (the first Reverse
\* visits the UnitChanges in insertion order, Reversibles.cpp:27).
UndoRestores ==
  reversed => units = before

-----------------------------------------------------------------------------
(* Refinement: the group implements UndoSpec.  The fields the group edited *)
(* are those its UnitChanges name; the last Reverse was an undo when       *)
(* `reversed` is set; the group accepts edits until it is closed.          *)
EditedFields == {<<actions[i].unit, actions[i].field>> : i \in 1..Len(actions)}

Abs == INSTANCE UndoSpec WITH touched <- EditedFields, undone <- reversed,
                              open <- ~closed

\* ReversibleActions with its UnitChanges implements the undo promise: an
\* undo rewrites only fields the group's UnitChanges name, and a redo
\* restores exactly what the edits left, whatever the number of edits,
\* their fields and their order.
UndoRefined == Abs!Spec
=============================================================================
