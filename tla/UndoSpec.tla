------------------------------ MODULE UndoSpec ------------------------------
(***************************************************************************)
(* What an undo group of unit edits promises, without its UnitChanges.     *)
(* While the group is open each edit sets one unit field.  An undo closes  *)
(* the group and may rewrite only fields the group edited; a redo gives    *)
(* back exactly the data the edits left.  The undo is not required to      *)
(* restore the data from before the group: ReversibleActions::Reverse      *)
(* does not always do so (run undo_order), so the promise is the weaker    *)
(* one the code keeps.                                                     *)
(***************************************************************************)
CONSTANTS Units, Fields, Values

\* A unit field of the map.
Key == Units \X Fields

VARIABLES
  units,    \* the unit data of the map
  after,    \* the unit data the edits of the group left
  touched,  \* the fields the group edited
  undone,   \* the group's last Reverse was an undo
  open      \* the group still accepts edits

avars == <<units, after, touched, undone, open>>

Init ==
  /\ units \in [Key -> Values]
  /\ after = units
  /\ touched = {}
  /\ undone = FALSE
  /\ open = TRUE

\* An edit of field k to v, recorded in the open group.
Edit(k, v) ==
  /\ open
  /\ units' = [units EXCEPT ![k] = v]
  /\ after' = units'
  /\ touched' = touched \cup {k}
  /\ UNCHANGED <<undone, open>>

\* Undo of a non-empty group: fields outside the group keep their data.
Undo ==
  /\ ~undone
  /\ touched # {}
  /\ units' \in [Key -> Values]
  /\ \A k \in Key \ touched : units'[k] = units[k]
  /\ undone' = TRUE
  /\ open' = FALSE
  /\ UNCHANGED <<after, touched>>

\* Redo: the data is what the edits left.
Redo ==
  /\ undone
  /\ units' = after
  /\ undone' = FALSE
  /\ UNCHANGED <<after, touched, open>>

Next ==
  \/ \E k \in Key, v \in Values : Edit(k, v)
  \/ Undo
  \/ Redo

Spec == Init /\ [][Next]_avars
=============================================================================
