--------------------------- MODULE MC_UndoGroups ---------------------------
(* One unit with two fields of three values; groups of up to three edits. *)
EXTENDS UndoGroups

CONSTANTS u1, hp, owner

MCUnits == {u1}
MCFields == {hp, owner}
MCValues == 0..2
=============================================================================
