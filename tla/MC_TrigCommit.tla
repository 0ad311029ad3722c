--------------------------- MODULE MC_TrigCommit ---------------------------
(* A document with one trigger tag, two string contents and two string *)
(* ids, one of them also used by a location.                             *)
EXTENDS TrigCommit

CONSTANTS t1, x, y, none

MCTags == {t1}
MCContents == {x, y}
MCIds == 1..2
MCOtherUsed == {2}
=============================================================================
