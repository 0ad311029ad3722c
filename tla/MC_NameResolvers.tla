-------------------------- MODULE MC_NameResolvers --------------------------
(* Three locations (the second is Anywhere), three switches, one script,  *)
(* and two user names that share a hash bucket.                           *)
EXTENDS NameResolvers

CONSTANTS n1, n2, none, c1

MCNames == {n1, n2}
MCHash == [n \in {n1, n2, "No Location", "Anywhere", ""} |->
             IF n \in {n1, n2} THEN 1 ELSE 2]
MCSwitchNumbers == {1, 255, 256, 257}
MCNumbers == {0, 5, 300}
MCScriptCodes == {c1}
=============================================================================
