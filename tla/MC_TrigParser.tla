---------------------------- MODULE MC_TrigParser ----------------------------
(* Small instance of TrigParser: one condition type with two arguments     *)
(* (a non-last and a last one), one action type with one argument, one     *)
(* valid and one out-of-range owner group.  The cfg gives a trigger room   *)
(* for one condition and no action, so that the capacity checks of        *)
(* ParsePartFour and ParsePartSeven are reached within two triggers.       *)
EXTENDS TrigParser

CONSTANTS c1, a1, bad

MCCondNames == {c1}
MCActNames == {a1}
MCCondArity == [n \in MCCondNames |-> 2]
MCActArity == [n \in MCActNames |-> 1]
MCGroups == {0, 28}
=============================================================================
