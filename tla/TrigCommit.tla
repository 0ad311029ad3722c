----------------------------- MODULE TrigCommit -----------------------------
(***************************************************************************)
(* The compile calls of TextTrigCompiler as the editor makes them, one     *)
(* after the other, against the map document (TextTrigCompiler.cpp):       *)
(*   CompileTriggers  - LoadCompiler, parse, BuildNewMap, then swap the    *)
(*                      parsed list into the TRIG section;                 *)
(*   CompileTrigger   - the same for one trigger slot, without the swap.   *)
(* The parse itself is TrigParser; here a text is what it parses to: a     *)
(* list of triggers, each with the string literals of its actions.  What  *)
(* is modelled is what the call does to the document: string literals     *)
(* resolved against the string table (ParseString over PrepStringTable),   *)
(* the trigger range replaced, unused strings deleted, and the rollback    *)
(* of BuildNewMap when deleting or adding strings throws.                  *)
(***************************************************************************)
EXTENDS Naturals, Sequences

CONSTANTS
  Tags,        \* what distinguishes triggers apart from their strings
  Contents,    \* string contents
  NoContent,   \* an empty string slot
  Ids,         \* string ids of the STR section (1 .. capacity)
  OtherUsed,   \* string ids used by locations, switches, forces, ...
  MaxTrigs,    \* bound: triggers in the document
  MaxParsed    \* bound: triggers in one compiled text

ASSUME CommitAssumption ==
  /\ NoContent \notin Contents
  /\ OtherUsed \subseteq Ids
  /\ MaxTrigs \in Nat /\ MaxParsed \in Nat

\* A trigger in the document: the string ids its actions reference
\* (actionUsesStringArg / actionUsesSoundArg ids other than 0).
TrigT == [tag : Tags, sids : SUBSET Ids]
\* A trigger as the text describes it: the string literals of its actions.
TextTrigT == [tag : Tags, lits : SUBSET Contents]

\* Sequences of length at most n over S.
SeqUpTo(S, n) == UNION {[1..m -> S] : m \in 0..n}

\* What the last compile call was and what it returned (history).
CallT == [op : {"none", "all", "one"}, b : Nat, e : Nat, ok : BOOLEAN,
          text : Seq(TextTrigT), new : Seq(TrigT)]

VARIABLES
  trigs,   \* the TRIG section: the document's triggers
  strs,    \* the STR section: content of each string id
  last     \* the last compile call (history)

vars == <<trigs, strs, last>>

-----------------------------------------------------------------------------
(* Helpers on the document.                                                *)

\* String ids referenced by the triggers of a list.
RefIds(ts) == UNION {ts[i].sids : i \in 1..Len(ts)}

\* TrigSection::replaceRange(b, e, r) with 0-based b and exclusive e.
Splice(s, b, e, r) == SubSeq(s, 1, b) \o r \o SubSeq(s, e + 1, Len(s))

\* Mutant: the returned range one trigger short.
RangeShort(s, b, e) == SubSeq(s, b + 1, e - 1)

\* The trigger range that replaceRange(b, e, .) returns.
ReplacedRange(s, b, e) == SubSeq(s, b + 1, e)

\* PrepStringTable (game scope): every string in use, by a trigger or by
\* another user, keyed by content.
TableIds(l) == {id \in OtherUsed \cup RefIds(trigs) : strs[id] = l}

\* ParseString for each literal of a text trigger: a literal found in the
\* table yields the id of one matching node (the first of its hash bucket,
\* in an order the code does not fix); a literal not found creates a node
\* that is never stored, so the action keeps string id 0.
Resolve(tt) ==
  LET found == {l \in tt.lits : TableIds(l) # {}}
  IN  {[tag |-> tt.tag, sids |-> {f[l] : l \in found}] :
         f \in {g \in [found -> Ids] : \A l \in found : g[l] \in TableIds(l)}}

\* The trigger lists the parse of text can produce.
Resolved(text) ==
  {r \in [1..Len(text) -> TrigT] : \A k \in 1..Len(text) : r[k] \in Resolve(text[k])}

\* Mutant: deleteUnusedStrings counting only trigger users.
CleanedTriggersOnly(ts) ==
  [id \in Ids |-> IF id \in RefIds(ts) THEN strs[id] ELSE NoContent]

\* deleteUnusedStrings: strings no trigger of ts and no other user needs.
Cleaned(ts) ==
  [id \in Ids |-> IF id \in OtherUsed \cup RefIds(ts) THEN strs[id] ELSE NoContent]

-----------------------------------------------------------------------------
(* The calls.                                                              *)

Init ==
  /\ strs \in [Ids -> Contents \cup {NoContent}]
  /\ \A id \in OtherUsed : strs[id] # NoContent
  /\ trigs \in SeqUpTo([tag : Tags, sids : SUBSET {id \in Ids : strs[id] # NoContent}], MaxTrigs)
  /\ last = [op |-> "none", b |-> 0, e |-> 0, ok |-> TRUE, text |-> <<>>, new |-> <<>>]

\* BuildNewMap(b, e, new) and what the caller installs after it.  Backup the
\* strings, replace the range, delete unused strings; the loop over
\* unassignedStrings has nothing to do, since ParseString never fills it.
\* If deleteUnusedStrings throws, the range [b, b + |replaced|) is put back
\* and the strings restored.  swap: CompileTriggers then swaps the parsed
\* list into the TRIG section.
BuildNewMap(op, b, e, text, new, swap) ==
  LET mid      == Splice(trigs, b, e, new)
      replaced == ReplacedRange(trigs, b, e)
  IN  \/ /\ trigs' = IF swap THEN new ELSE mid
         /\ strs' = Cleaned(mid)
         /\ last' = [op |-> op, b |-> b, e |-> e, ok |-> TRUE, text |-> text, new |-> new]
      \/ /\ trigs' = Splice(mid, b, b + Len(replaced), replaced)
         /\ strs' = strs
         /\ last' = [op |-> op, b |-> b, e |-> e, ok |-> FALSE, text |-> text, new |-> new]

\* A call that ends with an error before BuildNewMap: nothing changes.
Rejected(op, b, e, text) ==
  /\ last' = [op |-> op, b |-> b, e |-> e, ok |-> FALSE, text |-> text, new |-> <<>>]
  /\ UNCHANGED <<trigs, strs>>

\* CompileTriggers(text, chk, scData, b, e).
CompileTriggers(b, e, text) ==
  \/ /\ \E new \in Resolved(text) :
          /\ Len(trigs) - (e - b) + Len(new) <= MaxTrigs
          /\ BuildNewMap("all", b, e, text, new, TRUE)
  \/ Rejected("all", b, e, text)

\* Mutant: the slot index taken one too low.
CompileTriggerBelow(i, text) ==
  \/ /\ Len(text) = 1
     /\ \E new \in Resolved(text) : BuildNewMap("one", i - 1, i, text, new, FALSE)
  \/ Rejected("one", i - 1, i, text)

\* CompileTrigger(text, trigger, chk, scData, i): the text must hold
\* exactly one trigger.
CompileTrigger(i, text) ==
  \/ /\ Len(text) = 1
     /\ \E new \in Resolved(text) : BuildNewMap("one", i, i + 1, text, new, FALSE)
  \/ Rejected("one", i, i + 1, text)

Texts == SeqUpTo(TextTrigT, MaxParsed)

Next ==
  \/ \E b, e \in 0..Len(trigs), text \in Texts : b <= e /\ CompileTriggers(b, e, text)
  \/ \E i \in 0..Len(trigs) - 1, text \in Texts : CompileTrigger(i, text)

Spec == Init /\ [][Next]_vars

-----------------------------------------------------------------------------
(* Properties.                                                             *)

TypeOK ==
  /\ trigs \in Seq(TrigT)
  /\ strs \in [Ids -> Contents \cup {NoContent}]
  /\ last \in CallT

\* No compile, successful or rolled back, leaves a string that a trigger
\* action or another user (location, switch, force name) references
\* deleted: deleteUnusedStrings in BuildNewMap must count every user, and
\* the restore after a failed build must bring back what it deleted.
NoDanglingStringRefs ==
  \A id \in OtherUsed \cup RefIds(trigs) : strs[id] # NoContent

\* CompileTrigger is all or nothing: on success slot i alone is replaced by
\* the compiled trigger; on any failure (syntax, wrong trigger count, or a
\* throw inside BuildNewMap) the triggers and the strings are as before.
SingleCompileAtomic ==
  [][last'.op = "one" =>
       IF last'.ok THEN trigs' = Splice(trigs, last'.b, last'.e, last'.new)
                   ELSE trigs' = trigs /\ strs' = strs]_vars

\* Spec 4.5 and 8: a compile that fails leaves the trigger list and the
\* string section as they were (BuildNewMap's rollback of the range).
FailureAtomic ==
  [][~last'.ok => trigs' = trigs /\ strs' = strs]_vars

\* Spec 4.5: a successful CompileTriggers(b, e) splices the compiled
\* triggers into the range [b, e) and keeps the triggers outside it.
RangeReplaced ==
  [][last'.ok => trigs' = Splice(trigs, last'.b, last'.e, last'.new)]_vars

\* Spec 4.4: every string literal of a compiled action ends up referenced
\* by that action, through an existing string or a newly added one
\* (ParseString / BuildNewMap's addString loop).
LiteralsInterned ==
  [][last'.ok =>
       \A k \in 1..Len(last'.text) : \A l \in last'.text[k].lits :
          \E id \in last'.new[k].sids : strs'[id] = l]_vars
=============================================================================
