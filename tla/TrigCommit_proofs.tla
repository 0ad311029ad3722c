-------------------------- MODULE TrigCommit_proofs --------------------------
(***************************************************************************)
(* Proofs about the compile calls of TrigCommit, for all values of the     *)
(* constants: the type invariant, and that no compile, successful or       *)
(* rolled back, deletes a string still referenced by a trigger or another *)
(* user.                                                                   *)
(***************************************************************************)
EXTENDS TrigCommit, SequenceTheorems, TLAPS

-----------------------------------------------------------------------------
(* Lemmas on replaceRange (Splice).                                        *)

\* The part of s that replaceRange keeps before the range, and after it.
LEMMA SubSeqOfSeq ==
  ASSUME NEW S, NEW s \in Seq(S), NEW m \in Nat \ {0}, NEW n \in Int,
         n <= Len(s)
  PROVE  /\ SubSeq(s, m, n) \in Seq(S)
         /\ Range(SubSeq(s, m, n)) \subseteq Range(s)
<1>1. \A i \in m .. n : s[i] \in S
  BY LenProperties
<1>2. /\ SubSeq(s, m, n) \in Seq(S)
      /\ Len(SubSeq(s, m, n)) = IF m <= n THEN n - m + 1 ELSE 0
      /\ \A i \in 1 .. n - m + 1 : SubSeq(s, m, n)[i] = s[m + i - 1]
  BY <1>1, SubSeqProperties
<1>3. Range(SubSeq(s, m, n)) \subseteq Range(s)
  BY <1>2 DEF Range
<1>. QED  BY <1>2, <1>3

\* replaceRange(b, e, r) on a sequence yields a sequence of the same
\* elements as s and r, at least b long.
LEMMA SpliceProps ==
  ASSUME NEW S, NEW s \in Seq(S), NEW r \in Seq(S),
         NEW b \in 0 .. Len(s), NEW e \in Nat
  PROVE  /\ Splice(s, b, e, r) \in Seq(S)
         /\ Range(Splice(s, b, e, r)) \subseteq Range(s) \cup Range(r)
         /\ Range(r) \subseteq Range(Splice(s, b, e, r))
         /\ Len(Splice(s, b, e, r)) >= b
<1> DEFINE A == SubSeq(s, 1, b)
           B == SubSeq(s, e + 1, Len(s))
<1>1. A \in Seq(S) /\ Range(A) \subseteq Range(s) /\ Len(A) = b
  <2>1. A \in Seq(S) /\ Range(A) \subseteq Range(s)
    BY SubSeqOfSeq
  <2>2. Len(A) = b
    BY SubSeqProperties
  <2>. QED  BY <2>1, <2>2
<1>2. B \in Seq(S) /\ Range(B) \subseteq Range(s)
  BY SubSeqOfSeq
<1>3. A \o r \in Seq(S) /\ Len(A \o r) = b + Len(r)
  BY <1>1, ConcatProperties
<1>0. \A s1, s2 \in Seq(S) : Range(s1 \o s2) = Range(s1) \cup Range(s2)
  BY RangeConcatenation
<1>4. Range(A \o r) = Range(A) \cup Range(r)
  BY <1>0, <1>1
<1>5. (A \o r) \o B \in Seq(S) /\ Len((A \o r) \o B) = Len(A \o r) + Len(B)
  BY <1>2, <1>3, ConcatProperties
<1>6. Range((A \o r) \o B) = Range(A \o r) \cup Range(B)
  BY <1>0, <1>2, <1>3
<1>7. Splice(s, b, e, r) = (A \o r) \o B
  BY DEF Splice
<1>8. Len(r) \in Nat /\ Len(B) \in Nat
  BY <1>2, LenProperties
<1>9. Splice(s, b, e, r) \in Seq(S)
  BY <1>5, <1>7
<1>10. Range(Splice(s, b, e, r)) \subseteq Range(s) \cup Range(r)
  BY <1>1, <1>2, <1>4, <1>6, <1>7
<1>11. Range(r) \subseteq Range(Splice(s, b, e, r))
  BY <1>4, <1>6, <1>7
<1>12. Len(Splice(s, b, e, r)) >= b
  <2>1. Len((A \o r) \o B) >= b
    <3> HIDE DEF A, B
    <3>. QED  BY <1>3, <1>5, <1>8
  <2>. QED  BY <2>1, <1>7
<1>. QED  BY <1>9, <1>10, <1>11, <1>12

\* Element by element, replaceRange(b, e, r) keeps s before b, then has r,
\* then the rest of s from e on.
LEMMA SpliceElems ==
  ASSUME NEW S, NEW s \in Seq(S), NEW r \in Seq(S),
         NEW b \in 0 .. Len(s), NEW e \in b .. Len(s)
  PROVE  /\ Splice(s, b, e, r) \in Seq(S)
         /\ Len(Splice(s, b, e, r)) = Len(s) - (e - b) + Len(r)
         /\ \A i \in 1 .. Len(Splice(s, b, e, r)) :
              Splice(s, b, e, r)[i] =
                IF i <= b THEN s[i]
                ELSE IF i <= b + Len(r) THEN r[i - b]
                ELSE s[i - Len(r) + (e - b)]
<1> DEFINE A == SubSeq(s, 1, b)
           B == SubSeq(s, e + 1, Len(s))
<1> HIDE DEF A, B
<1>1. \A i \in 1 .. Len(s) : s[i] \in S
  BY LenProperties
<1>2. A \in Seq(S) /\ Len(A) = b /\ \A i \in 1 .. b : A[i] = s[i]
  BY <1>1, SubSeqProperties DEF A
<1>3. B \in Seq(S) /\ Len(B) = Len(s) - e /\ \A i \in 1 .. Len(s) - e : B[i] = s[e + i]
  BY <1>1, SubSeqProperties DEF B
<1>4. Len(r) \in Nat
  BY LenProperties
<1>5. /\ A \o r \in Seq(S)
      /\ Len(A \o r) = b + Len(r)
      /\ \A i \in 1 .. b + Len(r) : (A \o r)[i] = IF i <= b THEN s[i] ELSE r[i - b]
  <2>1. /\ A \o r \in Seq(S)
        /\ Len(A \o r) = Len(A) + Len(r)
        /\ \A i \in 1 .. Len(A) + Len(r) :
             (A \o r)[i] = IF i <= Len(A) THEN A[i] ELSE r[i - Len(A)]
    BY <1>2, ConcatProperties
  <2>. QED  BY <2>1, <1>2
<1>6. /\ (A \o r) \o B \in Seq(S)
      /\ Len((A \o r) \o B) = b + Len(r) + (Len(s) - e)
      /\ \A i \in 1 .. b + Len(r) + (Len(s) - e) :
           ((A \o r) \o B)[i] = IF i <= b + Len(r) THEN (A \o r)[i]
                                ELSE B[i - (b + Len(r))]
  <2>1. /\ (A \o r) \o B \in Seq(S)
        /\ Len((A \o r) \o B) = Len(A \o r) + Len(B)
        /\ \A i \in 1 .. Len(A \o r) + Len(B) :
             ((A \o r) \o B)[i] = IF i <= Len(A \o r) THEN (A \o r)[i]
                                  ELSE B[i - Len(A \o r)]
    BY <1>3, <1>5, ConcatProperties
  <2>. QED  BY <2>1, <1>3, <1>5
<1>7. Splice(s, b, e, r) = (A \o r) \o B
  BY DEF Splice, A, B
<1>8. \A i \in 1 .. b + Len(r) + (Len(s) - e) :
        ((A \o r) \o B)[i] = IF i <= b THEN s[i]
                             ELSE IF i <= b + Len(r) THEN r[i - b]
                             ELSE s[i - Len(r) + (e - b)]
  <2> SUFFICES ASSUME NEW i \in 1 .. b + Len(r) + (Len(s) - e)
               PROVE  ((A \o r) \o B)[i] = IF i <= b THEN s[i]
                                           ELSE IF i <= b + Len(r) THEN r[i - b]
                                           ELSE s[i - Len(r) + (e - b)]
    OBVIOUS
  <2>1. CASE i <= b + Len(r)
    BY <1>5, <1>6, <1>4, <2>1
  <2>2. CASE ~(i <= b + Len(r))
    <3>1. ((A \o r) \o B)[i] = B[i - (b + Len(r))]
      BY <1>6, <2>2
    <3>2. i - (b + Len(r)) \in 1 .. Len(s) - e
      BY <1>4, <2>2
    <3>3. B[i - (b + Len(r))] = s[e + (i - (b + Len(r)))]
      BY <3>2, <1>3
    <3>4. e + (i - (b + Len(r))) = i - Len(r) + (e - b)
      BY <1>4
    <3>. QED  BY <3>1, <3>3, <3>4, <2>2
  <2>. QED  BY <2>1, <2>2
<1>9. Len(s) \in Nat /\ b + Len(r) + (Len(s) - e) = Len(s) - (e - b) + Len(r)
  BY <1>4, LenProperties
<1>10. Splice(s, b, e, r) \in Seq(S)
  BY <1>6, <1>7
<1>11. Len(Splice(s, b, e, r)) = Len(s) - (e - b) + Len(r)
  BY <1>6, <1>7, <1>9
<1>. QED  BY <1>7, <1>8, <1>9, <1>10, <1>11

\* The rollback of BuildNewMap, replaceRange(b, b + |replaced|, replaced)
\* over the list that replaceRange(b, e, r) produced, gives back the
\* original list when r has as many triggers as the range [b, e) had.
LEMMA SpliceUndo ==
  ASSUME NEW S, NEW s \in Seq(S), NEW r \in Seq(S),
         NEW b \in 0 .. Len(s), NEW e \in b .. Len(s), Len(r) = e - b
  PROVE  LET q == ReplacedRange(s, b, e)
         IN  Splice(Splice(s, b, e, r), b, b + Len(q), q) = s
<1> DEFINE q == ReplacedRange(s, b, e)
           m == Splice(s, b, e, r)
           t == Splice(m, b, b + Len(q), q)
<1> HIDE DEF q, m, t
<1>1. /\ q \in Seq(S) /\ Len(q) = e - b
      /\ \A k \in 1 .. e - b : q[k] = s[b + k]
  <2>1. \A i \in b + 1 .. e : s[i] \in S
    BY LenProperties
  <2>. QED  BY <2>1, SubSeqProperties DEF q, ReplacedRange
<1>2. /\ m \in Seq(S) /\ Len(m) = Len(s)
      /\ \A i \in 1 .. Len(m) :
           m[i] = IF i <= b THEN s[i]
                  ELSE IF i <= b + Len(r) THEN r[i - b]
                  ELSE s[i - Len(r) + (e - b)]
  <2>1. /\ m \in Seq(S) /\ Len(m) = Len(s) - (e - b) + Len(r)
        /\ \A i \in 1 .. Len(m) :
             m[i] = IF i <= b THEN s[i]
                    ELSE IF i <= b + Len(r) THEN r[i - b]
                    ELSE s[i - Len(r) + (e - b)]
    BY SpliceElems DEF m
  <2>2. Len(s) \in Nat /\ Len(r) \in Nat
    BY LenProperties
  <2>3. Len(m) = Len(s)
    BY <2>1, <2>2
  <2>. QED  BY <2>1, <2>3
<1>3. b \in 0 .. Len(m) /\ b + Len(q) = e /\ e \in b .. Len(m)
  BY <1>1, <1>2
<1>4. /\ t \in Seq(S) /\ Len(t) = Len(s)
      /\ \A i \in 1 .. Len(t) :
           t[i] = IF i <= b THEN m[i]
                  ELSE IF i <= b + Len(q) THEN q[i - b]
                  ELSE m[i - Len(q) + (e - b)]
  <2>1. /\ t \in Seq(S) /\ Len(t) = Len(m) - (e - b) + Len(q)
        /\ \A i \in 1 .. Len(t) :
             t[i] = IF i <= b THEN m[i]
                    ELSE IF i <= b + Len(q) THEN q[i - b]
                    ELSE m[i - Len(q) + (e - b)]
    BY <1>1, <1>2, <1>3, SpliceElems DEF t
  <2>. QED  BY <2>1, <1>1, <1>2
<1>5. ASSUME NEW i \in 1 .. Len(s) PROVE t[i] = s[i]
  <2>1. CASE i <= b
    BY <1>2, <1>4, <2>1
  <2>2. CASE b < i /\ i <= e
    <3>1. t[i] = q[i - b]
      BY <1>1, <1>4, <2>2
    <3>. QED  BY <3>1, <1>1, <2>2
  <2>3. CASE e < i
    <3>1. t[i] = m[i]
      BY <1>1, <1>4, <2>3
    <3>2. i \in 1 .. Len(m) /\ ~(i <= b) /\ ~(i <= b + Len(r))
      BY <1>2, <2>3
    <3>3. m[i] = s[i - Len(r) + (e - b)]
      BY <3>2, <1>2
    <3>4. i - Len(r) + (e - b) = i
      BY LenProperties
    <3>. QED  BY <3>1, <3>3, <3>4
  <2>4. i \in Int /\ b \in Int /\ e \in Int
    BY LenProperties
  <2>. QED  BY <2>1, <2>2, <2>3, <2>4
<1>. QED  BY <1>4, <1>5, SeqEqual DEF t, m, q

-----------------------------------------------------------------------------
(* String references.                                                      *)

\* The string ids a list references are those of its elements.
LEMMA RefIdsByRange ==
  ASSUME NEW ts \in Seq(TrigT)
  PROVE  RefIds(ts) = UNION {t.sids : t \in Range(ts)}
BY LenProperties DEF RefIds, Range

\* Hence a list whose elements all occur in other lists references no
\* string those do not.
LEMMA RefIdsMono ==
  ASSUME NEW ts \in Seq(TrigT), NEW us \in Seq(TrigT), NEW vs \in Seq(TrigT),
         Range(ts) \subseteq Range(us) \cup Range(vs)
  PROVE  RefIds(ts) \subseteq RefIds(us) \cup RefIds(vs)
BY RefIdsByRange

\* ParseString resolves a literal only to the id of a string in the table,
\* so a resolved trigger list references only strings with content.
LEMMA ResolvedProps ==
  ASSUME strs \in [Ids -> Contents \cup {NoContent}],
         NEW text \in Seq(TextTrigT), NEW new \in Resolved(text)
  PROVE  /\ new \in Seq(TrigT)
         /\ Len(new) = Len(text)
         /\ \A id \in RefIds(new) : strs[id] \in Contents
<1>1. new \in [1 .. Len(text) -> TrigT]
  BY DEF Resolved
<1>2. new \in Seq(TrigT)
  BY <1>1, LenProperties, SeqDef
<1>3. ASSUME NEW k \in 1 .. Len(text), NEW id \in new[k].sids
      PROVE  strs[id] \in Contents
  <2>1. new[k] \in Resolve(text[k])
    BY DEF Resolved
  <2>2. text[k] \in TextTrigT
    BY ElementOfSeq
  <2> DEFINE tt == text[k]
              found == {l \in tt.lits : TableIds(l) # {}}
  <2>3. PICK f \in {g \in [found -> Ids] : \A l \in found : g[l] \in TableIds(l)} :
               new[k] = [tag |-> tt.tag, sids |-> {f[l] : l \in found}]
    BY <2>1 DEF Resolve
  <2>4. PICK l \in found : id = f[l]
    BY <2>3
  <2>5. strs[id] = l /\ l \in Contents
    BY <2>2, <2>3, <2>4 DEF TableIds, TextTrigT
  <2>. QED  BY <2>5
<1>4. Len(new) = Len(text)
  BY <1>1, <1>2, LenProperties
<1>. QED  BY <1>2, <1>3, <1>4 DEF RefIds
\* The texts and the documents of the model are sequences.
LEMMA SeqUpToSeq ==
  ASSUME NEW S, NEW n \in Nat
  PROVE  SeqUpTo(S, n) \subseteq Seq(S)
BY SeqDef DEF SeqUpTo

\* The string ids a trigger list references are string ids.
LEMMA RefIdsType ==
  ASSUME NEW ts \in Seq(TrigT)
  PROVE  RefIds(ts) \subseteq Ids
<1>1. \A i \in 1 .. Len(ts) : ts[i] \in TrigT
  BY ElementOfSeq
<1>2. \A i \in 1 .. Len(ts) : ts[i].sids \subseteq Ids
  BY <1>1 DEF TrigT
<1>. QED  BY <1>2 DEF RefIds

-----------------------------------------------------------------------------
(* The inductive invariant.                                                *)

Inv == TypeOK /\ NoDanglingStringRefs

\* A document as the editor loads it satisfies the invariant.
LEMMA InitInv == Init => Inv
<1> SUFFICES ASSUME Init PROVE Inv
  OBVIOUS
<1>1. trigs \in Seq(TrigT)
  <2>1. [tag : Tags, sids : SUBSET {id \in Ids : strs[id] # NoContent}] \subseteq TrigT
    BY DEF TrigT
  <2>2. trigs \in Seq([tag : Tags, sids : SUBSET {id \in Ids : strs[id] # NoContent}])
    BY SeqUpToSeq, CommitAssumption DEF Init
  <2>. QED  BY <2>1, <2>2, SeqMonotonic
<1>2. TypeOK
  BY <1>1, SeqDef DEF Init, TypeOK, CallT
<1>3. NoDanglingStringRefs
  <2> DEFINE G == [tag : Tags, sids : SUBSET {id \in Ids : strs[id] # NoContent}]
  <2>1. trigs \in Seq(G)
    BY SeqUpToSeq, CommitAssumption DEF Init
  <2>2. ASSUME NEW i \in 1 .. Len(trigs), NEW id \in trigs[i].sids
        PROVE  strs[id] # NoContent
    <3>1. trigs[i] \in G
      <4> HIDE DEF G
      <4>. QED  BY <2>1, ElementOfSeq
    <3>. QED  BY <3>1
  <2>3. \A id \in OtherUsed : strs[id] # NoContent
    BY DEF Init
  <2>. QED  BY <2>2, <2>3 DEF NoDanglingStringRefs, RefIds
<1>. QED  BY <1>2, <1>3 DEF Inv

\* A call rejected before BuildNewMap changes nothing but the history.
LEMMA RejectedInv ==
  ASSUME Inv, NEW op \in {"all", "one"}, NEW b \in Nat, NEW e \in Nat,
         NEW text \in Seq(TextTrigT), Rejected(op, b, e, text)
  PROVE  Inv'
<1>1. <<>> \in Seq(TrigT)
  BY EmptySeq
<1>. QED  BY <1>1 DEF Rejected, Inv, TypeOK, CallT, NoDanglingStringRefs, RefIds, TableIds
\* BuildNewMap, whether it commits or rolls back, preserves the invariant:
\* the installed list (spliced or swapped) references only strings of the
\* old list and of the table, which deleteUnusedStrings keeps; the list
\* after a rollback references only strings of the old and the parsed
\* lists, and the strings are restored.
LEMMA BuildNewMapInv ==
  ASSUME Inv, NEW op \in {"all", "one"},
         NEW b \in 0 .. Len(trigs), NEW e \in b .. Len(trigs),
         NEW text \in Seq(TextTrigT), NEW new \in Resolved(text),
         NEW swap \in BOOLEAN,
         BuildNewMap(op, b, e, text, new, swap)
  PROVE  Inv'
<1> DEFINE mid      == Splice(trigs, b, e, new)
           replaced == ReplacedRange(trigs, b, e)
<1>1. trigs \in Seq(TrigT) /\ strs \in [Ids -> Contents \cup {NoContent}]
  BY DEF Inv, TypeOK
<1>2. new \in Seq(TrigT) /\ \A id \in RefIds(new) : strs[id] \in Contents
  BY <1>1, ResolvedProps
<1>3. /\ mid \in Seq(TrigT)
      /\ Range(mid) \subseteq Range(trigs) \cup Range(new)
      /\ Range(new) \subseteq Range(mid)
      /\ Len(mid) >= b
  BY <1>1, <1>2, SpliceProps
<1>4. replaced \in Seq(TrigT) /\ Range(replaced) \subseteq Range(trigs)
  BY <1>1, SubSeqOfSeq DEF ReplacedRange
<1>5. Len(replaced) \in Nat /\ Len(mid) \in Nat
  BY <1>3, <1>4, LenProperties
\* Every string the old or the parsed list references has content.
<1>6. \A id \in OtherUsed \cup RefIds(trigs) \cup RefIds(new) : strs[id] # NoContent
  BY <1>2, CommitAssumption DEF Inv, NoDanglingStringRefs
<1>7. RefIds(mid) \subseteq RefIds(trigs) \cup RefIds(new)
  BY <1>1, <1>2, <1>3, RefIdsMono
<1>8. /\ b \in Nat /\ e \in Nat
      /\ text \in Seq(TextTrigT) /\ new \in Seq(TrigT)
  BY <1>2
<1>9. CASE /\ trigs' = IF swap THEN new ELSE mid
           /\ strs' = Cleaned(mid)
           /\ last' = [op |-> op, b |-> b, e |-> e, ok |-> TRUE, text |-> text, new |-> new]
  <2>1. trigs' \in Seq(TrigT) /\ Range(trigs') \subseteq Range(mid)
    BY <1>2, <1>3, <1>9
  <2>2. RefIds(trigs') \subseteq RefIds(mid)
    BY <2>1, <1>3, RefIdsMono
  <2>3. strs' \in [Ids -> Contents \cup {NoContent}]
    BY <1>1, <1>9 DEF Cleaned
  <2>4. last' \in CallT
    BY <1>8, <1>9 DEF CallT
  <2>5. ASSUME NEW id \in OtherUsed \cup RefIds(trigs') PROVE strs'[id] # NoContent
    <3>1. id \in Ids /\ id \in OtherUsed \cup RefIds(mid)
      BY <2>1, <2>2, RefIdsType, CommitAssumption
    <3>2. strs'[id] = strs[id]
      BY <3>1, <1>9 DEF Cleaned
    <3>. QED  BY <3>1, <3>2, <1>6, <1>7
  <2>. QED  BY <2>1, <2>3, <2>4, <2>5 DEF Inv, TypeOK, NoDanglingStringRefs
<1>10. CASE /\ trigs' = Splice(mid, b, b + Len(replaced), replaced)
            /\ strs' = strs
            /\ last' = [op |-> op, b |-> b, e |-> e, ok |-> FALSE, text |-> text, new |-> new]
  <2>1. /\ trigs' \in Seq(TrigT)
        /\ Range(trigs') \subseteq Range(mid) \cup Range(replaced)
    BY <1>3, <1>4, <1>5, <1>10, SpliceProps
  <2>2. Range(trigs') \subseteq Range(trigs) \cup Range(new)
    BY <2>1, <1>3, <1>4
  <2>3. RefIds(trigs') \subseteq RefIds(trigs) \cup RefIds(new)
    BY <2>1, <2>2, <1>1, <1>2, RefIdsMono
  <2>4. last' \in CallT
    BY <1>8, <1>10 DEF CallT
  <2>. QED  BY <1>1, <1>6, <1>10, <2>1, <2>3, <2>4 DEF Inv, TypeOK, NoDanglingStringRefs
<1>. QED  BY <1>9, <1>10 DEF BuildNewMap
\* Every compile call preserves the invariant.
LEMMA NextInv == Inv /\ [Next]_vars => Inv'
<1> SUFFICES ASSUME Inv, [Next]_vars PROVE Inv'
  OBVIOUS
<1>1. trigs \in Seq(TrigT) /\ Len(trigs) \in Nat
  BY LenProperties DEF Inv, TypeOK
<1>2. Texts \subseteq Seq(TextTrigT)
  BY SeqUpToSeq, CommitAssumption DEF Texts
<1>3. CASE \E b, e \in 0 .. Len(trigs), text \in Texts : b <= e /\ CompileTriggers(b, e, text)
  <2>1. PICK b \in 0 .. Len(trigs), e \in 0 .. Len(trigs), text \in Texts :
               b <= e /\ CompileTriggers(b, e, text)
    BY <1>3
  <2>2. CASE \E new \in Resolved(text) :
               /\ Len(trigs) - (e - b) + Len(new) <= MaxTrigs
               /\ BuildNewMap("all", b, e, text, new, TRUE)
    <3>1. PICK new \in Resolved(text) : BuildNewMap("all", b, e, text, new, TRUE)
      BY <2>2
    <3>2. text \in Seq(TextTrigT) /\ e \in b .. Len(trigs)
      BY <1>2, <2>1
    <3>. QED  BY <3>1, <3>2, BuildNewMapInv
  <2>3. CASE Rejected("all", b, e, text)
    BY <1>2, <2>1, <2>3, RejectedInv
  <2>. QED  BY <2>1, <2>2, <2>3 DEF CompileTriggers
<1>4. CASE \E i \in 0 .. Len(trigs) - 1, text \in Texts : CompileTrigger(i, text)
  <2>1. PICK i \in 0 .. Len(trigs) - 1, text \in Texts : CompileTrigger(i, text)
    BY <1>4
  <2>2. i \in 0 .. Len(trigs) /\ i + 1 \in i .. Len(trigs) /\ i + 1 \in Nat
    BY <1>1
  <2>3. CASE \E new \in Resolved(text) : BuildNewMap("one", i, i + 1, text, new, FALSE)
    BY <1>2, <2>1, <2>2, <2>3, BuildNewMapInv
  <2>4. CASE Rejected("one", i, i + 1, text)
    BY <1>2, <2>1, <2>2, <2>4, RejectedInv
  <2>. QED  BY <2>1, <2>3, <2>4 DEF CompileTrigger
<1>5. CASE UNCHANGED vars
  BY <1>5 DEF Inv, TypeOK, NoDanglingStringRefs, RefIds, vars
<1>. QED  BY <1>3, <1>4, <1>5 DEF Next

-----------------------------------------------------------------------------
(* Theorems.                                                               *)

\* The compile calls keep the document and the call history well typed:
\* the trigger list a range replace, a swap or a rollback leaves is a list
\* of triggers, and the string section keeps one slot per id.
THEOREM TypeCorrect == Spec => []TypeOK
<1>1. Init => Inv
  BY InitInv
<1>2. Inv /\ [Next]_vars => Inv'
  BY NextInv
<1>3. Inv => TypeOK
  BY DEF Inv
<1>. QED  BY <1>1, <1>2, <1>3, PTL DEF Spec

\* No sequence of CompileTriggers and CompileTrigger calls, each of which
\* may succeed, be rejected, or fail inside BuildNewMap and roll back,
\* leaves a trigger action or another user referring to a deleted string
\* (deleteUnusedStrings counts every user of the final list; the restore
\* brings back every string the rolled-back list needs).
THEOREM NoDangling == Spec => []NoDanglingStringRefs
<1>1. Init => Inv
  BY InitInv
<1>2. Inv /\ [Next]_vars => Inv'
  BY NextInv
<1>3. Inv => NoDanglingStringRefs
  BY DEF Inv
<1>. QED  BY <1>1, <1>2, <1>3, PTL DEF Spec
-----------------------------------------------------------------------------
(* CompileTrigger is all or nothing.                                       *)

\* The step that SingleCompileAtomic requires of every call.
SingleStep ==
  last'.op = "one" =>
    IF last'.ok THEN trigs' = Splice(trigs, last'.b, last'.e, last'.new)
                ELSE trigs' = trigs /\ strs' = strs

\* A CompileTrigger call replaces slot i or, when it fails in BuildNewMap,
\* puts back exactly what it replaced: one trigger was replaced by one.
LEMMA CompileTriggerStep ==
  ASSUME Inv, NEW i \in 0 .. Len(trigs) - 1, NEW text \in Seq(TextTrigT),
         CompileTrigger(i, text)
  PROVE  SingleStep
<1>1. trigs \in Seq(TrigT) /\ strs \in [Ids -> Contents \cup {NoContent}]
  BY DEF Inv, TypeOK
<1>2. i \in 0 .. Len(trigs) /\ i + 1 \in i .. Len(trigs)
  BY <1>1, LenProperties
<1>3. CASE Len(text) = 1 /\ \E new \in Resolved(text) : BuildNewMap("one", i, i + 1, text, new, FALSE)
  <2>1. PICK new \in Resolved(text) : BuildNewMap("one", i, i + 1, text, new, FALSE)
    BY <1>3
  <2>2. new \in Seq(TrigT) /\ Len(new) = (i + 1) - i
    BY <1>1, <1>3, ResolvedProps
  <2> DEFINE mid == Splice(trigs, i, i + 1, new)
             replaced == ReplacedRange(trigs, i, i + 1)
  <2>3. CASE /\ trigs' = IF FALSE THEN new ELSE mid
             /\ last' = [op |-> "one", b |-> i, e |-> i + 1, ok |-> TRUE, text |-> text, new |-> new]
    BY <2>3 DEF SingleStep
  <2>4. CASE /\ trigs' = Splice(mid, i, i + Len(replaced), replaced)
             /\ strs' = strs
             /\ last' = [op |-> "one", b |-> i, e |-> i + 1, ok |-> FALSE, text |-> text, new |-> new]
    <3>1. Splice(mid, i, i + Len(replaced), replaced) = trigs
      BY <1>1, <1>2, <2>2, SpliceUndo
    <3>. QED  BY <2>4, <3>1 DEF SingleStep
  <2>. QED  BY <2>1, <2>3, <2>4 DEF BuildNewMap
<1>4. CASE Rejected("one", i, i + 1, text)
  BY <1>4 DEF Rejected, SingleStep
<1>. QED  BY <1>3, <1>4 DEF CompileTrigger

\* Every step of the system satisfies SingleStep or leaves vars alone.
LEMMA SingleStepInv == Inv /\ [Next]_vars => [SingleStep]_vars
<1> SUFFICES ASSUME Inv, [Next]_vars PROVE [SingleStep]_vars
  OBVIOUS
<1>1. Texts \subseteq Seq(TextTrigT)
  BY SeqUpToSeq, CommitAssumption DEF Texts
<1>2. CASE \E b, e \in 0 .. Len(trigs), text \in Texts : b <= e /\ CompileTriggers(b, e, text)
  <2>1. PICK b \in 0 .. Len(trigs), e \in 0 .. Len(trigs), text \in Texts :
               b <= e /\ CompileTriggers(b, e, text)
    BY <1>2
  <2>2. last'.op = "all"
    BY <2>1 DEF CompileTriggers, BuildNewMap, Rejected
  <2>. QED  BY <2>2 DEF SingleStep
<1>3. CASE \E i \in 0 .. Len(trigs) - 1, text \in Texts : CompileTrigger(i, text)
  BY <1>1, <1>3, CompileTriggerStep
<1>4. CASE UNCHANGED vars
  BY <1>4
<1>. QED  BY <1>2, <1>3, <1>4 DEF Next

\* CompileTrigger is all or nothing, for every value of the constants: on
\* success only slot i changes; on a syntax error, a wrong trigger count or
\* a throw inside BuildNewMap, the trigger list and the string section are
\* exactly as before (the rollback index is right because one trigger
\* replaces one).
THEOREM SingleCompileIsAtomic == Spec => SingleCompileAtomic
<1>1. Init => Inv
  BY InitInv
<1>2. Inv /\ [Next]_vars => Inv'
  BY NextInv
<1>3. Inv /\ [Next]_vars => [SingleStep]_vars
  BY SingleStepInv
<1>. QED  BY <1>1, <1>2, <1>3, PTL DEF Spec, SingleCompileAtomic, SingleStep
=============================================================================
