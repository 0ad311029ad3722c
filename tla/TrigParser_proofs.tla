-------------------------- MODULE TrigParser_proofs --------------------------
(***************************************************************************)
(* Proofs about the parse loop of TrigParser, for all values of the        *)
(* constants: the type invariant, that every emitted condition and action *)
(* has exactly its descriptor's arguments, that states 6 and 9 are never  *)
(* entered, and that a successful parse has pushed every trigger it began. *)
(***************************************************************************)
EXTENDS TrigParser, TLAPS

-----------------------------------------------------------------------------
(* The inductive invariant.                                                *)

\* The states some handler sets: SectionState's values, the Goto targets of
\* ParsePartZero .. ParsePartTwelve, and 0.
LiveStates == {0, 1, 2, 3, 4, 5, 7, 8, 10, 11, 12}

\* A line end is revealed only while a line is left: LineEnd then counts it.
EolBelowMax == tok.k = "EOL" => line < MaxLines

\* Every condition of the current trigger has its descriptor's arguments,
\* except the last one while state 5 is still filling it; there the slot
\* count equals argIndex, which does not exceed the arity.  Likewise for the
\* actions and state 8.
CondsFilled ==
  LET cs == currTrig.conds IN
  /\ expecting = 5 =>
       /\ cs # <<>>
       /\ cs[Len(cs)].nargs = argIndex
       /\ argIndex <= CondArity[cs[Len(cs)].type]
  /\ \A j \in 1..Len(cs) :
       (expecting = 5 /\ j = Len(cs)) \/ cs[j].nargs = CondArity[cs[j].type]

ActsFilled ==
  LET al == currTrig.acts IN
  /\ expecting = 8 =>
       /\ al # <<>>
       /\ al[Len(al)].nargs = argIndex
       /\ argIndex <= ActArity[al[Len(al)].type]
  /\ \A j \in 1..Len(al) :
       (expecting = 8 /\ j = Len(al)) \/ al[j].nargs = ActArity[al[j].type]

\* Until a handler fails, the TRIGGER( tokens revealed so far are the
\* pushed triggers, the one under construction (any state but 0), and the
\* token at pos when it is one not yet consumed.
TrigCount ==
  result # "error" =>
    ntrig = Len(output) + (IF expecting # 0 THEN 1 ELSE 0)
                        + (IF tok.k = "TRIG" THEN 1 ELSE 0)

\* ParseTriggers returns true only from state 0 at the '\0' it appended.
OkAtEnd == result = "ok" => expecting = 0 /\ tok.k = "EOT"

IInv ==
  /\ TypeOK
  /\ expecting \in LiveStates
  /\ EolBelowMax
  /\ CondsFilled
  /\ ActsFilled
  /\ ArgsMatchDescriptor
  /\ TrigCount
  /\ OkAtEnd

-----------------------------------------------------------------------------
(* Lemmas on the steps the handlers share.                                 *)

\* The fields of a token, by its kind.
LEMMA TokFields ==
  ASSUME NEW t \in Tok
  PROVE  /\ t.k = "NAME" => t.n \in Names /\ t.dis \in BOOLEAN
         /\ t.k = "PLAYER" => t.g \in Groups /\ t.last \in BOOLEAN
         /\ t.k = "KW" => t.w \in Keywords
         /\ t.k = "ARG" => t.ok \in BOOLEAN /\ t.last \in BOOLEAN
BY DEF Tok

\* The initial state satisfies the inductive invariant.
LEMMA InitIInv == Init => IInv
<1> SUFFICES ASSUME Init PROVE IInv
  OBVIOUS
<1>1. PICK t \in Tok :
        /\ t.k = "EOL" => 1 < MaxLines
        /\ t.k = "TRIG" => 0 < MaxTriggers
        /\ tok = t
        /\ ntrig = IF t.k = "TRIG" THEN 1 ELSE 0
        /\ mustParen = (t = [k |-> "SEMI", paren |-> TRUE])
        /\ noParen = (t = [k |-> "SEMI", paren |-> FALSE])
  BY DEF Init
<1>2. TypeOK
  BY <1>1, ParserAssumption DEF Init, TypeOK, TrigT, EmptyTrig
<1>3. EolBelowMax /\ TrigCount /\ OkAtEnd
  BY <1>1 DEF Init, EolBelowMax, TrigCount, OkAtEnd
<1>4. CondsFilled /\ ActsFilled /\ ArgsMatchDescriptor
  BY DEF Init, CondsFilled, ActsFilled, ArgsMatchDescriptor, EmptyTrig
<1>. QED  BY <1>2, <1>3, <1>4 DEF IInv, Init, LiveStates

\* Revealing the next token (Consume) keeps the token, the line number and
\* the TRIGGER( count within their bounds: a line end is revealed only
\* while LineEnd can still count it, and a TRIGGER( only below
\* MaxTriggers.  The line advances exactly when the consumed token was a
\* line end.
LEMMA ConsumeBounds ==
  ASSUME TypeOK, EolBelowMax, Consume,
         line' = line + (IF tok.k = "EOL" THEN 1 ELSE 0)
  PROVE  /\ tok' \in Tok
         /\ line' \in 1..MaxLines
         /\ (tok'.k = "EOL" => line' < MaxLines)
         /\ ntrig' = ntrig + (IF tok'.k = "TRIG" THEN 1 ELSE 0)
         /\ ntrig' \in 0..MaxTriggers
         /\ mustParen' \in BOOLEAN /\ noParen' \in BOOLEAN
<1>1. PICK t \in Tok : Follows(tok, t) /\ Reveal(t)
  BY DEF Consume
<1>2. line' \in 1..MaxLines
  BY ParserAssumption DEF TypeOK, EolBelowMax
<1>3. tok'.k = "EOL" => line' < MaxLines
  BY <1>1, ParserAssumption DEF Follows, Reveal, TypeOK
<1>4. ntrig' = ntrig + (IF tok'.k = "TRIG" THEN 1 ELSE 0) /\ ntrig' \in 0..MaxTriggers
  BY <1>1, ParserAssumption DEF Follows, Reveal, TypeOK
<1>. QED  BY <1>1, <1>2, <1>3, <1>4 DEF Reveal

\* A handler that fails (ParseTriggers returns false) keeps the invariant.
LEMMA FailIInv ==
  ASSUME IInv, Fail
  PROVE  IInv'
<1>1. TypeOK'
  BY DEF IInv, Fail, TypeOK
<1>2. (expecting \in LiveStates /\ EolBelowMax /\ CondsFilled /\ ActsFilled
       /\ ArgsMatchDescriptor)'
  BY DEF IInv, Fail, EolBelowMax, CondsFilled, ActsFilled, ArgsMatchDescriptor
<1>3. TrigCount' /\ OkAtEnd'
  BY DEF Fail, TrigCount, OkAtEnd
<1>. QED  BY <1>1, <1>2, <1>3 DEF IInv

\* The capacity error of ParsePartFour and ParsePartSeven: argIndex is reset
\* to 0 and the parse fails, outside the argument states 5 and 8.
LEMMA FailResetIInv ==
  ASSUME IInv, expecting \notin {5, 8}, argIndex' = 0, result' = "error",
         UNCHANGED <<expecting, tok, line, currTrig, output, ntrig,
                     mustParen, noParen>>
  PROVE  IInv'
<1>1. TypeOK'
  BY DEF IInv, TypeOK
<1>2. (expecting \in LiveStates /\ EolBelowMax /\ CondsFilled /\ ActsFilled
       /\ ArgsMatchDescriptor)'
  BY DEF IInv, EolBelowMax, CondsFilled, ActsFilled, ArgsMatchDescriptor
<1>3. TrigCount' /\ OkAtEnd'
  BY DEF TrigCount, OkAtEnd
<1>. QED  BY <1>1, <1>2, <1>3 DEF IInv

\* A handler that consumes a token other than TRIGGER( and moves between
\* states outside 0, 5 and 8, leaving the lists of the current trigger as
\* they are (ParsePartOne .. ParsePartEleven except the condition and
\* action entries) keeps the invariant.
LEMMA MoveIInv ==
  ASSUME IInv, result = "running", tok.k \notin {"EOL", "TRIG"},
         expecting \notin {0, 5, 8},
         expecting' \in LiveStates \ {0, 5, 8}, Consume,
         currTrig' \in TrigT, currTrig'.conds = currTrig.conds,
         currTrig'.acts = currTrig.acts,
         UNCHANGED <<line, argIndex, output, result>>
  PROVE  IInv'
<1>0. TypeOK /\ EolBelowMax /\ line' = line + (IF tok.k = "EOL" THEN 1 ELSE 0)
  BY DEF IInv, TypeOK
<1>1. /\ tok' \in Tok
      /\ line' \in 1..MaxLines
      /\ (tok'.k = "EOL" => line' < MaxLines)
      /\ ntrig' = ntrig + (IF tok'.k = "TRIG" THEN 1 ELSE 0)
      /\ ntrig' \in 0..MaxTriggers
      /\ mustParen' \in BOOLEAN /\ noParen' \in BOOLEAN
  BY <1>0, ConsumeBounds
<1>2. TypeOK'
  BY <1>1 DEF IInv, TypeOK, LiveStates
<1>3. EolBelowMax'
  BY <1>1 DEF EolBelowMax
<1>4. CondsFilled' /\ ActsFilled'
  BY DEF IInv, CondsFilled, ActsFilled
<1>5. ArgsMatchDescriptor'
  BY DEF IInv, ArgsMatchDescriptor
<1>6. TrigCount'
  <2>1. ntrig = Len(output) + 1
    <3>1. TrigCount /\ Len(output) \in Nat
      BY DEF IInv, TypeOK
    <3>2. expecting # 0 /\ tok.k # "TRIG" /\ result # "error"
      OBVIOUS
    <3>. QED  BY <3>1, <3>2 DEF TrigCount
  <2>2. expecting' # 0 /\ Len(output) \in Nat
    BY DEF IInv, TypeOK, LiveStates
  <2>. QED  BY <1>1, <2>1, <2>2 DEF TrigCount
<1>7. OkAtEnd'
  BY DEF OkAtEnd
<1>. QED  BY <1>2, <1>3, <1>4, <1>5, <1>6, <1>7 DEF IInv, LiveStates

\* The CR LF skip at the top of the loop counts a line and keeps the
\* invariant.
LEMMA LineEndIInv ==
  ASSUME IInv, LineEnd
  PROVE  IInv'
<1>0. TypeOK /\ EolBelowMax /\ tok.k = "EOL" /\ line' = line + 1
  BY DEF IInv, LineEnd
<1>1. /\ tok' \in Tok
      /\ line' \in 1..MaxLines
      /\ (tok'.k = "EOL" => line' < MaxLines)
      /\ ntrig' = ntrig + (IF tok'.k = "TRIG" THEN 1 ELSE 0)
      /\ ntrig' \in 0..MaxTriggers
      /\ mustParen' \in BOOLEAN /\ noParen' \in BOOLEAN
  BY <1>0, ConsumeBounds DEF LineEnd
<1>2. TypeOK'
  BY <1>1 DEF IInv, LineEnd, TypeOK
<1>3. (expecting \in LiveStates /\ EolBelowMax /\ CondsFilled /\ ActsFilled
       /\ ArgsMatchDescriptor /\ OkAtEnd)'
  BY <1>1 DEF IInv, LineEnd, EolBelowMax, CondsFilled, ActsFilled,
              ArgsMatchDescriptor, OkAtEnd
<1>4. TrigCount'
  <2>1. TrigCount /\ Len(output) \in Nat /\ ntrig \in Nat
    BY DEF IInv, TypeOK
  <2>2. expecting' = expecting /\ output' = output /\ result' = result
    BY DEF LineEnd
  <2>3. CASE result # "error"
    <3>1. ntrig = Len(output) + (IF expecting # 0 THEN 1 ELSE 0)
      BY <1>0, <2>1, <2>3 DEF TrigCount
    <3>2. ntrig' = ntrig + (IF tok'.k = "TRIG" THEN 1 ELSE 0)
      BY <1>1
    <3>. QED  BY <3>1, <3>2, <2>2 DEF TrigCount
  <2>4. CASE result = "error"
    BY <2>2, <2>4 DEF TrigCount
  <2>. QED  BY <2>3, <2>4
<1>. QED  BY <1>2, <1>3, <1>4 DEF IInv

\* State 0 (ParsePartZero): TRIGGER( begins a trigger, the '\0' ends the
\* parse with success.
LEMMA PartZeroIInv ==
  ASSUME IInv, PartZero
  PROVE  IInv'
<1>0. TypeOK /\ EolBelowMax /\ Handler(0) /\ TrigCount
  BY DEF IInv, PartZero
<1>1. CASE /\ tok.k = "TRIG"
           /\ Goto(1) /\ currTrig' = EmptyTrig /\ Consume
           /\ UNCHANGED <<line, argIndex, output, result>>
  <2>1. /\ tok' \in Tok
        /\ line' \in 1..MaxLines
        /\ (tok'.k = "EOL" => line' < MaxLines)
        /\ ntrig' = ntrig + (IF tok'.k = "TRIG" THEN 1 ELSE 0)
        /\ ntrig' \in 0..MaxTriggers
        /\ mustParen' \in BOOLEAN /\ noParen' \in BOOLEAN
    BY <1>0, <1>1, ConsumeBounds DEF TypeOK
  <2>2. TypeOK'
    BY <1>0, <1>1, <2>1 DEF TypeOK, Goto, EmptyTrig, TrigT
  <2>3. (expecting \in LiveStates /\ EolBelowMax /\ OkAtEnd)'
    BY <1>0, <1>1, <2>1 DEF Goto, LiveStates, EolBelowMax, OkAtEnd, Handler
  <2>6. (CondsFilled /\ ActsFilled)'
    BY <1>1 DEF Goto, CondsFilled, ActsFilled, EmptyTrig
  <2>4. ArgsMatchDescriptor'
    BY <1>1 DEF IInv, ArgsMatchDescriptor
  <2>5. TrigCount'
    <3>1. ntrig = Len(output) + 1 /\ Len(output) \in Nat
      BY <1>0, <1>1 DEF TrigCount, Handler, TypeOK
    <3>. QED  BY <1>1, <2>1, <3>1 DEF TrigCount, Goto
  <2>. QED  BY <2>2, <2>3, <2>4, <2>5, <2>6 DEF IInv
<1>2. CASE /\ tok.k = "EOT"
           /\ result' = "ok" /\ currTrig' = EmptyTrig /\ Stay
           /\ UNCHANGED <<expecting, line, argIndex, output>>
  <2>1. TypeOK'
    BY <1>0, <1>2 DEF TypeOK, Stay, EmptyTrig, TrigT
  <2>2. (expecting \in LiveStates /\ EolBelowMax /\ CondsFilled /\ ActsFilled
         /\ ArgsMatchDescriptor /\ OkAtEnd)'
    BY <1>0, <1>2 DEF IInv, Stay, Handler, EolBelowMax, CondsFilled,
                      ActsFilled, ArgsMatchDescriptor, EmptyTrig, OkAtEnd
  <2>3. TrigCount'
    BY <1>0, <1>2 DEF TrigCount, Stay, Handler
  <2>. QED  BY <2>1, <2>2, <2>3 DEF IInv
<1>3. CASE tok.k \notin {"TRIG", "EOT"} /\ Fail
  BY <1>3, FailIInv
<1>. QED  BY <1>1, <1>2, <1>3 DEF PartZero

\* State 12: the finished trigger is pushed; at the '\0' the parse
\* succeeds.
LEMMA PartTwelveIInv ==
  ASSUME IInv, PartTwelve
  PROVE  IInv'
<1>0. /\ TypeOK /\ EolBelowMax /\ CondsFilled /\ ActsFilled
      /\ ArgsMatchDescriptor /\ TrigCount /\ Handler(12)
  BY DEF IInv, PartTwelve
<1>1. /\ output' = Append(output, currTrig) /\ expecting' = 0
      /\ result' = IF tok.k = "EOT" THEN "ok" ELSE "running"
      /\ UNCHANGED <<tok, ntrig, mustParen, noParen, line, currTrig, argIndex>>
  BY DEF PartTwelve, Goto, Stay
<1>2. TypeOK'
  BY <1>0, <1>1 DEF TypeOK
<1>3. (expecting \in LiveStates /\ EolBelowMax /\ OkAtEnd)'
  BY <1>0, <1>1 DEF LiveStates, EolBelowMax, OkAtEnd
<1>4. CondsFilled' /\ ActsFilled'
  BY <1>0, <1>1 DEF CondsFilled, ActsFilled, Handler
<1>5. ArgsMatchDescriptor'
  <2>1. /\ \A j \in 1..Len(currTrig.conds) :
             currTrig.conds[j].nargs = CondArity[currTrig.conds[j].type]
        /\ \A j \in 1..Len(currTrig.acts) :
             currTrig.acts[j].nargs = ActArity[currTrig.acts[j].type]
    BY <1>0 DEF CondsFilled, ActsFilled, Handler
  <2>2. output \in Seq(TrigT)
    BY <1>0 DEF TypeOK
  <2>. QED  BY <1>0, <1>1, <2>1, <2>2 DEF ArgsMatchDescriptor
<1>6. TrigCount'
  <2>1. ntrig = Len(output) + 1 + (IF tok.k = "TRIG" THEN 1 ELSE 0)
    BY <1>0 DEF TrigCount, Handler
  <2>2. output \in Seq(TrigT)
    BY <1>0 DEF TypeOK
  <2>. QED  BY <1>1, <2>1, <2>2 DEF TrigCount
<1>. QED  BY <1>2, <1>3, <1>4, <1>5, <1>6 DEF IInv

\* State 1 (ParsePartOne): the owner list.
LEMMA PartOneIInv ==
  ASSUME IInv, PartOne
  PROVE  IInv'
<1>0. TypeOK /\ Handler(1)
  BY DEF IInv, PartOne
<1>1. CASE /\ tok.k = "RPAREN"
           /\ Goto(2) /\ Consume
           /\ UNCHANGED <<line, currTrig, argIndex, output, result>>
  BY <1>0, <1>1, MoveIInv DEF Goto, Handler, LiveStates, TypeOK
<1>2. CASE /\ ValidPlayer
           /\ currTrig' = [currTrig EXCEPT !.owners = @ \cup {tok.g}]
           /\ Goto(IF tok.last THEN 2 ELSE 1) /\ Consume
           /\ UNCHANGED <<line, argIndex, output, result>>
  <2>1. currTrig' \in TrigT
    BY <1>0, <1>2 DEF ValidPlayer, TypeOK, TrigT
  <2>2. currTrig'.conds = currTrig.conds /\ currTrig'.acts = currTrig.acts
    BY <1>0, <1>2 DEF TypeOK, TrigT
  <2>. QED  BY <1>0, <1>2, <2>1, <2>2, MoveIInv
              DEF Goto, Handler, LiveStates, ValidPlayer
<1>3. CASE tok.k # "RPAREN" /\ ~ValidPlayer /\ Fail
  BY <1>3, FailIInv
<1>. QED  BY <1>1, <1>2, <1>3 DEF PartOne

\* State 2 (ParsePartTwo): '{'.
LEMMA PartTwoIInv ==
  ASSUME IInv, PartTwo
  PROVE  IInv'
<1>0. TypeOK /\ Handler(2)
  BY DEF IInv, PartTwo
<1>1. CASE /\ tok.k = "LBRACE"
           /\ Goto(3) /\ Consume
           /\ UNCHANGED <<line, currTrig, argIndex, output, result>>
  BY <1>0, <1>1, MoveIInv DEF Goto, Handler, LiveStates, TypeOK
<1>2. CASE tok.k # "LBRACE" /\ Fail
  BY <1>2, FailIInv
<1>. QED  BY <1>1, <1>2 DEF PartTwo

\* A section keyword leads to state 4, 7 or 10.
LEMMA SectionStateLive ==
  ASSUME NEW w \in Keywords
  PROVE  SectionState[w] \in {4, 7, 10}
BY DEF SectionState, Keywords

\* State 3 (ParsePartThree): a section keyword or '}'.
LEMMA PartThreeIInv ==
  ASSUME IInv, PartThree
  PROVE  IInv'
<1>0. TypeOK /\ Handler(3)
  BY DEF IInv, PartThree
<1>1. CASE /\ tok.k = "KW"
           /\ Goto(SectionState[tok.w]) /\ Consume
           /\ UNCHANGED <<line, currTrig, argIndex, output, result>>
  <2>1. SectionState[tok.w] \in {4, 7, 10}
    BY <1>0, <1>1, TokFields, SectionStateLive DEF TypeOK
  <2>. QED  BY <1>0, <1>1, <2>1, MoveIInv DEF Goto, Handler, LiveStates, TypeOK
<1>2. CASE /\ tok.k = "RBRACE"
           /\ Goto(12) /\ Consume
           /\ UNCHANGED <<line, currTrig, argIndex, output, result>>
  BY <1>0, <1>2, MoveIInv DEF Goto, Handler, LiveStates, TypeOK
<1>3. CASE tok.k \notin {"KW", "RBRACE"} /\ Fail
  BY <1>3, FailIInv
<1>. QED  BY <1>1, <1>2, <1>3 DEF PartThree

\* State 10 (ParsePartTen): the flags literal or ';'.
LEMMA PartTenIInv ==
  ASSUME IInv, PartTen
  PROVE  IInv'
<1>0. TypeOK /\ Handler(10)
  BY DEF IInv, PartTen
<1>1. CASE /\ FlagsEnd
           /\ Goto(11) /\ Consume
           /\ UNCHANGED <<line, currTrig, argIndex, output, result>>
  BY <1>0, <1>1, MoveIInv DEF Goto, Handler, LiveStates, TypeOK, FlagsEnd
<1>2. CASE ~FlagsEnd /\ Fail
  BY <1>2, FailIInv
<1>. QED  BY <1>1, <1>2 DEF PartTen

\* State 11 (ParsePartEleven): '}'.
LEMMA PartElevenIInv ==
  ASSUME IInv, PartEleven
  PROVE  IInv'
<1>0. TypeOK /\ Handler(11)
  BY DEF IInv, PartEleven
<1>1. CASE /\ tok.k = "RBRACE"
           /\ Goto(12) /\ Consume
           /\ UNCHANGED <<line, currTrig, argIndex, output, result>>
  BY <1>0, <1>1, MoveIInv DEF Goto, Handler, LiveStates, TypeOK
<1>2. CASE tok.k # "RBRACE" /\ Fail
  BY <1>2, FailIInv
<1>. QED  BY <1>1, <1>2 DEF PartEleven


\* ParseCondition succeeded on a condition name in state 4: the capacity check fails,
\* or the new condition takes the next slot with no argument filled and state
\* 5 fills its arguments.
LEMMA AddConditionIInv ==
  ASSUME IInv, Handler(4), tok.k = "NAME", tok.n \in CondNames, AddCondition
  PROVE  IInv'
<1>0. /\ TypeOK /\ EolBelowMax /\ CondsFilled /\ ActsFilled /\ TrigCount
      /\ tok.n \in CondNames /\ tok.dis \in BOOLEAN /\ currTrig \in TrigT
  BY TokFields DEF IInv, TypeOK, Names
<1>1. CASE /\ Len(currTrig.conds) > MaxConditions
           /\ result' = "error"
           /\ UNCHANGED <<expecting, tok, line, currTrig, output, ntrig,
                          mustParen, noParen>>
  <2>1. argIndex' = 0 /\ expecting \notin {5, 8}
    BY DEF AddCondition, Handler
  <2>. QED  BY <1>1, <2>1, FailResetIInv
<1>2. CASE /\ Len(currTrig.conds) <= MaxConditions
           /\ currTrig' = [currTrig EXCEPT !.conds =
                 Append(@, [type |-> tok.n, disabled |-> tok.dis, nargs |-> 0])]
           /\ Goto(5) /\ Consume
           /\ UNCHANGED <<line, output, result>>
  <2> DEFINE c == [type |-> tok.n, disabled |-> tok.dis, nargs |-> 0]
             xs == currTrig.conds
  <2>1. /\ currTrig'.conds = Append(xs, c)
        /\ currTrig'.acts = currTrig.acts
        /\ currTrig' \in TrigT
    <3>1. currTrig = [owners |-> currTrig.owners, conds |-> currTrig.conds,
                      acts |-> currTrig.acts]
      BY <1>0 DEF TrigT
    <3>2. currTrig' = [owners |-> currTrig.owners, conds |-> Append(xs, c),
                       acts |-> currTrig.acts]
      BY <1>2, <3>1, Zenon
    <3>3. c \in CondT
      BY <1>0 DEF CondT
    <3>. QED  BY <1>0, <3>2, <3>3 DEF TrigT
  <2>2. argIndex' = 0 /\ expecting' = 5
    BY <1>2 DEF AddCondition, Goto
  <2>3. /\ tok' \in Tok
        /\ line' \in 1..MaxLines
        /\ (tok'.k = "EOL" => line' < MaxLines)
        /\ ntrig' = ntrig + (IF tok'.k = "TRIG" THEN 1 ELSE 0)
        /\ ntrig' \in 0..MaxTriggers
        /\ mustParen' \in BOOLEAN /\ noParen' \in BOOLEAN
    BY <1>0, <1>2, ConsumeBounds DEF TypeOK, Handler
  <2>4. TypeOK'
    BY <1>0, <1>2, <2>1, <2>2, <2>3 DEF TypeOK
  <2>5. CondsFilled'
    <3>1. \A j \in 1..Len(xs) : xs[j].nargs = CondArity[xs[j].type]
      BY <1>0 DEF CondsFilled, Handler
    <3>2. CondArity[tok.n] \in Nat /\ xs \in Seq(CondT)
      BY <1>0, ParserAssumption DEF TrigT
    <3>3. LET ys == currTrig'.conds IN
            /\ ys # <<>>
            /\ ys[Len(ys)].nargs = argIndex'
            /\ argIndex' <= CondArity[ys[Len(ys)].type]
      BY <2>1, <2>2, <3>2
    <3>4. LET ys == currTrig'.conds IN
            \A j \in 1..Len(ys) :
              (expecting' = 5 /\ j = Len(ys)) \/ ys[j].nargs = CondArity[ys[j].type]
      BY <2>1, <2>2, <3>1, <3>2
    <3>. QED  BY <3>3, <3>4 DEF CondsFilled
  <2>6. ActsFilled'
    BY <1>0, <2>1, <2>2 DEF ActsFilled, Handler
  <2>7. (expecting \in LiveStates /\ EolBelowMax /\ OkAtEnd)'
    BY <1>2, <2>2, <2>3 DEF LiveStates, EolBelowMax, OkAtEnd, Handler
  <2>8. ArgsMatchDescriptor'
    BY <1>2 DEF IInv, ArgsMatchDescriptor
  <2>9. TrigCount'
    <3>1. ntrig = Len(output) + 1 /\ Len(output) \in Nat
      BY <1>0 DEF TrigCount, Handler, TypeOK
    <3>. QED  BY <1>2, <2>2, <2>3, <3>1 DEF TrigCount
  <2>. QED  BY <2>4, <2>5, <2>6, <2>7, <2>8, <2>9 DEF IInv
<1>. QED  BY <1>1, <1>2 DEF AddCondition

\* ParseAction succeeded on an action name in state 7: the capacity check fails,
\* or the new action takes the next slot with no argument filled and state
\* 8 fills its arguments.
LEMMA AddActionIInv ==
  ASSUME IInv, Handler(7), tok.k = "NAME", tok.n \in ActNames, AddAction
  PROVE  IInv'
<1>0. /\ TypeOK /\ EolBelowMax /\ CondsFilled /\ ActsFilled /\ TrigCount
      /\ tok.n \in ActNames /\ tok.dis \in BOOLEAN /\ currTrig \in TrigT
  BY TokFields DEF IInv, TypeOK, Names
<1>1. CASE /\ Len(currTrig.acts) > MaxActions
           /\ result' = "error"
           /\ UNCHANGED <<expecting, tok, line, currTrig, output, ntrig,
                          mustParen, noParen>>
  <2>1. argIndex' = 0 /\ expecting \notin {5, 8}
    BY DEF AddAction, Handler
  <2>. QED  BY <1>1, <2>1, FailResetIInv
<1>2. CASE /\ Len(currTrig.acts) <= MaxActions
           /\ currTrig' = [currTrig EXCEPT !.acts =
                 Append(@, [type |-> tok.n, disabled |-> tok.dis, nargs |-> 0])]
           /\ Goto(8) /\ Consume
           /\ UNCHANGED <<line, output, result>>
  <2> DEFINE c == [type |-> tok.n, disabled |-> tok.dis, nargs |-> 0]
             xs == currTrig.acts
  <2>1. /\ currTrig'.acts = Append(xs, c)
        /\ currTrig'.conds = currTrig.conds
        /\ currTrig' \in TrigT
    <3>1. currTrig = [owners |-> currTrig.owners, conds |-> currTrig.conds,
                      acts |-> currTrig.acts]
      BY <1>0 DEF TrigT
    <3>2. currTrig' = [owners |-> currTrig.owners, conds |-> currTrig.conds,
                       acts |-> Append(xs, c)]
      BY <1>2, <3>1, Zenon
    <3>3. c \in ActT
      BY <1>0 DEF ActT
    <3>. QED  BY <1>0, <3>2, <3>3 DEF TrigT
  <2>2. argIndex' = 0 /\ expecting' = 8
    BY <1>2 DEF AddAction, Goto
  <2>3. /\ tok' \in Tok
        /\ line' \in 1..MaxLines
        /\ (tok'.k = "EOL" => line' < MaxLines)
        /\ ntrig' = ntrig + (IF tok'.k = "TRIG" THEN 1 ELSE 0)
        /\ ntrig' \in 0..MaxTriggers
        /\ mustParen' \in BOOLEAN /\ noParen' \in BOOLEAN
    BY <1>0, <1>2, ConsumeBounds DEF TypeOK, Handler
  <2>4. TypeOK'
    BY <1>0, <1>2, <2>1, <2>2, <2>3 DEF TypeOK
  <2>5. ActsFilled'
    <3>1. \A j \in 1..Len(xs) : xs[j].nargs = ActArity[xs[j].type]
      BY <1>0 DEF ActsFilled, Handler
    <3>2. ActArity[tok.n] \in Nat /\ xs \in Seq(ActT)
      BY <1>0, ParserAssumption DEF TrigT
    <3>3. LET ys == currTrig'.acts IN
            /\ ys # <<>>
            /\ ys[Len(ys)].nargs = argIndex'
            /\ argIndex' <= ActArity[ys[Len(ys)].type]
      BY <2>1, <2>2, <3>2
    <3>4. LET ys == currTrig'.acts IN
            \A j \in 1..Len(ys) :
              (expecting' = 8 /\ j = Len(ys)) \/ ys[j].nargs = ActArity[ys[j].type]
      BY <2>1, <2>2, <3>1, <3>2
    <3>. QED  BY <3>3, <3>4 DEF ActsFilled
  <2>6. CondsFilled'
    BY <1>0, <2>1, <2>2 DEF CondsFilled, Handler
  <2>7. (expecting \in LiveStates /\ EolBelowMax /\ OkAtEnd)'
    BY <1>2, <2>2, <2>3 DEF LiveStates, EolBelowMax, OkAtEnd, Handler
  <2>8. ArgsMatchDescriptor'
    BY <1>2 DEF IInv, ArgsMatchDescriptor
  <2>9. TrigCount'
    <3>1. ntrig = Len(output) + 1 /\ Len(output) \in Nat
      BY <1>0 DEF TrigCount, Handler, TypeOK
    <3>. QED  BY <1>2, <2>2, <2>3, <3>1 DEF TrigCount
  <2>. QED  BY <2>4, <2>5, <2>6, <2>7, <2>8, <2>9 DEF IInv
<1>. QED  BY <1>1, <1>2 DEF AddAction

\* State 4 (ParsePartFour): a condition, another section or '}'.
LEMMA PartFourIInv ==
  ASSUME IInv, PartFour
  PROVE  IInv'
<1>0. TypeOK /\ Handler(4)
  BY DEF IInv, PartFour
<1>1. CASE tok.k = "NAME" /\ tok.n \in CondNames /\ AddCondition
  BY <1>0, <1>1, AddConditionIInv
<1>2. CASE /\ tok.k = "RBRACE"
           /\ Goto(12) /\ Consume
           /\ UNCHANGED <<line, currTrig, argIndex, output, result>>
  BY <1>0, <1>2, MoveIInv DEF Goto, Handler, LiveStates, TypeOK
<1>3. CASE /\ tok.k = "KW" /\ tok.w # "CONDITIONS"
           /\ Goto(SectionState[tok.w]) /\ Consume
           /\ UNCHANGED <<line, currTrig, argIndex, output, result>>
  <2>1. SectionState[tok.w] \in {4, 7, 10}
    BY <1>0, <1>3, TokFields, SectionStateLive DEF TypeOK
  <2>. QED  BY <1>0, <1>3, <2>1, MoveIInv DEF Goto, Handler, LiveStates, TypeOK
<1>4. CASE /\ ~ \/ tok.k = "NAME" /\ tok.n \in CondNames
                \/ tok.k = "RBRACE"
                \/ tok.k = "KW" /\ tok.w # "CONDITIONS"
           /\ Fail
  BY <1>4, FailIInv
<1>. QED  BY <1>1, <1>2, <1>3, <1>4 DEF PartFour

\* State 7 (ParsePartSeven): an action, FLAGS:, '}', or the stray ';' that
\* is skipped when no '(' follows.
LEMMA PartSevenIInv ==
  ASSUME IInv, PartSeven
  PROVE  IInv'
<1>0. TypeOK /\ Handler(7)
  BY DEF IInv, PartSeven
<1>1. CASE tok.k = "NAME" /\ tok.n \in ActNames /\ AddAction
  BY <1>0, <1>1, AddActionIInv
<1>2. CASE /\ tok.k = "RBRACE"
           /\ Goto(12) /\ Consume
           /\ UNCHANGED <<line, currTrig, argIndex, output, result>>
  BY <1>0, <1>2, MoveIInv DEF Goto, Handler, LiveStates, TypeOK
<1>3. CASE /\ tok = [k |-> "KW", w |-> "FLAGS"]
           /\ Goto(10) /\ Consume
           /\ UNCHANGED <<line, currTrig, argIndex, output, result>>
  BY <1>0, <1>3, MoveIInv DEF Goto, Handler, LiveStates, TypeOK
<1>4. CASE /\ tok = [k |-> "SEMI", paren |-> FALSE]
           /\ Consume
           /\ UNCHANGED <<expecting, line, currTrig, argIndex, output, result>>
  BY <1>0, <1>4, MoveIInv DEF Handler, LiveStates, TypeOK
<1>5. CASE /\ ~ \/ tok.k = "NAME" /\ tok.n \in ActNames
                \/ tok.k = "RBRACE"
                \/ tok = [k |-> "KW", w |-> "FLAGS"]
                \/ tok = [k |-> "SEMI", paren |-> FALSE]
           /\ Fail
  BY <1>5, FailIInv
<1>. QED  BY <1>1, <1>2, <1>3, <1>4, <1>5 DEF PartSeven

\* State 5 (ParsePartFive): the arguments of the current condition.  ");" is
\* taken once argIndex has reached the arity, which completes the entry;
\* an argument fills one more slot while one is due.
LEMMA PartFiveIInv ==
  ASSUME IInv, PartFive
  PROVE  IInv'
<1> DEFINE xs == currTrig.conds
           ar == CondArity[xs[Len(xs)].type]
<1>0. /\ TypeOK /\ EolBelowMax /\ CondsFilled /\ ActsFilled /\ TrigCount
      /\ Handler(5) /\ currTrig \in TrigT
      /\ ArgStep("conds", ar, 4)
  BY DEF IInv, TypeOK, PartFive
<1>1. /\ xs \in Seq(CondT) /\ xs # <<>> /\ Len(xs) \in Nat \ {0}
      /\ xs[Len(xs)] \in CondT /\ argIndex \in Nat
      /\ xs[Len(xs)].nargs = argIndex /\ argIndex <= ar /\ ar \in Nat
      /\ \A j \in 1..Len(xs) - 1 : xs[j].nargs = CondArity[xs[j].type]
  <2>1. xs \in Seq(CondT)
    BY <1>0 DEF TrigT
  <2>2. xs # <<>> /\ xs[Len(xs)].nargs = argIndex /\ argIndex <= ar
    BY <1>0 DEF CondsFilled, Handler
  <2>3. Len(xs) \in Nat \ {0} /\ xs[Len(xs)] \in CondT
    BY <2>1, <2>2
  <2>4. ar \in Nat
    BY <2>3, ParserAssumption DEF CondT
  <2>5. \A j \in 1..Len(xs) - 1 : xs[j].nargs = CondArity[xs[j].type]
    BY <1>0, <2>1 DEF CondsFilled, Handler
  <2>6. argIndex \in Nat
    BY <1>0 DEF TypeOK
  <2>. QED  BY <2>1, <2>2, <2>3, <2>4, <2>5, <2>6
<1>2. CASE /\ tok.k = "CLOSE" /\ argIndex >= ar
           /\ Goto(4) /\ Consume
           /\ UNCHANGED <<line, currTrig, argIndex, output, result>>
  <2>1. /\ tok' \in Tok
        /\ line' \in 1..MaxLines
        /\ (tok'.k = "EOL" => line' < MaxLines)
        /\ ntrig' = ntrig + (IF tok'.k = "TRIG" THEN 1 ELSE 0)
        /\ ntrig' \in 0..MaxTriggers
        /\ mustParen' \in BOOLEAN /\ noParen' \in BOOLEAN
    BY <1>0, <1>2, ConsumeBounds DEF TypeOK, Handler
  <2>2. TypeOK'
    BY <1>0, <1>2, <2>1 DEF TypeOK, Goto
  <2>3. CondsFilled'
    <3>1. \A j \in 1..Len(xs) : xs[j].nargs = CondArity[xs[j].type]
      <4> SUFFICES ASSUME NEW j \in 1..Len(xs)
                   PROVE  xs[j].nargs = CondArity[xs[j].type]
        OBVIOUS
      <4>1. CASE j = Len(xs)
        <5>1. argIndex = ar
          BY <1>1, <1>2
        <5>. QED  BY <1>1, <4>1, <5>1
      <4>2. CASE j # Len(xs)
        <5>1. j \in 1..Len(xs) - 1
          BY <1>1, <4>2
        <5>. QED  BY <1>1, <5>1
      <4>. QED  BY <4>1, <4>2
    <3>. QED  BY <1>2, <3>1 DEF CondsFilled, Goto
  <2>4. ActsFilled'
    BY <1>0, <1>2 DEF ActsFilled, Goto, Handler
  <2>5. (expecting \in LiveStates /\ EolBelowMax /\ OkAtEnd
         /\ ArgsMatchDescriptor)'
    BY <1>0, <1>2, <2>1 DEF IInv, Goto, LiveStates, EolBelowMax, OkAtEnd,
                           Handler, ArgsMatchDescriptor
  <2>6. TrigCount'
    <3>1. ntrig = Len(output) + 1 /\ Len(output) \in Nat
      BY <1>0, <1>2 DEF TrigCount, Handler, TypeOK
    <3>. QED  BY <1>2, <2>1, <3>1 DEF TrigCount, Goto
  <2>. QED  BY <2>2, <2>3, <2>4, <2>5, <2>6 DEF IInv
<1>3. CASE /\ tok.k = "ARG" /\ argIndex < ar
           /\ tok.ok /\ tok.last = (argIndex + 1 = ar)
           /\ argIndex' = argIndex + 1
           /\ currTrig' = [currTrig EXCEPT !["conds"][Len(currTrig["conds"])].nargs =
                             @ + 1]
           /\ Consume
           /\ UNCHANGED <<expecting, line, output, result>>
  <2> DEFINE r == [xs[Len(xs)] EXCEPT !.nargs = @ + 1]
             ys == [xs EXCEPT ![Len(xs)] = r]
  <2>1. /\ currTrig' = [currTrig EXCEPT !.conds = ys]
        /\ currTrig'.conds = ys
        /\ currTrig'.acts = currTrig.acts
        /\ currTrig'.owners = currTrig.owners
    <3>1. currTrig \in [owners : SUBSET ValidGroups, conds : Seq(CondT),
                         acts : Seq(ActT)]
      BY <1>0 DEF TrigT
    <3>2. currTrig' = [currTrig EXCEPT !.conds =
                         [currTrig.conds EXCEPT ![Len(currTrig.conds)] =
                            [currTrig.conds[Len(currTrig.conds)] EXCEPT !.nargs =
                               currTrig.conds[Len(currTrig.conds)].nargs + 1]]]
      BY <1>3
    <3>3. currTrig' = [currTrig EXCEPT !.conds = ys]
      BY <3>2
    <3>. QED  BY <3>1, <3>3
  <2>2. r \in CondT /\ r.nargs = argIndex + 1 /\ r.type = xs[Len(xs)].type
    BY <1>1 DEF CondT
  <2>3. /\ ys \in Seq(CondT) /\ Len(ys) = Len(xs)
        /\ ys[Len(ys)] = r
        /\ \A j \in 1..Len(xs) - 1 : ys[j] = xs[j]
    BY <1>1, <2>2
  <2>4. currTrig' \in TrigT
    BY <1>0, <2>1, <2>3 DEF TrigT
  <2>5. /\ tok' \in Tok
        /\ line' \in 1..MaxLines
        /\ (tok'.k = "EOL" => line' < MaxLines)
        /\ ntrig' = ntrig + (IF tok'.k = "TRIG" THEN 1 ELSE 0)
        /\ ntrig' \in 0..MaxTriggers
        /\ mustParen' \in BOOLEAN /\ noParen' \in BOOLEAN
    BY <1>0, <1>3, ConsumeBounds DEF TypeOK, Handler
  <2>6. expecting' = 5 /\ argIndex' \in Nat
    BY <1>0, <1>1, <1>3 DEF Handler
  <2> HIDE DEF ys, r
  <2>7. TypeOK'
    BY <1>0, <1>3, <2>4, <2>5, <2>6 DEF TypeOK
  <2>8. CondsFilled'
    <3>1. ys # <<>> /\ ys[Len(ys)].nargs = argIndex'
          /\ argIndex' <= CondArity[ys[Len(ys)].type]
      BY <1>1, <1>3, <2>2, <2>3
    <3>2. \A j \in 1..Len(ys) :
            (expecting' = 5 /\ j = Len(ys)) \/ ys[j].nargs = CondArity[ys[j].type]
      <4> SUFFICES ASSUME NEW j \in 1..Len(ys), j # Len(ys)
                   PROVE  ys[j].nargs = CondArity[ys[j].type]
        BY <2>6
      <4>1. j \in 1..Len(xs) - 1
        BY <1>1, <2>3
      <4>. QED  BY <1>1, <2>3, <4>1
    <3>. QED  BY <2>1, <2>6, <3>1, <3>2 DEF CondsFilled
  <2>9. ActsFilled'
    <3>1. ActsFilled
      BY <1>0
    <3>. QED  BY <1>0, <2>1, <2>6, <3>1 DEF ActsFilled, Handler
  <2>10. (expecting \in LiveStates /\ EolBelowMax /\ OkAtEnd
          /\ ArgsMatchDescriptor)'
    BY <1>0, <1>3, <2>5 DEF IInv, LiveStates, EolBelowMax, OkAtEnd,
                           Handler, ArgsMatchDescriptor
  <2>11. TrigCount'
    <3>1. ntrig = Len(output) + 1 /\ Len(output) \in Nat
      BY <1>0, <1>3 DEF TrigCount, Handler, TypeOK
    <3>. QED  BY <1>0, <1>3, <2>5, <3>1 DEF TrigCount, Handler
  <2>. QED  BY <2>7, <2>8, <2>9, <2>10, <2>11 DEF IInv
<1>4. CASE /\ ~ \/ tok.k = "CLOSE" /\ argIndex >= ar
                \/ tok.k = "ARG" /\ argIndex < ar
                   /\ tok.ok /\ tok.last = (argIndex + 1 = ar)
           /\ Fail
  BY <1>4, FailIInv
<1>. QED  BY <1>0, <1>2, <1>3, <1>4 DEF ArgStep

\* State 8 (ParsePartEight): the arguments of the current action.  ");" is
\* taken once argIndex has reached the arity, which completes the entry;
\* an argument fills one more slot while one is due.
LEMMA PartEightIInv ==
  ASSUME IInv, PartEight
  PROVE  IInv'
<1> DEFINE xs == currTrig.acts
           ar == ActArity[xs[Len(xs)].type]
<1>0. /\ TypeOK /\ EolBelowMax /\ CondsFilled /\ ActsFilled /\ TrigCount
      /\ Handler(8) /\ currTrig \in TrigT
      /\ ArgStep("acts", ar, 7)
  BY DEF IInv, TypeOK, PartEight
<1>1. /\ xs \in Seq(ActT) /\ xs # <<>> /\ Len(xs) \in Nat \ {0}
      /\ xs[Len(xs)] \in ActT /\ argIndex \in Nat
      /\ xs[Len(xs)].nargs = argIndex /\ argIndex <= ar /\ ar \in Nat
      /\ \A j \in 1..Len(xs) - 1 : xs[j].nargs = ActArity[xs[j].type]
  <2>1. xs \in Seq(ActT)
    BY <1>0 DEF TrigT
  <2>2. xs # <<>> /\ xs[Len(xs)].nargs = argIndex /\ argIndex <= ar
    BY <1>0 DEF ActsFilled, Handler
  <2>3. Len(xs) \in Nat \ {0} /\ xs[Len(xs)] \in ActT
    BY <2>1, <2>2
  <2>4. ar \in Nat
    BY <2>3, ParserAssumption DEF ActT
  <2>5. \A j \in 1..Len(xs) - 1 : xs[j].nargs = ActArity[xs[j].type]
    BY <1>0, <2>1 DEF ActsFilled, Handler
  <2>6. argIndex \in Nat
    BY <1>0 DEF TypeOK
  <2>. QED  BY <2>1, <2>2, <2>3, <2>4, <2>5, <2>6
<1>2. CASE /\ tok.k = "CLOSE" /\ argIndex >= ar
           /\ Goto(7) /\ Consume
           /\ UNCHANGED <<line, currTrig, argIndex, output, result>>
  <2>1. /\ tok' \in Tok
        /\ line' \in 1..MaxLines
        /\ (tok'.k = "EOL" => line' < MaxLines)
        /\ ntrig' = ntrig + (IF tok'.k = "TRIG" THEN 1 ELSE 0)
        /\ ntrig' \in 0..MaxTriggers
        /\ mustParen' \in BOOLEAN /\ noParen' \in BOOLEAN
    BY <1>0, <1>2, ConsumeBounds DEF TypeOK, Handler
  <2>2. TypeOK'
    BY <1>0, <1>2, <2>1 DEF TypeOK, Goto
  <2>3. ActsFilled'
    <3>1. \A j \in 1..Len(xs) : xs[j].nargs = ActArity[xs[j].type]
      <4> SUFFICES ASSUME NEW j \in 1..Len(xs)
                   PROVE  xs[j].nargs = ActArity[xs[j].type]
        OBVIOUS
      <4>1. CASE j = Len(xs)
        <5>1. argIndex = ar
          BY <1>1, <1>2
        <5>. QED  BY <1>1, <4>1, <5>1
      <4>2. CASE j # Len(xs)
        <5>1. j \in 1..Len(xs) - 1
          BY <1>1, <4>2
        <5>. QED  BY <1>1, <5>1
      <4>. QED  BY <4>1, <4>2
    <3>. QED  BY <1>2, <3>1 DEF ActsFilled, Goto
  <2>4. CondsFilled'
    BY <1>0, <1>2 DEF CondsFilled, Goto, Handler
  <2>5. (expecting \in LiveStates /\ EolBelowMax /\ OkAtEnd
         /\ ArgsMatchDescriptor)'
    BY <1>0, <1>2, <2>1 DEF IInv, Goto, LiveStates, EolBelowMax, OkAtEnd,
                           Handler, ArgsMatchDescriptor
  <2>6. TrigCount'
    <3>1. ntrig = Len(output) + 1 /\ Len(output) \in Nat
      BY <1>0, <1>2 DEF TrigCount, Handler, TypeOK
    <3>. QED  BY <1>2, <2>1, <3>1 DEF TrigCount, Goto
  <2>. QED  BY <2>2, <2>3, <2>4, <2>5, <2>6 DEF IInv
<1>3. CASE /\ tok.k = "ARG" /\ argIndex < ar
           /\ tok.ok /\ tok.last = (argIndex + 1 = ar)
           /\ argIndex' = argIndex + 1
           /\ currTrig' = [currTrig EXCEPT !["acts"][Len(currTrig["acts"])].nargs =
                             @ + 1]
           /\ Consume
           /\ UNCHANGED <<expecting, line, output, result>>
  <2> DEFINE r == [xs[Len(xs)] EXCEPT !.nargs = @ + 1]
             ys == [xs EXCEPT ![Len(xs)] = r]
  <2>1. /\ currTrig' = [currTrig EXCEPT !.acts = ys]
        /\ currTrig'.acts = ys
        /\ currTrig'.conds = currTrig.conds
        /\ currTrig'.owners = currTrig.owners
    <3>1. currTrig \in [owners : SUBSET ValidGroups, conds : Seq(CondT),
                         acts : Seq(ActT)]
      BY <1>0 DEF TrigT
    <3>2. currTrig' = [currTrig EXCEPT !.acts =
                         [currTrig.acts EXCEPT ![Len(currTrig.acts)] =
                            [currTrig.acts[Len(currTrig.acts)] EXCEPT !.nargs =
                               currTrig.acts[Len(currTrig.acts)].nargs + 1]]]
      BY <1>3
    <3>3. currTrig' = [currTrig EXCEPT !.acts = ys]
      BY <3>2
    <3>. QED  BY <3>1, <3>3
  <2>2. r \in ActT /\ r.nargs = argIndex + 1 /\ r.type = xs[Len(xs)].type
    BY <1>1 DEF ActT
  <2>3. /\ ys \in Seq(ActT) /\ Len(ys) = Len(xs)
        /\ ys[Len(ys)] = r
        /\ \A j \in 1..Len(xs) - 1 : ys[j] = xs[j]
    BY <1>1, <2>2
  <2>4. currTrig' \in TrigT
    BY <1>0, <2>1, <2>3 DEF TrigT
  <2>5. /\ tok' \in Tok
        /\ line' \in 1..MaxLines
        /\ (tok'.k = "EOL" => line' < MaxLines)
        /\ ntrig' = ntrig + (IF tok'.k = "TRIG" THEN 1 ELSE 0)
        /\ ntrig' \in 0..MaxTriggers
        /\ mustParen' \in BOOLEAN /\ noParen' \in BOOLEAN
    BY <1>0, <1>3, ConsumeBounds DEF TypeOK, Handler
  <2>6. expecting' = 8 /\ argIndex' \in Nat
    BY <1>0, <1>1, <1>3 DEF Handler
  <2> HIDE DEF ys, r
  <2>7. TypeOK'
    BY <1>0, <1>3, <2>4, <2>5, <2>6 DEF TypeOK
  <2>8. ActsFilled'
    <3>1. ys # <<>> /\ ys[Len(ys)].nargs = argIndex'
          /\ argIndex' <= ActArity[ys[Len(ys)].type]
      BY <1>1, <1>3, <2>2, <2>3
    <3>2. \A j \in 1..Len(ys) :
            (expecting' = 8 /\ j = Len(ys)) \/ ys[j].nargs = ActArity[ys[j].type]
      <4> SUFFICES ASSUME NEW j \in 1..Len(ys), j # Len(ys)
                   PROVE  ys[j].nargs = ActArity[ys[j].type]
        BY <2>6
      <4>1. j \in 1..Len(xs) - 1
        BY <1>1, <2>3
      <4>. QED  BY <1>1, <2>3, <4>1
    <3>. QED  BY <2>1, <2>6, <3>1, <3>2 DEF ActsFilled
  <2>9. CondsFilled'
    <3>1. CondsFilled
      BY <1>0
    <3>. QED  BY <1>0, <2>1, <2>6, <3>1 DEF CondsFilled, Handler
  <2>10. (expecting \in LiveStates /\ EolBelowMax /\ OkAtEnd
          /\ ArgsMatchDescriptor)'
    BY <1>0, <1>3, <2>5 DEF IInv, LiveStates, EolBelowMax, OkAtEnd,
                           Handler, ArgsMatchDescriptor
  <2>11. TrigCount'
    <3>1. ntrig = Len(output) + 1 /\ Len(output) \in Nat
      BY <1>0, <1>3 DEF TrigCount, Handler, TypeOK
    <3>. QED  BY <1>0, <1>3, <2>5, <3>1 DEF TrigCount, Handler
  <2>. QED  BY <2>7, <2>8, <2>9, <2>10, <2>11 DEF IInv
<1>4. CASE /\ ~ \/ tok.k = "CLOSE" /\ argIndex >= ar
                \/ tok.k = "ARG" /\ argIndex < ar
                   /\ tok.ok /\ tok.last = (argIndex + 1 = ar)
           /\ Fail
  BY <1>4, FailIInv
<1>. QED  BY <1>0, <1>2, <1>3, <1>4 DEF ArgStep


-----------------------------------------------------------------------------
(* The invariant is inductive, and the theorems.                          *)

\* Every step of the parse loop, and a stutter, preserves IInv.
LEMMA NextIInv ==
  ASSUME IInv, [Next]_vars
  PROVE  IInv'
<1>1. CASE LineEnd     BY <1>1, LineEndIInv
<1>2. CASE PartZero    BY <1>2, PartZeroIInv
<1>3. CASE PartOne     BY <1>3, PartOneIInv
<1>4. CASE PartTwo     BY <1>4, PartTwoIInv
<1>5. CASE PartThree   BY <1>5, PartThreeIInv
<1>6. CASE PartFour    BY <1>6, PartFourIInv
<1>7. CASE PartFive    BY <1>7, PartFiveIInv
<1>8. CASE PartSeven   BY <1>8, PartSevenIInv
<1>9. CASE PartEight   BY <1>9, PartEightIInv
<1>10. CASE PartTen    BY <1>10, PartTenIInv
<1>11. CASE PartEleven BY <1>11, PartElevenIInv
<1>12. CASE PartTwelve BY <1>12, PartTwelveIInv
<1>13. CASE UNCHANGED vars
  BY <1>13 DEF vars, IInv, TypeOK, LiveStates, EolBelowMax, CondsFilled,
               ActsFilled, ArgsMatchDescriptor, TrigCount, OkAtEnd
<1>. QED  BY <1>1, <1>2, <1>3, <1>4, <1>5, <1>6, <1>7, <1>8, <1>9, <1>10,
             <1>11, <1>12, <1>13 DEF Next

\* IInv holds in every state of every behaviour of the parse loop.
LEMMA IInvInvariant == Spec => []IInv
BY InitIInv, NextIInv, PTL DEF Spec

\* Type correctness of the parse loop (ParseTriggers and its handlers):
\* every variable stays in its type, in particular line never passes
\* MaxLines and the TRIGGER( count never passes MaxTriggers.
THEOREM TypeCorrect == Spec => []TypeOK
<1>1. IInv => TypeOK  BY DEF IInv
<1>. QED  BY <1>1, IInvInvariant, PTL

\* ParsePartFive and ParsePartEight accept ')' only once the descriptor is
\* exhausted and an argument only while one is due, so every condition and
\* action of a trigger ParsePartTwelve pushes has exactly its descriptor's
\* argument slots.
THEOREM ArgsMatchDescriptorHolds == Spec => []ArgsMatchDescriptor
<1>1. IInv => ArgsMatchDescriptor  BY DEF IInv
<1>. QED  BY <1>1, IInvInvariant, PTL

\* No handler of ParseTriggers sets expecting to 6 or 9, so ParsePartSix
\* and ParsePartNine are dead code.
THEOREM DeadStatesUnreachableHolds == Spec => []DeadStatesUnreachable
<1>1. IInv => DeadStatesUnreachable  BY DEF IInv, LiveStates, DeadStatesUnreachable
<1>. QED  BY <1>1, IInvInvariant, PTL

\* ParseTriggers returns true only when every "TRIGGER(" of the text has
\* been completed and pushed by ParsePartTwelve.
THEOREM CompleteOnSuccessHolds == Spec => []CompleteOnSuccess
<1>1. IInv => CompleteOnSuccess
  <2> SUFFICES ASSUME IInv, result = "ok" PROVE Len(output) = ntrig
    BY DEF CompleteOnSuccess
  <2>1. expecting = 0 /\ tok.k = "EOT" /\ Len(output) \in Nat
    BY DEF IInv, OkAtEnd, TypeOK
  <2>. QED  BY <2>1 DEF IInv, TrigCount
<1>. QED  BY <1>1, IInvInvariant, PTL
=============================================================================
