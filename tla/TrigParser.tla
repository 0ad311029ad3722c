----------------------------- MODULE TrigParser -----------------------------
(***************************************************************************)
(* The trigger-text parser of TextTrigCompiler: ParseTriggers and its     *)
(* ParsePartZero .. ParsePartEleven handlers (TextTrigCompiler.cpp).      *)
(*                                                                         *)
(* The code walks a cleaned character buffer with a numeric "expecting"   *)
(* state.  Here the buffer is a stream of lexemes (tokens): each token is *)
(* what one handler recognises at one position, so every handler step    *)
(* consumes at most one token.  The stream is revealed one token at a     *)
(* time ("tok" is the token at pos); the choice of the next token is the  *)
(* choice of the input text.  Where a handler looks ahead in the text     *)
(* (a stray ';' in the action list searches the whole rest of the text    *)
(* for '('), the answer is fixed when the token is revealed and the rest  *)
(* of the stream is kept consistent with it (mustParen / noParen).        *)
(***************************************************************************)
EXTENDS Naturals, Sequences

CONSTANTS
  CondNames,      \* condition names the text uses (resolve to a type)
  ActNames,       \* action names the text uses
  BadName,        \* a name that resolves to no condition and no action
  CondArity,      \* number of text arguments of each condition type
  ActArity,       \* number of text arguments of each action type
  Groups,         \* player / group ids the text names
  MaxConditions,  \* Chk::Trigger::MaxConditions
  MaxActions,     \* Chk::Trigger::MaxActions
  MaxTriggers,    \* bound: TRIGGER( tokens in one text
  MaxLines        \* bound: lines in one text

\* Chk::Trigger has 28 owner slots; ParseExecutingPlayer needs group < 28.
NumOwners == 28

ASSUME ParserAssumption ==
  /\ BadName \notin CondNames \cup ActNames
  /\ CondArity \in [CondNames -> Nat]
  /\ ActArity \in [ActNames -> Nat]
  /\ Groups \subseteq Nat
  /\ MaxConditions \in Nat /\ MaxActions \in Nat
  /\ MaxTriggers \in Nat /\ MaxLines \in Nat \ {0}

Names == CondNames \cup ActNames \cup {BadName}
ValidGroups == {g \in Groups : g < NumOwners}
Keywords == {"CONDITIONS", "ACTIONS", "FLAGS"}

(***************************************************************************)
(* Tokens.  TRIG = "TRIGGER(", KW = a section keyword with its ':',      *)
(* PLAYER = a player name with the ',' or ')' that ends it, NAME = a      *)
(* condition or action name with its '(' (dis: a leading ';'), ARG = one  *)
(* argument, with its ',' when not last, and when last followed directly  *)
(* by ')'; CLOSE = ");", RPAREN = a ')' not followed by ';', SEMI = a     *)
(* lone ';' (paren: some '(' occurs later in the text), FLAGVAL = a       *)
(* binary flags literal and its ';', EOL = "\r\n", EOT = the '\0' that    *)
(* ParseTriggers appends.                                                 *)
(***************************************************************************)
Tok ==
       {[k |-> x] : x \in {"TRIG", "LBRACE", "RBRACE", "RPAREN", "CLOSE", "EOL", "EOT"}}
  \cup [k : {"KW"}, w : Keywords]
  \cup [k : {"PLAYER"}, g : Groups, last : BOOLEAN]
  \cup [k : {"NAME"}, n : Names, dis : BOOLEAN]
  \cup [k : {"ARG"}, ok : BOOLEAN, last : BOOLEAN]
  \cup [k : {"SEMI"}, paren : BOOLEAN]
  \cup [k : {"FLAGVAL"}, ok : BOOLEAN]

\* Tokens that contain a '(' as found by text.find('(').
HasParen(t) == t.k \in {"TRIG", "NAME"}

\* A condition or action as stored: its type, its Disabled flag and the
\* number of argument slots the parser filled.
CondT == [type : CondNames, disabled : BOOLEAN, nargs : Nat]
ActT  == [type : ActNames, disabled : BOOLEAN, nargs : Nat]
TrigT == [owners : SUBSET ValidGroups, conds : Seq(CondT), acts : Seq(ActT)]

\* new Chk::Trigger(): no owners, no conditions, no actions.
EmptyTrig == [owners |-> {}, conds |-> <<>>, acts |-> <<>>]

VARIABLES
  expecting,   \* the parser state (0 .. 12)
  tok,         \* the token at pos
  line,        \* the line counter used in error messages
  currTrig,    \* the trigger under construction
  argIndex,    \* index of the next argument of the current condition/action
  output,      \* triggers pushed so far
  result,      \* "running", or what ParseTriggers returned
  ntrig,       \* TRIG tokens in the text so far (history)
  mustParen,   \* the text still has to contain a '(' (prophecy)
  noParen      \* the rest of the text contains no '(' (prophecy)

vars == <<expecting, tok, line, currTrig, argIndex, output, result, ntrig,
          mustParen, noParen>>

-----------------------------------------------------------------------------
(* Choosing the input text.                                                *)

\* t may follow prev in a text of the model's size.
Follows(prev, t) ==
  /\ prev.k = "ARG" /\ prev.last => t.k \in {"CLOSE", "RPAREN"}
  /\ HasParen(t) => ~noParen
  /\ t.k = "EOT" => ~mustParen
  /\ t = [k |-> "SEMI", paren |-> FALSE] => ~mustParen
  /\ t = [k |-> "SEMI", paren |-> TRUE] => ~noParen
  /\ t.k = "EOL" => line + (IF prev.k = "EOL" THEN 1 ELSE 0) < MaxLines
  /\ t.k = "TRIG" => ntrig < MaxTriggers

\* The prophecy and history updates when t becomes the token at pos.
Reveal(t) ==
  /\ tok' = t
  /\ ntrig' = ntrig + (IF t.k = "TRIG" THEN 1 ELSE 0)
  /\ mustParen' = IF HasParen(t) THEN FALSE
                  ELSE mustParen \/ t = [k |-> "SEMI", paren |-> TRUE]
  /\ noParen' = (noParen \/ t = [k |-> "SEMI", paren |-> FALSE])

\* Move pos past the current token: the next token of the text is revealed.
Consume == \E t \in Tok : Follows(tok, t) /\ Reveal(t)

Stay == UNCHANGED <<tok, ntrig, mustParen, noParen>>

\* A handler reports an error: ParseTriggers returns false.
Fail ==
  /\ result' = "error"
  /\ UNCHANGED <<expecting, tok, line, currTrig, argIndex, output, ntrig,
                 mustParen, noParen>>

Goto(s) == expecting' = s

-----------------------------------------------------------------------------
(* The main loop of ParseTriggers.                                         *)

Init ==
  /\ expecting = 0
  /\ line = 1
  /\ \E t \in Tok :
       /\ t.k = "EOL" => 1 < MaxLines
       /\ t.k = "TRIG" => 0 < MaxTriggers
       /\ tok = t
       /\ ntrig = IF t.k = "TRIG" THEN 1 ELSE 0
       /\ mustParen = (t = [k |-> "SEMI", paren |-> TRUE])
       /\ noParen = (t = [k |-> "SEMI", paren |-> FALSE])
  /\ currTrig = EmptyTrig
  /\ argIndex = 0
  /\ output = <<>>
  /\ result = "running"

\* Mutant: CR and LF of a line end each counted as a line.
LineEndTwice ==
  /\ result = "running"
  /\ tok.k = "EOL"
  /\ line' = line + 2
  /\ Consume
  /\ UNCHANGED <<expecting, currTrig, argIndex, output, result>>

\* A line end is skipped before any handler runs.
LineEnd ==
  /\ result = "running"
  /\ tok.k = "EOL"
  /\ line' = line + 1
  /\ Consume
  /\ UNCHANGED <<expecting, currTrig, argIndex, output, result>>

\* Every handler runs only on a token that is not a line end.
Handler(s) == result = "running" /\ tok.k # "EOL" /\ expecting = s

\* 0: "TRIGGER(" starts a trigger; the end of text ends the parse.
PartZero ==
  /\ Handler(0)
  /\ \/ /\ tok.k = "TRIG"
        /\ Goto(1) /\ currTrig' = EmptyTrig /\ Consume
        /\ UNCHANGED <<line, argIndex, output, result>>
     \/ /\ tok.k = "EOT"
        /\ result' = "ok" /\ currTrig' = EmptyTrig /\ Stay
        /\ UNCHANGED <<expecting, line, argIndex, output>>
     \/ tok.k \notin {"TRIG", "EOT"} /\ Fail

\* ParsePlayer resolved the player and the group has an owner slot.
ValidPlayer == tok.k = "PLAYER" /\ tok.g \in ValidGroups

\* 1: the owner list; ParseExecutingPlayer marks a valid group as owner.
PartOne ==
  /\ Handler(1)
  /\ \/ /\ tok.k = "RPAREN"
        /\ Goto(2) /\ Consume
        /\ UNCHANGED <<line, currTrig, argIndex, output, result>>
     \/ /\ ValidPlayer
        /\ currTrig' = [currTrig EXCEPT !.owners = @ \cup {tok.g}]
        /\ Goto(IF tok.last THEN 2 ELSE 1) /\ Consume
        /\ UNCHANGED <<line, argIndex, output, result>>
     \/ tok.k # "RPAREN" /\ ~ValidPlayer /\ Fail

\* 2: '{'.
PartTwo ==
  /\ Handler(2)
  /\ \/ /\ tok.k = "LBRACE"
        /\ Goto(3) /\ Consume
        /\ UNCHANGED <<line, currTrig, argIndex, output, result>>
     \/ tok.k # "LBRACE" /\ Fail

\* Mutant: "ACTIONS:" advances expecting by 3 instead of 4.
SectionStateOffByOne == [w \in Keywords |->
                           CASE w = "CONDITIONS" -> 4
                             [] w = "ACTIONS"    -> 6
                             [] w = "FLAGS"      -> 10]

\* The state a section keyword leads to.
SectionState == [w \in Keywords |->
                   CASE w = "CONDITIONS" -> 4
                     [] w = "ACTIONS"    -> 7
                     [] w = "FLAGS"      -> 10]

\* 3: "CONDITIONS:", "ACTIONS:", "FLAGS:" or '}'.
PartThree ==
  /\ Handler(3)
  /\ \/ /\ tok.k = "KW"
        /\ Goto(SectionState[tok.w]) /\ Consume
        /\ UNCHANGED <<line, currTrig, argIndex, output, result>>
     \/ /\ tok.k = "RBRACE"
        /\ Goto(12) /\ Consume
        /\ UNCHANGED <<line, currTrig, argIndex, output, result>>
     \/ tok.k \notin {"KW", "RBRACE"} /\ Fail
\* ParseCondition succeeded on a condition name: the capacity check of the
\* code (numConditions > MaxConditions) and the new condition, which takes
\* slot numConditions; argIndex restarts at 0, before the check.
AddCondition ==
  /\ argIndex' = 0
  /\ \/ /\ Len(currTrig.conds) > MaxConditions
        /\ result' = "error"
        /\ UNCHANGED <<expecting, tok, line, currTrig, output, ntrig,
                       mustParen, noParen>>
     \/ /\ Len(currTrig.conds) <= MaxConditions
        /\ currTrig' = [currTrig EXCEPT !.conds =
                 Append(@, [type |-> tok.n, disabled |-> tok.dis, nargs |-> 0])]
        /\ Goto(5) /\ Consume
        /\ UNCHANGED <<line, output, result>>

\* 4: a condition, "ACTIONS:", "FLAGS:" or '}'.
PartFour ==
  /\ Handler(4)
  /\ \/ tok.k = "NAME" /\ tok.n \in CondNames /\ AddCondition
     \/ /\ tok.k = "RBRACE"
        /\ Goto(12) /\ Consume
        /\ UNCHANGED <<line, currTrig, argIndex, output, result>>
     \/ /\ tok.k = "KW" /\ tok.w # "CONDITIONS"
        /\ Goto(SectionState[tok.w]) /\ Consume
        /\ UNCHANGED <<line, currTrig, argIndex, output, result>>
     \/ /\ ~ \/ tok.k = "NAME" /\ tok.n \in CondNames
             \/ tok.k = "RBRACE"
             \/ tok.k = "KW" /\ tok.w # "CONDITIONS"
        /\ Fail

\* Mutant: ')' accepted without checking that the descriptor is exhausted.
ArgStepNoArityCheck(list, arity, back) ==
  \/ /\ tok.k = "CLOSE"
     /\ Goto(back) /\ Consume
     /\ UNCHANGED <<line, currTrig, argIndex, output, result>>
  \/ /\ tok.k = "ARG" /\ argIndex < arity
     /\ tok.ok /\ tok.last = (argIndex + 1 = arity)
     /\ argIndex' = argIndex + 1
     /\ currTrig' = [currTrig EXCEPT ![list][Len(currTrig[list])].nargs = @ + 1]
     /\ Consume
     /\ UNCHANGED <<expecting, line, output, result>>
  \/ /\ tok.k # "CLOSE"
     /\ ~ (tok.k = "ARG" /\ argIndex < arity
           /\ tok.ok /\ tok.last = (argIndex + 1 = arity))
     /\ Fail

\* The argument step shared by conditions (5) and actions (8): an argument
\* is parsed while the descriptor has one at argIndex, it must be the last
\* one exactly when the descriptor's next entry is NoType, and ");" ends the
\* call once the descriptor is exhausted.  back is the state to return to.
ArgStep(list, arity, back) ==
  \/ /\ tok.k = "CLOSE" /\ argIndex >= arity
     /\ Goto(back) /\ Consume
     /\ UNCHANGED <<line, currTrig, argIndex, output, result>>
  \/ /\ tok.k = "ARG" /\ argIndex < arity
     /\ tok.ok /\ tok.last = (argIndex + 1 = arity)
     /\ argIndex' = argIndex + 1
     /\ currTrig' = [currTrig EXCEPT ![list][Len(currTrig[list])].nargs = @ + 1]
     /\ Consume
     /\ UNCHANGED <<expecting, line, output, result>>
  \/ /\ ~ \/ tok.k = "CLOSE" /\ argIndex >= arity
          \/ tok.k = "ARG" /\ argIndex < arity
             /\ tok.ok /\ tok.last = (argIndex + 1 = arity)
     /\ Fail

\* 5: the arguments of the current condition.
PartFive ==
  /\ Handler(5)
  /\ ArgStep("conds", CondArity[currTrig.conds[Len(currTrig.conds)].type], 4)

\* ParseAction succeeded on an action name: as for conditions, argIndex
\* restarts at 0 before the capacity check.
AddAction ==
  /\ argIndex' = 0
  /\ \/ /\ Len(currTrig.acts) > MaxActions
        /\ result' = "error"
        /\ UNCHANGED <<expecting, tok, line, currTrig, output, ntrig,
                       mustParen, noParen>>
     \/ /\ Len(currTrig.acts) <= MaxActions
        /\ currTrig' = [currTrig EXCEPT !.acts =
                 Append(@, [type |-> tok.n, disabled |-> tok.dis, nargs |-> 0])]
        /\ Goto(8) /\ Consume
        /\ UNCHANGED <<line, output, result>>

\* 7: an action, "FLAGS:" or '}'.  A lone ';' is skipped when no '(' occurs
\* in the rest of the text (text.find('(') fails and nothing else is done).
PartSeven ==
  /\ Handler(7)
  /\ \/ tok.k = "NAME" /\ tok.n \in ActNames /\ AddAction
     \/ /\ tok.k = "RBRACE"
        /\ Goto(12) /\ Consume
        /\ UNCHANGED <<line, currTrig, argIndex, output, result>>
     \/ /\ tok = [k |-> "KW", w |-> "FLAGS"]
        /\ Goto(10) /\ Consume
        /\ UNCHANGED <<line, currTrig, argIndex, output, result>>
     \/ /\ tok = [k |-> "SEMI", paren |-> FALSE]
        /\ Consume
        /\ UNCHANGED <<expecting, line, currTrig, argIndex, output, result>>
     \/ /\ ~ \/ tok.k = "NAME" /\ tok.n \in ActNames
             \/ tok.k = "RBRACE"
             \/ tok = [k |-> "KW", w |-> "FLAGS"]
             \/ tok = [k |-> "SEMI", paren |-> FALSE]
        /\ Fail

\* 8: the arguments of the current action.
PartEight ==
  /\ Handler(8)
  /\ ArgStep("acts", ActArity[currTrig.acts[Len(currTrig.acts)].type], 7)

\* ';', or a literal ParseExecutionFlags accepts followed by ';'.
FlagsEnd == tok.k = "SEMI" \/ tok = [k |-> "FLAGVAL", ok |-> TRUE]

\* 10: ';' or a binary flags literal and ';'.
PartTen ==
  /\ Handler(10)
  /\ \/ /\ FlagsEnd
        /\ Goto(11) /\ Consume
        /\ UNCHANGED <<line, currTrig, argIndex, output, result>>
     \/ ~FlagsEnd /\ Fail

\* Mutant: the end of text taken as a successful end in state 11.
PartElevenEndsAtEOT ==
  /\ Handler(11)
  /\ \/ /\ tok.k = "RBRACE"
        /\ Goto(12) /\ Consume
        /\ UNCHANGED <<line, currTrig, argIndex, output, result>>
     \/ /\ tok.k = "EOT"
        /\ result' = "ok" /\ Stay
        /\ UNCHANGED <<expecting, line, currTrig, argIndex, output>>
     \/ tok.k \notin {"RBRACE", "EOT"} /\ Fail

\* 11: '}'.
PartEleven ==
  /\ Handler(11)
  /\ \/ /\ tok.k = "RBRACE"
        /\ Goto(12) /\ Consume
        /\ UNCHANGED <<line, currTrig, argIndex, output, result>>
     \/ tok.k # "RBRACE" /\ Fail

\* 12: the trigger is pushed and the counters reset, without consuming the
\* token at pos; at the end of text the parse succeeds.
PartTwelve ==
  /\ Handler(12)
  /\ output' = Append(output, currTrig)
  /\ Goto(0)
  /\ result' = IF tok.k = "EOT" THEN "ok" ELSE "running"
  /\ Stay
  /\ UNCHANGED <<line, currTrig, argIndex>>

Next ==
  \/ LineEnd
  \/ PartZero \/ PartOne \/ PartTwo \/ PartThree \/ PartFour \/ PartFive
  \/ PartSeven \/ PartEight \/ PartTen \/ PartEleven \/ PartTwelve

Spec == Init /\ [][Next]_vars

-----------------------------------------------------------------------------
(* Properties.                                                             *)

TypeOK ==
  /\ expecting \in 0..12
  /\ tok \in Tok
  /\ line \in 1..MaxLines
  /\ currTrig \in TrigT
  /\ argIndex \in Nat
  /\ output \in Seq(TrigT)
  /\ result \in {"running", "ok", "error"}
  /\ ntrig \in 0..MaxTriggers
  /\ mustParen \in BOOLEAN /\ noParen \in BOOLEAN

\* Every condition and action of an emitted trigger has exactly the
\* argument slots its type's descriptor lists (ParsePartFive/Eight: ')' is
\* refused while an argument is due, an argument is refused at NoType).
ArgsMatchDescriptor ==
  \A i \in 1..Len(output) :
    /\ \A j \in 1..Len(output[i].conds) :
         output[i].conds[j].nargs = CondArity[output[i].conds[j].type]
    /\ \A j \in 1..Len(output[i].acts) :
         output[i].acts[j].nargs = ActArity[output[i].acts[j].type]

\* ParseTriggers never enters the states whose handlers are ParsePartSix and
\* ParsePartNine: no handler sets expecting to 6 or 9.
DeadStatesUnreachable == expecting \notin {6, 9}

\* When ParseTriggers reports success, every "TRIGGER(" of the text has
\* been completed and pushed: no trigger is cut off at the end of text.
CompleteOnSuccess == result = "ok" => Len(output) = ntrig

\* A trigger never holds more conditions or actions than Chk::Trigger has
\* slots: the spec says exceeding MaxConditions / MaxActions is an error.
CapacityRespected ==
  \A i \in 1..Len(output) :
    /\ Len(output[i].conds) <= MaxConditions
    /\ Len(output[i].acts) <= MaxActions

\* Spec 4.2 (ActionEntry): in the action list a ';' only prefixes the name
\* of a disabled action, so a lone ';' is an error, whatever text follows
\* it.  ParsePartSeven (TextTrigCompiler.cpp:963-1001) searches the rest of
\* the text for '(' and, when there is none, skips the ';' and goes on.
StraySemicolonRejected ==
  [][expecting = 7 /\ result = "running" /\ tok.k = "SEMI" => result' = "error"]_vars
=============================================================================
