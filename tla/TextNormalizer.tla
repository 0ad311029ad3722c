---------------------------- MODULE TextNormalizer ----------------------------
(***************************************************************************)
(* TextTrigCompiler::CleanText (TextTrigCompiler.cpp 207-350), the pass    *)
(* that rewrites the raw trigger text before ParseTriggers reads it, with  *)
(* findStringEnd (3503-3519), which both CleanText and the parser use to   *)
(* find the end of a quoted string.  The loop reads the text one          *)
(* character at a time; each case of its switch is one action:            *)
(*   blanks are dropped, line ends become CR LF, "//" comments are         *)
(*   skipped, a quoted string is copied with its escapes decoded, and any  *)
(*   other character is copied, upper-cased.                               *)
(* Characters are named by strings ("a", "CR", "Q" for '"', "BS" for '\'); *)
(* a decoded byte that is none of them is "BYTE".                          *)
(***************************************************************************)
EXTENDS Naturals, Sequences, FiniteSets

CONSTANTS
  Alphabet,   \* the characters the input text is made of
  MaxLen      \* bound: length of the input text

\* The input characters the model knows.  " " stands for space and tab,
\* "VT" for vertical tab and form feed: CleanText treats each pair alike.
Chars == {"a", "n", "r", "t", "x", "A", "0", "2", " ", "CR", "LF", "VT",
          "/", "Q", "BS", "<", ">"}

ASSUME NormalizerAssumption == Alphabet \subseteq Chars /\ MaxLen \in Nat

\* What CleanText may write: upper-cased letters and decoded bytes.
OutChars == Chars \cup {"N", "R", "T", "X", "NUL", "BYTE"}

VARIABLES
  text,    \* the input text
  pos,     \* the loop index, 1-based (pos = code pos + 1)
  dest,    \* the output buffer
  status,  \* "run" inside the loop, "done" when it ended, "ub" when it
           \* read outside the text
  quoted   \* history: the <<open, close>> positions in dest of the
           \* quotes CleanText wrote for each string it copied

vars == <<text, pos, dest, status, quoted>>

-----------------------------------------------------------------------------
(* Reading the text.                                                      *)

\* text[p] in the code: the terminating '\0' just after the end, and
\* nothing defined beyond it.
At(p) == IF p <= Len(text) THEN text[p]
         ELSE IF p = Len(text) + 1 THEN "NUL" ELSE "OOB"

\* s.find(c, p) (1-based): the first index >= p holding c, or 0 for npos.
FindFrom(s, c, p) ==
  LET hits == {i \in p..Len(s) : s[i] = c}
  IN  IF hits = {} THEN 0 ELSE CHOOSE i \in hits : \A j \in hits : i <= j

\* findStringEnd(s, p) with p just past an opening quote: the index of the
\* quote that ends the string, or 0 for npos.  A quote right at p is
\* stepped over (++pos) before the search, and a quote preceded by a
\* backslash counts as escaped.
RECURSIVE FindStringEnd(_, _)
FindStringEnd(s, p) ==
  IF p > Len(s) THEN 0
  ELSE LET q0 == FindFrom(s, "Q", p)
           q  == IF q0 = p THEN FindFrom(s, "Q", p + 1) ELSE q0
       IN  IF q = 0 THEN 0
           ELSE IF q > 1 /\ s[q - 1] = "BS" THEN FindStringEnd(s, q)
           ELSE q

\* The value of a hex digit as the code reads it: '0'-'9' and 'A'-'F'
\* count, anything else adds 0.
HexVal(c) == CASE c = "0" -> 0 [] c = "2" -> 2 [] c = "A" -> 10 [] OTHER -> 0
IsHex(c) == c \in {"0", "2", "A"}

\* The character a decoded byte is.
ByteChar(b) == CASE b = 0 -> "NUL" [] b = 10 -> "LF" [] b = 13 -> "CR"
                 [] b = 32 -> " " [] b = 34 -> "Q" [] b = 92 -> "BS"
                 [] OTHER -> "BYTE"

\* Mutant: an escaped quote written back without its backslash.
EscapeOutUnescaped(d) == CASE d = "r" -> <<"CR">> [] d = "n" -> <<"LF">> [] d = "t" -> <<" ">>
                           [] OTHER -> <<d>>

\* '\r', '\n', '\t' escapes; an escaped quote is written back as \";
\* any other escaped character is written as itself.
EscapeOut(d) == CASE d = "r" -> <<"CR">> [] d = "n" -> <<"LF">> [] d = "t" -> <<" ">>
                  [] d = "Q" -> <<"BS", "Q">> [] OTHER -> <<d>>

\* The inner loop of the string case: decode the characters from p up to
\* the closing quote at close.  Result: the bytes written, and whether a
\* read fell outside the text.
RECURSIVE Decode(_, _)
Decode(p, close) ==
  IF p >= close THEN [out |-> <<>>, ub |-> FALSE]
  ELSE LET c == At(p)
           emit(o, next, reads) ==
             LET rest == Decode(next, close)
             IN  [out |-> o \o rest.out,
                  ub  |-> rest.ub \/ \E r \in reads : At(r) = "OOB"]
       IN  CASE c = "BS" /\ At(p + 1) = "x" ->
                  emit(<<ByteChar(16 * HexVal(At(p + 3)) + HexVal(At(p + 4)))>>,
                       p + 5, {p + 3, p + 4})
             [] c = "BS" -> emit(EscapeOut(At(p + 1)), p + 2, {p + 1})
             [] c = "<" /\ At(p + 3) = "OOB" -> [out |-> <<>>, ub |-> TRUE]
             [] c = "<" /\ At(p + 3) = ">" /\ IsHex(At(p + 1)) /\ IsHex(At(p + 2)) ->
                  emit(<<ByteChar(16 * HexVal(At(p + 1)) + HexVal(At(p + 2)))>>,
                       p + 4, {})
             [] OTHER -> emit(<<c>>, p + 1, {})

Upper(c) == CASE c = "a" -> "A" [] c = "n" -> "N" [] c = "r" -> "R"
              [] c = "t" -> "T" [] c = "x" -> "X" [] OTHER -> c

CRLF == <<"CR", "LF">>

-----------------------------------------------------------------------------
(* The loop of CleanText.                                                 *)

SeqUpTo(S, n) == UNION {[1..m -> S] : m \in 0..n}

Init ==
  /\ text \in SeqUpTo(Alphabet, MaxLen)
  /\ pos = 1
  /\ dest = <<>>
  /\ status = "run"
  /\ quoted = {}

\* A step of the loop reads text[pos] and moves past it.
Reading(c) == status = "run" /\ pos <= Len(text) /\ text[pos] = c

\* case ' ', '\t': deleted.
CleanBlank ==
  /\ Reading(" ")
  /\ pos' = pos + 1
  /\ UNCHANGED <<text, dest, status, quoted>>

\* Mutant: a CR always skips the character after it.
CleanLineEndAlwaysPair ==
  /\ status = "run" /\ pos <= Len(text) /\ text[pos] \in {"CR", "LF", "VT"}
  /\ pos' = IF text[pos] = "CR" THEN pos + 2 ELSE pos + 1
  /\ dest' = dest \o CRLF
  /\ UNCHANGED <<text, status, quoted>>

\* case '\r' (skipping a following '\n'), '\n', '\13', '\14': CR LF.
CleanLineEnd ==
  /\ status = "run" /\ pos <= Len(text) /\ text[pos] \in {"CR", "LF", "VT"}
  /\ pos' = IF text[pos] = "CR" /\ At(pos + 1) = "LF" THEN pos + 2 ELSE pos + 1
  /\ dest' = dest \o CRLF
  /\ UNCHANGED <<text, status, quoted>>

\* case '/': a lone '/' is deleted.  After "//" the code looks for a line
\* end: it searches for LF, and only if one is found for CR, then VT, then
\* FF, each search overwriting the last; it moves to what the last search
\* found, or to the end of the text when that search found nothing.
CommentSkip(p) ==
  LET n1 == FindFrom(text, "LF", p)
      n2 == IF n1 # 0 THEN FindFrom(text, "CR", p) ELSE n1
      n3 == IF n2 # 0 THEN FindFrom(text, "VT", p) ELSE n2
      n4 == IF n3 # 0 THEN FindFrom(text, "VT", p) ELSE n3
  IN  IF n4 # 0 THEN n4 ELSE Len(text) + 1

CleanComment ==
  /\ Reading("/")
  /\ pos' = IF At(pos + 1) = "/" THEN CommentSkip(pos + 1) ELSE pos + 1
  /\ UNCHANGED <<text, dest, status, quoted>>

\* case '"': write the quote, find the end with findStringEnd, decode up to
\* it, write the closing quote and continue after it.  When there is no
\* end (npos), the inner loop runs past the end of the text.
CleanString ==
  LET close == FindStringEnd(text, pos + 1)
      body  == Decode(pos + 1, close)
  IN  /\ Reading("Q")
      /\ IF close = 0 \/ body.ub
           THEN /\ status' = "ub"
                /\ UNCHANGED <<pos, dest, quoted>>
           ELSE /\ dest' = dest \o <<"Q">> \o body.out \o <<"Q">>
                /\ pos' = close + 1
                /\ quoted' = quoted \cup {<<Len(dest) + 1, Len(dest) + Len(body.out) + 2>>}
                /\ UNCHANGED status
      /\ UNCHANGED text

\* default: any other character, upper-cased.
CleanOther ==
  /\ status = "run" /\ pos <= Len(text)
  /\ text[pos] \notin {" ", "CR", "LF", "VT", "/", "Q"}
  /\ pos' = pos + 1
  /\ dest' = Append(dest, Upper(text[pos]))
  /\ UNCHANGED <<text, status, quoted>>

\* The loop ends at the end of the text; text takes the buffer.
CleanFinish ==
  /\ status = "run" /\ pos > Len(text)
  /\ status' = "done"
  /\ UNCHANGED <<text, pos, dest, quoted>>

Next ==
  \/ CleanBlank \/ CleanLineEnd \/ CleanComment \/ CleanString
  \/ CleanOther \/ CleanFinish

Spec == Init /\ [][Next]_vars

-----------------------------------------------------------------------------
(* Properties.                                                            *)

TypeOK ==
  /\ text \in Seq(Alphabet)
  /\ pos \in 1..Len(text) + 1
  /\ dest \in Seq(OutChars)
  /\ status \in {"run", "done", "ub"}
  /\ quoted \subseteq (1..Len(dest)) \X (1..Len(dest))

\* The quoted strings the parser finds in s: from each quote outside a
\* string to the end findStringEnd gives it (0 when it finds none), as
\* findNextUnquoted walks the text.
RECURSIVE ParserStrings(_, _)
ParserStrings(s, p) ==
  LET o == FindFrom(s, "Q", p)
      c == IF o = 0 THEN 0 ELSE FindStringEnd(s, o + 1)
  IN  IF o = 0 THEN {}
      ELSE IF c = 0 THEN {<<o, 0>>}
      ELSE {<<o, c>>} \cup ParserStrings(s, c + 1)

InQuoted(i) == \E q \in quoted : q[1] <= i /\ i <= q[2]

\* The normalised text is what the parser expects: the parser delimits
\* exactly the strings CleanText wrote (an escaped quote or a decoded byte
\* inside a string does not end it early, and no string is left open),
\* and outside them there is no lower-case letter or blank, and every line
\* end is CR LF.
ParserReady ==
  status = "done" =>
    /\ ParserStrings(dest, 1) = quoted
    /\ \A i \in 1..Len(dest) : ~InQuoted(i) =>
          /\ dest[i] \notin {"a", "n", "r", "t", "x", " ", "VT"}
          /\ dest[i] = "CR" => i < Len(dest) /\ dest[i + 1] = "LF"
          /\ dest[i] = "LF" => i > 1 /\ dest[i - 1] = "CR"

\* The end of a string as the spec describes it: the next quote that is
\* not escaped by a backslash (Len + 1 when there is none).
RECURSIVE SpecStringEnd(_)
SpecStringEnd(q) ==
  IF q > Len(text) THEN Len(text) + 1
  ELSE IF text[q] = "BS" THEN SpecStringEnd(q + 2)
  ELSE IF text[q] = "Q" THEN q
  ELSE SpecStringEnd(q + 1)

\* The first line end at or after q (Len + 1 when there is none).
LineEndFrom(q) ==
  LET ends == {i \in q..Len(text) : text[i] \in {"CR", "LF", "VT"}}
  IN  IF ends = {} THEN Len(text) + 1 ELSE CHOOSE i \in ends : \A j \in ends : i <= j

\* The number of lines ends of the text outside strings and comments, a
\* CR LF pair counting once: the line ends a normalised text must keep.
RECURSIVE SpecLineEnds(_)
SpecLineEnds(p) ==
  IF p > Len(text) THEN 0
  ELSE CASE text[p] = "CR" /\ At(p + 1) = "LF" -> 1 + SpecLineEnds(p + 2)
         [] text[p] \in {"CR", "LF", "VT"} -> 1 + SpecLineEnds(p + 1)
         [] text[p] = "/" /\ At(p + 1) = "/" -> SpecLineEnds(LineEndFrom(p + 2))
         [] text[p] = "Q" -> SpecLineEnds(SpecStringEnd(p + 1) + 1)
         [] OTHER -> SpecLineEnds(p + 1)

\* Spec 2 (TextNormalizer strips comments): CleanText keeps every line of
\* the text; a "//" comment removes the rest of its own line only, so the
\* line numbers the parser reports still match the editor's.
LinesKept ==
  status = "done" =>
    Cardinality({i \in 1..Len(dest) : dest[i] = "CR" /\ ~InQuoted(i)}) = SpecLineEnds(1)

\* CleanText never reads outside the text: every quoted string it starts
\* to copy has an end that findStringEnd finds, and no escape reads past
\* the terminating '\0'.
NoUndefinedRead ==
  status # "ub"
=============================================================================
