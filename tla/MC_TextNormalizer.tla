------------------------- MODULE MC_TextNormalizer -------------------------
(* Input alphabets for CleanText.                                          *)
EXTENDS TextNormalizer

\* Letters, blanks, every kind of line end, comments, quotes and the
\* backslash escapes \n, \" and \\.
MCAlphabet == {"a", "n", " ", "CR", "LF", "VT", "/", "Q", "BS"}
\* A string with a hex escape <HH> next to a letter.
MCHexAlphabet == {"a", "Q", "<", "2", ">"}
\* Lines and comments, no strings.
MCCommentAlphabet == {"a", "LF", "/"}
\* Quotes and a letter.
MCQuoteAlphabet == {"a", "Q"}
=============================================================================
