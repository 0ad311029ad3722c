\* Every text of up to five characters over letters, blanks, line ends,
\* comments, quotes and backslash escapes.
CONSTANTS
  Alphabet <- MCAlphabet
  MaxLen = 5
SPECIFICATION Spec
INVARIANTS TypeOK ParserReady
CHECK_DEADLOCK FALSE
