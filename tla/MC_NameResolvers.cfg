\* Every token against every naming of three locations and three
\* switches, with colliding names.
CONSTANTS
  n1 = n1
  n2 = n2
  none = none
  c1 = c1
  Names <- MCNames
  NoName = none
  Hash <- MCHash
  NumLocations = 3
  Anywhere = 2
  NumSwitches = 3
  SwitchNumbers <- MCSwitchNumbers
  Numbers <- MCNumbers
  ScriptCodes <- MCScriptCodes
SPECIFICATION Spec
INVARIANTS TypeOK LookupExact
