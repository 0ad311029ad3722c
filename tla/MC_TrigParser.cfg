CONSTANTS
  c1 = c1
  a1 = a1
  bad = bad
  CondNames <- MCCondNames
  ActNames <- MCActNames
  BadName = bad
  CondArity <- MCCondArity
  ActArity <- MCActArity
  Groups <- MCGroups
  MaxConditions = 1
  MaxActions = 0
  MaxTriggers = 2
  MaxLines = 2
SPECIFICATION Spec
\* ParseTriggers returns: a finished parse is a final state.
CHECK_DEADLOCK FALSE
INVARIANTS
  TypeOK
  ArgsMatchDescriptor
  
  CompleteOnSuccess
