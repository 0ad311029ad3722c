\* Successful, failed and rolled-back compiles of ranges and single slots.
CONSTANTS
  t1 = t1
  x = x
  y = y
  none = none
  Tags <- MCTags
  Contents <- MCContents
  NoContent = none
  Ids <- MCIds
  OtherUsed <- MCOtherUsed
  MaxTrigs = 2
  MaxParsed = 1
SPECIFICATION Spec
INVARIANTS TypeOK NoDanglingStringRefs
PROPERTIES SingleCompileAtomic
