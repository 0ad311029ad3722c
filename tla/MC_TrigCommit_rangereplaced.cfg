\* Checks RangeReplaced alone; TLC is expected to find it violated.
CONSTANTS
  t1 = t1
  x = x
  y = y
  none = none
  Tags <- MCTags
  Contents <- MCContents
  NoContent = none
  Ids <- MCIds
  OtherUsed <- MCOtherUsed
  MaxTrigs = 2
  MaxParsed = 1
SPECIFICATION Spec

PROPERTY RangeReplaced
