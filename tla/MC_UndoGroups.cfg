\* Every group of up to three edits, undone and redone any number of times;
\* redo restores the edits, and the group implements UndoSpec.
CONSTANTS
  u1 = u1
  hp = hp
  owner = owner
  Units <- MCUnits
  Fields <- MCFields
  Values <- MCValues
  MaxActions = 3
SPECIFICATION Spec
INVARIANTS TypeOK RedoRestores
 
