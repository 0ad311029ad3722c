\* Undo must give back the data from before the group (Reversibles.cpp:27).
CONSTANTS
  u1 = u1
  hp = hp
  owner = owner
  Units <- MCUnits
  Fields <- MCFields
  Values <- MCValues
  MaxActions = 3
SPECIFICATION Spec
INVARIANT UndoRestores
