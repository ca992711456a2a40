SPECIFICATION Spec
CONSTANTS
  Name = {a, b, c}
  NoName = NoName
  MaxEdits = 2
  MaxApplies = 2
CHECK_DEADLOCK FALSE
SYMMETRY Symmetry
INVARIANTS
  RebuildAllOrNothing
