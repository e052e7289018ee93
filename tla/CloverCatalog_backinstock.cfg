CONSTANTS
  p1 = p1
  m1 = m1
  None = None
  Lanes = {k1}
  Table <- MCTable
  Names = {a}
  ShrinkCap = 1
  Faults = 2
SPECIFICATION Spec
INVARIANTS
  ModifiersMirrored
CHECK_DEADLOCK FALSE
