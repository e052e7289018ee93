CONSTANTS
  a = a
  k1 = k1
  Lanes = {k1}
  Sigs = {a}
  Price <- MCPrice
  MaxRows = 3
  MaxLines = 1
  Faults = 1
SPECIFICATION Spec
INVARIANTS
  AddedIsShown
CHECK_DEADLOCK FALSE
