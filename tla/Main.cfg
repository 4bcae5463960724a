SPECIFICATION Spec
CONSTANT CommandLines <- MCCommandLines
INVARIANTS
  EachOnItsDevice
  StatusTellsWhy
CHECK_DEADLOCK FALSE
