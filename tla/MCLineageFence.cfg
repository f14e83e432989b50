SPECIFICATION Spec
CONSTANTS
  Scheduler = {s1, s2}
  Operator = Operator
  Free = Free
  Lease = 2
  MaxClock = 5
  MaxGeneration = 4
SYMMETRY Symmetry
INVARIANTS FenceInv
PROPERTIES FencingIsMonotone OnlyOwnerMovesExpiry
CHECK_DEADLOCK FALSE
