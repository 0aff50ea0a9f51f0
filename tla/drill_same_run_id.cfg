SPECIFICATION Spec
CONSTANTS
  Pods = {p1, p2}
  MaxWrites = 5
  MaxAttempts = 2
SYMMETRY Symmetry
INVARIANT MarkerProvesCopy
CHECK_DEADLOCK FALSE
