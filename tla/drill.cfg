SPECIFICATION Spec
CONSTANTS
  Pods = {p1, p2}
  MaxWrites = 5
  MaxAttempts = 3
SYMMETRY Symmetry
INVARIANTS NothingLost OneWriter SafeResume EndsAsItBegan
CHECK_DEADLOCK FALSE
