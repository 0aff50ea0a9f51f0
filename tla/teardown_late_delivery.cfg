SPECIFICATION Spec
CONSTANTS
  MaxFaults = 0
  MaxAttempts = 1
  LateDelivery = TRUE
INVARIANT NoOrphanBalancer
CHECK_DEADLOCK FALSE
