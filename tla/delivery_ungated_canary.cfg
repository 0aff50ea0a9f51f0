SPECIFICATION DeliverySpec
CONSTANTS
  Deployers = {d1, d2}
  Binder = Binder
  Readers = {d1, d2, Binder}
  Pin <- MCPin
  MaxFaults = 1
SYMMETRY Symmetry
CHECK_DEADLOCK FALSE
INVARIANT CanaryIsBound
