SPECIFICATION FairSpec
CONSTANTS
  MaxFaults = 1
  MaxAttempts = 2
  LateDelivery = FALSE
INVARIANTS NoOrphanBalancer CompletedMeansGone
PROPERTIES WatchdogReports TeardownSucceeds
CHECK_DEADLOCK FALSE
