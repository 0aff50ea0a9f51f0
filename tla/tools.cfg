SPECIFICATION ToolsSpec
CONSTANTS
  w1 = w1
  w2 = w2
  w3 = w3
  ra = ra
  rb = rb
  Wrappers = {w1, w2, w3}
  RunIds = {ra, rb}
  Reviewer = Reviewer
  Plans = {1, 2}
  Ceiling = 4
  Overshoot = 2
  WafAttempts = 2
  WafEdits = 2
  Observer = Observer
  Readers = {Observer}
  Pin <- MCPin
  MaxFaults = 1
  CdRuns = {1, 2, 3}
  RevOf <- MCRevOf
  ByHand = {2}
  MaxRuns = 2
  MaxReplaced = 2
  Metrics <- MCMetrics
  Lookback = 3
  SourceMax = 1
  BundleMax = 1
  KubeTicks = 1
  MaxTurns = 4
  MaxToolCalls = 3
  Ailments = {"parity"}
  Changes = 1
  Tables = 5
  OldTables = {1, 2, 3}
  BackoffLimit = 2
  MaxLosses = 2
CHECK_DEADLOCK FALSE
INVARIANTS
  ToolsTypeOK WithinCeiling TrafficIsAccounted WafLeftoverReported VerifiedWasTrueAtOnce
  VerifiedIsOneRelease EvidenceIsRecent StaleIsUnknown SeededOnce
PROPERTIES
  RowsMoveForward WafSettingsKept WafForeignKept OnlyTheImageChanges GrantedOnComplete ToolsEnd
