SPECIFICATION FairSpec
CONSTANTS
  Requests = {r1, r2, r3}
  DrawRuns = {d1, d2}
  Users = {ann, eve}
  Registered = {ann}
  Items = {i1}
  FailureDrill = {r3}
  MaxFaults = 1
  NoOne = NoOne
INVARIANTS TypeOK SuccessIsDurable WinnerApplied LockHasLiveOwner
PROPERTIES NoEntryAfterDraw KeepsPromise RequestsEnd ClosedItemsAreDrawn
