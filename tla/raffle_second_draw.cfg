SPECIFICATION Spec
CONSTANTS
  Requests = {r1, r2}
  DrawRuns = {d1, d2}
  Users = {ann, bob}
  Registered = {ann, bob}
  Items = {i1}
  FailureDrill = {}
  MaxFaults = 1
  NoOne = NoOne
PROPERTY DrawnOnce
