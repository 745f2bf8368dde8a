SPECIFICATION Spec
CONSTANTS
  Client = {p, q}
  Reader = {q}
  Deleter = {p}
  Drivers <- AllDrivers
  Counts = {1, 2}
  RevMaxs <- MCRevMaxs
  MaxRevision = 2
  MaxSnaps = 3
  MaxFaults = 1
  Skew = 1
ACTION_CONSTRAINTS OneClock
INVARIANTS SnapshotsOK ReplayPassesSnapshot
PROPERTIES NearestIsLoaded
