SPECIFICATION Spec
CONSTANTS
  Client = {p, q}
  Reader = {q}
  CommitId = {1, 2}
  Drivers <- AllDrivers
  Sizes = {1, 2}
  MaxDocs = 3
  PageSize = 2
  Radix = 3
  MaxHits = 3
  Queries <- MCQueries
  MaxMarks = 1
  MaxFaults = 1
  Skew = 1
ACTION_CONSTRAINTS Undisturbed OneWriter InTurn OneTick OneError
INVARIANTS StoreOK CommitIsCutCleanly AckedIsStored QuietReadsAgree LoadsArePrefixes
