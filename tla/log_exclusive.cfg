\* Two clients that serialise their work per stream, failures, a fair database.
SPECIFICATION FairSpec
CONSTANTS
  Client = {p1, p2}
  Repairer = {p1, p2}
  Stream = {s1}
  CommitId = {c1, c2, c3}
  Sizes = {1, 3}
  Ranges <- WholeStream
  Skew = 0
  MaxFaults = 2
  Exclusive = TRUE
  None = None
INVARIANTS TornIsRepairable RevisionsAreContiguous
PROPERTY ActsLikeAtomicLog TornIsRepaired
