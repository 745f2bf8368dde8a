\* Two streams, clients without discipline, a fair database.
SPECIFICATION FairSpec
CONSTANTS
  Client = {p1, p2}
  Repairer = {p1}
  Stream = {s1, s2}
  CommitId = {c1, c2}
  Sizes = {2}
  Ranges <- WholeStream
  Skew = 0
  MaxFaults = 1
  Exclusive = FALSE
  None = None
PROPERTY CallsEnd
