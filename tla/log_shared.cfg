\* Two clients and one stream, used concurrently without any discipline.
SPECIFICATION Spec
CONSTANTS
  Client = {p1, p2}
  Repairer = {p1, p2}
  Stream = {s1}
  CommitId = {c1, c2}
  Sizes = {1, 2, 3}
  Ranges <- UpToRevision
  Skew = 1
  MaxFaults = 1
  Exclusive = FALSE
  None = None
SYMMETRY ClientsAndIds
INVARIANTS CommitPrefix AckedIsStored NewestCommitIsWhole
