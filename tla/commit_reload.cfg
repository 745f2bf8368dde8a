\* Commits are awaited, a stream is loaded again after a rejected one; everything may fail.
SPECIFICATION Spec
CONSTANTS
  Handle = {h1, h2}
  Stream = {s1}
  Event = {e1, e2, e3, e4}
  Call = {i1, i2}
  Awaits = TRUE
  Retries = FALSE
  FailAt = {"ids", "add", "added", "publish", "restart"}
  MaxFaults = 2
  None = None
SYMMETRY Alike
INVARIANTS RevisionIsIndex PositionsFollowRevisions PublishedInOrder
