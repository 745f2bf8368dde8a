\* Commits are awaited and repeated when they are rejected.
SPECIFICATION FairSpec
CONSTANTS
  Handle = {h1}
  Stream = {s1}
  Event = {e1, e2, e3}
  Call = {i1}
  Awaits = TRUE
  Retries = TRUE
  FailAt = {"ids", "add"}
  MaxFaults = 2
  None = None
PROPERTY StreamIsFifo StoredIsPublished
