\* Objects are committed at any time; a failed addEvents stored nothing.
SPECIFICATION Spec
CONSTANTS
  Handle = {h1, h2}
  Stream = {s1}
  Event = {e1, e2}
  Call = {i1, i2}
  Awaits = FALSE
  Retries = TRUE
  FailAt = {"ids", "add"}
  MaxFaults = 1
  None = None
SYMMETRY Alike
INVARIANTS PositionsAreUnique StoredOnce PublishedOnce
