\* getNewId or getNextPositions rejects once.
SPECIFICATION Spec
CONSTANTS
  Handle = {h1}
  Stream = {s1}
  Event = {e1, e2}
  Call = {i1}
  Awaits = TRUE
  Retries = TRUE
  FailAt = {"ids"}
  MaxFaults = 1
  None = None
SYMMETRY Alike
INVARIANTS CommitsAll
