SPECIFICATION Spec
CONSTANTS
  Ask = {a, b}
  MaxDeliveries = 2
  Caller = {c, d}
  MaxEvents = 3
  Job = {"first", "second", "html", "alone"}
  Variables <- MCVariables
  Template <- MCTemplate
  Suitable <- MCSuitable
  MaxEntries = 1
  MaxRetries = 1
INVARIANTS HttpOK RequestsAreConsistent EntityFollowsStore CacheIsTransparent
PROPERTIES CallersAreAnswered
CHECK_DEADLOCK FALSE
