SPECIFICATION Spec
CONSTANTS
  Signal = {1, 2}
  Request = {x, y}
  MaxFaults = 1
  LifeDefinitions <- FewDefinitions
  OrderDefinitions <- AllDefinitions
  Handler = {"h1", "h2", "h3"}
  Publication = {c1, c2}
  EventName <- MCEventName
  EventVersion <- MCEventVersion
  BusEvents <- MCBusEvents
  MaxChanges = 4
  Thrown <- MCThrown
  Phrases <- MCPhrases
  NodeErrors <- MCNodeErrors
  Numbers <- MCNumbers
INVARIANTS KernelOK SortGivesOrder BootHooksInOrder RequestsAreAnswered AnsweredWhenDone ErrorsAreViewed
PROPERTIES StopsWhenListening
CHECK_DEADLOCK FALSE
