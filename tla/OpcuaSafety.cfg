CONSTANTS
  Nodes = {n1, n2}
  Watched = {n1, n2}
  RetryCap = 2
  ServerFails = TRUE
  RequestErrors = TRUE
  HandlerRaises = TRUE
  AddsWhileOpen = TRUE
  ForeignCalls = 1
SPECIFICATION Spec
SYMMETRY Symmetry
INVARIANTS TypeOK ClosedIsQuiet OpenHasTask GapIsMarked
PROPERTY ImplementsSubscription
CHECK_DEADLOCK FALSE
