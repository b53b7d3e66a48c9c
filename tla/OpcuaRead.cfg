CONSTANTS
  Nodes = {n1, n2}
  Watched = {}
  RetryCap = 1
  ServerFails = FALSE
  RequestErrors = FALSE
  HandlerRaises = FALSE
  AddsWhileOpen = FALSE
  ForeignCalls = 1
SPECIFICATION FairSpec
PROPERTY StaysMonitored
CHECK_DEADLOCK FALSE
