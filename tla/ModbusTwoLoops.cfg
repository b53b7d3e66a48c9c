CONSTANTS
  Nodes = {n1, n2}
  Watched = {}
  Invalid = {}
  Tasks = {t1, t2}
  RetryCap = 1
  ServerFails = FALSE
  RequestErrors = FALSE
  RoundRaises = TRUE
  ForeignCalls = FALSE
SPECIFICATION Spec
INVARIANT AtMostOneLoop
CHECK_DEADLOCK FALSE
