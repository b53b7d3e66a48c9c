CONSTANTS
  Nodes = {n1, n2, n3}
  Watched = {n1, n2}
  Invalid = {n3}
  Tasks = {t1, t2}
  RetryCap = 2
  ServerFails = TRUE
  RequestErrors = TRUE
  RoundRaises = TRUE
  ForeignCalls = TRUE
SPECIFICATION Spec
SYMMETRY Symmetry
INVARIANTS TypeOK QuietUntilError DeathIsKept
PROPERTY ImplementsSubscription
CHECK_DEADLOCK FALSE
