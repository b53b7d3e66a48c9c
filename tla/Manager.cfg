CONSTANTS
  s1 = s1
  s2 = s2
  s3 = s3
  c1 = c1
  c2 = c2
  c3 = c3
  NaN = NaN
  None = None
  SystemConfigs <- SomeConfigs
  Nodes <- SomeNodes
  Systems = {s1, s2, s3}
  Names = {"set", "node", "more", "none"}
  Indicators = {i1, i2}
  compare = "=="
  set_name = "set"
  set_node = "node"
  observe <- Observed
  Connections <- AllConnections
  ConnectionOf <- NodeConnections
  IndicatorsAt <- IndicatorConnections
  Readable = {c1, c2}
  Writable = {c1, c3}
  Parameters <- SomeParameters
  min = 1
  max = 3
  threshold = 2
  add = 1
  mult = 2
  close_value = 0
  max_error_count = 1
  Fails = TRUE
  SelfChanges = TRUE
SPECIFICATION AllSpec
INVARIANTS StepTakesEffect AnswersAreCurrent ConfigIsComplete GroupsAreAccepted
PROPERTY BoundsHold
CHECK_DEADLOCK FALSE
