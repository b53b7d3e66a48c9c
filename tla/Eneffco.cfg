CONSTANTS
  Nodes = {n1, n2}
  h1 = h1
  h2 = h2
  Handlers <- TwoHandlers
  Raising = {h2}
  UnknownCodes = {}
  Tasks = {t1, t2}
  ServerFails = TRUE
  MaxCalls = 1
SPECIFICATION FairSpec
INVARIANT RoundIsWhole
PROPERTIES ImplementsSubscription DeliveryResumes
CHECK_DEADLOCK FALSE
