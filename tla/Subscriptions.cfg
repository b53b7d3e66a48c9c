CONSTANTS
  n1 = n1
  n2 = n2
  t1 = t1
  t2 = t2
SPECIFICATION FairSpec
PROPERTIES StaysMonitored DeliveryResumes OutageReachesHandler
CHECK_DEADLOCK FALSE
