SPECIFICATION FairSpec
CONSTANTS
  Configs <- MCOne
  NoConfig = NoConfig
  DefaultThreshold = 1
  Recovery = 1
  HalfOpenRequests = 1
  Requests = {r1, r2, r3}
  Writers = {}
  Instances = {g1}
  None = None
  MaxFaults = 0
PROPERTIES RequestsEnd Recovers
CHECK_DEADLOCK FALSE
