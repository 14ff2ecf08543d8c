SPECIFICATION Spec
CHECK_DEADLOCK FALSE
CONSTANTS
  Instances = {"a", "instances"}
  FwdSlots = {0, 51, 7986}
  MaxCalls = 2
  MaxNoise = 2
  MaxQueryNoise = 1
INVARIANTS
  OkMeansDone
  UnharmedCallSucceeds
  TrailerOnce
  StreamIsRaw
  StreamReachesItsCore
  GateMeansHealthy
  HealthyGateOpens
PROPERTIES
  ImplementsCall
