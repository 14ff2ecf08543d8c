SPECIFICATION Spec
CONSTANTS
  MayFail <- Everywhere
  MayDie <- Everywhere
  MaxFaults = 2
INVARIANTS
  UnharmedCommandsSucceed
  RestIsClean
  HostKeysAgree
  FailedStartRevokes
  RunningHoldsSlot
  UnloadableIsTornDown
