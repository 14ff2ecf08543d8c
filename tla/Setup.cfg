SPECIFICATION Spec
CONSTANTS
  MaxObstacles = 2
  MaxFaults = 1
  MaxUpgrades = 1
INVARIANTS
  FailedSweepRevokes
  UnharmedSetupSucceeds
  DoctorAgrees
  GreenMeansUsable
PROPERTIES
  CommitsComeLast
  SuccessIsReal
