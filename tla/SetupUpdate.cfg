SPECIFICATION Spec
CONSTANTS
  MaxObstacles = 1
  MaxFaults = 0
  MaxUpgrades = 1
INVARIANT
  UpdateRefreshesTrust
