SPECIFICATION Spec
CONSTANTS
  MayFail <- Nowhere
  MayDie <- Nowhere
  MaxFaults = 0
INVARIANTS
  SecretsApplied
