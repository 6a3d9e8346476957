SPECIFICATION Spec
CONSTANTS
  MaxRespawns = 5
  MaxCrashes = 0
  MaxRestarts = 1
INVARIANTS
  OneHost
CHECK_DEADLOCK FALSE
