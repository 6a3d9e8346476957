SPECIFICATION FairSpec
CONSTANTS
  MaxRespawns = 3
  MaxCrashes = 5
  MaxRestarts = 1
INVARIANTS
  TypeOK
  AskedIsWired
  CrashLoopStops
  NoneAfterDeactivate
PROPERTIES
  Recovers
CHECK_DEADLOCK FALSE
