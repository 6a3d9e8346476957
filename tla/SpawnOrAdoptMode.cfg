SPECIFICATION Spec
CONSTANTS
  Hosts = {h1}
  Builds <- MCOneBuild
  Modes = {manual, autonomous}
  Unknown = Unknown
  MaxDaemons = 3
  Rebind = FALSE
INVARIANTS
  AdoptedModeShown
CHECK_DEADLOCK FALSE
