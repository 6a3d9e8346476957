SPECIFICATION Spec
CONSTANTS
  Hosts = {h1, h2}
  Builds <- MCOneBuild
  Modes = {manual}
  Unknown = Unknown
  MaxDaemons = 2
  Rebind = FALSE
INVARIANTS
  OneDaemon
CHECK_DEADLOCK FALSE
