SPECIFICATION Spec
CONSTANTS
  Hosts = {h1, h2}
  Builds <- MCBuilds
  Modes = {manual, autonomous}
  Unknown = Unknown
  MaxDaemons = 3
  Rebind = TRUE
SYMMETRY MCSymmetry
INVARIANTS
  TypeOK
  OneDaemonWhileCalm
  ModeShownWhileCalm
  AdoptableWhileCalm
  ChildAnswersWhileCalm
CHECK_DEADLOCK FALSE
