SPECIFICATION FairSpec
CONSTANTS
  MaxSeq = 2
  Tasks = {t1, t2}
  None = None
  MaxRequests = 2
  MaxOut = 2
  MaxFailures = 0
  FreshReopen = TRUE
PROPERTIES
  StoreCatchesUp
CHECK_DEADLOCK FALSE
