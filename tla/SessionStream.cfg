SPECIFICATION FairSpec
CONSTANTS
  MaxSeq = 2
  Tasks = {t1, t2, t3}
  None = None
  MaxRequests = 3
  MaxOut = 2
  MaxFailures = 2
  FreshReopen = FALSE
INVARIANTS
  StoreIsPrefix
  ResumeCovered
  NoOrphanStream
PROPERTIES
  StoreCatchesUp
CHECK_DEADLOCK FALSE
