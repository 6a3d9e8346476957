SPECIFICATION FairSpec
CONSTANTS
  MaxSeq = 5
  Scopes <- MCScopes
  Starts <- MCStarts
  MaxBatch = 2
  ChanCap = 2
  Attempts = 3
  MaxOutages = 3
INVARIANTS
  TypeOK
  DeliveredExactly
  FullStreamHasNoGap
  ClosedCursorExact
PROPERTIES
  EventuallyDelivered
  ImplementsOrderedDelivery
CHECK_DEADLOCK FALSE
