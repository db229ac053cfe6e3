SPECIFICATION FairSpec
CONSTANTS
  Budget = 3
  MaxRequests = 3
INVARIANTS ServedFit FlushedInTime
PROPERTIES Serves Returns
CHECK_DEADLOCK FALSE
