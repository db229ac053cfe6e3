SPECIFICATION MCSpec
CONSTANTS
  Event = {1, 2, 3, 4}
  Sizes = {0, 2}
  BufferFactor = 1
INVARIANTS
  Ledger
  InsertedOnce
  AckedStored
  BatchBound
  StopDrains
  NoEarlyDrop
PROPERTIES
  ImplementsQueue
  Flushed
  Stops
CHECK_DEADLOCK FALSE
