SPECIFICATION Spec
CONSTANTS
  Turn = {t1}
  MaxTools = 2
  Sizes = {2}
  BufferFactor = 1
INVARIANTS
  StoredTrail
  TurnFifo
  StoppedTrail
CHECK_DEADLOCK FALSE
