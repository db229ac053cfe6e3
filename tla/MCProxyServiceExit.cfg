SPECIFICATION Spec
CONSTANTS
  Turn = {t1}
  MaxTools = 1
  Sizes = {2}
  BufferFactor = 10
INVARIANT DrainedAtExit
CHECK_DEADLOCK FALSE
