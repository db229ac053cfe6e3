SPECIFICATION ServingSpec
CONSTANTS
  Turn = {t1}
  MaxTools = 2
  Sizes = {2}
  BufferFactor = 1
PROPERTY TrailFinished
CHECK_DEADLOCK FALSE
