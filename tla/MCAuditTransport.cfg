SPECIFICATION FairSpec
CONSTANTS
  Turn = {t1, t2}
  MaxTools = 2
INVARIANTS
  SpanEndsOnce
PROPERTIES
  ImplementsTrail
  TurnRecorded
  SpanEnds
CHECK_DEADLOCK FALSE
