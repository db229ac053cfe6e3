SPECIFICATION Spec
CONSTANTS
  NumChoices = 1
  MaxCalls = 3
  MaxBlocks = 3
  MaxPieces = 2
INVARIANTS
  TypeOK
  SameAsFull
  DamageIsLocal
CHECK_DEADLOCK FALSE
