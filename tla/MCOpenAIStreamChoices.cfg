SPECIFICATION Spec
CONSTANTS
  NumChoices = 2
  MaxCalls = 1
  MaxPieces = 1
INVARIANT OneRowPerCall
CHECK_DEADLOCK FALSE
