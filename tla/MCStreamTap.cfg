SPECIFICATION FairSpec
CONSTANT MaxChunks = 8
INVARIANTS
  CopyFaithful
  WholeUnlessAborted
PROPERTIES
  NeverStalls
  ImplementsBodyCopy
CHECK_DEADLOCK FALSE
