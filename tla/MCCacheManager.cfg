CONSTANTS
  NumBlocks = 5
  Word = 8
  MaxRequest = 6
  MaxSince = 3
  PastEnd <- MCPastEnd
  Drain = Drain
  NullPtr = NullPtr
SPECIFICATION Spec
CHECK_DEADLOCK FALSE
INVARIANT HeldRunsIntact
INVARIANT NoOverlap
INVARIANT FreeCountsStopAtUse
INVARIANT AccountsBalance
INVARIANT HonestWhileBenign
PROPERTY ImplementsAllocator
