CONSTANTS
  Threads = {t1, t2, t3}
  NoThread = NoThread
SPECIFICATION ThreadSpec
CHECK_DEADLOCK FALSE
INVARIANT TerminatesOnlyWhenFlagged
INVARIANT MoveSplitsTheObject
PROPERTY StopReturns
