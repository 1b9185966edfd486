CONSTANTS
  driver = driver
  worker = worker
  RackThread = RackThread
  SyncCallers <- MCWorkers
  CycleCallers <- MCDrivers
  Upstream = Upstream
  GlobSync = GlobSync
  SyncDuration = SyncDuration
  Downstream = Downstream
  AnySync = AnySync
  Requests <- MCRequests
  MaxCycles = 3
  MaxSyncs = 2
  MaxBails = 2
  MaxStarts = 2
SPECIFICATION Spec
CHECK_DEADLOCK FALSE
INVARIANT CyclesCompound
INVARIANT SyncFromLineNotLost
INVARIANT LifeCycle
PROPERTY SyncsBeforeNextCycle
PROPERTY WakeUpServesAll
