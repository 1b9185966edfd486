CONSTANTS
  driver = driver
  worker = worker
  RackThread = RackThread
  SyncCallers <- MCWorkers
  CycleCallers <- MCDrivers
  Upstream = Upstream
  GlobSync = GlobSync
  SyncDuration = SyncDuration
  Downstream = Downstream
  AnySync = AnySync
  Requests <- MCRequests
  MaxCycles = 2
  MaxSyncs = 2
  MaxBails = 0
  MaxStarts = 1
SPECIFICATION Spec
INVARIANT SyncNotLost
CHECK_DEADLOCK FALSE
