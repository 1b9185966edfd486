CONSTANTS
  NumWorkers = 2
  p1 = p1
  p2 = p2
  Producers <- MCProducers
  MaxTasks = 3
  MaxStarts = 2
SPECIFICATION Spec
CHECK_DEADLOCK FALSE
INVARIANT HandedOutInOrder
INVARIANT RunAtMostOnce
INVARIANT NoTaskLostWhileUp
INVARIANT HandOver
INVARIANT StopMeansQuiet
PROPERTY AssignedTaskIsRun
