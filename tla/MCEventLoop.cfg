CONSTANTS
  p1 = p1
  p2 = p2
  r1 = r1
  r2 = r2
  note = note
  beat = beat
  NoThread = NoThread
  Producers <- MCProducers
  Runners <- MCRunners
  Types <- MCTypes
  MaxEvents = 3
  MaxListeners = 2
  QueueSet = TRUE
SPECIFICATION Spec
CHECK_DEADLOCK FALSE
INVARIANT NoUseAfterFree
INVARIANT ListsAreWorkedOff
PROPERTY DeliversInOrder
PROPERTY StartedListsAreDelivered
