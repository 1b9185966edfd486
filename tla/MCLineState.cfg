CONSTANTS
  a = a
  b = b
  step = step
  combine = combine
  dispatch = dispatch
  Units <- MCUnits
  Kind <- MCKind
  Out <- MCOut
  Mainlines <- MCMainlines
  NumInputs = 2
  Bogus = Bogus
  RackProfile = RackProfile
  MaxChanges = 4
SPECIFICATION Spec
CHECK_DEADLOCK FALSE
INVARIANT OneStateBetweenPasses
INVARIANT ActiveNeedsInput
INVARIANT RackFollowsLines
PROPERTY ChangesSettle
