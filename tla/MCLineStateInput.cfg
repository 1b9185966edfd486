CONSTANTS
  a = a
  b = b
  step = step
  combine = combine
  dispatch = dispatch
  Units <- MCUnits
  Kind <- MCKind
  Out <- MCOut
  Mainlines <- MCMainlines
  NumInputs = 2
  Bogus = Bogus
  RackProfile = RackProfile
  MaxChanges = 3
SPECIFICATION Spec
INVARIANT InputKeepsRackActive
CHECK_DEADLOCK FALSE
