CONSTANTS
  NumBlocks = 3
  MaxRequest = 2
  Locals = {p1, p2}
  Capacity = 2
  Null = Null
SYMMETRY LocalSymmetry
SPECIFICATION Spec
INVARIANT OneOwnerPerBlock
INVARIANT LeaksOnlyIfCareless
INVARIANT LengthWithinTheRun
INVARIANT FreeSlotsAreEmpty
