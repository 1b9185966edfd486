CONSTANTS
  Item = {i1, i2, i3}
  Junk = Junk
  MaxCap = 3
  MaxMany = 4
  Word = 16
SYMMETRY ItemSymmetry
SPECIFICATION Spec
INVARIANT IsABoundedQueue
