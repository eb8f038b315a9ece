SPECIFICATION Spec
SYMMETRY MCSymmetry
CONSTANTS
  w1 = w1
  w2 = w2
  Workers <- MCWorkers
  MinValue = 2
  MaxValue = 4
  NegInf = 0
  PosInf = 9
  AbsoluteGap = 1
  RelativeGap = 0
  Interleave = FALSE
  None = None
INVARIANTS
  IInv
  BoundsAreValid
  ImprovementsAreExpected
  ResponseIsConsistent
  StatusIsTrue
PROPERTIES
  KeepsSearch
  StatusEvolves
CHECK_DEADLOCK FALSE
