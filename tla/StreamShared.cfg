SPECIFICATION Spec
CONSTANTS
  s1 = s1
  s2 = s2
  t1 = t1
  Streams <- TwoStreams
  Stoppers <- NoStopper
  RawPullers <- TwoStreams
  Values <- OneRank
  HasObjective = TRUE
  OneAtATime = FALSE
  MaxFound = 1
  NoSolution = NoSolution
  None = None
SYMMETRY StreamSymmetry
INVARIANTS
  IInv
  NoUseAfterFree
  NoDanglingLimit
  OnlyEarlyDropStops
