SPECIFICATION Spec
CONSTANTS
  s1 = s1
  s2 = s2
  t1 = t1
  Streams <- TwoStreams
  Stoppers <- OneStopper
  RawPullers <- NoStopper
  Values <- OneRank
  HasObjective = TRUE
  OneAtATime = FALSE
  MaxFound = 1
  NoSolution = NoSolution
  None = None
INVARIANTS
  StopReachesSearch
