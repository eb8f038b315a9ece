SPECIFICATION FairSpec
CONSTANTS
  s1 = s1
  s2 = s2
  t1 = t1
  Streams <- TwoStreams
  Stoppers <- OneStopper
  RawPullers <- NoStopper
  Values <- OneRank
  HasObjective = FALSE
  OneAtATime = TRUE
  MaxFound = 1
  NoSolution = NoSolution
  None = None
INVARIANTS
  StopReachesSearch
PROPERTIES
  StopWindsDown
  SearchEndReturns
  DropReturns
  StopCallReturns
