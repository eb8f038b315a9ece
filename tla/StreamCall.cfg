SPECIFICATION Spec
CONSTANTS
  s1 = s1
  s2 = s2
  t1 = t1
  Streams <- OneStream
  Stoppers <- OneStopper
  RawPullers <- OneStream
  Values <- ThreeRanks
  HasObjective = TRUE
  OneAtATime = FALSE
  MaxFound = 3
  NoSolution = NoSolution
  None = None
INVARIANTS
  DeliveredInOrder
  FinalIsLastAndBest
PROPERTIES
  NothingAfterDone
  KeepsPromise
