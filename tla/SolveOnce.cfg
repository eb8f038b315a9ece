SPECIFICATION FairSpec
CONSTANTS
  Problems <- AllProblems
  MinValue = 1
  MaxValue = 3
  PosInf = 9
  Reuse = FALSE
  None = None
INVARIANTS
  IInv
  AnswersTheProblem
  UnsolvedIsAskedFor
  FoundIsKept
PROPERTIES
  StopEndsCall
