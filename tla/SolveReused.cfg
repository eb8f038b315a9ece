SPECIFICATION Spec
CONSTANTS
  Problems <- FewProblems
  MinValue = 1
  MaxValue = 3
  PosInf = 9
  Reuse = TRUE
  None = None
INVARIANTS
  AnswersTheProblem
CHECK_DEADLOCK FALSE
