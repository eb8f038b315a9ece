SPECIFICATION Spec
CONSTANTS
  MaxInt = 15
  Domains <- CallDomains
  Exprs <- NoExprs
  Goals <- CallGoals
  Lits <- CallLits
  GivenKinds <- CallKinds
  HintValues <- CallHints
  Double <- RoundToEven
  Precision = 8
  MaxVars = 2
  MaxCalls = 5
  None = None
INVARIANTS
  StatedIsEncoded
  AnswersTheQuestion
  HintSetsLiterals
