SPECIFICATION Spec
CONSTANTS
  MaxInt = 15
  Domains <- NumberDomains
  Exprs <- NumberExprs
  Goals <- NoExprs
  Lits <- NoLits
  GivenKinds <- NoKinds
  HintValues <- NoValues
  Double <- RoundToEven
  Precision = 8
  MaxVars = 1
  MaxCalls = 2
  None = None
INVARIANTS
  UnboundedStaysUnbounded
