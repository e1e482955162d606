SPECIFICATION Spec
CONSTANTS
  None = None
  Unset = Unset
  Stmts = {s1, s2}
  N = 2
  Inputs <- MCInputs
  Defaults <- MCDefaults
  MaxCalls = 2
  MaxSize = 1
  MaxDepth = 2
INVARIANTS BoundAsGiven SentAsAsked ContainersAccounted
CHECK_DEADLOCK FALSE
SYMMETRY MCSymmetry
