SPECIFICATION Spec
CONSTANTS
  Names = {n1, n2}
  Checkpoints = {c1, c2}
  Invalid = Invalid
  None = None
  Limit = 2
  MaxDirty = 3
INVARIANTS
  BatchBounded
  FailureHoldsData
  CleanClose
PROPERTIES
  ImplementsDurableMap
  CloseReturns
  VerdictSettles
