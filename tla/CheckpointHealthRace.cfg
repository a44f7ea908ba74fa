SPECIFICATION Spec
CONSTANTS
  Names = {n1}
  Checkpoints = {c1}
  Invalid = Invalid
  None = None
  Limit = 2
  MaxDirty = 3
INVARIANT
  FailureIsUnhealthy
