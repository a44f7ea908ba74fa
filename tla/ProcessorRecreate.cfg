SPECIFICATION Spec
CONSTANTS
  Keys = {k}
  Capacity = 2
  Raisable <- MCRaisable
  Before <- MCBefore
  After <- MCAfter
  MaxBytes <- MCMaxBytes
  Text <- MCText
  MaxLines = 3
  MaxIDs = 2
INVARIANT
  ContextSameContainer
CHECK_DEADLOCK FALSE
