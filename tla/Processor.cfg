SPECIFICATION Spec
CONSTANTS
  Keys = {k}
  Capacity = 2
  Raisable <- MCRaisable
  Before <- MCBefore
  After <- MCAfter
  MaxBytes <- MCMaxBytes
  Text <- MCText
  MaxLines = 4
  MaxIDs = 2
INVARIANTS
  EmittedOnce
  NoLeak
  ContextExact
  RenderedExact
PROPERTY
  CloseReturns
CHECK_DEADLOCK FALSE
