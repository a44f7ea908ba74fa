SPECIFICATION Spec
CONSTANTS
  Name = n
  None = None
  Texts = {a, b}
  Pieces = {}
  Ties = TRUE
  Window = 1
  Overlap = 1
  ChannelSize = 2
  MaxTime = 2
  MaxLines = 3
  MaxContainers = 1
  MaxReconnects = 2
  MaxCuts = 0
  MaxCrashes = 0
  MaxRotations = 0
INVARIANT
  NoGap
CHECK_DEADLOCK FALSE
