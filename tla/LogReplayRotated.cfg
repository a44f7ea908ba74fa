SPECIFICATION Spec
CONSTANTS
  Name = n
  None = None
  Texts = {a, b}
  Pieces = {}
  Ties = TRUE
  Window = 1
  Overlap = 0
  ChannelSize = 1
  MaxTime = 1
  MaxLines = 2
  MaxContainers = 1
  MaxReconnects = 1
  MaxCuts = 0
  MaxCrashes = 1
  MaxRotations = 1
PROPERTY
  EventuallyProcessed
CHECK_DEADLOCK FALSE
