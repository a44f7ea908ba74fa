SPECIFICATION Spec
CONSTANTS
  Name = n
  None = None
  Texts = {a}
  Pieces = {a, c}
  Ties = FALSE
  Window = 0
  Overlap = 1
  ChannelSize = 2
  MaxTime = 2
  MaxLines = 2
  MaxContainers = 2
  MaxReconnects = 1
  MaxCuts = 1
  MaxCrashes = 1
  MaxRotations = 1
INVARIANTS
  NoGap
  NothingLost
PROPERTIES
  AcceptedSurvivesRecreation
  EventuallyProcessed
CHECK_DEADLOCK FALSE
