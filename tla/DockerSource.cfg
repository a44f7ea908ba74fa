SPECIFICATION Spec
CONSTANTS
  Names = {n}
  MaxBackoff = 5
  ChannelSize = 1
  MaxStarts = 2
  MaxOutages = 1
INVARIANTS
  OutputInOrder
  AttachedMeansFollowing
  RetriesBackOff
PROPERTIES
  RunReturnsAfterCancel
  FollowsCurrent
CHECK_DEADLOCK FALSE
