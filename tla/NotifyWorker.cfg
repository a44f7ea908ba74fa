SPECIFICATION Spec
CONSTANTS
  RuleIDs = {"rule", "alert-storm"}
  QueueSize = 2
  Limit = 2
  StormFor = 2
  Minute = 1
  NumChannels = 2
  Retries = 1
  MaxTime = 4
  MaxAlerts = 4
INVARIANTS
  Accounted
  AcceptedOnce
  RateLimited
PROPERTY
  CloseReturns
CHECK_DEADLOCK FALSE
