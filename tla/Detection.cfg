SPECIFICATION DSpec
CONSTANTS
  Lines <- MCLines
  RuleList <- MCRuleList
  ContextLevels = {"info", "error"}
  AlertCandidates = {"error"}
  LevelUnknown = "unknown"
  Hash <- MCHash
  Fingerprints <- MCFingerprints
  Samples <- MCSamples
  EmptySample = e
  EventTimes = {0, 4}
  Threshold1 = 2
  Threshold2 = 1
  WindowValue = 2
  CooldownValue = 2
  Threshold <- MCThreshold
  Window <- MCWindow
  Cooldown <- MCCooldown
  MaxGroups = 2
  GroupTTL = 2
  MaxSamples = 1
  MaxTime = 3
  MaxEvents = 3
INVARIANTS
  GroupsBounded
  WindowExact
  FullWindowAlerted
  AlertIsCurrent
  CountedByRules
  OneIncidentPerGroup
PROPERTY
  CooldownRespected
CHECK_DEADLOCK FALSE
