SPECIFICATION Spec
CONSTANTS
  TrimSpace <- MCTrimSpace
  ToLower <- MCToLower
  TrimPrefixSlash <- MCTrimPrefixSlash
  Regexps <- MCRegexps
  Hosts <- MCHosts
  ParseLogLevel <- MCParseLogLevel
  NoLevel = "none"
  Configs <- MCConfigs
  ChannelSize = 1
  QueueSize = 1
  MaxLines = 3
INVARIANTS
  CleanReturn
  ReleasedOnReturn
  NothingLate
  CheckpointCovers
  ValidatedBuilds
PROPERTY
  RunReturns
CHECK_DEADLOCK FALSE
