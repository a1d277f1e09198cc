SPECIFICATION FairSpec
CONSTANTS
  Levels <- MCLevels
  Severities <- MCSeverities
  Arrays <- MCArrays
  MaxUpdates = 1
PROPERTIES EveryUpdateIsRead
CHECK_DEADLOCK FALSE
