SPECIFICATION FairSpec
CONSTANTS
  Levels <- MCLevels
  Severities <- MCSeverities
  Arrays <- MCArrays
  MaxUpdates = 4
INVARIANTS TypeOK QuietFollows
PROPERTIES LevelFollowsFile
CHECK_DEADLOCK FALSE
