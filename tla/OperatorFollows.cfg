SPECIFICATION OperatorFairSpec
CONSTANTS
  r = r
  d = d
  f = f
  g = g
  Absent = Absent
  Root = r
  Dirs = {r, d}
  Paths = {r, d, f, g}
  Parent <- Tree
  Inodes = {1, 2, 3, 4, 5}
  Ops <- OperatorOps
  MaxEvents = 0
  MaxTime = 3
  MaxStarts = 1
  MayClose = FALSE
  Users = {d}
  Crontab <- CrontabOf
INVARIANTS OperatorTypeOK SettledFollows
PROPERTIES JobsFollowFiles ImplementsChangeFeed
CHECK_DEADLOCK FALSE
