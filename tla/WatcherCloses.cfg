SPECIFICATION FairSpec
CONSTANTS
  r = r
  d = d
  f = f
  g = g
  Absent = Absent
  Root = r
  Dirs = {r, d}
  Paths = {r, d, f}
  Parent <- SmallTree
  Inodes = {1, 2, 3}
  Ops <- AllOps
  MaxEvents = 1
  MaxTime = 2
  MaxStarts = 2
  MayClose = TRUE
INVARIANTS PendingIsCurrent SenderHasReceiver NoChangeLost
PROPERTIES CloseReturns ImplementsChangeFeed
CHECK_DEADLOCK FALSE
