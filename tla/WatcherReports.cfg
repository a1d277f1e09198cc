SPECIFICATION FairSpec
CONSTANTS
  r = r
  d = d
  f = f
  g = g
  Absent = Absent
  Root = r
  Dirs = {r, d}
  Paths = {r, d, f, g}
  Parent <- WideTree
  Inodes = {1, 2, 3, 4, 5}
  Ops <- OperatorOps
  MaxEvents = 0
  MaxTime = 3
  MaxStarts = 1
  MayClose = FALSE
INVARIANTS TypeOK NoChangeLost
PROPERTIES ChangeIsReported
CHECK_DEADLOCK FALSE
