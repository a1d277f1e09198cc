SPECIFICATION FairSpec
CONSTANTS
  a = a
  b = b
  c = c
  n1 = n1
  n2 = n2
  n3 = n3
  u1 = u1
  NoUser = NoUser
  Users = {u1}
  Ids = {a, b}
  Names = {n1, n2, n3}
  Contents <- OneLine
  Panics = {}
  Rejected = {}
  Faults <- RecoverableFaults
  MaxEdits = 1
  MaxFaults = 1
PROPERTIES Convergence
CHECK_DEADLOCK FALSE
