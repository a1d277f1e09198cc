SPECIFICATION Spec
CONSTANTS
  a = a
  b = b
  c = c
  n1 = n1
  n2 = n2
  n3 = n3
  u1 = u1
  u2 = u2
  NoUser = NoUser
  Users = {u1, u2}
  Ids = {a, b, c}
  Names = {n1, n2}
  Contents <- OneOfThree
  Panics = {b}
  Rejected = {c}
  Faults <- ProcessFaults
  MaxEdits = 2
  MaxFaults = 1
SYMMETRY NameSymmetry
INVARIANTS SnapshotJustified
PROPERTIES ImplementsSchedule
CHECK_DEADLOCK FALSE
