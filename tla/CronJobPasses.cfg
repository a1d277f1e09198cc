SPECIFICATION Spec
CONSTANTS
  a = a
  b = b
  c = c
  n1 = n1
  n2 = n2
  n3 = n3
  u1 = u1
  NoUser = NoUser
  Users = {u1}
  Ids = {a, b}
  Names = {n1, n2, n3}
  Contents <- Repeated
  Panics = {}
  Rejected = {}
  Faults <- AllFaults
  MaxEdits = 2
  MaxFaults = 1
SYMMETRY NameSymmetry
INVARIANTS TypeOK QuiescentConsistent AtMostOneJob
PROPERTIES ScheduledStaysScheduled NoResurrection
CHECK_DEADLOCK FALSE
