SPECIFICATION AccountsSpec
CONSTANTS
  Users = {u}
  Requests = {r1, r2}
  Patience = 2
  AdminPatience = 1
  MaxOps = 6
  None = None
  Deleted = Deleted
  AddressIds = {a, b}
  Visitors = {v1, v2}
SYMMETRY Symmetry
INVARIANTS
  AttemptsBounded
  OneDefault
PROPERTY
  SessionOnlyByLogin
CHECK_DEADLOCK FALSE
