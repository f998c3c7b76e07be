SPECIFICATION Spec
CONSTANTS
  p1 = p1
  p2 = p2
  v2 = v2
  Products = {p1, p2}
  Variants = {v2}
  VariantOf <- MCVariantOf
  StoreOf <- MCStoreOf
  InitStock <- MCInitStock
  InitMirror <- MCInitMirror
  Users = {u1}
  LineIds = {l1}
  OrderIds = {o1}
  None = None
  Deleted = Deleted
  Requests = {r1, r2}
  UpdateStatuses = {"DELIVERED", "RETURNED"}
  CreateStatuses = {"PENDING"}
  MaxQty = 1
  MaxEntries = 2
  MaxTimeline = 2
  MaxVoids = 2
  CartCalls = {}
  MaxLineQty = 1
  MaxInStock = 2
  Crons = {i1, i2}
  MaxStops = 0
SYMMETRY Symmetry
INVARIANTS
  StockIsOpeningLessOrdered
  ReturnsBracketed
  MirrorExplainedByReturns
PROPERTIES
  AvailabilityMovesOnlyByCleanup
CHECK_DEADLOCK FALSE
