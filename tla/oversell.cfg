SPECIFICATION Spec
CONSTANTS
  p1 = p1
  p2 = p2
  v2 = v2
  Products = {p1, p2}
  Variants = {v2}
  VariantOf <- MCVariantOf
  StoreOf <- MCStoreOf
  InitStock <- MCInitStock
  InitMirror <- MCInitMirror
  Users = {u1}
  LineIds = {}
  OrderIds = {o1, o2}
  None = None
  Deleted = Deleted
  Requests = {}
  UpdateStatuses = {"DELIVERED", "RETURNED"}
  CreateStatuses = {"PENDING"}
  MaxQty = 1
  MaxEntries = 1
  MaxTimeline = 2
  MaxVoids = 2
  CartCalls = {}
  MaxLineQty = 2
  MaxInStock = 2
  Crons = {}
  MaxStops = 0
INVARIANT
  StockNeverNegative
CHECK_DEADLOCK FALSE
