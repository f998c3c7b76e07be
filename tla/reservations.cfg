SPECIFICATION Spec
CONSTANTS
  p1 = p1
  p2 = p2
  v2 = v2
  Products = {p2}
  Variants = {v2}
  VariantOf <- MCVariantOf
  StoreOf <- MCStoreOf
  InitStock <- MCInitStock
  InitMirror <- MCInitMirror
  Users = {u1}
  LineIds = {l1, l2}
  OrderIds = {}
  None = None
  Deleted = Deleted
  Requests = {}
  UpdateStatuses = {"PROCESSING", "DELIVERED", "RETURNED"}
  CreateStatuses = {"PENDING"}
  MaxQty = 1
  MaxEntries = 2
  MaxTimeline = 2
  MaxVoids = 2
  CartCalls = {c1}
  MaxLineQty = 3
  MaxInStock = 2
  Crons = {i1}
  MaxStops = 1
PROPERTIES
  LineFallsOnlyByUpdateOrStaleMerge
  ExpiredLinesReleased
CHECK_DEADLOCK FALSE
