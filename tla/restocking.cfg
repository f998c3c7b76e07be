SPECIFICATION RestockingSpec
CONSTANTS
  p1 = p1
  p2 = p2
  v2 = v2
  Products = {p1, p2}
  Variants = {v2}
  VariantOf <- MCVariantOf
  StoreOf <- MCStoreOf
  InitStock <- MCInitStock
  InitMirror <- MCInitMirror
  Users = {}
  LineIds = {}
  OrderIds = {o1, o2}
  None = None
  Deleted = Deleted
  Requests = {}
  UpdateStatuses = {}
  CreateStatuses = {"PENDING"}
  MaxQty = 1
  MaxEntries = 1
  MaxTimeline = 2
  MaxVoids = 2
  CartCalls = {}
  MaxLineQty = 1
  MaxInStock = 2
  Crons = {}
  MaxStops = 0
  Updates = {c1, c2}
  Deltas <- MCDeltas
  Targets = {2}
  Reserves = {0}
  MaxUpdates = 2
SYMMETRY Symmetry
INVARIANTS
  StockMatchesLedger
PROPERTIES
  NegativeOnlyBySaleOrIncrement
CHECK_DEADLOCK FALSE
