SPECIFICATION Spec
CONSTANTS
  p1 = p1
  p2 = p2
  o1 = o1
  o2 = o2
  u1 = u1
  CouponIds = {a, b}
  Codes = {k1, k2}
  Offers <- MCOffers
  Products = {p1, p2}
  PriceOf <- MCPriceOf
  Carts <- MCCarts
  Orders = {o1, o2}
  BuyerOf <- MCBuyerOf
  Users = {u1}
  Requests = {r1}
  MaxLimit = 1
  MaxEdits = 3
  None = None
  Deleted = Deleted
SYMMETRY Symmetry
INVARIANTS
  CreditedAsGranted
  OvershootBounded
  DiscountWithinTotal
PROPERTY
  ImplementsLedger
CHECK_DEADLOCK FALSE
