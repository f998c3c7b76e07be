SPECIFICATION MCSpec
CONSTANTS
  u1 = u1
  u2 = u2
  o1 = o1
  o2 = o2
  o3 = o3
  p1 = p1
  p2 = p2
  p3 = p3
  c1 = c1
  c2 = c2
  b1 = b1
  None = None
  Users = {u1, u2}
  Orders = {o1, o2, o3}
  Products = {p1, p2}
  BuyerOf <- MCBuyerOf
  ItemsOf <- MCItemsOf
  Ratings = {1, 5}
  Requests = {r1, r2}
  Readers = {u1}
  MaxOps = 4
  MaxOffered = 3
  Runs = {cron1, cron2}
  BatchSize = 1
  Habits <- MCHabits
  MaxRuns = 2
  Shelf = {p1, p2, p3}
  CategoryOf <- MCCategoryOf
  BrandOf <- MCBrandOf
  Rating <- MCRating
  TopRated = {p1}
  Age <- MCAge
  Interval <- MCInterval
  Baskets = {o1, o2}
  InBasket <- MCInBasket
  Earlier = {o1}
  Limit = 2
  Questions <- MCQuestions
  MaxMoves = 2
  Tracked = {p1}
  Short = 1
  Mid = 2
  Long = 4
  Bins <- MCBins
  Threshold <- MCThreshold
  Batches = {1, 9}
  MaxTracked = 4
  MaxDetections = 2
  Unknown = Unknown
SYMMETRY Symmetry
INVARIANTS
  OffersAreOpen
  RatingIsOfReviews
  ListsOpenProducts
  EmptyOnlyIfNothingStayed
  CustomersAreNeverCounted
  FewActivities
CHECK_DEADLOCK FALSE
