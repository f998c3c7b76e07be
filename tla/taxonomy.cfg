SPECIFICATION MCSpec
CONSTANTS
  p1 = p1
  p2 = p2
  Cats = {a, b, c}
  Brands = {x}
  Products = {p1, p2}
  Editors = {e1, e2}
  MaxEdits = 5
  Root = Root
  None = None
  Deleted = Deleted
  OpenShops = {p1}
  s1 = s1
  s2 = s2
  Shoppers = {v1}
  Sellers = {s1, s2}
  SellerOf <- MCSellerOf
  Terms = {term}
  Hits <- MCHits
  Shown = {p1}
  Tags = {t1, t2}
  Images = {i1, i2, i3}
  Users = {u1}
  MaxSent = 1
  MaxAttempts = 6
SYMMETRY Symmetry
INVARIANTS
  TreeUnlessOvertaken
  ShownUnlessMoved
  EditsMixOnlyIfOvertaken
  WishRefusedOnlyIfOvertaken
PROPERTY
  PlaceLostOnlyIfSlipped
CHECK_DEADLOCK FALSE
