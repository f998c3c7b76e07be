SPECIFICATION Spec
CONSTANTS
  Products = {x, placeholder}
  Placeholder = placeholder
  Users = {u1, u2}
  DealIds = {d1, d2}
  Types = {flash}
  Calls = {c1, c2}
  MaxTime = 2
  MaxLimit = 1
  MaxEdits = 3
  None = None
  Deleted = Deleted
SYMMETRY Symmetry
INVARIANTS
  OvershootBounded
  CounterCountsUses
  BackwardsOnlyIfOvertaken
CHECK_DEADLOCK FALSE
