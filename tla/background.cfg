SPECIFICATION MCSpec
CONSTANTS
  Users = {u}
  Guest = guest
  Products = {p, q}
  RowIds = {h1, h2, h3}
  Visits = {v1, v2}
  MaxViews = 3
  MaxBatch = 2
  FewViews = 1
  None = None
  Deleted = Deleted
  JobIds = {j1}
  Workers = {w1, w2}
  MaxFaults = 3
INVARIANTS
  MailsAsReported
  BatchesAsReported
  ViewsAccountedFor
PROPERTY
  JobsSettle
CHECK_DEADLOCK FALSE
