SPECIFICATION Spec
CONSTANTS
  Products = {p1}
  VariantIds = {v1, v2, v3}
  Skus = {s1, s2}
  LineIds = {l1}
  OrderIds = {o1}
  Editors = {e1, e2}
  MaxStock = 1
  MaxEdits = 3
  None = None
  Deleted = Deleted
SYMMETRY Symmetry
INVARIANTS
  ColumnAheadBySales
  OrderedProductKept
PROPERTY
  VariantStockSurvivesEdit
CHECK_DEADLOCK FALSE
