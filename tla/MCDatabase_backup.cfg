SPECIFICATION Spec
CONSTANTS
  Jobs = {j1, j2}
  Setups <- MCSetups
  Names = {"a", "b", "all"}
  Budgets <- Mixed
  MAX_ROWS = 3
  MAX_TIME = 2
  SIZE = 2
INVARIANT TypeOK
INVARIANT CopiesExist
INVARIANT NewestKept
INVARIANT PurgedClean
INVARIANT Accounted
SYMMETRY Symmetry
CHECK_DEADLOCK FALSE
