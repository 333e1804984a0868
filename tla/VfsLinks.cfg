CONSTANTS
  Names = {a, b}
  Contents = {blank, full}
  Blank = blank
  None = None
  Ids <- TwoLevels
  Dims <- AllDims
  Reuse = TRUE
  MaxEvents = 3
  MaxRestarts = 0
SPECIFICATION Spec
SYMMETRY Alike
CHECK_DEADLOCK FALSE
INVARIANT
  OneName
