CONSTANTS
  Names = {a, b}
  Contents = {blank, full}
  Blank = blank
  None = None
  Ids <- TwoLevels
  Dims <- AllDims
  Reuse = FALSE
  MaxEvents = 4
  MaxRestarts = 1
SPECIFICATION Spec
SYMMETRY Alike
CHECK_DEADLOCK FALSE
INVARIANTS
  TypeOK
  IncomingExact
  EntriesExist
  OneName
  CacheMatches
  EntriesAreBonded
  HandlesKeepTheirFile
PROPERTY
  OthersUntouched
