CONSTANTS
  Ids = {p, q}
  DimCount = 2
  Contents <- SharedContents
  Oversized = {}
  None = None
  Checkpoint = Checkpoint
  Blank = Blank
  JournalCells = 14
  BlockCount = 9
  CheckpointEvery = 9
  LoadAll = {FALSE}
  MaxCalls = 5
  MaxOpens = 2
  MaxCrashes = 0
  MaxCompactions = 1
  MaxSnapshots = 0
SPECIFICATION SnapSpec
SYMMETRY Identities
CHECK_DEADLOCK FALSE
INVARIANTS
  CompactedStaysWhole
