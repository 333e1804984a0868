CONSTANTS
  Ids = {p, q}
  DimCount = 2
  Contents <- SharedContents
  Oversized = {}
  None = None
  Checkpoint = Checkpoint
  Blank = Blank
  JournalCells = 10
  BlockCount = 9
  CheckpointEvery = 3
  LoadAll = {FALSE}
  MaxCalls = 5
  MaxOpens = 2
  MaxCrashes = 0
  MaxCompactions = 1
  MaxSnapshots = 2
SPECIFICATION SnapSpec
SYMMETRY Identities
CHECK_DEADLOCK FALSE
INVARIANTS
  MaintenanceKeepsBlocks
  MaintenanceLosesNothing
  SnapshotIntact
  CrashImageOutsideCompaction
  OrphansAreOldLeaves
  CountErrorsAreLeaks
