CONSTANTS
  Ids = {p, q}
  DimCount = 2
  Contents <- SharedContents
  Oversized = {}
  None = None
  Checkpoint = Checkpoint
  Blank = Blank
  JournalCells = 14
  BlockCount = 9
  CheckpointEvery = 9
  LoadAll = {FALSE, TRUE}
  MaxCalls = 6
  MaxOpens = 2
  MaxCrashes = 1
SPECIFICATION Spec
SYMMETRY Identities
CHECK_DEADLOCK FALSE
INVARIANTS
  LiveBlocksAllocated
  RefcountCoversReferences
  DedupHitsAreGood
  DeletedStaysDeleted
  SyncedSessionsLoseNothing
  CrashImageComplete
