CONSTANTS
  Ids = {p, q}
  DimCount = 2
  Contents <- AnyContents
  Oversized <- LongContents
  None = None
  Checkpoint = Checkpoint
  Blank = Blank
  JournalCells = 9
  BlockCount = 5
  CheckpointEvery = 2
  LoadAll = {FALSE}
  MaxCalls = 5
  MaxOpens = 2
  MaxCrashes = 0
SPECIFICATION FairSpec
CHECK_DEADLOCK FALSE
INVARIANTS
  NothingLost
PROPERTY
  CallsEnd
