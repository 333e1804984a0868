CONSTANTS
  TotalBlocks = 8
  ByteBits = 4
  Points <- Hubs
  M = 2
  MaxLevel = 1
  MaxHigh = 1
  GraphAnswers = 2
  MaxEntries = 3
  Accessed = {x, y, z}
  MaxLog = 4
  MaxAccesses = 7
  Ids = {p, q, r, s}
  Dims = {none}
  MaxBonds = 2
  Inodes = {1}
  Bytes = {1, 2}
  HandleNums = {1, 2}
  BufferSize = 2
  MaxSize = 3
  EntryNames = {2, 3, 4, 5}
  MaxChanges = 3
SPECIFICATION Spec
SYMMETRY Alike
CHECK_DEADLOCK FALSE
INVARIANTS
  FreeCountExact
  ScanFindsLowestRun
  GraphSound
  SearchExact
  PredictionsRepeat
  TraversalFinds
  FilesHoldWhatWasWritten
  ScansMissOnlyWhatMoved
PROPERTY
  AllocationsAreFresh
