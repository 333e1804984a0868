CONSTANTS
  TotalBlocks = 4
  ByteBits = 2
  MetaBlocks = 1
  SystemBlocks = 3
  CacheSize = 2
  Pointers = {index}
  Contents = {zero, c1}
  Zeroes = zero
  NoSuperblock = NoSuperblock
  write_p = write_p
  write_q = write_q
  delete_p = delete_p
  Ops <- MCOps
  DataCells <- MCDataCells
  Checkpoint = Checkpoint
  Blank = Blank
  Idle = Idle
  BlockCells = 4
  JournalCells = 10
  OverflowCells = 1
  MaxSessions = 2
  Particles = {1, 2, 3, 4}
  PageFields = 4
  ChainBlocks = 8
  MaxChainCalls = 7
SPECIFICATION DiskSpec
CHECK_DEADLOCK FALSE
INVARIANTS
  TypeOK
  CleanMatchesFile
  SyncedIsDurable
  CacheCoherent
  ReservedOnceStored
  RecoverExact
  NothingInvented
  TablesReadBack
PROPERTY
  SingleSessionLog
