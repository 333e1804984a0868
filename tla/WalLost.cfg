CONSTANTS
  write_p = write_p
  write_q = write_q
  delete_p = delete_p
  Ops <- MCOps
  DataCells <- MCDataCells
  Checkpoint = Checkpoint
  Blank = Blank
  Idle = Idle
  BlockCells = 4
  JournalCells = 8
  OverflowCells = 2
  MaxSessions = 2
SPECIFICATION WalSpec
CHECK_DEADLOCK FALSE
INVARIANTS AcknowledgedIsRecovered
