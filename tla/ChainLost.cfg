CONSTANTS
  Particles = {1, 2, 3}
  PageFields = 4
  ChainBlocks = 8
  MaxChainCalls = 6
SPECIFICATION ChainSpec
CHECK_DEADLOCK FALSE
INVARIANTS SyncedAreFound
