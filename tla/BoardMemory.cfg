SPECIFICATION Spec
CONSTANTS
  BlockCnt = 2
  NumRegions = 16
  MaxProgs = 3
  MaxProbes = 2
INVARIANTS
  TypeOK
  NothingHeld
  InUseIsLive
  OwnBlocks
  OopsExplained
CHECK_DEADLOCK FALSE
