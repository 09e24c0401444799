SPECIFICATION FairSpec
CONSTANTS
  DSCR_BLOCK_SIZE = 4
  BlockCounts <- Partial
INVARIANTS
  TypeOK
  WalkInList
  EndsWhenFull
PROPERTIES
  RingSpec
  AllFilled
