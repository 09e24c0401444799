SPECIFICATION Spec
CONSTANTS
  DSCR_BLOCK_SIZE = 4
  BlockCounts <- Full
INVARIANT
  EndsWhenFull
