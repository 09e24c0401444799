SPECIFICATION FairSpec
CONSTANTS
  BlockCount = 5
  Word = 16
  Configs <- AllConfigs
  MaxRuns = 2
  MaxBlocks = 12
INVARIANTS
  TypeOK
  FilledThisRun
  HandedInOrder
  FlagProtects
PROPERTY
  AllReceived
CHECK_DEADLOCK FALSE
