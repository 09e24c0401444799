SPECIFICATION Spec
CONSTANTS
  BlockCount = 2
  Word = 4
  NumChan = 2
  DmaChanMask <- OneChannel
  SMP = TRUE
  StopFirst = TRUE
  Ops <- RunOps
  Modes = {TRUE}
  Timeouts = {FALSE}
PROPERTIES
  CompletedInFull
