SPECIFICATION FairSpec
CONSTANTS
  BlockCount = 1
  Word = 3
  NumChan = 2
  DmaChanMask <- TwoChannels
  SMP = FALSE
  StopFirst = TRUE
  Ops = {"start"}
  Modes = {TRUE, FALSE}
  Timeouts = {TRUE, FALSE}
PROPERTIES
  EotServed
  SinglePassEnds
