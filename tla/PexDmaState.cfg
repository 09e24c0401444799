SPECIFICATION Spec
CONSTANTS
  BlockCount = 2
  Word = 4
  NumChan = 2
  DmaChanMask <- OneChannel
  SMP = FALSE
  StopFirst = TRUE
  Ops = {"start", "state"}
  Modes = {FALSE}
  Timeouts = {FALSE}
PROPERTIES
  StateReported
