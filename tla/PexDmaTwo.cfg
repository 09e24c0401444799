SPECIFICATION Spec
CONSTANTS
  BlockCount = 1
  Word = 3
  NumChan = 2
  DmaChanMask <- TwoChannels
  SMP = TRUE
  StopFirst = TRUE
  Ops = {"start", "done"}
  Modes = {FALSE}
  Timeouts = {FALSE}
PROPERTIES
  IrqUnlessOvertaken
CHECK_DEADLOCK FALSE
