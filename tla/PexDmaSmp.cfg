SPECIFICATION Spec
CONSTANTS
  BlockCount = 1
  Word = 3
  NumChan = 2
  DmaChanMask <- OneChannel
  SMP = TRUE
  StopFirst = TRUE
  Ops = {"start", "stop", "waitblock", "done"}
  Modes = {TRUE, FALSE}
  Timeouts = {FALSE}
INVARIANTS
  NoLostWakeup
PROPERTIES
  OffUnlessOvertaken
