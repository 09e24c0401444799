SPECIFICATION Spec
CONSTANTS
  BlockCount = 2
  Word = 4
  NumChan = 2
  DmaChanMask <- OneChannel
  SMP = FALSE
  StopFirst = TRUE
  Ops <- TransferOps
  Modes = {TRUE, FALSE}
  Timeouts = {TRUE, FALSE}
INVARIANTS
  TypeOK
  RingAgreement
  FilledLast
  NoLostWakeup
PROPERTIES
  CompletedInFull
