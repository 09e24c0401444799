SPECIFICATION FairSpec
CONSTANTS
  Programs <- CommandLines
  Burst = 2
  RingSize = 2
INVARIANTS
  TypeOK
  DeleteQuiet
  WholeFrames
  ExitStopped
PROPERTY
  ExitOrLost
