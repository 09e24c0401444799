SPECIFICATION Spec
CONSTANTS
  W = 5
  Size = 6
  NumMask = 4
  MaxErrors = 1
  Tests <- MCTests
  MaxBlocks = 13
  MaxFaults = 2
  Deltas = {1, 16}
INVARIANT
  ReportsDamage
CHECK_DEADLOCK FALSE
