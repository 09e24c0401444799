SPECIFICATION FairSpec
INVARIANTS
  WaitIsPending
  EotMeansBlock
  HeldIsQuiet
PROPERTIES
  EotCountSpec
  HeldIsReleased
