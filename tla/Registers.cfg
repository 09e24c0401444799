SPECIFICATION FairSpec
CONSTANTS
  Users = {"a", "b"}
  Early = {"a"}
  Exam = {"b"}
  LastReg = 1
  MaxTries = 2
  PollLimit = 0
  MaxOps = 2
INVARIANTS
  AtomicRegisters
  BroughtUp
PROPERTY
  CallsEnd
CHECK_DEADLOCK FALSE
