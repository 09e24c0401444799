SPECIFICATION Spec
CONSTANTS
  Programs <- CommandLines
  Burst = 2
  RingSize = 2
INVARIANT
  VerdictCurrent
