SPECIFICATION RingSpec
CONSTANTS
  RingCapacity = 4
  Guard = 2
  Frame = 1
  Iteration = 1
  MaxLead = 2
  MaxClock = 8
INVARIANTS UnwrittenReadsSilence
CHECK_DEADLOCK FALSE
