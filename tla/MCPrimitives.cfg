SPECIFICATION MCFairSpec
CONSTANTS
  r1 = r1
  r2 = r2
  Readers <- MCReaders
  NumSlots = 3
  Words = {w1, w2}
  MaxStores = 4
  Capacity = 4
  MaxPushes = 8
  MaxFails = 3
  RingCapacity = 4
  Guard = 2
  Frame = 1
  Iteration = 2
  MaxLead = 6
  MaxClock = 8
  EngineChannels = {"a", "b", "c"}
  NumCaptureSlots = 2
  HashSize = 3
  Home <- MCHome
  IdleSamples = 1
  Lengths = {8}
  MaxIterations = 3
  MaxGuid = 2
  MaxStaged = 2
  ArrayPositions = {0, 1, 2}
  Stride = 2
  Offset <- MCOffset
  MinVotes = 2
  AnchorCapacity = 2
  MaxVotes = 3
INVARIANTS IInv RetryNeedsTwoStores QueueInv RingInv SettledReadsAreExact CaptureInv
PROPERTIES ImplementsRegister StoreTerminates ImplementsFifo ActiveSlotKeepsBlock ImplementsSlotMap
CHECK_DEADLOCK FALSE
