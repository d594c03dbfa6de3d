SPECIFICATION FairSpec
CONSTANTS
  Maps = {m1, m2}
  NoMap = NoMap
  BakeOnMapLoad = TRUE
  UseBakedReverb = TRUE
  QueueCapacity = 2
  MaxCalls = 2
  MaxCrashes = 1
INVARIANTS CommandsInv
PROPERTIES CacheReplacementIsAtomic SettlesDown
CHECK_DEADLOCK FALSE
