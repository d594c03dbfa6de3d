SPECIFICATION Spec
CONSTANTS
  Maps = {m1, m2}
  NoMap = NoMap
  BakeOnMapLoad = TRUE
  UseBakedReverb = TRUE
  QueueCapacity = 3
  MaxCalls = 2
  MaxCrashes = 0
INVARIANT BakesAfterMapLoad
CHECK_DEADLOCK FALSE
