SPECIFICATION FairSpec
CONSTANTS
  Sources = {s1, s2}
  MaxStreams = 1
  AudioCapacity = 1
  SimCapacity = 1
  ReleaseCapacity = 1
  MaxPcm = 1
  FadeFrames = 1
  TailFrames = 1
INVARIANTS StreamInv GhostWasLostTwice
PROPERTIES PlaysToTheEnd AllDisposed
CHECK_DEADLOCK FALSE
