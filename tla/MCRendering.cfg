SPECIFICATION MCSpec
CONSTANTS
  c1 = c1  c2 = c2
  Channels = {c1, c2}
  NoChannel = NoChannel
  Modes <- MCModes
  MaxSounds = 2
  MaxGen = 2
  MaxHandles = 2
  NumSlotSources = 1
  NumStreams = 1
  MaxSets = 2
  FadeFrames = 2
  TailFrames = 1
  Full = 20
  ZeroVisibility = 3
  FullVisibility = 15
  MinGain = 4
INVARIANTS SlotInv GameParamsAreCurrent RenderInv
CHECK_DEADLOCK FALSE
