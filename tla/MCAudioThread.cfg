SPECIFICATION MCSpec
CONSTANTS
  s1 = s1  s2 = s2  h1 = h1  h2 = h2
  FrameSize = 2
  Latency = 4
  EngineLead = 3
  MaxLag = 2
  DeviceLatency = 1
  FirstClock = 6
  Paints = {4}
  MaxClock = 10
  Devices = {"d1", "d2", "d3"}
  FormatOf <- MCFormatOf
  MaxStarts = 2
  MaxChanges = 2
  Sources = {s1, s2}
  Handles = {h1, h2}
  NoHandle = NoHandle
  Grace = 2
  MaxSources = 2
  MaxFrames = 4
INVARIANTS DeviceInv IInv NoUseAfterRelease
PROPERTIES ClockIsKept HoldsEnd LossIsReported RetiredIsReleased
CHECK_DEADLOCK FALSE
