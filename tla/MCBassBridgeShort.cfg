SPECIFICATION BridgeSpec
CONSTANTS
  Callers = {"game"}
  BassHandles = {h1}
  BassChannels = {c1}
  Sources = {s1}
  MaxBassCalls = 4
INVARIANT ShortStreamsDrain
CHECK_DEADLOCK FALSE
