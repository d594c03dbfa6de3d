SPECIFICATION MCSpec
CONSTANTS
  LastGuid = 3
  Emitters = {"e"}
  ChanIds = {"x"}
  SoundNames <- MCSoundNames
  Patterns <- MCPatterns
  Tables <- MCTables
  Priorities = {0}
  MaxGuidEntries = 2
  MaxPending = 1
  MaxRules = 2
  Retention = 1
  Ttl = 2
  MaxPlaying = 2
  MaxCalls = 2
  MaxNow = 2
  Callers = {"game", "other"}
  BassHandles = {h1}
  BassChannels = {b1, b2}
  Sources = {s1, s2}
  MaxBassCalls = 4
VIEW MCView
INVARIANTS OverridesInv BridgeInv OnlyCurrentSourcesGoOn SilenceIsExplained
CHECK_DEADLOCK FALSE
