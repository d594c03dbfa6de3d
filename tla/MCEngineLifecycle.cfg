SPECIFICATION LifeFairSpec
CONSTANTS
  Mixers = {m1}
  Classes = {c1, c2}
  MaxRetries = 2
  MaxRounds = 1
INVARIANTS
  EngineInv
  HooksOutliveCalls
  AtMostOneCallLost
PROPERTIES
  LostDeviceIsReplaced
  ShutdownComesToAnEnd
