SPECIFICATION LifeSpec
CONSTANTS
  Mixers = {m1}
  Classes = {c1, c2}
  MaxRetries = 1
  MaxRounds = 0
INVARIANTS
  RingsAreUnread
