CONSTANTS
  i1 = i1
  i2 = i2
  b1 = b1
  b2 = b2
  Interactive = {i1, i2}
  Background = {b1, b2}
  Held = {b1}
SPECIFICATION FairSpec
INVARIANTS
  TurnAccounted
  PersonFirst
PROPERTIES
  ThrottleKept
  PersonServed
