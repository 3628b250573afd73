SPECIFICATION Spec
CONSTANTS
  Modes = {m1, m2}
  Values = {v1, v2}
  NoKey = NoKey
  MaxPosts = 3
INVARIANTS
  TypeOK
  NothingOwedAtRest
  KeyInUseAtRest
PROPERTIES
  NoStaleBit
  EventsHandled
  MessageTakesEffect
