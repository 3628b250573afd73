SPECIFICATION Spec
CONSTANTS
  poll = poll
  a = a
  b = b
  Ids <- MCIds
  Poll = poll
  Delays <- MCDelays
  PoolNodes <- MCPoolNodes
  MaxAsked = 2
INVARIANTS
  TypeOK
  Reclaimed
  NodesBounded
PROPERTY
  KeepsPromise
