SPECIFICATION Spec
CONSTANTS
  Nodes = {poll, n1, n2, n3}
  Poll = poll
  Prompt = FALSE
  NULL = NULL
INVARIANTS
  TypeOK
  WalksInUse
PROPERTY
  PassEnds
