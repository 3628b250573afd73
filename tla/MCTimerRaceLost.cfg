SPECIFICATION Spec
CONSTANTS
  Nodes = {poll, n1, n2, n3}
  Poll = poll
  Prompt = TRUE
  NULL = NULL
INVARIANT
  AppendIsKept
CHECK_DEADLOCK FALSE
