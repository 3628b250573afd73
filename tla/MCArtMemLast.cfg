SPECIFICATION Spec
CONSTANTS
  Total = 9
  HeadSize = 1
  Sizes = {1, 2, 3}
INVARIANT
  NoOverlap
CHECK_DEADLOCK FALSE
