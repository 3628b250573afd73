CONSTANTS
  KEYMAX = 5
  Sync = 165
  Frames <- MCFrames
SPECIFICATION Spec
INVARIANTS
  KeyTypeOK
  InBounds
  Resync
