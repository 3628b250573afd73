SPECIFICATION Spec
CONSTANTS
  Total = 17
  HeadSize = 1
  Sizes = {2}
INVARIANTS
  TypeOK
  RowIsSound
  FreeSizeExact
  HasRoomExact
PROPERTY
  KeepsPromise
