CONSTANTS
  Messages <- MCMessages
  NoCB = NoCB
SPECIFICATION Spec
INVARIANTS
  TypeOK
  AllToldOnce
  LeaseInUse
  StopsUnlessOvertaken
  RecorderAsAsked
  CallbackFits
  DrawsWithItsPaint
PROPERTIES
  
  RecorderFollows
CHECK_DEADLOCK FALSE
