CONSTANTS
  Byte = 8
  PtrBits = 6
  MaxLabel = 2
  MaxName = 6
  MaxJumps = 2
  MaxOffset = 14
  Header = 2
  NameType = 2
  DataType = 1
  Questions <- MCQuestions
  Limits = {0, 14}
  Messages <- MCMessages

SPECIFICATION Spec

INVARIANTS
  NamesFit
  

PROPERTIES
  ReadEnds

CHECK_DEADLOCK FALSE
