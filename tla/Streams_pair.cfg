CONSTANTS
  Size = 2
  InSize = 2
  SizePb = 2
  MaxChars = 4
  MaxFailures = 2
  Careful = TRUE
CHECK_DEADLOCK FALSE
SPECIFICATION Spec
INVARIANTS
  TypeOK
  WireExact
  NoEarlyEnd
  FreshRight
  PutbackRight
