CONSTANTS
  ByteBase = 4
  Unit = 2
  Characters <- MCCharacters
  UrlSymbols <- MCUrlSymbols
  MaxText = 5
  Capacity = 4
  Elements = {0, 1, 2}
  MaxItems = 2
  Times <- MCTimes
  BufferSize = 3
  Messages <- MCMessages
  MaxEvents = 5
CHECK_DEADLOCK FALSE
SPECIFICATION Spec
INVARIANTS
  LinesCut
  PartsRight
  
  XdrRoundTrip
  ContainersRight
  TimesRight
  LogRight
