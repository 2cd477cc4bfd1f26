CONSTANTS
  c1 = c1  c2 = c2
  Conns = {c1, c2}
  Parameters <- SomeCalls
  MaxInterrupts = 1
SPECIFICATION FairSpec
CHECK_DEADLOCK FALSE
INVARIANTS
  CountExact
  StatusOutlivesThreads
  ShutdownCompleteUndisturbed
  ThrowsAfterRetries
PROPERTIES
  ShutdownEnds
