CONSTANTS
  c1 = c1  c2 = c2
  Conns = {c1}
  Parameters <- Foreground
  MaxInterrupts = 1
SPECIFICATION Spec
CHECK_DEADLOCK FALSE
INVARIANT
  ShutdownComplete
