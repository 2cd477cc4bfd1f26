CONSTANTS
  c1 = c1  c2 = c2
  Conns = {c1}
  Parameters <- Background
  MaxInterrupts = 0
SPECIFICATION Spec
CHECK_DEADLOCK FALSE
INVARIANT
  LogOutlivesManager
