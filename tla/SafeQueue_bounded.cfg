CONSTANTS
  p1 = p1  p2 = p2  c1 = c1  c2 = c2  v1 = v1  v2 = v2
  NoVal = NoVal
  NoThread = NoThread
  Producers = {p1, p2}
  Consumers = {c1, c2}
  Values = {v1, v2}
  Bounded = TRUE
  Capacity = 2
  MaxBacklog = 4
SPECIFICATION FairSpec
CHECK_DEADLOCK FALSE
INVARIANTS
  NoLostWakeup
  AnswersHold
PROPERTIES
  ImplementsFifo
  ImplementsFifoLive
