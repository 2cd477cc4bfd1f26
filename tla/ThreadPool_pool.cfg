CONSTANTS
  owner = owner  client = client
  t1 = t1  t2 = t2  t3 = t3
  tp1 = tp1  tp2 = tp2
  Sizes = {0, 1, 2}
  Owner = owner
  Clients = {client}
  Tasks = {t1, t2, t3}
  Objects = {tp1, tp2}
  First = tp1
  NoTask = NoTask
  NoObject = NoObject
  NestedDispatch = TRUE
  LateDispatch = FALSE
  NestedWait = FALSE
SPECIFICATION FairSpec
INVARIANTS
  AllExecuted
  FifoOrder
  ReferenceAlive
PROPERTIES
  DestructorReturns
  CallsReturn
