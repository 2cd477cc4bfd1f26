CONSTANTS
  owner = owner  client = client
  t1 = t1  t2 = t2  t3 = t3
  tp1 = tp1  tp2 = tp2
  Sizes = {1}
  Owner = owner
  Clients = {}
  Tasks = {t1, t2}
  Objects = {tp1}
  First = tp1
  NoTask = NoTask
  NoObject = NoObject
  NestedDispatch = TRUE
  LateDispatch = TRUE
  NestedWait = FALSE
SPECIFICATION Spec
INVARIANT
  AllExecuted
