CONSTANTS
  a4 = a4  b4 = b4  c6 = c6
  Fds = {1, 2}
  NoFd = NoFd
  Addrs = {a4, b4, c6}
  NoAddr = NoAddr
  Family <- Families
  Connects <- SomeConnects
  Listens <- SomeListens
  MaxWaiting = 1
SPECIFICATION FairSpec
INVARIANTS
  NoneLeftBehind
  ConnectionsConnected
  ReachesFirst
  BlockingAgain
PROPERTIES
  CallsEnd
