CONSTANTS
  a4 = a4  b4 = b4  c6 = c6
  Fds = {1, 2}
  NoFd = NoFd
  Addrs = {a4}
  NoAddr = NoAddr
  Family <- Families
  Connects = {}
  Listens <- OneListen
  MaxWaiting = 1
SPECIFICATION Spec
INVARIANT
  AcceptWaits
