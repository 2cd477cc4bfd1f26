SPECIFICATION Spec
CONSTANTS
  s1 = s1
  s2 = s2
  t1 = t1
  t2 = t2
  NoSock = NoSock
  Socks = {s1, s2}
  Threads = {t1, t2}
  Services = {"service"}
  Names = {"host"}
  Lookup <- MC_Lookup
  Descs = {"ip4", "any"}
  Ephemeral = {8}
  Lengths = {2}
  Sizes = {1}
  MaxPackets = 2
  MaxQueue = 2
SYMMETRY MC_Symmetry
INVARIANTS
  ReceivedRight
  DropsExplained
  BoundExclusive
  TimedReady
