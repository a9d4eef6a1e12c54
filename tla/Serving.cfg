SPECIFICATION FairSpec
CONSTANTS
  ClientMax = 2
  NumSlots = 3
  Conns = {c1, c2, c3}
  Fds = {d1, d2}
  NoConn = NoConn
  NoFd = NoFd
  Faults = {}
  MaxFaults = 0
PROPERTIES EventuallyClosed
