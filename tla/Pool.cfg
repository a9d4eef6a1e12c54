SPECIFICATION Spec
CONSTANTS
  ClientMax = 2
  NumSlots = 3
  Conns = {c1, c2, c3, c4}
  Fds = {d1, d2, d3}
  NoConn = NoConn
  NoFd = NoFd
  Faults = {"spawn", "accept"}
  MaxFaults = 2
SYMMETRY Symmetry
CHECK_DEADLOCK FALSE
INVARIANTS TypeOK PoolBound SlotExclusive NoCrosstalk SlotHandling LeakOnlyOnSpawnFailure
PROPERTY ImplementsPool
