SPECIFICATION Spec
CONSTANTS
  Procs = {p1}
  Oneshot = {}
  Files = {}
  Sites <- MCSites
  TableSize = 17
  CopySize = 9
  Wide = TRUE
  MaxKills = 0
CHECK_DEADLOCK FALSE
INVARIANTS HostsAreTheirOwn ConfiguredMeansUsable
