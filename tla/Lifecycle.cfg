SPECIFICATION FairSpec
CONSTANTS
  Procs = {p1, p2}
  Oneshot = {p2}
  Files = {f1}
  Sites <- MCSites
  TableSize = 17
  CopySize = 9
  Wide = FALSE
  MaxKills = 1
CHECK_DEADLOCK FALSE
INVARIANTS ServingHoldsPort RecordedUnlessShared ConfigWhileBusy
PROPERTY InterruptStops
