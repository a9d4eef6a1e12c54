SPECIFICATION FairSpec
CONSTANTS
  Hosts = {h1, h2}
  PreambleSize = 4
  ReadSize = 2
  ReadMax = 4
  WriteSize = 2
  RecordSize = 2
  Bhsize = 1
  MaxSurplus = 2
  HeaderLens = {1, 2, 4}
  ContentLens = {0, 1, 3, 5}
  MessageLens = {0, 3}
CHECK_DEADLOCK FALSE
INVARIANTS EveryHostReady ReleasedAfterPost ProcSeesWholeRequest AnswerDeserved SuccessMeansSent
PROPERTY NobodyWaitsInVain
