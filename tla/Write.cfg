SPECIFICATION FairSpec
CONSTANTS
  WriteSize = 2
  WTimeout = 2
  SocketSpace = 3
  MsgLens = {0, 1, 4}
  FileLens = {0, 1, 3, 5}
CHECK_DEADLOCK FALSE
INVARIANTS OutcomeIsTrue WithinContentLength
PROPERTY WriteEnds
