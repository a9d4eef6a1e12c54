SPECIFICATION Spec
CONSTANTS
  Args <- MCArgs
  Answers <- MCAnswers
  ReqLen = 2
  HdrLen = 2
  RoomLen = 4
  MaxFds = 1
  MaxCalls = 2
CHECK_DEADLOCK FALSE
INVARIANTS  SocketsLeft
PROPERTY CallEnds
