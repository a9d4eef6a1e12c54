SPECIFICATION FairSpec
CONSTANTS
  PreambleSize = 4
  ReadSize = 2
  ReadMax = 4
  Bhsize = 1
  RTimeout = 2
  MaxSurplus = 2
  HeaderLens = {1, 2, 4}
  ContentLens = {0, 1, 3, 5}
CHECK_DEADLOCK FALSE
INVARIANTS BuffersHold ProcSeesWholeRequest AnswerDeserved
PROPERTY ReadEnds
