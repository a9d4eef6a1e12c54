SPECIFICATION Spec
CONSTANTS
  Workers = {w1}
  Hosts = {h1, h2}
  DirKinds = {"absolute", "relative", "missing", "readonly"}
  MaxPreFailures = 2
INVARIANTS OneDirectoryString AnswerMatchesHost NothingLeftBehind
PROPERTY WrittenOnce
