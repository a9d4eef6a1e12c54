SPECIFICATION Spec
CONSTANTS
  Workers = {w1, w2}
  Hosts = {h1}
  DirKinds = {"absolute", "relative", "missing", "readonly"}
  MaxPreFailures = 2
INVARIANT DirectoryAllocated
