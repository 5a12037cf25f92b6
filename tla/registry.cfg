\* One thread, three streams at a time, four in all.
CONSTANTS
  Threads = {t1}
  Streams = {s1, s2, s3}
  Nodes = {n1, n2, n3}
  Null = Null
  Objects = {1, 2, 3, 4}
  StdFds <- MCStdFds
  Fails = {"object", "stream", "entry"}
SPECIFICATION Spec
INVARIANTS TypeOK NothingFreedIsUsed ListSound StdStreamUnique ObjectLifetime AllFlushed
CONSTRAINTS InOrder FewNegative
CHECK_DEADLOCK FALSE
SYMMETRY Sym
