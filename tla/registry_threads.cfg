\* Two threads open a stream each, write to it and exit.
CONSTANTS
  Threads = {t1, t2}
  Streams = {s1, s2}
  Nodes = {n1, n2}
  Null = Null
  Objects = {o1, o2}
  StdFds = {1}
  Fails = {}
SPECIFICATION Spec
INVARIANTS AllFlushed
CHECK_DEADLOCK FALSE
SYMMETRY Sym
