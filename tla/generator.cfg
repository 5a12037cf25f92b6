\* Two threads, two forks, one process id that is used again.
CONSTANTS
  Threads = {t1, t2}
  NoThread = NoThread
  Procs = {p1, p2, p3}
  FirstProc = p1
  Pids = {1, 2}
  FirstPid = 1
  RSBUFSZ = 5
  SEEDSZ = 2
  WORDSZ = 2
  RESEED = 5
  Requests = {1, 6}
  Calls = {"arc4random", "arc4random_buf", "arc4random_stir", "arc4random_addrandom"}
  MaxCalls = 3
  EntropyFails = TRUE
  AtforkFails = TRUE
SPECIFICATION Spec
INVARIANTS TypeOK NoByteTwice Backtracking ReseedInTime MutexHeld
CONSTRAINT OneFailure
CHECK_DEADLOCK FALSE
SYMMETRY Sym
