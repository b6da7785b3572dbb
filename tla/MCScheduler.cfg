CONSTANTS
  t1 = t1
  t2 = t2
  t3 = t3
  c1 = c1
  c2 = c2
  sc = sc
  None = None
  Thread <- Threads3
  Context <- Contexts2
  Syscall <- Syscalls
  mask <- Pinned
  proc <- OneProcess
  parallelThreads = 2
  CleanupPeriod = 2
  schedQuantum = 1
  Sleeper <- Sleepers
  MaxSleep = 2
  MaxCalls = 1
  Backlog = 0
  WatchdogRaces = FALSE
SPECIFICATION Spec
SYMMETRY MCSymmetry
INVARIANTS
  AssertionsHold
  ContextsExact
  NobodyForgotten
  WorkConserving
  BarrierAgrees
