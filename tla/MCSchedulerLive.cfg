CONSTANTS
  t1 = t1
  t2 = t2
  t3 = t3
  c1 = c1
  c2 = c2
  sc = sc
  None = None
  Thread <- Threads2
  Context <- Contexts1
  Syscall <- Syscalls
  mask <- Anywhere
  proc <- OneProcess
  parallelThreads = 1
  CleanupPeriod = 2
  schedQuantum = 2
  Sleeper <- Threads2
  MaxSleep = 2
  MaxCalls = 1
  Backlog = 0
  WatchdogRaces = FALSE
SPECIFICATION FairSpec
PROPERTIES
  QueuedRun
  SleepersWake
