CONSTANTS
  t1 = t1
  t2 = t2
  t3 = t3
  t4 = t4
  Thread <- Threads4
  parallelThreads = 2
  CleanupPeriod = 2
  MaxLeaves = 1
  Kills = TRUE
SPECIFICATION Spec
SYMMETRY MCSymmetry
CHECK_DEADLOCK FALSE
INVARIANTS
  OnlyKillsFault
  CountsRight
  NoLostWakeup
  OncePerPhase
PROPERTIES
  JoinEndsNoPhase
