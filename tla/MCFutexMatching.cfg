CONSTANTS
  t1 = t1
  t2 = t2
  t3 = t3
  Thread <- Threads
  Values <- MCValues
  MaxWakes = 4
  Width = 32
  MaxUpsets = 1
SPECIFICATION FairSpec
CHECK_DEADLOCK FALSE
INVARIANTS
  OnlyUpsetsFault
  CountsBalance
PROPERTIES
  MatchingEnds
