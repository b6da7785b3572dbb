CONSTANTS
  c1 = c1
  c2 = c2
  Core <- Cores
  numDomains = 2
  Configs <- MCConfigs
  coreDomain <- MCDomain
  accLat = 1
  memPre = 1
  memPost = 1
  phaseLength = 6
  Accesses <- MCAccesses
  MaxAccesses <- MCMaxAccesses
  MaxLeaves <- MCMaxLeaves
  MaxPhases = 2
  MaxEvents = 24
  B = 4
  W = 1
SPECIFICATION FairSpec
INVARIANTS
  AssertionsHold
  OnTime
  NothingLeft
  QueuesOrdered
  SlabsExact
PROPERTIES
  SlackGrows
  PhasesEnd
