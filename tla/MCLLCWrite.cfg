CONSTANTS
  numLines = 2
  assoc = 1
  p1 = p1
  p2 = p2
  a1 = a1
  a2 = a2
  m1 = m1
  m2 = m2
  Addr <- TwoAddr
  Map <- MCMap
  hash <- MCHash
  Child <- TwoChild
  Registered <- TwoAddr
  WriteWhileCached = TRUE
  RegionChanges = FALSE
SPECIFICATION LLCSpec
SYMMETRY MCSymmetry
INVARIANTS
  InclusionKept
