CONSTANTS
  numLines = 2
  assoc = 1
  p1 = p1
  p2 = p2
  p3 = p3
  a1 = a1
  a2 = a2
  x1 = x1
  x2 = x2
  m1 = m1
  m2 = m2
  m3 = m3
  m4 = m4
  Addr <- TwoAddr
  Map <- TwoMap
  hash <- TwoHash
  Child <- TwoChild
  Registered <- TwoAddr
  WriteWhileCached = FALSE
  RegionChanges = FALSE
SPECIFICATION MCSpec
SYMMETRY MCSymmetry
INVARIANTS
  LLCTypeOK
  NoPanic
  DirectoryExact
  MixedTracked
PROPERTIES
  ImplementsCopies
