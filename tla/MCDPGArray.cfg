CONSTANTS
  numLines = 4
  assoc = 2
  a1 = a1
  a2 = a2
  a3 = a3
  m1 = m1
  m2 = m2
  m3 = m3
  Addr <- MCAddr
  Map <- MCMap
  hash <- MCHash
SPECIFICATION Spec
SYMMETRY MCSymmetry
INVARIANTS
  ListsLinked
  OneBlockPerMap
  ListsComplete
  TagsFound
  AccessInHand
PROPERTIES
  EvictionShrinks
