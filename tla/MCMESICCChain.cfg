CONSTANTS
  llc = llc
  l2 = l2
  l1a = l1a
  l1b = l1b
  l1c = l1c
  x = x
  y = y
  Node <- ChainNode
  Parent <- ChainParent
  Root = llc
  ICache = {}
  Filters = {l1a}
  Switched = {}
  Direct = {l1a, l1c}
  Line = {x, y}
SPECIFICATION Spec
SYMMETRY LineSym
INVARIANTS
  AssertionsHold
  SingleWriter
  HierarchyExact
  FilterIncluded
  NoLostWrite
