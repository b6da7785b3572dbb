CONSTANTS
  llc = llc
  l2 = l2
  l1a = l1a
  l1b = l1b
  l1c = l1c
  x = x
  y = y
  Node <- TreeNode
  Parent <- TreeParent
  Root = llc
  ICache = {l1b}
  Filters = {l1a, l1b, l1c}
  Switched = {l1a, l1c}
  Direct = {}
  Line = {x}
SPECIFICATION FairSpec
PROPERTIES
  ImplementsCopies
  AllFinish
