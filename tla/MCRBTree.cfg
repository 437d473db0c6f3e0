SPECIFICATION Spec
CONSTANTS
  Nodes <- MCNodes
  Sentinel = Sentinel
  NULL = NULL
  KeyRange = 16
  Callers <- MCCallers
INVARIANTS
  LinksAgree
  RedBlack
  LookupFinds
PROPERTY KeepsOrder
