CONSTANTS
  Proc = {p1, p2}
  Killable = {p1, p2}
  Keys = {k1, k2}
  Vals = {v1, v2}
  Size = 5
  BaseSize = 1
  NodeSize = 2
  OwnSizes = {1}
SPECIFICATION FairSpec
CHECK_DEADLOCK FALSE
INVARIANTS
  ShmemTypeOK
  BlocksDisjoint
PROPERTIES
  ActsAtomically
  LocksReleased
