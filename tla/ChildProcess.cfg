SPECIFICATION FairSpec
CONSTANTS
  Obj = {a, b}
  Pid = {p1, p2}
  Link = {l1, l2}
  Parent = Parent
  None = None
  PipeCap = 1
  ChildBuf = 1
  MaxLen = 2
CHECK_DEADLOCK FALSE
INVARIANTS
  PTypeOK
  DescriptorsOwned
  PidsOwned
  ChildrenHandled
PROPERTIES
  DestructorReturns
  WriteReturns
