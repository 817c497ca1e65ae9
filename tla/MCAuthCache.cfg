CONSTANTS
  u1 = u1
  c1 = c1
  c2 = c2
  None = None
  Users = {u1}
  Calls = {c1, c2}
  MaxMessages = 2

SPECIFICATION FairSpec

INVARIANTS
  RemovedUnlessRevived
  PermissionsComeFirst

PROPERTIES
  GoneIsForgotten
