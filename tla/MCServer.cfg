SPECIFICATION Spec
CONSTANTS
  Conns = {c1, c2}
  Workers = {w1, w2}
  None = None
  Contexts = {x1, x2, x3, x4, x5}
  Wrappers = {o1}
  Slow = {c1}
  MaxRequests = 2
  Configurations <- AsTheProxy
INVARIANTS WorkersAreCounted  ConnectionsAreOwn
PROPERTIES ShutdownEnds
CHECK_DEADLOCK FALSE
