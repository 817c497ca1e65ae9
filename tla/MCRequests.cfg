CONSTANTS
  h1 = h1
  h2 = h2
  s1 = s1
  s2 = s2
  d1 = d1
  d2 = d2
  r1 = r1
  r2 = r2
  u1 = u1
  u2 = u2
  n1 = n1
  n2 = n2
  a1 = a1
  x1 = x1
  None = None
  HTTPCalls = {h1, h2}
  SOCKSCalls = {s1}
  Datagrams = {d1, d2}
  Requests = {r1, r2}
  Users = {u1, u2}
  Peers = {n1, n2}
  Addrs = {a1}
  Dsts = {x1}
  ReuseOverdue = FALSE

SPECIFICATION Spec

INVARIANTS
  RequestsAreOwn
  BilledToClient
  SessionsAreOwn

PROPERTIES
  StreamsEnd

SYMMETRY Symmetric
