CONSTANTS
  p1 = p1
  p2 = p2
  p3 = p3
  h1 = h1
  h2 = h2
  d1 = d1
  ipA = ipA
  ipB = ipB
  None = None
  Peers <- ThreePeers
  IP <- MCIP
  IPv4 <- MCIPv4
  Valid = {p1, p2}
  Handlers = {h1, h2}
  Requests = {d1}
  MaxEvents = 1

SPECIFICATION FairRegistrySpec

INVARIANTS
  OnlyAuthorised
  GhostsAreLate

PROPERTIES
  DisconnectedLeaves
