CONSTANTS
  p1 = p1
  h1 = h1
  r1 = r1
  r2 = r2
  ipA = ipA
  s1 = s1
  None = None
  Peers = {p1}
  IP <- OneAddress
  IPv4 = {ipA}
  Valid = {p1}
  Handlers = {h1}
  Requests = {r1, r2}
  Removers <- HandlersAndRequests
  MaxEvents = 1
  Sessions = {s1}
  PoolNames = {}
  SessionID <- AllSticky
  Pool <- NoPool
  ByIP = {}
  Eligible <- AllEligible
  MaxRank = 2

SPECIFICATION RoutingSpec

PROPERTIES
  RoutedIsReachable
