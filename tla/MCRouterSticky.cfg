CONSTANTS
  p1 = p1
  p2 = p2
  s1 = s1
  n1 = n1
  n2 = n2
  r1 = r1
  r2 = r2
  k1 = k1
  k2 = k2
  None = None
  Peers <- TwoPeers
  Eligible <- AllEligible
  ByIP = {}
  Sessions <- OneSession
  PoolNames = {}
  Requests <- TwoRequests
  Removers = {k1}
  SessionID <- AllSticky
  Pool <- NoPool
  MaxRank = 2

SPECIFICATION RouterSpec

PROPERTY StickyForItsLifetime
