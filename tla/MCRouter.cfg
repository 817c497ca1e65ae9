CONSTANTS
  p1 = p1
  p2 = p2
  s1 = s1
  n1 = n1
  n2 = n2
  r1 = r1
  r2 = r2
  k1 = k1
  k2 = k2
  None = None
  Peers <- OnePeer
  Eligible <- AllEligible
  ByIP = {}
  Sessions <- OneSession
  PoolNames <- TwoPools
  Requests <- TwoRequests
  Removers = {k1}
  SessionID <- AllSticky
  Pool <- FirstPool
  MaxRank = 2

SPECIFICATION FairRouterSpec

INVARIANTS
  CachedIsIndexed

PROPERTIES
  
  DeadPoolRowsAreLateAdds
  
  
