CONSTANTS
  t1 = t1
  t2 = t2
  a1 = a1
  a2 = a2
  Transfers <- TwoTransfers
  Accounts <- TwoAccounts
  Account <- TwoAccount
  Length <- TwoLength
  BufferSize = 2
  AccountBytes = 2
  ChSize = 1

SPECIFICATION FairSpec

INVARIANTS
  NoDoubleCount
  BytesAreKept
  BilledToItsOwner
  BoundedExposure

PROPERTIES
  ImplementsLedger
  
