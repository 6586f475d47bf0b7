SPECIFICATION FairSpec
CONSTANTS
  Calls = {c1, c2}
  Tokens = {t1, t2}
  NoToken = NoToken
  TTL = 1
  MaxFetch = 2
  MaxCollisions = 2
  Reissue = TRUE
  MaxTime = 3
INVARIANTS
  TypeOK
  ExclusiveUnlessOutlived
  InUseIsBacked
PROPERTIES
  CachedLeaseIsFresh
  GetTokenReturns
