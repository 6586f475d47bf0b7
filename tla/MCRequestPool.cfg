SPECIFICATION Spec
CONSTANTS
  Requests = {r1, r2}
  MaxRefresh = 1
  Tokens = {t1, t2, t3}
  NoToken = NoToken
  TTL = 0
  MaxFetch = 1
  MaxCollisions = 1
  Reissue = FALSE
  MaxTime = 1
SYMMETRY Symmetry
INVARIANTS
  AttemptsExclusive
  NoLeaseLeaks
  RetiredIsGone
  QuiescentCacheIsFree
