SPECIFICATION FairSpec
CONSTANTS
  MaxRetry = 2
  MaxRefresh = 2
  MaxChunks = 3
INVARIANTS
  AttemptsBounded
  RefreshIsDue
  WindsDown
PROPERTIES
  DeliverySpec
  Terminates
