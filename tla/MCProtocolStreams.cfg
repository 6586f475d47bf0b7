SPECIFICATION Spec
CONSTANTS
  Calls = {"call", "call2"}
  Arrivals <- MCArrivals
  MaxResults = 3
INVARIANTS
  EndMatches
  ContentInOrder
  ItemsAreWhole
  UsageIsCurrent
  GeminiChunksAreWhole
CHECK_DEADLOCK FALSE
