SPECIFICATION Spec
CONSTANTS
  Calls = {"call", "call2"}
  Arrivals <- MCArrivals
  MaxResults = 3
INVARIANTS
  ToolCallsAreDistinct
CHECK_DEADLOCK FALSE
