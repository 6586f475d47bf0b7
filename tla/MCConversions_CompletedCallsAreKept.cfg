SPECIFICATION ConversionSpec
CONSTANTS
  MaxInt = 3
  MaxTokens = 0
  Absent = Absent
  PrefixedIds = {"call_1", "call_2", "call_9"}
  Calls = {}
  Messages <- MCMessages
  MaxMessages = 2
  EventSequences = {}
  Measures = {}
  EstimateSet = {}
  Compactions = {}
INVARIANTS
  CompletedCallsAreKept
CHECK_DEADLOCK FALSE
