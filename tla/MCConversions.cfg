SPECIFICATION ConversionSpec
CONSTANTS
  MaxInt = 3
  MaxTokens = 12
  Absent = Absent
  PrefixedIds = {"call_1", "call_2", "call_9"}
  Calls = {}
  Messages <- MCMessages
  MaxMessages = 4
  EventSequences <- MCEventSequences
  Measures <- MCMeasures
  EstimateSet <- MCEstimates
  Compactions <- MCCompactions
INVARIANTS
  HistoryPairsMatch
  CompleteTurnsStay
  HistoryTextIsKept
  EndsWhenWhole
  AnswersAreRead
  UsageAddsUp
  MeasuredIsKept
  ExactIsIndependent
CHECK_DEADLOCK FALSE
