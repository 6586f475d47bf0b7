SPECIFICATION ServerSpec
CONSTANTS
  Capturers = {g1, g2}
  NoCapturer = NoCapturer
  Errors = {e1, e2}
  NoError = NoError
  MaxTears = 2
  MaxDeletes = 2
  MaxAttempts = 2
  MaxStarts = 2
INVARIANTS
  OneEntryPerTear
  ReportedIsReadable
  StatsAddUp
CHECK_DEADLOCK FALSE
