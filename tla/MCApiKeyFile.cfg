SPECIFICATION KeySpec
CONSTANTS
  Starts = {s1, s2, s3, s4}
  NoStart = NoStart
  NoKey = NoKey
PROPERTIES
  OneKeySpec
CHECK_DEADLOCK FALSE
