SPECIFICATION KeySpec
CONSTANTS
  Starts = {s1, s2}
  NoStart = NoStart
  NoKey = NoKey
INVARIANTS
  LoserServes
CHECK_DEADLOCK FALSE
