CONSTANTS
  Steers = {s1, s2}
  Calls = {c1, c2}
  Histories <- MCHistories
  MaxTurns = 2
  MaxNudges = 1
  MaxTruncationRetries = 1
  KeepRecent = 2
SPECIFICATION Spec
CHECK_DEADLOCK FALSE
INVARIANT SteerNeverRejectsRun
