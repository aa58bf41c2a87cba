CONSTANTS
  Horizon = 6
  Infinity = 99
  Notice = 1
  MaxPushes = 3
  Calls <- MCCalls
  UnattendedTimeout = 2
  NetworkTimeout = 3
  AttendedTimeout = 5
  Schemes = {"secrets", "contribute", "llm", "fetch", "ready"}
  Named = {99}
SPECIFICATION SchemeSpec
CHECK_DEADLOCK FALSE
INVARIANT WaitIsBounded
INVARIANT IdleMeansFault
INVARIANT CallerToldCurrent
INVARIANT LeavesNothing
INVARIANT PeopleHaveTime
PROPERTY Settles
