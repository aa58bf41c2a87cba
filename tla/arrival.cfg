CONSTANTS
  Locations = {"page", "other", "section"}
  Fragments = {"section"}
  Reach = 2
  Deadline = 2
  MaxArrivals = 3
SPECIFICATION FairSpec
CHECK_DEADLOCK FALSE
INVARIANT OneScroller
PROPERTY ReaderWins
PROPERTY LandsExactly
PROPERTY AttemptsEnd
