CONSTANTS
  MaxFrames = 3
  Horizon = 2
  Infinity = 9
  Budgets <- MCBudgets
SPECIFICATION FairSpec
CHECK_DEADLOCK FALSE
INVARIANT StopsWhatItStarted
INVARIANT TimeoutOnlyOnSilence
PROPERTY FulfilsContract
PROPERTY StreamEnds
