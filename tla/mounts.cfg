CONSTANTS
  Keys = {"space", "path"}
  WithId = {"space"}
  MaxChanges = 3
SPECIFICATION FairSpec
CHECK_DEADLOCK FALSE
INVARIANT HostIsFollowed
PROPERTY WatcherFollows
PROPERTY NoWaitInVain
