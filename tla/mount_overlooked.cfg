CONSTANTS
  Keys = {"space", "path"}
  WithId = {"space"}
  MaxChanges = 3
SPECIFICATION Spec
CHECK_DEADLOCK FALSE
INVARIANT NoMountOverlooked
