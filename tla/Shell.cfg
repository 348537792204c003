SPECIFICATION Spec
CONSTANTS
  Alpha <- MCAlpha
  Finds <- MCFinds
  Views = {"overview", "plan", "features", "metrics"}
  Worlds <- MCWorlds
  Storages <- MCStorages
  MaxActs = 3
  None = None
CHECK_DEADLOCK FALSE
INVARIANT FiltersKept
INVARIANT ScreenSound
PROPERTY ActiveIsOpen
