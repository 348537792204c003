SPECIFICATION Spec
CONSTANTS
  Tasks = {a, b}
  a = a
  b = b
  Scripts <- MCScripts
  MaxEvents = 2
  MaxBuffer = 4
  TailUnits = 4
  Threshold = 2
  MaxOverlaps = 1
  MaxMounts = 2
  Toggled = {"phase"}
INVARIANTS InOrder NothingSkipped OneRunning
PROPERTY GoesQuiet
CHECK_DEADLOCK FALSE
