CONSTANTS
  Targets = {A, B}
  NoTarget = NoTarget
  Closed = Closed
  MaxAttempts = 2
  MaxLines = 2
  MaxSwaps = 2
  MaxFrames = 2
  MaxDrops = 1
SPECIFICATION Spec
INVARIANTS TypeOK OneLine WrittenOnce
PROPERTY GivesUp
