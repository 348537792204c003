CONSTANTS
  Tabs = {"t1"}
  MaxCalls = 1
  MaxFaults = 1
  Kind = "chain"
  Density = "header"
SPECIFICATION Spec
INVARIANTS CancelledIsDead PausedStops
PROPERTIES PausingSettles DialogCloses
