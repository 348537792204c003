SPECIFICATION Spec
CONSTANTS
  Plans <- MCPlans
  Piloted = {"a", "b"}
  HasPlan = {"a", "b"}
  Figures <- MCFigures
  Lives <- MCLives
  Next1 <- MCNext1
  Docs = {"spec"}
  Toggled = {"what"}
  MaxDocs = 1
  MaxSwitches = 1
  None = None
INVARIANT TargetSettles
INVARIANT TerminalLetsGo
INVARIANT PictureSound
