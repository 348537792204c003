SPECIFICATION FairSpec
CONSTANTS
  Procs = {p1, p2, p3}
  Slots = 2
  None = None
  MaxWait = 4
  Jitters = {2, 3}
  Deaths = {"kill"}
INVARIANT MutualExclusion
