SPECIFICATION FairSpec
CONSTANTS
  Procs = {p1, p2, p3}
  Slots = 3
  None = None
  MaxWait = 4
  Jitters = {2, 3}
  Deaths = {"term", "kill"}
INVARIANTS TypeOK ExclusiveUnlessBroken
PROPERTIES WaitEnds TurnstileSpec
