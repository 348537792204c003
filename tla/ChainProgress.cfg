SPECIFICATION FairSpec
CONSTANTS
  Tasks <- abcde
  NumPhases = 2
  PhaseOf <- abcdePhase
  Depends <- abcdeDepends
  Manual = {}
  GateKind <- ShellGates
  Verdicts = {TRUE}
  MaxParallel = 2
  MaxTasks = 4
  FlagChoices <- Resuming
  Endings = {"merged_ok", "merged_bad", "paused", "failed", "conflict"}
  Marks = {}
  Disturbances = {"pause"}
  Pids <- abcdePids
  NoPid = NoPid
  TaskOf <- abcdeTaskOf
INVARIANTS TypeOK WithinLimits
PROPERTIES RunEnds StopsOnlyWhenDone
