SPECIFICATION Spec
CONSTANTS
  Tasks <- abc
  NumPhases = 2
  PhaseOf <- abcPhase
  Depends <- abcDepends
  Manual = {}
  GateKind <- ShellGates
  Verdicts = {TRUE, FALSE}
  MaxParallel = 2
  MaxTasks = 3
  FlagChoices <- RetryOnly
  Endings = {"merged_ok", "failed", "conflict", "dirty"}
  Marks = {}
  Disturbances = {"crash", "signal"}
  Pids <- abcPids
  NoPid = NoPid
  TaskOf <- abcTaskOf
INVARIANTS RecordMatchesSlots OneTrackedProcessPerTask OneFate HaltedWhileBlocked
