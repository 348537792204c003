SPECIFICATION Spec
CONSTANTS
  Tasks <- acm
  NumPhases = 2
  PhaseOf <- acmPhase
  Depends <- acmDepends
  Manual = {"m"}
  GateKind <- MixedGates
  Verdicts = {TRUE, FALSE}
  MaxParallel = 2
  MaxTasks = 2
  FlagChoices <- ByHand
  Endings = {"merged_ok", "paused", "late_timeout", "failed", "timeout", "bad_flag"}
  Marks = {"done", "failed"}
  Disturbances = {"pause", "approve", "reboot"}
  Pids <- acmPids
  NoPid = NoPid
  TaskOf <- acmTaskOf
INVARIANTS DependencyOrder
PROPERTIES NoRestartOfCompleted NoLaunchAfterPause GateOpensAfterPhase
