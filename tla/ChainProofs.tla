---------------------------- MODULE ChainProofs ----------------------------
(***************************************************************************)
(* Proofs about the chain scheduler, for every plan, every number of slots *)
(* and every pattern of pauses, signals, crashes and reboots.              *)
(*                                                                         *)
(* The argument is in layers.  Shape says where the variables of a chain   *)
(* process may be non-empty and bounds what a run starts; Tracking relates *)
(* the record on disk to the slots in memory; Fates keeps the three lists  *)
(* of chain-state.json apart; Order follows a task from compute_ready_set  *)
(* to the end of its autopilot.  Each layer is inductive once the earlier  *)
(* ones are known.                                                         *)
(***************************************************************************)
EXTENDS Chain, TLAPS, FiniteSetTheorems

(* Where a chain process holds slots, a batch, or a current slot, and what   *)
(* its two limits leave for the batch that is being started.                 *)
Shape ==
  /\ pc \in {"off", "resolve"} => slots = {}
  /\ pc \notin {"launch", "record"} => batch = {}
  /\ pc \in {"launch", "record"} => ~pauseReq
  /\ pc = "record" => current \in slots
  /\ IsFiniteSet(slots)
  /\ Cardinality(slots) + Cardinality(batch) <= MaxParallel
  /\ launched + Cardinality(batch) + (IF pc = "record" THEN 1 ELSE 0) <= MaxTasks

(* The batch is part of the plan, so its cardinality is a number. *)
LEMMA FiniteBatch ==
  ASSUME TypeOK
  PROVE  /\ IsFiniteSet(batch) /\ Cardinality(batch) \in Nat
         /\ IsFiniteSet({}) /\ Cardinality({}) = 0
<1>1. IsFiniteSet(batch)
  BY FS_Subset, PlanAssumption DEF TypeOK, ChainTypeOK
<1> QED BY <1>1, FS_CardinalityType, FS_EmptySet

(* What LaunchCount promises the batch. *)
LEMMA LaunchCountBound ==
  ASSUME TypeOK, IsFiniteSet(slots), Cardinality(slots) <= MaxParallel,
         LaunchCount > 0
  PROVE  /\ LaunchCount \in Nat
         /\ LaunchCount + Cardinality(slots) <= MaxParallel
         /\ launched + LaunchCount <= MaxTasks
         /\ ~PauseSeen
<1>1. Ready \subseteq Tasks
  BY DEF Ready, ComputeReadySet
<1>2. Cardinality(Ready) \in Nat
  BY <1>1, FS_Subset, FS_CardinalityType, PlanAssumption
<1>3. Cardinality(slots) \in Nat
  BY FS_CardinalityType
<1>4. MaxParallel \in Nat /\ MaxTasks \in Nat /\ launched \in Nat
  BY RunAssumption DEF TypeOK, ChainTypeOK
<1> HIDE DEF Ready, PauseSeen
<1> QED BY <1>2, <1>3, <1>4 DEF LaunchCount

(* The initial state. *)
LEMMA InitShape == Init => TypeOK /\ Shape
<1>1. IsFiniteSet({}) /\ Cardinality({}) = 0
  BY FS_EmptySet
<1>2. Init => TypeOK
  <2>1. NoFlags \in FlagSet
    BY DEF NoFlags, FlagSet
  <2>2. 0 \in 0 .. MaxTasks
    BY RunAssumption
  <2> QED BY <2>1, <2>2
      DEF Init, TypeOK, PlanTypeOK, StateTypeOK, FileTypeOK, ProcTypeOK, ChainTypeOK,
          Statuses, Outcomes
<1>3. Init => Shape
  BY <1>1, RunAssumption DEF Init, Shape
<1> QED BY <1>2, <1>3

(* A chain process that ends leaves an empty memory. *)
LEMMA LeaveShape ==
  ASSUME NEW how \in Outcomes, Leave(how)
  PROVE  ChainTypeOK' /\ Shape'
<1>1. IsFiniteSet({}) /\ Cardinality({}) = 0
  BY FS_EmptySet
<1>2. Shape'
  BY <1>1, RunAssumption DEF Leave, Shape
<1>3. NoFlags \in FlagSet
  BY DEF NoFlags, FlagSet
<1>4. 0 \in 0 .. MaxTasks
  BY RunAssumption
<1> QED BY <1>2, <1>3, <1>4 DEF Leave, ChainTypeOK

(* The parts of the type invariant a step leaves alone. *)
LEMMA SameParts ==
  ASSUME TypeOK
  PROVE  /\ UNCHANGED planVars => PlanTypeOK'
         /\ UNCHANGED stateVars => StateTypeOK'
         /\ UNCHANGED fileVars => FileTypeOK'
         /\ UNCHANGED procVars => ProcTypeOK'
         /\ UNCHANGED chainVars => ChainTypeOK'
BY DEF TypeOK, PlanTypeOK, StateTypeOK, FileTypeOK, ProcTypeOK, ChainTypeOK,
       planVars, stateVars, fileVars, procVars, chainVars

(* What Shape says of a step outside the chain process or of one that keeps   *)
(* its slots, its batch and its count.                                        *)
LEMMA SameShape ==
  ASSUME Shape, UNCHANGED <<slots, batch, launched>>,
         \/ UNCHANGED <<pc, pauseReq, current>>
         \/ pc \notin {"off", "resolve", "launch", "record"} /\
            pc' \notin {"off", "resolve", "launch", "record"}
         \/ pc \in {"off", "resolve"} /\ pc' \notin {"launch", "record"}
  PROVE  Shape'
BY DEF Shape

(* Types and limits are kept by every step; one step of the proof per action. *)
LEMMA ShapeStep ==
  ASSUME TypeOK, Shape, [Next]_vars
  PROVE  TypeOK' /\ Shape'
<1>a. PlanTypeOK /\ StateTypeOK /\ FileTypeOK /\ ProcTypeOK /\ ChainTypeOK
  BY DEF TypeOK
<1>1. CASE RefuseRun
  <2>1. PlanTypeOK' /\ StateTypeOK' /\ FileTypeOK' /\ ProcTypeOK'
    BY <1>1, SameParts DEF RefuseRun
  <2>2. ChainTypeOK'
    BY <1>1, <1>a, RunAssumption DEF RefuseRun, ChainTypeOK, Outcomes
  <2>3. Shape'
    BY <1>1, SameShape DEF RefuseRun
  <2> QED BY <2>1, <2>2, <2>3 DEF TypeOK
<1>2. ASSUME NEW f \in FlagChoices, StartRun(f) PROVE TypeOK' /\ Shape'
  <2>1. PlanTypeOK' /\ FileTypeOK' /\ ProcTypeOK'
    BY <1>2, SameParts DEF StartRun
  <2>2. StateTypeOK'
    BY <1>2, <1>a, RunAssumption DEF StartRun, StateTypeOK
  <2>3. ChainTypeOK'
    BY <1>2, <1>a, RunAssumption DEF StartRun, ChainTypeOK, Outcomes
  <2>4. Shape'
    BY <1>2, SameShape DEF StartRun
  <2> QED BY <2>1, <2>2, <2>3, <2>4 DEF TypeOK
<1>3. ASSUME NEW clean \in BOOLEAN, ResolveBlocked(clean) PROVE TypeOK' /\ Shape'
  <2>1. PlanTypeOK' /\ FileTypeOK' /\ ProcTypeOK'
    BY <1>3, SameParts DEF ResolveBlocked
  <2>2. StateTypeOK'
    BY <1>3, <1>a, RunAssumption DEF ResolveBlocked, StateTypeOK, StillBlocked, Retried,
       Resolved
  <2>3. ChainTypeOK' /\ Shape'
    <3>1. CASE Leave("halted")
      BY <3>1, LeaveShape DEF Outcomes
    <3>2. CASE pc' = "scan" /\ UNCHANGED <<flags, slots, batch, due, launched, pauseReq,
                                           current, got, lastPhase, outcome>>
      <4>1. ChainTypeOK'
        BY <3>2, <1>a DEF ChainTypeOK
      <4>2. Shape'
        BY <3>2, <1>3, SameShape DEF ResolveBlocked
      <4> QED BY <4>1, <4>2
    <3> QED BY <1>3, <3>1, <3>2 DEF ResolveBlocked
  <2> QED BY <2>1, <2>2, <2>3 DEF TypeOK
<1>4. CASE TopTerminal
  <2>1. PlanTypeOK' /\ StateTypeOK' /\ FileTypeOK' /\ ProcTypeOK'
    BY <1>4, SameParts DEF TopTerminal
  <2>2. ChainTypeOK' /\ Shape'
    BY <1>4, LeaveShape DEF TopTerminal, Outcomes, AllDone
  <2> QED BY <2>1, <2>2 DEF TypeOK
<1>5. CASE TopPaused
  <2>1. PlanTypeOK' /\ StateTypeOK' /\ FileTypeOK' /\ ProcTypeOK'
    BY <1>5, SameParts DEF TopPaused
  <2>2. ChainTypeOK' /\ Shape'
    BY <1>5, LeaveShape DEF TopPaused, Outcomes
  <2> QED BY <2>1, <2>2 DEF TypeOK
<1>6. CASE TopBudget
  <2>1. PlanTypeOK' /\ StateTypeOK' /\ FileTypeOK' /\ ProcTypeOK'
    BY <1>6, SameParts DEF TopBudget
  <2>2. ChainTypeOK' /\ Shape'
    BY <1>6, LeaveShape DEF TopBudget, Outcomes
  <2> QED BY <2>1, <2>2 DEF TypeOK
<1>7. CASE TopLaunch
  <2>1. PlanTypeOK' /\ StateTypeOK' /\ FileTypeOK' /\ ProcTypeOK'
    BY <1>7, SameParts DEF TopLaunch
  <2>2. PICK S \in SUBSET Ready : Cardinality(S) = LaunchCount /\ batch' = S
    BY <1>7 DEF TopLaunch
  <2>3. /\ batch = {} /\ pc = "top" /\ pc' = "launch" /\ LaunchCount > 0
           /\ UNCHANGED <<slots, launched>> /\ pauseReq' = PauseSeen
    BY <1>7 DEF TopLaunch, Shape
  <2>4. /\ IsFiniteSet(slots) /\ Cardinality(slots) \in Nat
           /\ Cardinality(slots) <= MaxParallel
    BY <2>3, FiniteBatch, FS_CardinalityType, RunAssumption DEF Shape
  <2>5. /\ LaunchCount \in Nat /\ LaunchCount + Cardinality(slots) <= MaxParallel
           /\ launched + LaunchCount <= MaxTasks /\ ~PauseSeen
    BY <2>4, <2>3, LaunchCountBound
  <2>6. Shape'
    BY <2>2, <2>3, <2>4, <2>5, <1>a, RunAssumption DEF Shape, ChainTypeOK
  <2>7. ChainTypeOK'
    BY <1>7, <2>2, <1>a DEF TopLaunch, ChainTypeOK, Ready, ComputeReadySet, PauseSeen
  <2> QED BY <2>1, <2>6, <2>7 DEF TypeOK
<1>8. CASE TopWait
  <2>1. PlanTypeOK' /\ StateTypeOK' /\ FileTypeOK' /\ ProcTypeOK'
    BY <1>8, SameParts DEF TopWait
  <2>2. ChainTypeOK'
    BY <1>8, <1>a, RunAssumption DEF TopWait, ChainTypeOK, PauseSeen
  <2>3. Shape'
    BY <1>8, SameShape DEF TopWait
  <2> QED BY <2>1, <2>2, <2>3 DEF TypeOK
<1>9. ASSUME NEW i \in Pids, Launch(i) PROVE TypeOK' /\ Shape'
  <2>1. PlanTypeOK' /\ StateTypeOK'
    BY <1>9, SameParts DEF Launch
  <2>2. FileTypeOK'
    BY <1>9, <1>a, RunAssumption DEF Launch, FileTypeOK
  <2>3. ProcTypeOK'
    BY <1>9, <1>a, RunAssumption DEF Launch, ProcTypeOK
  <2>4. ChainTypeOK'
    BY <1>9, <1>a, RunAssumption DEF Launch, ChainTypeOK
  <2>5. /\ Cardinality(slots') = Cardinality(slots) + 1 /\ IsFiniteSet(slots')
           /\ Cardinality(batch') = Cardinality(batch) - 1
           /\ Cardinality(slots) \in Nat /\ Cardinality(batch) \in Nat
    BY <1>9, FiniteBatch, FS_AddElement, FS_RemoveElement, FS_CardinalityType
       DEF Launch, Free, Shape
  <2>6. Shape'
    BY <1>9, <2>5, <1>a, RunAssumption DEF Launch, Shape, ChainTypeOK
  <2> QED BY <2>1, <2>2, <2>3, <2>4, <2>6 DEF TypeOK
<1>10. CASE Record
  <2>1. PlanTypeOK' /\ FileTypeOK' /\ ProcTypeOK'
    BY <1>10, SameParts DEF Record
  <2>2. StateTypeOK'
    BY <1>10, <1>a, RunAssumption DEF Record, StateTypeOK, ChainTypeOK
  <2>3. launched + 1 <= MaxTasks
    BY <1>10, FiniteBatch, <1>a, RunAssumption DEF Record, Shape, ChainTypeOK
  <2>4. ChainTypeOK'
    BY <1>10, <2>3, <1>a, RunAssumption DEF Record, ChainTypeOK
  <2>5. Shape'
    BY <1>10, FiniteBatch, <1>a, RunAssumption DEF Record, Shape, ChainTypeOK
  <2> QED BY <2>1, <2>2, <2>4, <2>5 DEF TypeOK
<1>11. ASSUME NEW i \in Pids, Harvest(i) PROVE TypeOK' /\ Shape'
  <2>1. PlanTypeOK' /\ ProcTypeOK'
    BY <1>11, SameParts DEF Harvest
  <2>2. StateTypeOK'
    BY <1>11, <1>a, RunAssumption DEF Harvest, StateTypeOK
  <2>3. FileTypeOK'
    BY <1>11, <1>a, RunAssumption DEF Harvest, FileTypeOK
  <2>4. ChainTypeOK'
    BY <1>11, <1>a, RunAssumption DEF Harvest, ChainTypeOK, FileTypeOK
  <2>5. slots' = slots \ {i} /\ i \in slots /\ IsFiniteSet(slots)
    BY <1>11 DEF Harvest, Shape
  <2>6. /\ IsFiniteSet(slots \ {i}) /\ Cardinality(slots \ {i}) = Cardinality(slots) - 1
           /\ Cardinality(slots) \in Nat /\ Cardinality(slots \ {i}) \in Nat
    BY <2>5, FS_RemoveElement, FS_CardinalityType
  <2>7. /\ IsFiniteSet(slots') /\ Cardinality(slots') <= Cardinality(slots)
           /\ Cardinality(slots') \in Nat /\ Cardinality(slots) \in Nat
    BY <2>6, <2>5
  <2>8. Shape'
    BY <1>11, <2>7, FiniteBatch, <1>a, RunAssumption DEF Harvest, Shape, ChainTypeOK
  <2> QED BY <2>1, <2>2, <2>3, <2>4, <2>8 DEF TypeOK
<1>12. CASE SettleCompleted
  <2>1. PlanTypeOK' /\ FileTypeOK' /\ ProcTypeOK'
    BY <1>12, SameParts DEF SettleCompleted
  <2>2. StateTypeOK'
    BY <1>12, <1>a, RunAssumption DEF SettleCompleted, StateTypeOK, ChainTypeOK
  <2>3. ChainTypeOK'
    BY <1>12, <1>a, RunAssumption DEF SettleCompleted, ChainTypeOK, SettleTo, Outcomes
  <2>4. Shape'
    BY <1>12, SameShape DEF SettleCompleted, SettleTo
  <2> QED BY <2>1, <2>2, <2>3, <2>4 DEF TypeOK
<1>13. CASE SettleBlocked
  <2>1. PlanTypeOK' /\ ProcTypeOK'
    BY <1>13, SameParts DEF SettleBlocked
  <2>2. StateTypeOK'
    BY <1>13, <1>a, RunAssumption DEF SettleBlocked, StateTypeOK, BlockedReason,
       Reasons, ChainTypeOK, FileTypeOK
  <2>3. FileTypeOK'
    BY <1>13, <1>a, RunAssumption DEF SettleBlocked, FileTypeOK, BlockedReason, Reasons
  <2>4. ChainTypeOK' /\ Shape'
    <3>1. CASE Leave("task_blocked")
      BY <3>1, LeaveShape DEF Outcomes
    <3>2. CASE SettleTo("drain", "bad_flag")
      <4>1. ChainTypeOK'
        BY <3>2, <1>a DEF ChainTypeOK, SettleTo, Outcomes
      <4>2. Shape'
        BY <3>2, <1>13, SameShape DEF SettleBlocked, SettleTo
      <4> QED BY <4>1, <4>2
    <3> QED BY <1>13, <3>1, <3>2 DEF SettleBlocked
  <2> QED BY <2>1, <2>2, <2>3, <2>4 DEF TypeOK
<1>14. CASE SettleFailed
  <2>1. PlanTypeOK' /\ FileTypeOK' /\ ProcTypeOK'
    BY <1>14, SameParts DEF SettleFailed
  <2>2. StateTypeOK'
    BY <1>14, <1>a, RunAssumption DEF SettleFailed, StateTypeOK, ChainTypeOK
  <2>3. ChainTypeOK'
    BY <1>14, <1>a, RunAssumption DEF SettleFailed, ChainTypeOK, SettleTo, Outcomes
  <2>4. Shape'
    BY <1>14, SameShape DEF SettleFailed, SettleTo
  <2> QED BY <2>1, <2>2, <2>3, <2>4 DEF TypeOK
<1>15. CASE Drain
  <2>1. PlanTypeOK' /\ StateTypeOK' /\ FileTypeOK' /\ ProcTypeOK'
    BY <1>15, SameParts DEF Drain
  <2>2. ChainTypeOK' /\ Shape'
    BY <1>15, LeaveShape, <1>a DEF Drain, Outcomes, ChainTypeOK
  <2> QED BY <2>1, <2>2 DEF TypeOK
<1>16. CASE ScanGates
  <2>1. PlanTypeOK' /\ StateTypeOK' /\ FileTypeOK' /\ ProcTypeOK'
    BY <1>16, SameParts DEF ScanGates
  <2>2. ChainTypeOK'
    BY <1>16, <1>a, RunAssumption DEF ScanGates, ChainTypeOK, PendingGates
  <2>3. Shape'
    BY <1>16, SameShape DEF ScanGates
  <2> QED BY <2>1, <2>2, <2>3 DEF TypeOK
<1>17. ASSUME NEW p \in Phases, AutoPassGate(p) PROVE TypeOK' /\ Shape'
  <2>1. StateTypeOK' /\ FileTypeOK' /\ ProcTypeOK'
    BY <1>17, SameParts DEF AutoPassGate, GatePassed
  <2>2. PlanTypeOK'
    BY <1>17, <1>a, RunAssumption DEF AutoPassGate, PlanTypeOK, GatePassed
  <2>3. ChainTypeOK'
    BY <1>17, <1>a, RunAssumption DEF AutoPassGate, ChainTypeOK, GatePassed, FirstDue
  <2>4. Shape'
    BY <1>17, SameShape DEF AutoPassGate, GatePassed, FirstDue
  <2> QED BY <2>1, <2>2, <2>3, <2>4 DEF TypeOK
<1>18. ASSUME NEW p \in Phases, PassGate(p) PROVE TypeOK' /\ Shape'
  <2>1. StateTypeOK' /\ FileTypeOK' /\ ProcTypeOK'
    BY <1>18, SameParts DEF PassGate, GatePassed
  <2>2. PlanTypeOK'
    BY <1>18, <1>a, RunAssumption DEF PassGate, PlanTypeOK, GatePassed
  <2>3. ChainTypeOK'
    BY <1>18, <1>a, RunAssumption DEF PassGate, ChainTypeOK, GatePassed, FirstDue
  <2>4. Shape'
    BY <1>18, SameShape DEF PassGate, GatePassed, FirstDue
  <2> QED BY <2>1, <2>2, <2>3, <2>4 DEF TypeOK
<1>19. ASSUME NEW p \in Phases, BlockGate(p) PROVE TypeOK' /\ Shape'
  <2>1. PlanTypeOK' /\ StateTypeOK' /\ FileTypeOK' /\ ProcTypeOK'
    BY <1>19, SameParts DEF BlockGate
  <2>2. ChainTypeOK' /\ Shape'
    BY <1>19, LeaveShape DEF BlockGate, Outcomes
  <2> QED BY <2>1, <2>2 DEF TypeOK
<1>20. CASE Signal
  <2>1. PlanTypeOK' /\ StateTypeOK' /\ FileTypeOK'
    BY <1>20, SameParts DEF Signal
  <2>2. ProcTypeOK'
    BY <1>20, <1>a, RunAssumption DEF Signal, ProcTypeOK
  <2>3. ChainTypeOK' /\ Shape'
    BY <1>20, LeaveShape DEF Signal, Outcomes
  <2> QED BY <2>1, <2>2, <2>3 DEF TypeOK
<1>21. CASE Crash
  <2>1. PlanTypeOK' /\ StateTypeOK' /\ FileTypeOK' /\ ProcTypeOK'
    BY <1>21, SameParts DEF Crash
  <2>2. ChainTypeOK' /\ Shape'
    BY <1>21, LeaveShape DEF Crash, Outcomes
  <2> QED BY <2>1, <2>2 DEF TypeOK
<1>22. CASE Reboot
  <2>1. PlanTypeOK' /\ StateTypeOK' /\ FileTypeOK'
    BY <1>22, SameParts DEF Reboot
  <2>2. ProcTypeOK'
    BY <1>22, <1>a, RunAssumption DEF Reboot, ProcTypeOK
  <2>3. ChainTypeOK' /\ Shape'
    BY <1>22, LeaveShape DEF Reboot, Outcomes
  <2> QED BY <2>1, <2>2, <2>3 DEF TypeOK
<1>23. ASSUME NEW i \in Pids, PilotMerges(i) PROVE TypeOK' /\ Shape'
  <2>1. StateTypeOK' /\ FileTypeOK' /\ ChainTypeOK'
    BY <1>23, SameParts DEF PilotMerges
  <2>2. PlanTypeOK'
    BY <1>23, <1>a, RunAssumption DEF PilotMerges, PlanTypeOK, Statuses
  <2>3. ProcTypeOK'
    BY <1>23, <1>a, RunAssumption DEF PilotMerges, ProcTypeOK, Statuses
  <2>4. Shape'
    BY <1>23, SameShape DEF PilotMerges, chainVars
  <2> QED BY <2>1, <2>2, <2>3, <2>4 DEF TypeOK
<1>24. ASSUME NEW i \in Pids, NEW e \in Endings, PilotExits(i, e) PROVE TypeOK' /\ Shape'
  <2>1. PlanTypeOK' /\ StateTypeOK' /\ ChainTypeOK'
    BY <1>24, SameParts DEF PilotExits
  <2>2. FileTypeOK'
    BY <1>24, <1>a, RunAssumption DEF PilotExits, FileTypeOK, EndingsFrom, Sentinel,
       Reasons
  <2>3. ProcTypeOK'
    BY <1>24, <1>a, RunAssumption DEF PilotExits, ProcTypeOK
  <2>4. Shape'
    BY <1>24, SameShape DEF PilotExits, chainVars
  <2> QED BY <2>1, <2>2, <2>3, <2>4 DEF TypeOK
<1>25. CASE TogglePause
  <2>1. PlanTypeOK' /\ StateTypeOK' /\ ProcTypeOK' /\ ChainTypeOK'
    BY <1>25, SameParts DEF TogglePause
  <2>2. FileTypeOK'
    BY <1>25, <1>a, RunAssumption DEF TogglePause, FileTypeOK
  <2>3. Shape'
    BY <1>25, SameShape DEF TogglePause, chainVars
  <2> QED BY <2>1, <2>2, <2>3 DEF TypeOK
<1>26. ASSUME NEW p \in Phases, ApproveGate(p) PROVE TypeOK' /\ Shape'
  <2>1. StateTypeOK' /\ FileTypeOK' /\ ProcTypeOK' /\ ChainTypeOK'
    BY <1>26, SameParts DEF ApproveGate
  <2>2. PlanTypeOK'
    BY <1>26, <1>a, RunAssumption DEF ApproveGate, PlanTypeOK
  <2>3. Shape'
    BY <1>26, SameShape DEF ApproveGate, chainVars
  <2> QED BY <2>1, <2>2, <2>3 DEF TypeOK
<1>27. ASSUME NEW t \in Tasks, NEW s \in Marks, MarkTask(t, s) PROVE TypeOK' /\ Shape'
  <2>1. StateTypeOK' /\ FileTypeOK' /\ ProcTypeOK' /\ ChainTypeOK'
    BY <1>27, SameParts DEF MarkTask
  <2>2. PlanTypeOK'
    BY <1>27, <1>a, RunAssumption DEF MarkTask, PlanTypeOK, Statuses
  <2>3. Shape'
    BY <1>27, SameShape DEF MarkTask, chainVars
  <2> QED BY <2>1, <2>2, <2>3 DEF TypeOK
<1>28. CASE UNCHANGED vars
  <2>1. PlanTypeOK' /\ StateTypeOK' /\ FileTypeOK' /\ ProcTypeOK' /\ ChainTypeOK'
    BY <1>28, SameParts DEF vars
  <2>2. Shape'
    BY <1>28, SameShape DEF vars, chainVars
  <2> QED BY <2>1, <2>2 DEF TypeOK
<1> QED
  BY <1>1, <1>2, <1>3, <1>4, <1>5, <1>6, <1>7, <1>8, <1>9, <1>10, <1>11, <1>12, <1>13,
     <1>14, <1>15, <1>16, <1>17, <1>18, <1>19, <1>20, <1>21, <1>22, <1>23, <1>24,
     <1>25, <1>26, <1>27, <1>28
     DEF Next, ChainStep, PilotStep

(* TypeOK and Shape together: every layer below takes them for granted. *)
LEMMA ShapeInvariant == Spec => [](TypeOK /\ Shape)
BY InitShape, ShapeStep, PTL DEF Spec

(* Type correctness: each variable of the plan, the record, the files, the   *)
(* processes and the chain process keeps its type, the count of launched     *)
(* tasks within --max-tasks included.                                        *)
THEOREM TypeCorrect == Spec => []TypeOK
BY ShapeInvariant, PTL

(* --max-parallel and --max-tasks hold for every value of the two flags:     *)
(* what compute_ready_set offers is cut to the free slots and the remaining  *)
(* budget before the batch is started, and nothing else takes a slot.        *)
THEOREM LimitsHold == Spec => []WithinLimits
<1>1. ASSUME TypeOK, Shape PROVE WithinLimits
  <2>1. Cardinality(batch) \in Nat
    BY <1>1, FiniteBatch
  <2>2. Cardinality(slots) \in Nat
    BY <1>1, FS_CardinalityType DEF Shape
  <2> QED BY <1>1, <2>1, <2>2, RunAssumption
          DEF Shape, TypeOK, ChainTypeOK, WithinLimits
<1> QED BY <1>1, ShapeInvariant, PTL

-----------------------------------------------------------------------------
(* Sorting the steps. *)

(* Steps that change neither a list of the record nor the slots and the batch, *)
(* and stay clear of the places where the record lags behind them.             *)
Busy == {"scan", "gate", "top", "poll", "drain"}
Quiet ==
  /\ UNCHANGED <<stateVars, slots, batch>>
  /\ \/ UNCHANGED <<pc, current>>
     \/ pc \in Busy /\ pc' \in Busy

(* Steps that end the chain process and write nothing. *)
Ends == UNCHANGED stateVars /\ \E how \in Outcomes : Leave(how)

(* Of a step, only what it does to record, slots and batch matters below. *)
LEMMA StepKinds ==
  ASSUME TypeOK, [Next]_vars
  PROVE  \/ Quiet \/ Ends
         \/ \E f \in FlagChoices : StartRun(f)
         \/ \E clean \in BOOLEAN : ResolveBlocked(clean)
         \/ TopLaunch \/ Record
         \/ \E i \in Pids : Launch(i) \/ Harvest(i)
         \/ SettleCompleted \/ SettleBlocked \/ SettleFailed
<1> USE DEF Quiet, Busy
<1>1. RefuseRun \/ UNCHANGED vars => Quiet
  BY DEF RefuseRun, vars, stateVars, chainVars
<1>2. TopTerminal \/ TopPaused \/ TopBudget \/ Drain => Ends
  BY DEF TypeOK, ChainTypeOK, TopTerminal, TopPaused, TopBudget, Drain, Ends, AllDone,
         Outcomes
<1>3. Signal \/ Crash \/ Reboot \/ (\E p \in Phases : BlockGate(p)) => Ends
  BY DEF Signal, Crash, Reboot, BlockGate, Ends, Outcomes
<1>4. TopWait \/ ScanGates => Quiet
  BY DEF TopWait, ScanGates
<1>5. ASSUME NEW p \in Phases, AutoPassGate(p) \/ PassGate(p) PROVE Quiet
  BY <1>5 DEF AutoPassGate, PassGate, GatePassed, FirstDue
<1>6. ASSUME NEW i \in Pids, PilotStep(i) PROVE Quiet
  BY <1>6 DEF PilotStep, PilotMerges, PilotExits, chainVars
<1>7. TogglePause => Quiet
  BY DEF TogglePause, chainVars
<1>8. ASSUME NEW p \in Phases, ApproveGate(p) PROVE Quiet
  BY <1>8 DEF ApproveGate, chainVars
<1>9. ASSUME NEW t \in Tasks, NEW s \in Marks, MarkTask(t, s) PROVE Quiet
  BY <1>9 DEF MarkTask, chainVars
<1> QED
  BY <1>1, <1>2, <1>3, <1>4, <1>5, <1>6, <1>7, <1>8, <1>9 DEF Next, ChainStep

-----------------------------------------------------------------------------
(* The record and the slots. *)

(* active_tasks is the slots, and among these and the batch no task occurs   *)
(* twice.  Uniqueness is what makes the harvest, which drops every entry of  *)
(* the task by its id, drop only the entry of the slot it frees.             *)
Tracking ==
  /\ RecordMatchesSlots
  /\ \A i, j \in slots \cup active : TaskOf[i] = TaskOf[j] => i = j
  /\ \A i \in slots : TaskOf[i] \notin batch

LEMMA TrackingStep ==
  ASSUME TypeOK, Shape, Tracking, [Next]_vars
  PROVE  Tracking'
<1>a. slots \subseteq Pids /\ active \subseteq Pids
  BY DEF TypeOK, ChainTypeOK, StateTypeOK
<1>1. CASE Quiet
  BY <1>1 DEF Quiet, Busy, Tracking, RecordMatchesSlots, stateVars
<1>2. CASE Ends
  BY <1>2 DEF Ends, Leave, Tracking, RecordMatchesSlots, stateVars
<1>3. ASSUME NEW f \in FlagChoices, StartRun(f) PROVE Tracking'
  BY <1>3 DEF StartRun, Shape, Tracking, RecordMatchesSlots
<1>4. ASSUME NEW clean \in BOOLEAN, ResolveBlocked(clean) PROVE Tracking'
  BY <1>4 DEF ResolveBlocked, Leave, Tracking, RecordMatchesSlots
<1>5. CASE TopLaunch
  <2>1. batch' \subseteq Ready
    BY <1>5 DEF TopLaunch
  <2>2. \A i \in slots : TaskOf[i] \notin batch'
    BY <2>1 DEF Ready, SlotTasks
  <2> QED BY <1>5, <2>2 DEF TopLaunch, Tracking, RecordMatchesSlots, stateVars
<1>6. CASE Record
  BY <1>6 DEF Record, Shape, Tracking, RecordMatchesSlots
<1>7. ASSUME NEW i \in Pids, Launch(i) PROVE Tracking'
  <2>1. /\ TaskOf[i] \in batch /\ i \notin slots
        /\ slots' = slots \cup {i} /\ batch' = batch \ {TaskOf[i]}
        /\ active' = active /\ active = slots
        /\ pc' = "record" /\ current' = i
    BY <1>7 DEF Launch, Free, stateVars, Tracking, RecordMatchesSlots
  <2>2. RecordMatchesSlots'
    BY <2>1 DEF RecordMatchesSlots
  <2> QED BY <2>1, <2>2 DEF Tracking
<1>8. ASSUME NEW i \in Pids, Harvest(i) PROVE Tracking'
  <2>1. /\ i \in slots /\ active = slots
        /\ slots' = slots \ {i} /\ batch' = batch
        /\ active' = {j \in active : TaskOf[j] # TaskOf[i]}
        /\ pc' = "settle"
    BY <1>8 DEF Harvest, Tracking, RecordMatchesSlots
  <2>2. active' = slots'
    BY <2>1 DEF Tracking
  <2> QED BY <2>1, <2>2 DEF Tracking, RecordMatchesSlots
<1>9. CASE SettleCompleted \/ SettleBlocked \/ SettleFailed
  BY <1>9 DEF SettleCompleted, SettleBlocked, SettleFailed, SettleTo, Leave,
     Tracking, RecordMatchesSlots
<1> QED
  BY <1>1, <1>2, <1>3, <1>4, <1>5, <1>6, <1>7, <1>8, <1>9, StepKinds

LEMMA TrackingInvariant == Spec => [](TypeOK /\ Shape /\ Tracking)
<1>1. Init => Tracking
  BY DEF Init, Tracking, RecordMatchesSlots
<1> QED BY <1>1, ShapeInvariant, TrackingStep, PTL DEF Spec

(* While a chain process runs, active_tasks names exactly its slots but the  *)
(* one being recorded; a crash anywhere else loses no autopilot.             *)
THEOREM RecordIsExact == Spec => []RecordMatchesSlots
BY TrackingInvariant, PTL DEF Tracking

(* No task has two live processes among the slots and the record, over any   *)
(* sequence of runs, crashes and signals.                                    *)
THEOREM OneProcess == Spec => []OneTrackedProcessPerTask
<1>1. Tracking => OneTrackedProcessPerTask
  BY DEF Tracking, OneTrackedProcessPerTask
<1> QED BY <1>1, TrackingInvariant, PTL

-----------------------------------------------------------------------------
(* The three lists of chain-state.json. *)

(* The task being settled is in no list yet, and a blocked task has a single *)
(* entry: otherwise resolving one of two would give it two fates.            *)
Fates ==
  /\ OneFate
  /\ HaltedWhileBlocked
  /\ pc = "settle" =>
       TaskOf[current] \notin completed \cup failed \cup BlockedTasks \cup SlotTasks
  /\ \A b, c \in blocked : b.task = c.task => b = c

LEMMA FatesStep ==
  ASSUME TypeOK, Shape, Tracking, Fates, [Next]_vars
  PROVE  Fates'
<1> USE DEF Fates, OneFate, HaltedWhileBlocked, BlockedTasks, SlotTasks
<1>1. CASE Quiet
  BY <1>1 DEF Quiet, Busy, stateVars
<1>2. CASE Ends
  BY <1>2 DEF Ends, Leave, stateVars
<1>3. ASSUME NEW f \in FlagChoices, StartRun(f) PROVE Fates'
  BY <1>3 DEF StartRun
<1>4. ASSUME NEW clean \in BOOLEAN, ResolveBlocked(clean) PROVE Fates'
  <2>1. /\ blocked' \subseteq blocked /\ slots = {} /\ batch = {}
        /\ slots' = {} /\ batch' = {} /\ pc' \in {"off", "scan"}
        /\ pc' = "scan" => blocked' = {}
    BY <1>4 DEF ResolveBlocked, StillBlocked, Leave, Shape
  <2>2. failed' \subseteq failed /\ completed' = completed \cup {b.task : b \in Resolved}
    BY <1>4 DEF ResolveBlocked
  <2>3. Resolved \subseteq blocked /\ Resolved \cap blocked' = {}
    BY <1>4 DEF ResolveBlocked, StillBlocked, Resolved
  <2>4. {b.task : b \in Resolved} \cap BlockedTasks' = {}
    BY <2>1, <2>3
  <2>5. {b.task : b \in Resolved} \subseteq BlockedTasks
    BY <2>3
  <2> HIDE DEF BlockedTasks
  <2>6. BlockedTasks' \subseteq BlockedTasks
    BY <2>1 DEF BlockedTasks
  <2> QED BY <2>1, <2>2, <2>4, <2>5, <2>6
<1>5. CASE TopLaunch
  <2>1. batch' \subseteq Ready /\ UNCHANGED <<slots, completed, failed, blocked>>
        /\ pc = "top" /\ pc' = "launch"
    BY <1>5 DEF TopLaunch, stateVars
  <2> QED BY <2>1 DEF Ready
<1>6. CASE Record
  BY <1>6 DEF Record
<1>7. ASSUME NEW i \in Pids, Launch(i) PROVE Fates'
  <2>1. /\ TaskOf[i] \in batch /\ slots' = slots \cup {i} /\ batch' \subseteq batch
        /\ UNCHANGED <<completed, failed, blocked>> /\ pc = "launch" /\ pc' = "record"
    BY <1>7 DEF Launch, stateVars
  <2> QED BY <2>1
<1>8. ASSUME NEW i \in Pids, Harvest(i) PROVE Fates'
  <2>1. /\ i \in slots /\ slots' = slots \ {i} /\ current' = i
        /\ UNCHANGED <<completed, failed, blocked, batch>> /\ pc = "poll" /\ pc' = "settle"
    BY <1>8 DEF Harvest
  <2>2. TaskOf[i] \in SlotTasks /\ TaskOf[i] \notin SlotTasks'
    BY <2>1 DEF Tracking
  <2> QED BY <2>1, <2>2
<1>9. CASE SettleCompleted \/ SettleFailed
  <2>1. /\ pc = "settle" /\ pc' \in {"scan", "drain"} /\ UNCHANGED <<slots, batch, blocked>>
        /\ \/ completed' = completed \cup {TaskOf[current]} /\ failed' = failed
           \/ failed' = failed \cup {TaskOf[current]} /\ completed' = completed
    BY <1>9 DEF SettleCompleted, SettleFailed, SettleTo
  <2>2. batch = {}
    BY <2>1 DEF Shape
  <2> QED BY <2>1, <2>2
<1>10. CASE SettleBlocked
  <2>1. CASE SettleTo("drain", "bad_flag") /\ UNCHANGED blocked
    BY <1>10, <2>1 DEF SettleBlocked, SettleTo
  <2>2. CASE /\ Leave("task_blocked")
             /\ blocked' = blocked \cup
                  {[task |-> TaskOf[current], reason |-> BlockedReason(TaskOf[current])]}
    <3>1. pc = "settle" /\ pc' = "off" /\ slots' = {} /\ batch' = {}
          /\ UNCHANGED <<completed, failed>>
      BY <1>10, <2>2 DEF SettleBlocked, Leave
    <3>2. blocked = {}
      BY <3>1
    <3>3. BlockedTasks' = {TaskOf[current]}
      BY <2>2, <3>2
    <3> QED BY <2>2, <3>1, <3>2, <3>3
  <2> QED BY <1>10, <2>1, <2>2 DEF SettleBlocked
<1> QED
  BY <1>1, <1>2, <1>3, <1>4, <1>5, <1>6, <1>7, <1>8, <1>9, <1>10, StepKinds

LEMMA FatesInvariant == Spec => [](TypeOK /\ Shape /\ Tracking /\ Fates)
<1>1. Init => Fates
  BY DEF Init, Fates, OneFate, HaltedWhileBlocked, BlockedTasks, SlotTasks
<1> QED BY <1>1, TrackingInvariant, FatesStep, PTL DEF Spec

(* A task is never both completed and failed, nor blocked as well, and what  *)
(* is recorded in a list is not at work in a slot.                           *)
THEOREM FatesApart == Spec => []OneFate
BY FatesInvariant, PTL DEF Fates

(* As long as a blocked task is recorded no chain process gets past its      *)
(* start-up.                                                                 *)
THEOREM BlockedHalts == Spec => []HaltedWhileBlocked
BY FatesInvariant, PTL DEF Fates

(* The only step that fills a slot takes its task from the batch. *)
LEMMA NewSlots ==
  ASSUME TypeOK, [Next]_vars
  PROVE  \A i \in Pids : i \in slots' \ slots => pc = "launch" /\ TaskOf[i] \in batch
BY StepKinds DEF Quiet, Ends, StartRun, ResolveBlocked, Leave, TopLaunch, Record,
   Launch,
   Harvest, SettleCompleted, SettleBlocked, SettleFailed, SettleTo

(* A task in completed_tasks is never started again. *)
THEOREM CompletedStaysDone == Spec => NoRestartOfCompleted
<1>1. ASSUME TypeOK, Fates, [Next]_vars
      PROVE  [\A i \in Pids : i \in slots' \ slots => TaskOf[i] \notin completed]_vars
  BY <1>1, NewSlots DEF Fates, OneFate
<1> QED BY <1>1, FatesInvariant, PTL DEF Spec, NoRestartOfCompleted

(* A pause that was noticed is final for the run: no later step of it starts *)
(* a task.                                                                   *)
THEOREM PauseHolds == Spec => NoLaunchAfterPause
<1>1. ASSUME TypeOK, Shape, [Next]_vars
      PROVE  [pauseReq => slots' \subseteq slots]_vars
  <2>1. slots' \subseteq Pids
    BY <1>1, ShapeStep DEF TypeOK, ChainTypeOK
  <2> QED BY <1>1, <2>1, NewSlots DEF Shape
<1> QED BY <1>1, ShapeInvariant, PTL DEF Spec, NoLaunchAfterPause

-----------------------------------------------------------------------------
(* The order of the plan. *)

Over(t) == Settled(t) \/ status[t] = "failed"

(* Who writes the plan. *)
LEMMA PlanWriters ==
  ASSUME [Next]_vars
  PROVE  \/ UNCHANGED planVars
         \/ \E p \in Phases : PassGate(p) \/ ApproveGate(p)
         \/ \E i \in Pids : PilotMerges(i)
         \/ \E t \in Tasks, s \in Marks : MarkTask(t, s)
BY DEF Next, ChainStep, PilotStep, vars, RefuseRun, StartRun, ResolveBlocked,
   TopTerminal, TopPaused, TopBudget, TopLaunch, TopWait, Launch, Record, Harvest,
   SettleCompleted, SettleBlocked, SettleFailed, Drain, ScanGates, AutoPassGate,
   GatePassed, planVars, BlockGate, Signal, Crash, Reboot, PilotExits, TogglePause

(* What is over stays over and a passed gate stays passed: the operator only *)
(* marks tasks that are pending or at work, an autopilot only marks its own  *)
(* done, and nobody writes passed: false.                                    *)
LEMMA PlanGrows ==
  ASSUME TypeOK, [Next]_vars
  PROVE  /\ \A t \in Tasks : Settled(t) => Settled(t)'
         /\ \A t \in Tasks : Over(t) => Over(t)'
         /\ \A p \in Phases : passed[p] => passed'[p]
<1> USE DEF Settled, Over
<1>1. CASE UNCHANGED planVars
  BY <1>1 DEF planVars
<1>2. ASSUME NEW p \in Phases, PassGate(p) \/ ApproveGate(p)
      PROVE  /\ UNCHANGED status
             /\ \A q \in Phases : passed[q] => passed'[q]
  BY <1>2 DEF PassGate, ApproveGate, GatePassed, TypeOK, PlanTypeOK
<1>3. ASSUME NEW i \in Pids, PilotMerges(i)
      PROVE  /\ UNCHANGED passed
             /\ \A t \in Tasks : status'[t] \in {status[t], "done"}
  BY <1>3 DEF PilotMerges, TypeOK, PlanTypeOK
<1>4. ASSUME NEW u \in Tasks, NEW s \in Marks, MarkTask(u, s)
      PROVE  /\ UNCHANGED passed
             /\ \A t \in Tasks : status'[t] = status[t] \/ status[t] \in {"pending", "wip"}
  BY <1>4 DEF MarkTask, TypeOK, PlanTypeOK
<1> QED BY <1>1, <1>2, <1>3, <1>4, PlanWriters

(* A task compute_ready_set has let through stays entitled to run. *)
LEMMA MayRunStays ==
  ASSUME TypeOK, [Next]_vars, NEW t \in Tasks, MayRun(t)
  PROVE  MayRun(t)'
<1>1. Depends[t] \subseteq Tasks
  BY PlanAssumption
<1>2. PrecedingGatesPassed(t)'
  BY PlanGrows DEF PrecedingGatesPassed, PhaseTasks, MayRun
<1> QED BY <1>1, <1>2, PlanGrows DEF MayRun

(* Processes and slots come from the batch, the batch from compute_ready_set. *)
LEMMA Provenance ==
  ASSUME TypeOK, [Next]_vars
  PROVE  /\ \A i \in Pids : pilot'[i] # "off" =>
              pilot[i] # "off" \/ (pc = "launch" /\ TaskOf[i] \in batch)
         /\ batch' \subseteq batch \cup ComputeReadySet
<1>1. ASSUME NEW i \in Pids, pilot'[i] # "off", pilot[i] = "off"
      PROVE  Launch(i)
  <2>1. ~UNCHANGED procVars
    BY <1>1 DEF procVars
  <2>2. ASSUME NEW j \in Pids, PilotStep(j) PROVE pilot'[i] = "off"
    BY <1>1, <2>2 DEF PilotStep, PilotMerges, PilotExits, EndingsFrom, TypeOK,
       ProcTypeOK
  <2>3. ~Reboot /\ ~Signal
    BY <1>1 DEF Reboot, Signal
  <2>4. ASSUME NEW j \in Pids, Launch(j) PROVE j = i
    BY <1>1, <2>4 DEF Launch, TypeOK, ProcTypeOK
  <2>5. \/ \E j \in Pids : Launch(j) \/ PilotStep(j)
        \/ Reboot \/ Signal
    BY <2>1 DEF Next, ChainStep, vars, RefuseRun, StartRun, ResolveBlocked,
       TopTerminal, TopPaused, TopBudget, TopLaunch, TopWait, Record, Harvest,
       SettleCompleted, SettleBlocked, SettleFailed, Drain, ScanGates, AutoPassGate,
       PassGate, GatePassed, procVars, BlockGate, Crash, TogglePause, ApproveGate,
       MarkTask
  <2> QED BY <1>1, <2>2, <2>3, <2>4, <2>5
<1>2. batch' \subseteq batch \cup ComputeReadySet
  BY StepKinds DEF Quiet, Ends, StartRun, ResolveBlocked, Leave, TopLaunch, Ready,
     Record,
     Launch, Harvest, SettleCompleted, SettleBlocked, SettleFailed, SettleTo
<1> QED BY <1>1, <1>2 DEF Launch

(* The batch is a snapshot: it is started over several steps while the plan  *)
(* changes, so the entitlement has to be carried along with it.              *)
Order ==
  /\ DependencyOrder
  /\ \A t \in batch : MayRun(t)

LEMMA OrderStep ==
  ASSUME TypeOK, Order, [Next]_vars
  PROVE  Order'
<1>1. \A t \in ComputeReadySet : MayRun(t)
  BY DEF ComputeReadySet, MayRun
<1>2. batch \subseteq Tasks /\ ComputeReadySet \subseteq Tasks /\ TaskOf \in [Pids -> Tasks]
  BY RunAssumption DEF TypeOK, ChainTypeOK, ComputeReadySet
<1>3. \A t \in batch' : MayRun(t)'
  BY <1>1, <1>2, Provenance, MayRunStays DEF Order
<1>4. ASSUME NEW i \in Pids, pilot'[i] # "off" \/ i \in slots'
      PROVE  MayRun(TaskOf[i])'
  <2>1. pilot[i] # "off" \/ i \in slots \/ TaskOf[i] \in batch
    BY <1>4, Provenance, NewSlots
  <2> QED BY <1>2, <2>1, MayRunStays DEF Order, DependencyOrder
<1> HIDE DEF MayRun
<1> QED BY <1>3, <1>4 DEF Order, DependencyOrder

(* An autopilot at work, orphaned or not, has its dependencies done or       *)
(* skipped and the gates of all earlier phases passed, whatever happens to   *)
(* the plan and to the chain process after its start was decided.            *)
THEOREM PlanOrderHolds == Spec => []DependencyOrder
<1>1. Init => Order
  BY DEF Init, Order, DependencyOrder
<1> QED BY <1>1, ShapeInvariant, OrderStep, PTL DEF Spec, Order

(* The gates still to be evaluated belong to phases that are over. *)
DueOver == \A p \in due : \A t \in PhaseTasks(p) : Over(t)

LEMMA DueStep ==
  ASSUME TypeOK, DueOver, [Next]_vars
  PROVE  DueOver'
<1>1. \/ due' \subseteq due
      \/ due' = PendingGates
  BY StepKinds DEF Next, ChainStep, vars, chainVars, RefuseRun, StartRun,
     ResolveBlocked,
     TopTerminal, TopPaused, TopBudget, TopLaunch, TopWait, Launch, Record, Harvest,
     SettleCompleted, SettleBlocked, SettleFailed, SettleTo, Drain, ScanGates,
     AutoPassGate, PassGate, GatePassed, BlockGate, Signal, Crash, Reboot, Leave,
     PilotStep, PilotMerges, PilotExits, TogglePause, ApproveGate, MarkTask
<1>2. \A p \in due' : \A t \in PhaseTasks(p) : Over(t)
  BY <1>1 DEF DueOver, PendingGates, Over
<1>3. \A p : PhaseTasks(p)' = PhaseTasks(p) /\ PhaseTasks(p) \subseteq Tasks
  BY DEF PhaseTasks
<1> QED BY <1>2, <1>3, PlanGrows DEF DueOver

(* The chain opens a gate only when the phase is over in the plan as it is   *)
(* then, not merely in the snapshot the evaluation started from.             *)
THEOREM GatesOpenInOrder == Spec => GateOpensAfterPhase
<1>1. Init => DueOver
  BY DEF Init, DueOver
<1>2. ASSUME TypeOK, DueOver, [Next]_vars,
             NEW p \in Phases, pc = "gate", due' # due, passed'[p], ~passed[p]
      PROVE  \A t \in PhaseTasks(p) : Over(t)
  <2>1. p \in due
    <3>1. ASSUME NEW q \in Phases, PassGate(q) PROVE q \in due /\ passed' \in
                   {passed, [passed EXCEPT ![q] = TRUE]}
      BY <3>1 DEF PassGate, FirstDue
    <3>2. ASSUME NEW q \in Phases, ApproveGate(q) PROVE due' = due
      BY <3>2 DEF ApproveGate, chainVars
    <3>3. UNCHANGED passed \/ \E q \in Phases : PassGate(q) \/ ApproveGate(q)
      BY <1>2, PlanWriters DEF planVars, PilotMerges, MarkTask
    <3> QED BY <1>2, <3>1, <3>2, <3>3 DEF TypeOK, PlanTypeOK
  <2> QED BY <1>2, <2>1 DEF DueOver
<1>3. ASSUME TypeOK, DueOver, [Next]_vars
      PROVE  [\A p \in Phases : (pc = "gate" /\ due' # due /\ passed'[p] /\ ~passed[p]) =>
                \A t \in PhaseTasks(p) : Settled(t) \/ status[t] = "failed"]_vars
  BY <1>2, <1>3 DEF Over
<1> QED BY <1>1, <1>3, ShapeInvariant, DueStep, PTL DEF Spec, GateOpensAfterPhase
-----------------------------------------------------------------------------
(* What a run leaves undone. *)

(* Every autopilot at work has its wrapper, and the record or the run has    *)
(* its pid: a run is refused until those of the run before have ended.       *)
Ours ==
  \A i \in Pids : pilot[i] # "off" =>
    i \in wrapper /\ (i \in active \/ (pc = "record" /\ i = current))

(* Once nothing runs any more, no gate is overlooked: the snapshot of        *)
(* evaluate_pending_phase_gates has those that are to be evaluated.          *)
GatesSeen ==
  slots = {} =>
    /\ pc = "gate" => PendingGates \subseteq due
    /\ pc = "top" => PendingGates = {}

(* No chain process is signalled or killed but with all others, nobody edits *)
(* the statuses by hand, and a gate that passes is written to the plan.      *)
Undisturbed ==
  /\ Disturbances \cap {"signal", "crash"} = {} /\ Marks = {}
  /\ \A p \in Phases : GateKind[p] \notin {"empty", "unmatched"}

LEMMA OursStep ==
  ASSUME TypeOK, Shape, Tracking, Undisturbed, Ours, [Next]_vars
  PROVE  Ours'
<1>a. wrapper \subseteq Pids /\ pilot \in [Pids -> {"off", "working", "merged"}]
  BY DEF TypeOK, ProcTypeOK
<1>1. ASSUME NEW f \in FlagChoices, StartRun(f) PROVE Ours'
  BY <1>1 DEF StartRun, Ours, procVars
<1>2. ASSUME NEW clean \in BOOLEAN, ResolveBlocked(clean) PROVE Ours'
  BY <1>2 DEF ResolveBlocked, Leave, Ours, procVars
<1>3. ASSUME TopTerminal \/ TopPaused \/ TopBudget \/ TopLaunch \/ TopWait \/ Drain \/ ScanGates
      PROVE  Ours'
  BY <1>3 DEF TopTerminal, TopPaused, TopBudget, TopLaunch, TopWait, Drain, ScanGates, Leave,
     Ours, procVars, stateVars
<1>4. ASSUME NEW i \in Pids, Launch(i) PROVE Ours'
  BY <1>4, <1>a DEF Launch, Ours, stateVars
<1>5. ASSUME Record PROVE Ours'
  BY <1>5 DEF Record, Ours, procVars
<1>6. ASSUME NEW i \in Pids, Harvest(i) PROVE Ours'
  <2>1. /\ i \notin wrapper /\ UNCHANGED procVars /\ active' = {j \in active : TaskOf[j] # TaskOf[i]}
        /\ pc = "poll" /\ i \in slots
    BY <1>6 DEF Harvest
  <2>2. \A j \in active : TaskOf[j] = TaskOf[i] => j = i
    BY <2>1 DEF Tracking
  <2> QED BY <2>1, <2>2 DEF Ours, procVars
<1>7. ASSUME SettleCompleted \/ SettleBlocked \/ SettleFailed PROVE Ours'
  BY <1>7 DEF SettleCompleted, SettleBlocked, SettleFailed, SettleTo, Leave, Ours, procVars
<1>8. ASSUME NEW p \in Phases, AutoPassGate(p) \/ PassGate(p) \/ BlockGate(p) PROVE Ours'
  BY <1>8 DEF AutoPassGate, PassGate, BlockGate, GatePassed, FirstDue, Leave, Ours, procVars, stateVars
<1>9. ASSUME Reboot PROVE Ours'
  BY <1>9, <1>a DEF Reboot, Ours
<1>10. ~Signal /\ ~Crash
  BY DEF Signal, Crash, Undisturbed
<1>11. ASSUME NEW i \in Pids, PilotStep(i) PROVE Ours'
  <2>1. /\ \A j \in Pids : pilot'[j] # "off" => pilot[j] # "off" /\ (j \in wrapper => j \in wrapper')
        /\ UNCHANGED <<active, pc, current>>
    <3>1. CASE PilotMerges(i)
      BY <1>a, <3>1 DEF PilotMerges, stateVars, chainVars
    <3>2. ASSUME NEW e \in Endings, PilotExits(i, e) PROVE <2>1!:
      BY <1>a, <3>2 DEF PilotExits, stateVars, chainVars
    <3> QED BY <1>11, <3>1, <3>2 DEF PilotStep
  <2> QED BY <2>1 DEF Ours
<1>12. ASSUME UNCHANGED <<procVars, active, pc, current>> PROVE Ours'
  BY <1>12 DEF Ours, procVars
<1>13. RefuseRun \/ TogglePause \/ UNCHANGED vars => UNCHANGED <<procVars, active, pc, current>>
  BY DEF RefuseRun, TogglePause, vars, stateVars, chainVars
<1>14. ASSUME NEW p \in Phases, ApproveGate(p) PROVE UNCHANGED <<procVars, active, pc, current>>
  BY <1>14 DEF ApproveGate, stateVars, chainVars
<1>15. ASSUME NEW t \in Tasks, NEW s \in Marks, MarkTask(t, s)
       PROVE  UNCHANGED <<procVars, active, pc, current>>
  BY <1>15 DEF MarkTask, stateVars, chainVars
<1> QED BY <1>1, <1>2, <1>3, <1>4, <1>5, <1>6, <1>7, <1>8, <1>9, <1>10, <1>11, <1>12, <1>13,
           <1>14, <1>15 DEF Next, ChainStep

(* How the evaluation of the gates and the top of the loop are reached, and  *)
(* what may happen in between.                                               *)
LEMMA GateSteps ==
  ASSUME [Next]_vars, pc' \in {"gate", "top"}
  PROVE  \/ ScanGates
         \/ \E p \in Phases : AutoPassGate(p) \/ PassGate(p)
         \/ UNCHANGED <<pc, due, slots>> /\ \E i \in Pids : PilotStep(i)
         \/ UNCHANGED <<pc, due, slots>> /\ \E p \in Phases : ApproveGate(p)
         \/ UNCHANGED <<pc, due, slots>> /\ \E t \in Tasks, s \in Marks : MarkTask(t, s)
         \/ UNCHANGED <<pc, due, slots, status, passed>>
BY DEF Next, ChainStep, vars, planVars, chainVars, RefuseRun, StartRun, ResolveBlocked, TopTerminal,
   TopPaused, TopBudget, TopLaunch, TopWait, Launch, Record, Harvest, SettleCompleted,
   SettleBlocked, SettleFailed, SettleTo, Drain, BlockGate, Signal, Crash, Reboot, Leave,
   PilotStep, PilotMerges, PilotExits, TogglePause, ApproveGate, MarkTask

LEMMA GatesSeenStep ==
  ASSUME TypeOK, Tracking, Undisturbed, Ours, GatesSeen, [Next]_vars
  PROVE  GatesSeen'
<1> SUFFICES ASSUME pc' \in {"gate", "top"}, slots' = {}
             PROVE  /\ pc' = "gate" => PendingGates' \subseteq due'
                    /\ pc' = "top" => PendingGates' = {}
  BY DEF GatesSeen
<1>1. UNCHANGED status /\ UNCHANGED passed => PendingGates' = PendingGates
  BY DEF PendingGates, Settled, PhaseTasks
<1>2. CASE ScanGates
  BY <1>1, <1>2 DEF ScanGates, planVars
<1>3. ASSUME NEW p \in Phases, AutoPassGate(p) \/ PassGate(p) PROVE GatesSeen'
  <2>1. /\ PassGate(p) /\ GateKind[p] = "shell" /\ pc = "gate" /\ p \in due
        /\ passed' = [passed EXCEPT ![p] = TRUE] /\ status' = status /\ slots' = slots
        /\ due' = due \ {p} /\ pc' = IF due = {p} THEN "top" ELSE "gate"
    BY <1>3 DEF AutoPassGate, PassGate, FirstDue, GatePassed, Undisturbed
  <2>2. PendingGates' \subseteq PendingGates \ {p}
    BY <2>1 DEF PendingGates, Settled, PhaseTasks, TypeOK, PlanTypeOK
  <2> QED BY <2>1, <2>2 DEF GatesSeen
<1>4. ASSUME UNCHANGED <<pc, due, slots>>, NEW i \in Pids, PilotStep(i) PROVE FALSE
  <2>1. pilot[i] # "off"
    BY <1>4 DEF PilotStep, PilotMerges, PilotExits, EndingsFrom
  <2>2. active = {} /\ pc # "record"
    BY <1>4 DEF Tracking, RecordMatchesSlots
  <2> QED BY <2>1, <2>2 DEF Ours
<1>5. ASSUME UNCHANGED <<pc, due, slots>>, NEW p \in Phases, ApproveGate(p) PROVE GatesSeen'
  <2>1. passed' = [passed EXCEPT ![p] = TRUE] /\ status' = status
    BY <1>5 DEF ApproveGate
  <2>2. PendingGates' \subseteq PendingGates
    BY <2>1 DEF PendingGates, Settled, PhaseTasks, TypeOK, PlanTypeOK
  <2> QED BY <1>5, <2>2 DEF GatesSeen
<1>6. ~\E t \in Tasks, s \in Marks : MarkTask(t, s)
  BY DEF Undisturbed
<1>7. CASE UNCHANGED <<pc, due, slots, status, passed>>
  BY <1>1, <1>7 DEF GatesSeen
<1> HIDE DEF PendingGates
<1> QED BY <1>2, <1>3, <1>4, <1>5, <1>6, <1>7, GateSteps DEF GatesSeen

(* A run has no outcome before it ends, or waits for its slots to end. *)
NoOutcome == pc \notin {"off", "drain"} => outcome = "none"

LEMMA NoOutcomeStep ==
  ASSUME NoOutcome, [Next]_vars
  PROVE  NoOutcome'
<1> USE DEF NoOutcome
<1>1. ASSUME (\E f \in FlagChoices : StartRun(f)) \/ \E clean \in BOOLEAN : ResolveBlocked(clean)
      PROVE  NoOutcome'
  BY <1>1 DEF StartRun, ResolveBlocked, Leave
<1>2. ASSUME TopTerminal \/ TopPaused \/ TopBudget \/ TopLaunch \/ TopWait \/ Drain \/ ScanGates \/ Record
             \/ \E i \in Pids : Launch(i) \/ Harvest(i)
      PROVE  NoOutcome'
  BY <1>2 DEF TopTerminal, TopPaused, TopBudget, TopLaunch, TopWait, Drain, ScanGates, Record, Launch,
     Harvest, Leave
<1>3. ASSUME SettleCompleted \/ SettleBlocked \/ SettleFailed PROVE NoOutcome'
  BY <1>3 DEF SettleCompleted, SettleBlocked, SettleFailed, SettleTo, Leave
<1>4. ASSUME NEW p \in Phases, AutoPassGate(p) \/ PassGate(p) \/ BlockGate(p) PROVE NoOutcome'
  BY <1>4 DEF AutoPassGate, PassGate, BlockGate, GatePassed, FirstDue, Leave
<1>5. ASSUME Signal \/ Crash \/ Reboot PROVE NoOutcome'
  BY <1>5 DEF Signal, Crash, Reboot, Leave
<1>6. ASSUME RefuseRun PROVE NoOutcome'
  BY <1>6 DEF RefuseRun
<1>7. ASSUME \/ TogglePause \/ UNCHANGED vars
             \/ \E i \in Pids : PilotStep(i)
             \/ \E p \in Phases : ApproveGate(p)
             \/ \E t \in Tasks, s \in Marks : MarkTask(t, s)
      PROVE  UNCHANGED <<pc, outcome>>
  BY <1>7 DEF TogglePause, PilotStep, PilotMerges, PilotExits, ApproveGate, MarkTask, vars, chainVars
<1> QED BY <1>1, <1>2, <1>3, <1>4, <1>5, <1>6, <1>7 DEF Next, ChainStep

(* When a run says that the plan is complete, blocked or failed, there is no *)
(* task left that could start: none that is pending, whose dependencies and  *)
(* earlier phases are done or skipped.  It takes runs that are not killed    *)
(* under their autopilots and a plan nobody edits meanwhile -- an orphan's   *)
(* merge, or a mark, between the evaluation of the gates and the terminal    *)
(* check would go unseen -- and gates whose passing is written to the plan.  *)
THEOREM NothingLeft ==
  ASSUME Undisturbed
  PROVE  Spec => StopsOnlyWhenDone
<1>1. Init => Ours /\ GatesSeen /\ NoOutcome
  BY DEF Init, Ours, GatesSeen, NoOutcome
<1>2. ASSUME TypeOK, Shape, Tracking, Ours, GatesSeen, NoOutcome, [Next]_vars
      PROVE  Ours' /\ GatesSeen' /\ NoOutcome'
  BY <1>2, OursStep, GatesSeenStep, NoOutcomeStep
<1>3. ASSUME TypeOK, GatesSeen, NoOutcome, [Next]_vars,
             pc = "top", outcome' \in {"complete", "plan_blocked", "plan_failed"},
             vars' # vars, NEW t \in Tasks, Startable(t)
      PROVE  FALSE
  <2>1. TopTerminal
    <3>1. outcome = "none"
      BY <1>3 DEF NoOutcome
    <3>2. outcome' # outcome /\ pc = "top"
      BY <1>3, <3>1
    <3>3. ~TopPaused /\ ~TopBudget /\ ~TopLaunch /\ ~TopWait
      BY <1>3, <3>1 DEF TopPaused, TopBudget, TopLaunch, TopWait, Leave
    <3>4. ~(\E f \in FlagChoices : StartRun(f)) /\ ~(\E clean \in BOOLEAN : ResolveBlocked(clean))
          /\ ~RefuseRun /\ ~Drain /\ ~ScanGates /\ ~Record
          /\ ~\E i \in Pids : Launch(i) \/ Harvest(i)
      BY <3>2 DEF StartRun, ResolveBlocked, RefuseRun, Drain, ScanGates, Record, Launch, Harvest
    <3>5. ~SettleCompleted /\ ~SettleBlocked /\ ~SettleFailed
          /\ ~\E p \in Phases : AutoPassGate(p) \/ PassGate(p) \/ BlockGate(p)
      BY <3>2 DEF SettleCompleted, SettleBlocked, SettleFailed, AutoPassGate, PassGate, BlockGate, FirstDue
    <3>6. ~Signal /\ ~Crash /\ ~Reboot
      BY <1>3 DEF Signal, Crash, Reboot, Leave
    <3>7. ~TogglePause /\ ~(\E i \in Pids : PilotStep(i)) /\ ~(\E p \in Phases : ApproveGate(p))
          /\ ~\E u \in Tasks, s \in Marks : MarkTask(u, s)
      BY <3>2 DEF TogglePause, PilotStep, PilotMerges, PilotExits, ApproveGate, MarkTask, chainVars
    <3> QED BY <1>3, <3>3, <3>4, <3>5, <3>6, <3>7 DEF Next, ChainStep
  <2>2. PendingGates = {} /\ Ready = {} /\ slots = {}
    BY <1>3, <2>1 DEF TopTerminal, GatesSeen
  <2>3. PrecedingGatesPassed(t)
    <3> SUFFICES ASSUME NEW p \in Phases, p < PhaseOf[t], PhaseTasks(p) # {}, GateKind[p] # "none",
                        ~passed[p]
                 PROVE  FALSE
      BY DEF PrecedingGatesPassed
    <3>1. \A u \in PhaseTasks(p) : Settled(u)
      BY <1>3 DEF Startable, PhaseTasks
    <3>2. p \in PendingGates
      BY <3>1 DEF PendingGates, Settled
    <3> QED BY <2>2, <3>2
  <2>4. t \in ComputeReadySet /\ t \notin completed \cup failed
    BY <1>3, <2>3 DEF ComputeReadySet, Startable
  <2>5. SlotTasks = {}
    BY <2>2 DEF SlotTasks
  <2> QED BY <2>2, <2>4, <2>5 DEF Ready
<1>4. TypeOK /\ GatesSeen /\ NoOutcome /\ [Next]_vars
        => [(pc = "top" /\ outcome' \in {"complete", "plan_blocked", "plan_failed"})
              => \A t \in Tasks : ~Startable(t)]_vars
  BY <1>3
<1> QED BY <1>1, <1>2, <1>4, TrackingInvariant, PTL DEF Spec, StopsOnlyWhenDone
=============================================================================
