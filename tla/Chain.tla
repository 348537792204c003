------------------------------- MODULE Chain -------------------------------
(***************************************************************************)
(* The plan-level scheduler `autopilot-chain.sh run`.                      *)
(*                                                                         *)
(* One chain process reads the plan (execution-plan.yaml), keeps its own   *)
(* record in chain-state.json, starts one `autopilot.sh --full` per ready  *)
(* task inside a background wrapper subshell, polls the wrappers, settles  *)
(* each finished task and evaluates phase gates.  The chain writes nothing *)
(* of a task's status to the plan: the autopilot that merges does.         *)
(*                                                                         *)
(* A chain process may be signalled or killed between any two of its steps *)
(* and started again; wrappers and autopilots outlive it.  A process id is *)
(* a name that is reused once nothing refers to it any more, so behaviours *)
(* are unbounded while the state space stays finite.  Which name a process *)
(* gets is of no consequence: each name is kept for processes of one task, *)
(* and TaskOf bounds how many processes of a task exist at one time.       *)
(***************************************************************************)
EXTENDS Integers, FiniteSets

CONSTANTS
  Tasks,          \* the ids of the plan's tasks
  NumPhases,      \* the plan's phases are 1..NumPhases, in file order
  PhaseOf,        \* the phase a task is listed under
  Depends,        \* a task's `depends:` list
  Manual,         \* the tasks with `autopilot: false`
  GateKind,       \* what a phase's gate holds, see GateKinds
  Verdicts,       \* what a gate's shell and integration checks may answer
  MaxParallel,    \* --max-parallel
  MaxTasks,       \* --max-tasks
  FlagChoices,    \* the combinations of the other flags runs are started with
  Endings,        \* the ways an autopilot may end, see AllEndings
  Marks,          \* the statuses an operator writes into the plan by hand
  Disturbances,   \* which of pause / approve / signal / crash / reboot happen
  Pids,           \* process ids of wrapper subshells
  NoPid,          \* no process id
  TaskOf          \* the task a process id stands for, see below

Phases == 1 .. NumPhases

(* A gate is absent; has an empty checklist; only shell and integration     *)
(* items; an item for a human; or only shell items in a phase block the     *)
(* in-place substitution does not match, so that it cannot be persisted.    *)
GateKinds == {"none", "empty", "shell", "human", "unmatched"}
Statuses == {"pending", "wip", "done", "skipped", "failed"}
Reasons == {"merge_conflict", "lock_timeout", "dirty_main", "unknown_runner_flag"}
FlagSet == [strict: BOOLEAN, continue: BOOLEAN, retry: BOOLEAN, stop: BOOLEAN]

(* The ways an autopilot ends.  Only its exit code and the reason sentinel  *)
(* it leaves reach the chain.                                               *)
AllEndings == {"merged_ok", "merged_bad", "paused", "failed", "late_timeout",
               "conflict", "timeout", "dirty", "bad_flag"}

Code(e) == CASE e \in {"merged_ok", "paused"} -> 0
             [] e \in {"conflict", "timeout", "dirty", "bad_flag"} -> 2
             [] OTHER -> 1        \* also "none": no exit file to read

Sentinel(e) == CASE e \in {"timeout", "late_timeout"} -> "lock_timeout"
                 [] e = "dirty" -> "dirty_main"
                 [] e = "bad_flag" -> "unknown_runner_flag"
                 [] OTHER -> "none"

ASSUME PlanAssumption ==
  /\ NumPhases \in Nat
  /\ PhaseOf \in [Tasks -> Phases]
  /\ Depends \in [Tasks -> SUBSET Tasks]
  /\ Manual \subseteq Tasks
  /\ GateKind \in [Phases -> GateKinds]
  /\ IsFiniteSet(Tasks)
ASSUME RunAssumption ==
  /\ Verdicts \subseteq BOOLEAN
  /\ MaxParallel \in Nat
  /\ MaxTasks \in Nat
  /\ FlagChoices \subseteq FlagSet
  /\ Endings \subseteq AllEndings
  /\ Marks \subseteq Statuses \ {"pending"}
  /\ TaskOf \in [Pids -> Tasks]
  /\ NoPid \notin Pids

VARIABLES
  \* execution-plan.yaml
  status,      \* a task's status
  passed,      \* a phase's gate.passed
  \* chain-state.json
  active,      \* pids of active_tasks; the entry's id is TaskOf[pid]
  completed,   \* completed_tasks
  failed,      \* failed_tasks
  blocked,     \* blocked_tasks: records [task, reason]
  \* files in the plan directory
  exitFile,    \* .chain-exit-<task>: how the autopilot ended, or "none"
  reasonFile,  \* .chain-blocked-reason-<task>, or "none"
  pauseFile,   \* chain.PAUSE exists
  \* processes
  wrapper,     \* pids of the wrapper subshells that are alive
  pilot,       \* what the autopilot below a pid does: off, working, merged
  \* the chain process
  pc,          \* where it is; "off" when there is none
  flags,       \* the flags it was started with
  slots,       \* ACTIVE_SLOTS / CHILD_PIDS
  batch,       \* batch_ids not started yet
  due,         \* phases of gate_check_output not evaluated yet
  launched,    \* tasks_launched
  pauseReq,    \* PAUSE_REQUESTED
  current,     \* the slot being recorded or settled
  got,         \* what was read from the exit file being settled
  lastPhase,   \* LAST_CHAIN_PHASE, 0 if none
  outcome      \* how the last chain process ended

planVars  == <<status, passed>>
stateVars == <<active, completed, failed, blocked>>
fileVars  == <<exitFile, reasonFile, pauseFile>>
procVars  == <<wrapper, pilot>>
chainVars == <<pc, flags, slots, batch, due, launched, pauseReq, current, got,
               lastPhase, outcome>>
vars == <<planVars, stateVars, fileVars, procVars, chainVars>>

NoFlags == [strict |-> FALSE, continue |-> FALSE, retry |-> FALSE, stop |-> FALSE]

Init ==
  /\ status = [t \in Tasks |-> "pending"]
  /\ passed = [p \in Phases |-> FALSE]
  /\ active = {} /\ completed = {} /\ failed = {} /\ blocked = {}
  /\ exitFile = [t \in Tasks |-> "none"]
  /\ reasonFile = [t \in Tasks |-> "none"]
  /\ pauseFile = FALSE
  /\ wrapper = {}
  /\ pilot = [i \in Pids |-> "off"]
  /\ pc = "off" /\ flags = NoFlags /\ slots = {} /\ batch = {} /\ due = {}
  /\ launched = 0 /\ pauseReq = FALSE /\ current = NoPid /\ got = "none"
  /\ lastPhase = 0 /\ outcome = "none"

-----------------------------------------------------------------------------
(* What is read from the plan. *)

Settled(t) == status[t] \in {"done", "skipped"}

PhaseTasks(p) == {t \in Tasks : PhaseOf[t] = p}

(* preceding_gates_passed: only phases that have tasks are in phase_ids. *)
PrecedingGatesPassed(t) ==
  \A p \in Phases :
    (p < PhaseOf[t] /\ PhaseTasks(p) # {} /\ GateKind[p] # "none") => passed[p]

(* Faults: the gates of earlier phases overlooked; a failed dependency taken *)
(* for a terminal one.                                                       *)
ReadySetIgnoringGates ==
  {t \in Tasks : /\ status[t] = "pending"
                 /\ t \notin Manual
                 /\ \A d \in Depends[t] : Settled(d)}
ReadySetAfterFailedDeps ==
  {t \in Tasks : /\ status[t] = "pending"
                 /\ t \notin Manual
                 /\ \A d \in Depends[t] : Settled(d) \/ status[d] = "failed"
                 /\ PrecedingGatesPassed(t)}

(* compute_ready_set *)
ComputeReadySet ==
  {t \in Tasks : /\ status[t] = "pending"
                 /\ t \notin Manual
                 /\ \A d \in Depends[t] : Settled(d)
                 /\ PrecedingGatesPassed(t)}

SlotTasks == {TaskOf[i] : i \in slots}

(* Faults: one of the three exclusions forgotten. *)
ReadyDespiteSlot == ComputeReadySet \ (completed \cup failed)
ReadyDespiteCompleted == ComputeReadySet \ (SlotTasks \cup failed)
ReadyDespiteFailed == ComputeReadySet \ (SlotTasks \cup completed)

(* ready_json after the exclusion of what chain-state.json records. *)
Ready == ComputeReadySet \ (SlotTasks \cup completed \cup failed)

(* Fault: `any` for `all` over a phase's tasks. *)
PendingGatesAny ==
  {p \in Phases : /\ \E t \in PhaseTasks(p) : Settled(t)
                  /\ GateKind[p] # "none"
                  /\ ~passed[p]}

(* The phases evaluate_pending_phase_gates finds: all tasks terminal, not all *)
(* failed, a gate that is not passed.                                         *)
PendingGates ==
  {p \in Phases : /\ PhaseTasks(p) # {}
                  /\ \A t \in PhaseTasks(p) : Settled(t) \/ status[t] = "failed"
                  /\ \E t \in PhaseTasks(p) : status[t] # "failed"
                  /\ GateKind[p] # "none"
                  /\ ~passed[p]}

(* The terminal check's verdict on a plan with nothing ready. *)
AllDone ==
  IF \E t \in Tasks : status[t] = "failed" THEN "plan_failed"
  ELSE IF \E t \in Tasks : status[t] = "pending" THEN "plan_blocked"
  ELSE "complete"

PauseSeen == pauseReq \/ pauseFile

(* Faults: the budget counted without the tasks already launched; the slots  *)
(* not counted at all; a pause that does not hold back launches.             *)
LaunchCountOverBudget ==
  LET free == IF MaxParallel > Cardinality(slots)
                THEN MaxParallel - Cardinality(slots) ELSE 0
      least(a, b) == IF a < b THEN a ELSE b
  IN  IF launched >= MaxTasks \/ PauseSeen THEN 0
      ELSE least(Cardinality(Ready), free)
LaunchCountUncapped ==
  LET least(a, b) == IF a < b THEN a ELSE b
  IN  IF launched >= MaxTasks \/ PauseSeen THEN 0
      ELSE least(Cardinality(Ready), MaxTasks - launched)
LaunchCountDespitePause ==
  LET free == IF MaxParallel > Cardinality(slots)
                THEN MaxParallel - Cardinality(slots) ELSE 0
      least(a, b) == IF a < b THEN a ELSE b
  IN  IF launched >= MaxTasks THEN 0
      ELSE least(Cardinality(Ready), least(free, MaxTasks - launched))

LaunchCount ==
  LET free == IF MaxParallel > Cardinality(slots)
                THEN MaxParallel - Cardinality(slots) ELSE 0
      remaining == MaxTasks - launched
      least(a, b) == IF a < b THEN a ELSE b
  IN  IF launched >= MaxTasks \/ PauseSeen THEN 0
      ELSE least(Cardinality(Ready), least(free, remaining))

-----------------------------------------------------------------------------
(* The chain process ends: what it held in memory is gone. *)
Leave(how) ==
  /\ pc' = "off" /\ outcome' = how
  /\ flags' = NoFlags /\ slots' = {} /\ batch' = {} /\ due' = {}
  /\ launched' = 0 /\ pauseReq' = FALSE /\ current' = NoPid /\ got' = "none"
  /\ lastPhase' = 0

(* Start-up finds a live pid in active_tasks: "chain already running". *)
RefuseRun ==
  /\ pc = "off" /\ MaxTasks > 0
  /\ active \cap wrapper # {}
  /\ outcome' = "refused"
  /\ UNCHANGED <<planVars, stateVars, fileVars, procVars, pc, flags, slots, batch,
                 due, launched, pauseReq, current, got, lastPhase>>

(* Fault: the reset of active_tasks left out. *)
StartRunKeepingActive(f) ==
  /\ pc = "off" /\ MaxTasks > 0
  /\ active \cap wrapper = {}
  /\ flags' = f /\ pc' = "resolve" /\ outcome' = "none"
  /\ UNCHANGED <<planVars, stateVars, fileVars, procVars, slots,
                 batch, due, launched, pauseReq, current, got, lastPhase>>

(* Crash recovery: every recorded pid is dead, the entries are dropped. *)
StartRun(f) ==
  /\ pc = "off" /\ MaxTasks > 0
  /\ active \cap wrapper = {}
  /\ active' = {}
  /\ flags' = f /\ pc' = "resolve" /\ outcome' = "none"
  /\ UNCHANGED <<planVars, completed, failed, blocked, fileVars, procVars, slots,
                 batch, due, launched, pauseReq, current, got, lastPhase>>

(* The oracle of one blocked entry: a dirty main is retried once main is clean, *)
(* anything else is over once the plan says done.                               *)
Retried(clean) == {b \in blocked : b.reason = "dirty_main" /\ clean}
Resolved == {b \in blocked : b.reason # "dirty_main" /\ status[b.task] = "done"}
StillBlocked(clean) == blocked \ (Retried(clean) \cup Resolved)

(* Fault: the chain goes on although entries are left. *)
ResolveBlockedWithoutHalt(clean) ==
  /\ pc = "resolve"
  /\ blocked' = StillBlocked(clean)
  /\ completed' = completed \cup {b.task : b \in Resolved}
  /\ failed' = IF flags.retry THEN {} ELSE failed
  /\ pc' = "scan"
  /\ UNCHANGED <<planVars, active, fileVars, procVars, flags, slots, batch, due,
                 launched, pauseReq, current, got, lastPhase, outcome>>

(* Blocked-tasks auto-resolution, the halt when an entry is left, and the *)
(* failed-tasks reset of --retry-failed.                                  *)
ResolveBlocked(clean) ==
  /\ pc = "resolve"
  /\ blocked' = StillBlocked(clean)
  /\ completed' = completed \cup {b.task : b \in Resolved}
  /\ \/ /\ StillBlocked(clean) # {}
        /\ Leave("halted")
        /\ UNCHANGED failed
     \/ /\ StillBlocked(clean) = {}
        /\ failed' = IF flags.retry THEN {} ELSE failed
        /\ pc' = "scan"
        /\ UNCHANGED <<flags, slots, batch, due, launched, pauseReq, current, got,
                       lastPhase, outcome>>
  /\ UNCHANGED <<planVars, active, fileVars, procVars>>

-----------------------------------------------------------------------------
(* The top of the main loop: read the plan, then decide. *)

(* Fault: the terminal check made before the exclusions are applied, as it *)
(* was until the silent hang of 2026-05-05.                                *)
TopTerminalBeforeExclusion ==
  /\ pc = "top" /\ ComputeReadySet = {} /\ slots = {}
  /\ Leave(AllDone)
  /\ UNCHANGED <<planVars, stateVars, fileVars, procVars>>

TopTerminal ==
  /\ pc = "top" /\ Ready = {} /\ slots = {}
  /\ Leave(AllDone)
  /\ UNCHANGED <<planVars, stateVars, fileVars, procVars>>

TopPaused ==
  /\ pc = "top" /\ Ready # {} /\ slots = {} /\ PauseSeen
  /\ Leave("paused")
  /\ UNCHANGED <<planVars, stateVars, fileVars, procVars>>

TopBudget ==
  /\ pc = "top" /\ Ready # {} /\ slots = {} /\ ~PauseSeen
  /\ launched >= MaxTasks
  /\ Leave("budget")
  /\ UNCHANGED <<planVars, stateVars, fileVars, procVars>>

(* batch_ids: the first LaunchCount ready tasks; their order in the file is *)
(* left open.                                                               *)
TopLaunch ==
  /\ pc = "top" /\ LaunchCount > 0
  /\ \E S \in SUBSET Ready : Cardinality(S) = LaunchCount /\ batch' = S
  /\ pauseReq' = PauseSeen /\ pc' = "launch"
  /\ UNCHANGED <<planVars, stateVars, fileVars, procVars, flags, slots, due,
                 launched, current, got, lastPhase, outcome>>

TopWait ==
  /\ pc = "top" /\ LaunchCount = 0 /\ slots # {}
  /\ pauseReq' = PauseSeen /\ pc' = "poll"
  /\ UNCHANGED <<planVars, stateVars, fileVars, procVars, flags, slots, batch, due,
                 launched, current, got, lastPhase, outcome>>

(* A pid nothing runs under and nothing refers to. *)
Free(i) ==
  /\ i \notin wrapper /\ pilot[i] = "off"
  /\ i \notin active /\ i \notin slots

(* Start the wrapper subshell of one task of the batch. *)
Launch(i) ==
  /\ pc = "launch" /\ TaskOf[i] \in batch /\ Free(i)
  /\ exitFile' = [exitFile EXCEPT ![TaskOf[i]] = "none"]
  /\ wrapper' = wrapper \cup {i}
  /\ pilot' = [pilot EXCEPT ![i] = "working"]
  /\ slots' = slots \cup {i}
  /\ batch' = batch \ {TaskOf[i]}
  /\ current' = i /\ pc' = "record"
  /\ UNCHANGED <<planVars, stateVars, reasonFile, pauseFile, flags, due, launched,
                 pauseReq, got, lastPhase, outcome>>

(* Only after the start is the pid appended to active_tasks. *)
Record ==
  /\ pc = "record"
  /\ active' = active \cup {current}
  /\ launched' = launched + 1
  /\ current' = NoPid
  /\ pc' = IF batch = {} THEN "poll" ELSE "launch"
  /\ UNCHANGED <<planVars, completed, failed, blocked, fileVars, procVars, flags,
                 slots, batch, due, pauseReq, got, lastPhase, outcome>>

(* The poll finds a dead wrapper: its exit file is consumed, its slot freed *)
(* and every active_tasks entry of its task removed.                        *)
Harvest(i) ==
  /\ pc = "poll" /\ i \in slots \ wrapper
  /\ got' = exitFile[TaskOf[i]]
  /\ exitFile' = [exitFile EXCEPT ![TaskOf[i]] = "none"]
  /\ slots' = slots \ {i}
  /\ active' = {j \in active : TaskOf[j] # TaskOf[i]}
  /\ current' = i /\ pc' = "settle"
  /\ UNCHANGED <<planVars, completed, failed, blocked, reasonFile, pauseFile, procVars,
                 flags, batch, due, launched, pauseReq, lastPhase, outcome>>

SettleTo(where, how) ==
  /\ pc' = where /\ outcome' = how
  /\ current' = NoPid /\ got' = "none"
  /\ UNCHANGED <<flags, slots, batch, due, launched, pauseReq, lastPhase>>

(* Exit code 0.  Under --stop-after-phase the task's summary may say partial: *)
(* then the chain only waits for the other slots and stops.                   *)
SettleCompleted ==
  /\ pc = "settle" /\ Code(got) = 0
  /\ completed' = completed \cup {TaskOf[current]}
  /\ \/ SettleTo("scan", "none")
     \/ flags.stop /\ SettleTo("drain", "stopped")
  /\ UNCHANGED <<planVars, active, failed, blocked, fileVars, procVars>>

BlockedReason(t) ==
  IF reasonFile[t] = "none" THEN "merge_conflict" ELSE reasonFile[t]

(* Exit code 2.  The sentinel gives the reason and is consumed. *)
SettleBlocked ==
  LET t == TaskOf[current]
  IN  /\ pc = "settle" /\ Code(got) = 2
      /\ reasonFile' = [reasonFile EXCEPT ![t] = "none"]
      /\ \/ /\ BlockedReason(t) = "unknown_runner_flag"
            /\ SettleTo("drain", "bad_flag")
            /\ UNCHANGED blocked
         \/ /\ BlockedReason(t) # "unknown_runner_flag"
            /\ blocked' = blocked \cup {[task |-> t, reason |-> BlockedReason(t)]}
            /\ Leave("task_blocked")
      /\ UNCHANGED <<planVars, active, completed, failed, exitFile, pauseFile, procVars>>

(* Any other exit code, a missing exit file included. *)
SettleFailed ==
  /\ pc = "settle" /\ Code(got) = 1
  /\ failed' = failed \cup {TaskOf[current]}
  /\ IF flags.continue THEN SettleTo("scan", "none") ELSE SettleTo("drain", "task_failed")
  /\ UNCHANGED <<planVars, active, completed, blocked, fileVars, procVars>>

(* `wait` for every slot, without harvesting, then exit. *)
Drain ==
  /\ pc = "drain" /\ slots \cap wrapper = {}
  /\ Leave(outcome)
  /\ UNCHANGED <<planVars, stateVars, fileVars, procVars>>

-----------------------------------------------------------------------------
(* evaluate_pending_phase_gates: a snapshot of the phases to evaluate. *)
ScanGates ==
  /\ pc = "scan"
  /\ due' = PendingGates
  /\ pc' = IF PendingGates = {} THEN "top" ELSE "gate"
  /\ UNCHANGED <<planVars, stateVars, fileVars, procVars, flags, slots, batch,
                 launched, pauseReq, current, got, lastPhase, outcome>>

FirstDue(p) == pc = "gate" /\ p \in due /\ \A q \in due : p <= q

GatePassed(p) ==
  /\ due' = due \ {p}
  /\ pc' = IF due = {p} THEN "top" ELSE "gate"
  /\ lastPhase' = p
  /\ UNCHANGED <<stateVars, fileVars, procVars, status, flags, slots, batch,
                 launched, pauseReq, current, got, outcome>>

(* An empty checklist: gate_passed is emitted, the plan is left as it is. *)
AutoPassGate(p) ==
  /\ FirstDue(p) /\ GateKind[p] = "empty"
  /\ GatePassed(p)
  /\ UNCHANGED passed

(* Fault: a passed gate announced but not written to the plan. *)
PassGateUnsaved(p) ==
  /\ FirstDue(p) /\ ~flags.strict
  /\ GateKind[p] \in {"shell", "unmatched"} /\ TRUE \in Verdicts
  /\ GatePassed(p)
  /\ UNCHANGED passed

(* All checks pass: passed: true is written into the plan where it can be. *)
PassGate(p) ==
  /\ FirstDue(p) /\ ~flags.strict
  /\ GateKind[p] \in {"shell", "unmatched"} /\ TRUE \in Verdicts
  /\ GatePassed(p)
  /\ passed' = IF GateKind[p] = "shell" THEN [passed EXCEPT ![p] = TRUE] ELSE passed

(* gate_blocked: evaluate_gate returns 1 and `set -e` ends the chain, slots *)
(* or not.                                                                  *)
BlockGate(p) ==
  /\ FirstDue(p) /\ GateKind[p] # "empty"
  /\ flags.strict \/ GateKind[p] = "human" \/ FALSE \in Verdicts
  /\ Leave("gate_blocked")
  /\ UNCHANGED <<planVars, stateVars, fileVars, procVars>>

-----------------------------------------------------------------------------
(* SIGTERM or SIGINT: cleanup_chain kills the pids in CHILD_PIDS, which are *)
(* the wrapper subshells; the autopilots below them live on.                *)
Signal ==
  /\ "signal" \in Disturbances
  /\ pc \notin {"off", "resolve"}
  /\ wrapper' = wrapper \ slots
  /\ Leave("signal")
  /\ UNCHANGED <<planVars, stateVars, fileVars, pilot>>

(* SIGKILL: the wrappers are orphaned. *)
Crash ==
  /\ "crash" \in Disturbances /\ pc # "off"
  /\ Leave("crashed")
  /\ UNCHANGED <<planVars, stateVars, fileVars, procVars>>

(* The machine goes down, or its terminal: every process is gone. *)
Reboot ==
  /\ "reboot" \in Disturbances
  /\ wrapper' = {} /\ pilot' = [i \in Pids |-> "off"]
  /\ Leave("rebooted")
  /\ UNCHANGED <<planVars, stateVars, fileVars>>

-----------------------------------------------------------------------------
(* The autopilot of a task merges: commit-finalize.sh marks the task done. *)
PilotMerges(i) ==
  /\ pilot[i] = "working" /\ "merged_ok" \in Endings
  /\ pilot' = [pilot EXCEPT ![i] = "merged"]
  /\ status' = [status EXCEPT ![TaskOf[i]] = "done"]
  /\ UNCHANGED <<passed, stateVars, fileVars, wrapper, chainVars>>

(* The mark may be on main before the merge, where only main's plan has the  *)
(* task; that merge may then conflict.                                       *)
EndingsFrom(where) ==
  CASE where = "merged"  -> Endings \cap {"merged_ok", "merged_bad", "conflict"}
    [] where = "working" -> Endings \ {"merged_ok", "merged_bad"}
    [] OTHER             -> {}

(* It exits, leaving its sentinel; the wrapper, if it is still there, writes *)
(* the exit file and goes too.                                               *)
PilotExits(i, e) ==
  /\ e \in EndingsFrom(pilot[i])
  /\ pilot' = [pilot EXCEPT ![i] = "off"]
  /\ reasonFile' = IF Sentinel(e) = "none" THEN reasonFile
                   ELSE [reasonFile EXCEPT ![TaskOf[i]] = Sentinel(e)]
  /\ exitFile' = IF i \in wrapper THEN [exitFile EXCEPT ![TaskOf[i]] = e] ELSE exitFile
  /\ wrapper' = wrapper \ {i}
  /\ UNCHANGED <<planVars, stateVars, pauseFile, chainVars>>

-----------------------------------------------------------------------------
(* The operator, or the dashboard for them: touch or remove chain.PAUSE. *)
TogglePause ==
  /\ "pause" \in Disturbances
  /\ pauseFile' = ~pauseFile
  /\ UNCHANGED <<planVars, stateVars, exitFile, reasonFile, procVars, chainVars>>

(* finalize-plan.sh approve-gate *)
ApproveGate(p) ==
  /\ "approve" \in Disturbances
  /\ GateKind[p] \notin {"none", "unmatched"} /\ ~passed[p]
  /\ passed' = [passed EXCEPT ![p] = TRUE]
  /\ UNCHANGED <<status, stateVars, fileVars, procVars, chainVars>>

(* A manual task is carried out, a merge conflict resolved by hand: the plan *)
(* is edited for a task no autopilot is working on.                          *)
MarkTask(t, s) ==
  /\ status[t] \in {"pending", "wip"} /\ status[t] # s
  /\ \A i \in Pids : TaskOf[i] = t => pilot[i] = "off"
  /\ status' = [status EXCEPT ![t] = s]
  /\ UNCHANGED <<passed, stateVars, fileVars, procVars, chainVars>>

-----------------------------------------------------------------------------
ChainStep ==
  \/ \E clean \in BOOLEAN : ResolveBlocked(clean)
  \/ TopTerminal \/ TopPaused \/ TopBudget \/ TopLaunch \/ TopWait
  \/ \E i \in Pids : Launch(i)
  \/ Record
  \/ \E i \in Pids : Harvest(i)
  \/ SettleCompleted \/ SettleBlocked \/ SettleFailed \/ Drain
  \/ ScanGates
  \/ \E p \in Phases : AutoPassGate(p) \/ PassGate(p) \/ BlockGate(p)

PilotStep(i) == PilotMerges(i) \/ \E e \in Endings : PilotExits(i, e)

Next ==
  \/ RefuseRun
  \/ \E f \in FlagChoices : StartRun(f)
  \/ ChainStep
  \/ Signal \/ Crash \/ Reboot
  \/ \E i \in Pids : PilotStep(i)
  \/ TogglePause
  \/ \E p \in Phases : ApproveGate(p)
  \/ \E t \in Tasks, s \in Marks : MarkTask(t, s)

Spec == Init /\ [][Next]_vars

(* A chain process that is not killed goes on (its gate checks have a       *)
(* timeout), and an autopilot ends: every phase runs under a watchdog and   *)
(* the merge lock has a bounded wait.  Nobody has to start a run.           *)
Fairness ==
  /\ WF_vars(ChainStep)
  /\ \A i \in Pids : WF_vars(PilotStep(i))

FairSpec == Spec /\ Fairness

-----------------------------------------------------------------------------
Outcomes == {"none", "refused", "halted", "plan_failed", "plan_blocked", "complete",
             "paused", "budget", "task_blocked", "stopped", "bad_flag",
             "task_failed", "gate_blocked", "signal", "crashed", "rebooted"}

PlanTypeOK ==
  /\ status \in [Tasks -> Statuses]
  /\ passed \in [Phases -> BOOLEAN]
StateTypeOK ==
  /\ active \subseteq Pids
  /\ completed \subseteq Tasks
  /\ failed \subseteq Tasks
  /\ blocked \subseteq [task : Tasks, reason : Reasons \ {"unknown_runner_flag"}]
FileTypeOK ==
  /\ exitFile \in [Tasks -> AllEndings \cup {"none"}]
  /\ reasonFile \in [Tasks -> Reasons \cup {"none"}]
  /\ pauseFile \in BOOLEAN
ProcTypeOK ==
  /\ wrapper \subseteq Pids
  /\ pilot \in [Pids -> {"off", "working", "merged"}]
ChainTypeOK ==
  /\ pc \in {"off", "resolve", "scan", "gate", "top", "launch", "record", "poll",
             "settle", "drain"}
  /\ flags \in FlagSet
  /\ slots \subseteq Pids
  /\ batch \subseteq Tasks
  /\ due \subseteq Phases
  /\ launched \in 0 .. MaxTasks
  /\ pauseReq \in BOOLEAN
  /\ current \in Pids \cup {NoPid}
  /\ pc \in {"record", "settle"} => current \in Pids
  /\ got \in AllEndings \cup {"none"}
  /\ lastPhase \in Phases \cup {0}
  /\ outcome \in Outcomes

(* Every variable keeps the shape the code's readers rely on: what the JSON *)
(* record, the sentinel and exit files and the shell arrays may hold.       *)
TypeOK == PlanTypeOK /\ StateTypeOK /\ FileTypeOK /\ ProcTypeOK /\ ChainTypeOK

(* The order of the plan, over restarts, orphans, a plan that changes while  *)
(* a batch is being started and gates approved by hand: an autopilot at work *)
(* or a task in a slot has all its dependencies done or skipped, and every   *)
(* gate of an earlier phase passed (compute_ready_set).                      *)
MayRun(t) ==
  /\ t \notin Manual
  /\ \A d \in Depends[t] : Settled(d)
  /\ PrecedingGatesPassed(t)
DependencyOrder ==
  \A i \in Pids : (pilot[i] # "off" \/ i \in slots) => MayRun(TaskOf[i])

(* --max-parallel and --max-tasks hold for a run together with the batch it  *)
(* is still starting, whatever is harvested in between.                      *)
WithinLimits ==
  /\ Cardinality(slots) <= MaxParallel
  /\ launched + (IF pc = "record" THEN 1 ELSE 0) <= MaxTasks

(* Crash recovery relies on active_tasks: while a chain process runs, the    *)
(* recorded pids are its slots, but for the one being started; so a crash    *)
(* at any other moment loses no autopilot, and no live pid of an earlier run *)
(* is forgotten by a later one.                                              *)
RecordMatchesSlots ==
  pc \notin {"off"} => active = slots \ (IF pc = "record" THEN {current} ELSE {})

(* Of the processes a task has, at most one alive is known to the chain,     *)
(* from its slots or its record: no task is started again while an earlier   *)
(* start of it, recorded by this run or one before, is alive ("chain already *)
(* running", active_ids_json).                                               *)
OneTrackedProcessPerTask ==
  \A i, j \in (slots \cup active) \cap wrapper : TaskOf[i] = TaskOf[j] => i = j

(* chain-state.json gives a task one fate: completed_tasks, failed_tasks and *)
(* blocked_tasks never share a task, and none of them names one that is in a *)
(* slot or about to be started.                                              *)
BlockedTasks == {b.task : b \in blocked}
OneFate ==
  /\ completed \cap failed = {}
  /\ (completed \cup failed) \cap BlockedTasks = {}
  /\ (completed \cup failed \cup BlockedTasks) \cap (SlotTasks \cup batch) = {}

(* A blocked task halts everything: from the harvest that records one until  *)
(* a later run has resolved it, no chain process gets past start-up          *)
(* ("don't launch dependents on a partially-merged state").                  *)
HaltedWhileBlocked == blocked # {} => pc \in {"off", "resolve"}

(* A task recorded completed is never started again, though the plan may     *)
(* still call it pending (task_completed, then a spurious task_started).     *)
NoRestartOfCompleted ==
  [][\A i \in Pids : i \in slots' \ slots => TaskOf[i] \notin completed]_vars

(* Once a run has taken note of chain.PAUSE it starts nothing more.          *)
NoLaunchAfterPause ==
  [][pauseReq => slots' \subseteq slots]_vars

(* The chain itself opens a phase's gate only when the phase is over in the  *)
(* plan as it is at that moment, though the decision was taken on a snapshot *)
(* and the checks run for minutes beside other autopilots.                   *)
GateOpensAfterPhase ==
  [][\A p \in Phases : (pc = "gate" /\ due' # due /\ passed'[p] /\ ~passed[p]) =>
       \A t \in PhaseTasks(p) : Settled(t) \/ status[t] = "failed"]_vars

(* Every run comes to an end: it completes, halts, pauses or waits for the   *)
(* operator, but never polls or loops for ever.                              *)
RunEnds == (pc # "off") ~> (pc = "off")

(* A run that stops for want of ready tasks leaves none behind that the plan *)
(* would allow: what is still pending and not recorded is manual, waits for a *)
(* task that is not settled, or for a phase that is not.  Here a phase counts *)
(* as over by its tasks, whatever the gate evaluation made of it, so the      *)
(* property needs gates that are written to the plan when their checks pass.  *)
Startable(t) ==
  /\ status[t] = "pending" /\ t \notin Manual \cup completed \cup failed
  /\ \A d \in Depends[t] : Settled(d)
  /\ \A u \in Tasks : PhaseOf[u] < PhaseOf[t] => Settled(u)
StopsOnlyWhenDone ==
  [][(pc = "top" /\ outcome' \in {"complete", "plan_blocked", "plan_failed"})
       => \A t \in Tasks : ~Startable(t)]_vars

(* "propagate SIGTERM/SIGINT to all child autopilot processes": once the     *)
(* handler has run, no autopilot of that run is at work.                     *)
SignalStopsAutopilots ==
  [][(pc # "off" /\ outcome' = "signal" /\ outcome # "signal")
       => \A i \in slots : pilot'[i] = "off"]_vars

(* "dirty_main: [...] Task was NEVER started": an entry recorded with that   *)
(* reason is of an autopilot that ended in its pre-flight check.             *)
DirtyMainNeverStarted ==
  [][\A t \in Tasks :
       [task |-> t, reason |-> "dirty_main"] \in blocked' \ blocked => got = "dirty"]_vars

(* A gate_passed event means the gate no longer holds back the next phase.   *)
PassedGateIsOpen == lastPhase # 0 => passed[lastPhase]
=============================================================================
