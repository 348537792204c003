------------------------------ MODULE Finalize ------------------------------
(***************************************************************************)
(* The finalize phase of autopilots on one checkout of main: lines         *)
(* 1424-1582 of autopilot.sh and the commit-finalize.sh they run.          *)
(*                                                                         *)
(* One finalize runs at a time, as the merge lock intends (MergeLock tells *)
(* when that fails); it may be killed between any two git commands and     *)
(* leaves the checkout as it is.  Meanwhile people edit files in the       *)
(* checkout, the chain and operators rewrite and commit the plan to pass a *)
(* gate, and others push: a pull or push may find origin moved or out of   *)
(* reach at any time.                                                      *)
(*                                                                         *)
(* Whoever changes the plan reads the whole file and writes it back in two *)
(* steps.  What is uncommitted is a set of changes: an edit, or <<i, b>>,  *)
(* where the file says of item i what the plan on main does not.           *)
(***************************************************************************)
EXTENDS Sequences, Naturals

CONSTANTS
  Tasks,         \* the tasks, each with a feature branch and a worktree
  NoTask,        \* nobody finalizes
  Gates,         \* the gates of plans
  Edits,         \* uncommitted edits outside the plan, in main's checkout
  Worlds         \* what a behaviour may be set in, see World

(* branch: in the worktree's copy of the plan; loose: as branch, but there  *)
(* is no EXECUTION_GUIDE.md, so that `git add docs/ EXECUTION_GUIDE.md`     *)
(* adds neither; markers: as branch, and the plan has a line like a         *)
(* conflict marker; main: in main's copy of the plan only; unmatched: the   *)
(* substitution of the status finds nothing to replace.                     *)
Kinds == {"branch", "loose", "markers", "main", "unmatched"}

(* How the plan lists the tasks, which gates are passed meanwhile, and a     *)
(* bound: no finalize begins on as many stash entries.                      *)
World == [kind : [Tasks -> Kinds], gates : SUBSET Gates, room : Nat \ {0}]

ASSUME FinalizeAssumption ==
  /\ NoTask \notin Tasks
  /\ Tasks \cap Gates = {}
  /\ Edits \cap ((Tasks \cup Gates) \X BOOLEAN) = {}
  /\ Worlds \subseteq World

VARIABLES
  world,        \* chosen once
  main,         \* tasks whose work is on main
  done,         \* what the plan committed on main has: tasks done, gates passed
  tree,         \* the changes that are uncommitted in the checkout
  stash,        \* git's stash, newest first: what each entry holds
  jam,          \* an operation left half done in the checkout, or "no"
  origin,       \* tasks whose work is on origin
  kept,         \* tasks whose branch and worktree exist
  extra,        \* tasks whose branch has commits that main has not
  cur, pc,      \* the task that finalizes, and the command it is at
  behind,       \* its branch lacks commits of main, until the merge step is over
  copy,         \* the content with which its python writes the plan back, if any
  gate,         \* the content and gate with which a gate's python does, if any
  overtaken,    \* history: since the merge a plan was written back that had changed
  stashed,      \* STASHED, until the pop
  merge,        \* status of the merge step: "none", "skip", "ok" or "fail"
  report        \* the task whose finalize ended last, and its PIPELINE_STATUS

kind     == world.kind
copies   == <<copy, gate, overtaken>>
checkout == <<tree, stash, jam>>
branches == <<kept, extra>>
control  == <<behind, stashed, merge, report>>
vars == <<world, copies, main, done, checkout, origin, branches, cur, pc, control>>

Places ==
  {"idle", "plan", "main", "commit", "stash", "pull", "rebase", "merge", "abort",
   "unstash", "pop", "mark", "write", "record", "push", "repull", "repush", "cleanup", "report"}

NoReport == <<NoTask, "none">>

Init ==
  /\ world \in Worlds
  /\ extra \in SUBSET Tasks           \* /commit may have merged the others
  /\ main = Tasks \ extra
  /\ done = {}
  /\ tree = {}
  /\ stash = <<>>
  /\ jam = "no"
  /\ origin = {}
  /\ kept = Tasks
  /\ cur = NoTask
  /\ pc = "idle"
  /\ behind = FALSE
  /\ copy = {} /\ gate = {} /\ overtaken = FALSE
  /\ stashed = FALSE
  /\ merge = "none"
  /\ report = NoReport

At(place) == cur \in Tasks /\ pc = place
Go(place) == pc' = place /\ UNCHANGED cur

(* The process that finalizes is gone, and its variables with it. *)
Gone ==
  /\ pc' = "idle"
  /\ cur' = NoTask
  /\ behind' = FALSE
  /\ copy' = {} /\ overtaken' = FALSE
  /\ stashed' = FALSE
  /\ merge' = "none"

EndAs(status) == Gone /\ report' = <<cur, status>>

Items == Tasks \cup Gates

(* The plan file in the checkout. *)
Plan == {i \in Items : IF i \in done THEN <<i, FALSE>> \notin tree ELSE <<i, TRUE>> \in tree}
PlanClean == tree \subseteq Edits

(* The changes that make the plan on main read as a content does. *)
Diff(content) == {<<i, TRUE>> : i \in content \ done} \cup {<<i, FALSE>> : i \in done \ content}
WritePlan(content) == tree' = (tree \cap Edits) \cup Diff(content)

CommitsPlan ==
  /\ done' = Plan
  /\ tree' = tree \cap Edits

(* git stash pop: the changes of the newest entry are made and it is        *)
(* dropped; it is kept when it conflicts, or when git refuses to touch the  *)
(* tree.                                                                    *)
With(content, changes) ==
  {i \in Items : IF i \in content THEN <<i, FALSE>> \notin changes ELSE <<i, TRUE>> \in changes}

PopRestores ==
  /\ jam = "no" /\ stash # <<>>
  /\ tree' = ((tree \cup Head(stash)) \cap Edits) \cup Diff(With(Plan, Head(stash)))
  /\ stash' = Tail(stash)
  /\ UNCHANGED jam

PopFails ==
  /\ \/ jam = "no" /\ stash # <<>> /\ jam' = "pop"
     \/ UNCHANGED jam
  /\ UNCHANGED <<tree, stash>>

-----------------------------------------------------------------------------
(* The branch exists: a full finalize if it has commits that main has not,  *)
(* --skip-merge otherwise.                                                  *)
Begin(t) ==
  /\ pc = "idle" /\ t \in kept /\ Len(stash) < world.room
  /\ cur' = t
  /\ pc' = "plan"
  /\ IF t \in extra THEN merge' = "none" /\ behind' \in BOOLEAN
                   ELSE merge' = "skip" /\ UNCHANGED behind
  /\ report' = NoReport
  /\ UNCHANGED <<world, copies, main, done, checkout, origin, branches, stashed>>

(* An earlier finalize, or /commit, has cleaned up already. *)
NothingLeft(t) ==
  /\ pc = "idle" /\ t \in Tasks \ kept
  /\ \E status \in {"success", "failed"} :
       report' = <<t, status>>
  /\ UNCHANGED <<world, copies, main, done, checkout, origin, branches, cur, pc,
                 behind,
                 stashed, merge>>

(* Fault: main's plan is looked at before the worktree's. *)
MarksMainFirst(t) == kind[t] # "unmatched"

(* Step 2 edits the first copy of the plan that has the task: the one on    *)
(* main if the worktree has none.                                           *)
MarksMain(t) == kind[t] = "main"
CommitsMark(t) == kind[t] \in {"branch", "markers"}

MarkPlan ==
  /\ At("plan")
  /\ IF MarksMain(cur)
       THEN copy' = {Plan \cup {cur}} /\ Go("main")
       ELSE UNCHANGED copy /\ Go("commit")
  /\ UNCHANGED <<world, gate, overtaken, main, done, checkout, origin, branches, control>>

(* Step 4.  Where the plan's edit is not committed, the renamed docs of     *)
(* step 1 may be.                                                           *)
CommitBranch ==
  /\ At("commit")
  /\ \/ extra' = extra \cup {cur}
     \/ ~CommitsMark(cur) /\ UNCHANGED extra
  /\ Go(IF merge = "skip" THEN "cleanup" ELSE "stash")
  /\ UNCHANGED <<world, copies, main, done, checkout, origin, kept, control>>

(* git commit fails: the ERR trap prints JSON without steps. *)
CommitFails ==
  /\ At("commit")
  /\ Go("report")
  /\ UNCHANGED <<world, copies, main, done, checkout, origin, branches, control>>

(* STASHED says that there was something to stash, not that it was: git stash *)
(* push is `|| true`.                                                       *)
StashEdits ==
  /\ At("stash")
  /\ stashed' = (tree # {} \/ jam # "no")
  /\ \/ tree # {} /\ jam = "no" /\ tree' = {} /\ stash' = <<tree>> \o stash
     \/ UNCHANGED <<tree, stash>>
  /\ Go("pull")
  /\ UNCHANGED <<world, copies, main, done, jam, origin, branches, behind, merge,
                 report>>

PullMain ==
  /\ At("pull")
  /\ (jam = "no" /\ behind' = TRUE) \/ UNCHANGED behind
  /\ Go("rebase")
  /\ UNCHANGED <<world, copies, main, done, checkout, origin, branches, stashed, merge,
                 report>>

(* pre_merge_rebase: refused while the plan's edit is not committed in the  *)
(* worktree; a conflict restores the branch.                                *)
Rebase ==
  /\ At("rebase")
  /\ \/ (behind => kind[cur] # "loose") /\ behind' = FALSE
     \/ behind /\ UNCHANGED behind
  /\ Go("merge")
  /\ UNCHANGED <<world, copies, main, done, checkout, origin, branches, stashed, merge,
                 report>>

-----------------------------------------------------------------------------
(* git merge --no-ff.  The plan's edit comes with the branch if it was      *)
(* committed there; git does not touch a plan that is edited.               *)
MergeOk ==
  /\ At("merge") /\ jam = "no"
  /\ CommitsMark(cur) /\ cur \notin done => PlanClean
  /\ main' = main \cup {cur}
  /\ extra' = extra \ {cur}
  /\ done' = IF CommitsMark(cur) THEN done \cup {cur} ELSE done
  /\ behind' = FALSE
  /\ merge' = "ok"
  /\ Go(IF stashed THEN "pop" ELSE "mark")
  /\ UNCHANGED <<world, copies, checkout, origin, kept, stashed, report>>

(* A conflict, which needs a main that has moved, or git's refusal: local   *)
(* changes in the way, or an unfinished operation.                          *)
MergeFails ==
  /\ At("merge")
  /\ \/ jam = "no" /\ behind /\ jam' = "merge"
     \/ (jam # "no" \/ tree # {}) /\ UNCHANGED jam
  /\ Go("abort")
  /\ UNCHANGED <<world, copies, main, done, tree, stash, origin, branches, control>>

(* Fault: a failed merge is undone by git reset --hard. *)
ResetHard ==
  /\ At("abort")
  /\ jam' = "no"
  /\ tree' = {}
  /\ behind' = FALSE
  /\ merge' = "fail"
  /\ Go(IF stashed THEN "unstash" ELSE "report")
  /\ UNCHANGED <<world, copies, main, done, stash, origin, branches, stashed, report>>

(* Fault: the branch is cleaned up after a failed merge as well. *)
AbortThenCleanup ==
  /\ At("abort")
  /\ jam' = IF jam = "merge" THEN "no" ELSE jam
  /\ behind' = FALSE
  /\ merge' = "fail"
  /\ Go("cleanup")
  /\ UNCHANGED <<world, copies, main, done, tree, stash, origin, branches,
                 stashed, report>>

(* git merge --abort; the branch is not cleaned up. *)
AbortMerge ==
  /\ At("abort")
  /\ jam' = IF jam = "merge" THEN "no" ELSE jam
  /\ behind' = FALSE
  /\ merge' = "fail"
  /\ Go(IF stashed THEN "unstash" ELSE "report")
  /\ UNCHANGED <<world, copies, main, done, tree, stash, origin, branches,
                 stashed, report>>

(* The pop after a failed merge is `|| true`. *)
Unstash ==
  /\ At("unstash")
  /\ PopRestores \/ PopFails
  /\ stashed' = FALSE
  /\ Go("report")
  /\ UNCHANGED <<world, copies, main, done, origin, branches, behind, merge, report>>

PopAfterMerge ==
  /\ At("pop")
  /\ PopRestores
  /\ stashed' = FALSE
  /\ Go("mark")
  /\ UNCHANGED <<world, copies, main, done, origin, branches, behind, merge, report>>

(* A pop that fails after the merge is `exit 1`, without the JSON line.  *)
PopAfterMergeFails ==
  /\ At("pop")
  /\ PopFails
  /\ EndAs("failed")
  /\ UNCHANGED <<world, gate, main, done, origin, branches>>

(* Fault: only the first plan found on main is looked at. *)
FirstPlanHasTask(t) == kind[t] = "main"

PlanHasTask(t) == kind[t] # "unmatched"

(* A write of content takes back what has come into the plan meanwhile. *)
Overtakes(content) ==
  overtaken' = (overtaken \/ (merge = "ok" /\ ~(Plan \subseteq content)))

(* The python of step 5 reads the plan and marks the task in what it read,   *)
(* if there is something to replace.                                        *)
ReadPlan ==
  /\ At("mark")
  /\ IF PlanHasTask(cur)
       THEN copy' = {Plan \cup {cur}} /\ Go("write")
       ELSE UNCHANGED copy /\ Go("push")
  /\ UNCHANGED <<world, gate, overtaken, main, done, checkout, origin, branches, control>>

(* It writes the whole file back, here or in step 2. *)
WriteBack ==
  /\ At("write") \/ At("main")
  /\ \E content \in copy :
       /\ WritePlan(content)
       /\ Overtakes(content)
  /\ copy' = {}
  /\ Go(IF pc = "write" THEN "record" ELSE "commit")
  /\ UNCHANGED <<world, gate, main, done, stash, jam, origin, branches, control>>

(* git add and git commit of the file as it is by now; the commit may fail. *)
RecordMark ==
  /\ At("record") /\ kind[cur] # "markers"
  /\ CommitsPlan \/ UNCHANGED <<done, tree>>
  /\ Go("push")
  /\ UNCHANGED <<world, copies, main, stash, jam, origin, branches, control>>

(* Conflict markers in the plan: git checkout of it, and exit 1. *)
RecordRefused ==
  /\ At("record") /\ kind[cur] = "markers"
  /\ tree' = tree \cap Edits
  /\ EndAs("failed")
  /\ UNCHANGED <<world, gate, main, done, stash, jam, origin, branches>>

(* git push origin main, the second time after a pull --rebase; either      *)
(* outcome is a warning at most.                                            *)
Push ==
  /\ At("push") \/ At("repush")
  /\ jam # "rebase"
  /\ origin' = main
  /\ Go("cleanup")
  /\ UNCHANGED <<world, copies, main, done, checkout, branches, control>>

PushFails ==
  /\ At("push") \/ At("repush")
  /\ Go(IF pc = "push" THEN "repull" ELSE "cleanup")
  /\ UNCHANGED <<world, copies, main, done, checkout, origin, branches, control>>

(* git pull --rebase origin main || true: refused while tracked files are   *)
(* edited, as the plan is; main's own commits become copies, so the branch  *)
(* has commits main has not; a conflict leaves the rebase unfinished.       *)
PullRebase ==
  /\ At("repull")
  /\ \/ PlanClean /\ extra' = extra \cup {cur} /\ UNCHANGED jam
     \/ PlanClean /\ jam' = "rebase" /\ UNCHANGED extra
     \/ UNCHANGED <<extra, jam>>
  /\ Go("repush")
  /\ UNCHANGED <<world, copies, main, done, tree, stash, origin, kept, control>>

(* Step 6: the worktree goes, then the branch, unless git refuses. *)
Cleanup ==
  /\ At("cleanup")
  /\ kept' \in {kept, kept \ {cur}}
  /\ Go("report")
  /\ UNCHANGED <<world, copies, main, done, checkout, origin, extra, control>>

(* Faults: only an explicit merge failure counts as one; the step's status  *)
(* is passed on as it is.                                                   *)
ReadResultLoosely == IF merge = "fail" THEN "blocked" ELSE "success"
ReadResultVerbatim == IF merge = "ok" THEN "success" ELSE merge

(* finalize_result.py and lines 1530-1548. *)
ReadResult ==
  CASE merge = "fail" -> "blocked"
    [] merge = "ok" -> "success"
    [] OTHER -> "failed"

(* Post-merge smoke test and contract checks may turn any result to failed. *)
Report ==
  /\ At("report")
  /\ EndAs(ReadResult) \/ EndAs("failed")
  /\ UNCHANGED <<world, gate, main, done, checkout, origin, branches>>

-----------------------------------------------------------------------------
(* The autopilot is killed; the next finalize finds the checkout so. *)
Kill ==
  /\ cur \in Tasks
  /\ Gone
  /\ UNCHANGED <<world, gate, main, done, checkout, origin, branches, report>>

Edit(e) ==
  /\ e \in Edits \ tree
  /\ tree' = tree \cup {e}
  /\ UNCHANGED <<world, copies, main, done, stash, jam, origin, branches, cur, pc,
                 control>>

(* evaluate_gate and approve-gate read the plan in which the gate is not     *)
(* passed, and write it back with the gate passed.                          *)
ReadGate(g) ==
  /\ gate = {} /\ g \notin Plan
  /\ gate' = {Plan \cup {g}}
  /\ UNCHANGED <<world, copy, overtaken, main, done, checkout, origin, branches, cur, pc, control>>

WriteGate ==
  /\ \E content \in gate :
       /\ WritePlan(content)
       /\ Overtakes(content)
  /\ gate' = {}
  /\ UNCHANGED <<world, copy, main, done, stash, jam, origin, branches, cur, pc, control>>

(* They commit the plan as it is; operators commit it, too. *)
CommitPlan ==
  /\ jam = "no"
  /\ CommitsPlan
  /\ behind' = (behind \/ (merge = "none" /\ cur \in Tasks))
  /\ UNCHANGED <<world, copies, main, stash, jam, origin, branches, cur, pc, stashed,
                 merge,
                 report>>

(* An operator ends what was left half done, and brings back a stash.       *)
Tidy ==
  /\ pc = "idle"
  /\ \/ jam # "no" /\ jam' = "no" /\ UNCHANGED <<tree, stash>>
     \/ PopRestores
  /\ UNCHANGED <<world, copies, main, done, origin, branches, cur, pc, control>>

FinalizeStep ==
  \/ \E t \in Tasks : Begin(t) \/ NothingLeft(t)
  \/ MarkPlan \/ CommitBranch \/ CommitFails
  \/ StashEdits \/ PullMain \/ Rebase
  \/ MergeOk \/ MergeFails \/ AbortMerge \/ Unstash
  \/ PopAfterMerge \/ PopAfterMergeFails
  \/ ReadPlan \/ WriteBack \/ RecordMark \/ RecordRefused
  \/ Push \/ PushFails \/ PullRebase \/ Cleanup \/ Report

Next ==
  \/ FinalizeStep
  \/ Kill \/ CommitPlan \/ Tidy \/ WriteGate
  \/ \E g \in world.gates : ReadGate(g)
  \/ \E e \in Edits : Edit(e)

Spec == Init /\ [][Next]_vars

-----------------------------------------------------------------------------
Changes == Edits \cup (Items \X BOOLEAN)

TypeOK ==
  /\ world \in Worlds
  /\ main \subseteq Tasks /\ done \subseteq Items
  /\ tree \subseteq Changes
  /\ stash \in Seq(SUBSET Changes) /\ Len(stash) <= world.room
  /\ jam \in {"no", "merge", "pop", "rebase"}
  /\ origin \subseteq main
  /\ kept \subseteq Tasks /\ extra \subseteq Tasks
  /\ cur \in Tasks \cup {NoTask} /\ pc \in Places
  /\ cur \in Tasks <=> pc # "idle"
  /\ copy \subseteq SUBSET Items /\ gate \subseteq SUBSET Items
  /\ copy # {} <=> pc \in {"write", "main"}
  /\ behind \in BOOLEAN /\ overtaken \in BOOLEAN /\ stashed \in BOOLEAN
  /\ merge \in {"none", "skip", "ok", "fail"}
  /\ report \in (Tasks \cup {NoTask}) \X {"none", "success", "blocked", "failed"}

(* What is uncommitted, in the tree or in a stash. *)
Held == tree \cup UNION {stash[i] : i \in 1 .. Len(stash)}

(* Nobody calls a task done, in the plan, in an edit of it or in a copy that *)
(* is to be written back, unless its work is on main: chain and dependents  *)
(* take "done" for merged.  (Where only main lists the task, step 2 breaks  *)
(* this.)                                                                   *)
DoneMeansMerged ==
  \A t \in Tasks :
    /\ kind[t] # "main"
    /\ t \in done \cup UNION (copy \cup gate) \/ <<t, TRUE>> \in Held
    => t \in main

(* Once a finalize that merged has got past the plan, the plan that the     *)
(* chain reads calls the task done, whatever was stashed, popped, committed *)
(* and written meanwhile, unless a copy of the plan was written back that   *)
(* lacked what had come into the plan since it was read.  A task left       *)
(* pending starts again (lines 110-115).  Where the status cannot be        *)
(* replaced at all nothing of the kind holds.                               *)
LandedMeansDone ==
  /\ merge = "ok" /\ pc \in {"push", "repull", "repush", "cleanup", "report"}
  /\ kind[cur] \in {"branch", "loose", "main"}
  => overtaken \/ cur \in Plan

(* The post-merge update takes nothing back that is in the plan: "By updating *)
(* AFTER merge, we always write to the latest main state" (commit-finalize.sh *)
(* 269).  A gate that is passed while its python runs is taken back.         *)
WritesToLatest == [][pc = "write" /\ pc' = "record" => Plan \subseteq Plan']_vars

(* success: the work is on main.  blocked: the branch is there to be merged *)
(* by hand, as the banner says.                                             *)
HonestReport ==
  /\ report[2] = "success" => report[1] \in main
  /\ report[2] = "blocked" => report[1] \in kept

(* A finalize whose merge has landed is not reported as failed, but for the  *)
(* smoke tests: outcome 2 of autopilot.sh:1518 is success with warnings.     *)
MergedSucceeds ==
  [][merge = "ok" /\ pc # "report" => report'[2] # "failed"]_vars

(* Nothing people have edited outside the plan gets lost in stash, merge,   *)
(* abort and pop, whoever is killed where.                                  *)
EditsKept == [][Held \cap Edits \subseteq Held']_vars

D == INSTANCE Delivery
       WITH landed <- main, published <- origin, branches <- kept

(* The finalize phase implements Delivery. *)
DeliverySpec == D!Spec
=============================================================================
