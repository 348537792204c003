# A verification project for watchfloor

watchfloor runs coding agents unattended: shell tools drive a plan of tasks
through worktrees, phases and merges, and a dashboard shows and steers them.
This directory holds TLA+ models of the parts of it whose correctness depends on
several processes, crashes and the order of events; TLC checks them on small
instances and TLAPS proves the most important results for every instance.

Paths below are relative to the repository; `tools/` stands for
`adapters/claude-code/claude/tools/` and `app/` for `dashboard/app/src/`.

## The system

### Components, their state and their operations

| component | state | operations | what makes it correct |
|---|---|---|---|
| **Chain scheduler** `tools/autopilot-chain.sh` | `chain-state.json` (active, completed, failed, blocked), slot arrays, pause flag; reads `execution-plan.yaml`, `.chain-exit-*`, `.chain-blocked-reason-*`, `chain.PAUSE` | `run`: recovery, ready set, launch, poll and harvest, settle, gates, pause, limits, signal handler; `status` | plan order, limits, one process per task, one fate per task, halt while blocked, every run ends |
| **Autopilot pipeline** `tools/autopilot.sh` | `.autopilot-status` files, the reason sentinel, the lock's EXIT trap | one task through its phases, then finalize | ends, says how it ended, merges once |
| **Merge lock** `tools/lib/merge-lock.sh` | `merge.lock` holding a pid | acquire, break a stale lock, release | mutual exclusion, bounded waits |
| **Finalize phase** `tools/commit-finalize.sh`, `lib/pre-merge-rebase.sh`, `lib/finalize_result.py` | git index, stash, main and feature branch, the plan file | stash, pull, rebase, merge, pop, mark done, push; classification of the result | nothing lost, the plan says done only for what is merged, the exit code tells the truth |
| **Plan finalization** `tools/finalize-plan.sh` | the plan file | approve-gate, mark-done, archive | a gate opened once, other text kept |
| **Phase sessions** `tools/lib/claude-session-lib.sh` | one CLI child, retry counters | run with a watchdog, authentication wait, retry | ends within its budgets |
| **Grinder** `tools/grinder.sh` | batch file with a state per batch, pid lock | next batch, run, verify, resume | a batch is applied once, abandoned batches are found |
| **Worktrees** `scripts/worktree.sh`, `tools/lib/worktree-reaper.sh` | git worktrees | create, list, remove, reap | no work removed |
| **Terminal bridge** `dashboard/server/terminal_ws.py`, `pty_session.py` | registry of sessions with subscriber counts, fanout registry, per-connection queues | connect, subscribe, broadcast, evict, disconnect | a viewer gets each chunk once and in order, counts match, the cap holds |
| **Control plane** `dashboard/server/control.py`, `status_helper.py`, `resume_helper.py`, `stuck_detection.py` | lifecycle event files, offset cache, pause files, tmux sessions | start, pause, cancel, resume; derived status | status follows events, cancelled is dead, a pause stops the session |
| **Dashboard read side** `dashboard/server/*_helpers.py` | caches | parse and serve; incremental reads of streams and logs | shows what is on disk |
| **Dashboard middleware** `dashboard/server/middleware/`, `app.py` | none | checks on single requests | (stateless) |
| **Session controls** `app/hooks/useSessionControls.ts`, `app/components/SessionControls.tsx`, `CancelConfirmDialog.tsx`, `SessionStateChip.tsx` | the polled status, three optimistic flags, error, dialog | start, pause, resume, cancel, restart; poll; reconcile | what a tab says of a session and lets one do to it follows the session |
| **Terminal panel** `app/hooks/useTerminalSocket.ts`, `csrfToken.ts`, `app/components/TerminalPanel.tsx` | socket and timer refs, attempts, frame queue, overflow, token cache | attach, detach, switch, connect, back off, drain | one connection, of the current target; each frame written once; a dead server is given up |
| **Live feeds** `app/hooks/useStreamPolling.ts`, `useAutopilotLog.ts`, `useSessionActivity.ts`, `app/components/autopilot/StreamViewer.tsx` | byte offset, buffer, empty polls, filters | poll, reset, filter, derive phases | events in order, none skipped or doubled, one phase running, live goes off |
| **Pipeline view** `app/components/Pipeline.tsx`, `autopilot/PhaseStepper.tsx`, `app/utils/dagLayout.ts`, `connectorRouting.ts`, `phaseHelpers.ts` | the open phase, the picked task | lay out, route, colour; open and pick | the picture says what plan and sessions say |
| **Session panel** `app/components/SessionPanel.tsx`, `features/FeatureDetail.tsx`, `app/hooks/useFeaturePlanTask.ts` | mode, lookup, visible sections, document | pick, look up, switch mode, attach, filter, open a document | acts on the session of what is shown |
| **Dashboard shell** `app/components/DashboardShell.tsx`, `ActivityRail.tsx`, `features/FeatureList.tsx`, `PlansFilterBar.tsx`, `OverviewView.tsx`, `ProjectSubviewTab.tsx`, `app/hooks/createVersionedFilterState.ts` | open tabs, active tab, filters, localStorage | open, focus, close, link, filter, sort, reload | the active tab is open, filters last, lists and counts agree |
| **Metrics and grinder views**, wire types | sort order | tables and charts | (formatting) |
| **Validators and ratchets** `tools/validate-plan.py`, `tools/lib/ratchet-*.py` | none | pure checks on files | (pure) |

### How they interact

- The chain starts one *wrapper subshell* per task, which runs `autopilot.sh
  --full` in a pipeline with a log processor and, when it is over, writes the exit
  code to `.chain-exit-<task>`. The chain knows only the wrapper's pid. Chain and
  autopilot share nothing else but three files: the exit file, the reason sentinel
  and the plan.
- The autopilot of a task, not the chain, writes `status: done` to the plan, in its
  finalize phase, after it has taken the merge lock. The chain writes a gate's
  `passed: true`. People edit the plan too.
- Wrappers and autopilots outlive a chain that is killed. The next run recovers
  from `chain-state.json` by probing the recorded pids with `kill -0`.
- Autopilots that reach their finalize phase at the same time share one checkout of
  main and serialise on the merge lock.
- The dashboard starts chains in tmux sessions, touches and removes `chain.PAUSE`,
  and reads the event stream; the terminal bridge attaches one pty to a session and
  fans its output out to the connected browsers.
- A browser tab learns of all this by polling: the status of a session, plans,
  features and autopilots, and the bytes appended to a stream or log since its last
  offset. Its own clicks are requests whose answers cross these polls. A terminal is a
  WebSocket. Nothing is pushed otherwise.

### What is hard

Every process may be killed between any two steps, and those it started go on. The
record on disk, the arrays in memory and the plan are three views of a task's
status, updated by different processes at different moments. Decisions are taken on
snapshots (ready set, batch, gates) that are minutes old when they are carried out.
The lock is broken in three separate steps. In the browser every answer may come after
the user has gone on to something else, a React effect runs some time after the render it
belongs to, and refs, state and storage are three copies of one thing. Hazards are listed with their lines and the
properties that cover them in `PROJECT.json`.

## The modules

| module | what it is |
|---|---|
| `Chain` | the chain scheduler with its autopilots, its files, the operator and the plan |
| `MCChain` | small plans and flag sets for TLC |
| `ChainProofs` | theorems about `Chain` |
| `MergeLock` | the lock, its waiters and the finalize phase's trap around them |
| `Turnstile` | the abstract specification `MergeLock` is compared with |
| `MergeLockProofs` | theorems about `MergeLock` |
| `Finalize` | the finalize phase on the main checkout, one git command per action |
| `Delivery` | the abstract specification `Finalize` implements |
| `MCFinalize` | kinds of plan for TLC |
| `FinalizeProofs` | theorems about `Finalize` |
| `Controls` | a session with its controls: tabs, requests, handlers, status, tmux session |
| `ControlsProofs` | theorems about `Controls` |
| `Terminal` | the terminal panel and its socket, against a server that comes and goes |
| `TerminalProofs` | theorems about `Terminal` |
| `Selection` | what JavaScript's filter, sort, indexOf and summing reduce give, as functions a proof can expand |
| `Feeds`, `MCFeeds` | the stream and log viewers over growing files |
| `FeedsProofs` | theorems about `Feeds` |
| `PlanGraph` | what the pipeline view draws of a plan: layout, lines, cards, gates, bars |
| `Stepper` | what the phase stepper shows of a session's phases |
| `Panel`, `MCPanel` | pipeline view, session panel and feature detail as a state machine over the two |
| `PanelProofs` | theorems about `Panel` |
| `Fleet` | lists, chips, counts and screens as functions of the polled data |
| `Shell`, `MCShell` | tabs, filters and storage of the shell over `Fleet` |
| `ShellProofs` | theorems about `Shell` |

### Chain

`pc` names the place in `do_run` a chain process is at; "off" means none runs. One
process exists at a time. A pass of the main loop is `TopTerminal`, `TopPaused`,
`TopBudget`, `TopLaunch` or `TopWait` (lines 850-1040: read the plan, apply the
exclusions, terminal check, pause, limits). A batch is then started
task by task (`Launch`, `Record`), because the wrapper is running before its pid is in
`chain-state.json`; a kill between the two is a behaviour of the model. `Harvest`
consumes an exit file and frees the slot, `SettleCompleted`, `SettleBlocked` and
`SettleFailed` are the three branches on the exit code, `Drain` is the `wait` before
an early exit, which does not harvest. `ScanGates` takes the snapshot of the phases
that are over, `AutoPassGate`, `PassGate` and `BlockGate` evaluate one of them.
`StartRun`, `RefuseRun` and `ResolveBlocked` are start-up: crash recovery, "chain
already running", and the oracle for blocked tasks.

Disturbances are separate actions: `Signal` (the trap, installed only after start-up, kills the
wrapper pids), `Crash` (SIGKILL), `Reboot`, `TogglePause`, `ApproveGate`, `MarkTask`
(a manual task done, a plan edited by hand). An autopilot is `PilotMerges` and
`PilotExits`: it may mark its task done and then ends in one of the ways `Endings`
lists, each with the exit code and sentinel that `autopilot.sh` gives it.

Abstractions, and why they keep the control:

- A process id is a name, reused only when nothing refers to it; `TaskOf` fixes whose
  process it can be. Two names for a task let an orphan live beside a new start. Reuse of a
  pid by a foreign process is left out: the run is then refused, which is safe.
- A gate is one of five kinds. "unmatched" is a phase block in which the in-place
  substitution finds nothing to replace, so a pass cannot be persisted.
- The verdict of shell and integration checks is any member of `Verdicts`; the
  order of tasks within a batch is left open; under `--stop-after-phase` the task's
  summary may or may not say partial.
- Updates of the plan are atomic here. That one may take back another, since each reads and
  rewrites the whole file, is modelled in `Finalize`, next to the git commands that
  commit the file, and not a second time over the chain's own states.

### MergeLock and Turnstile

Each element of `Procs` is an autopilot process that reaches finalize at most once.
`shlock`, `cat`, `kill -0`, `rm -f` and `sleep` are one action each, in the order of
`acquire_merge_lock`. `Terminate` is SIGTERM, SIGINT or a failing
`commit-finalize.sh` under `set -e`: the EXIT trap, set before the lock is held and
cleared after its release, removes the file whoever holds it. `Kill` leaves it. `Procs`
are the finalizers there ever are, `Slots` (`--max-parallel`) how many run at once.
`broken` is a history variable: some `rm -f` hit another file than the one it was meant
for, which is the lock read as stale or the process's own. `Turnstile` is what parallel
finalizers may rely on: each passes at most once, and one at a time until `broken`.

### Finalize and Delivery

`pc` is the next git command of the finalize of task `cur`: `MarkPlan` (steps 1 to 3
of `commit-finalize.sh`), `CommitBranch`, `StashEdits`, `PullMain`, `Rebase`,
`MergeOk` or `MergeFails`, then either `PopAfterMerge`, the post-merge update of the
plan (`ReadPlan`, `WriteBack`, `RecordMark`), `Push`, `PullRebase`, `Cleanup`, or `AbortMerge` and `Unstash`, and `Report`, where
`autopilot.sh` reads the result. `merge` is the status of the merge step; `"skip"` is
`--skip-merge`, which leads straight to the cleanup. The two `exit 1` of the script
(`PopAfterMergeFails`, `RecordRefused`) end the autopilot under `set -e`.

The checkout is `tree`, the changes that are uncommitted (edits of people, and pairs
`<<i, b>>` where the plan file says of a task or gate i what the committed plan does not),
`stash`, a sequence of such sets, and `jam`, a merge, pop or rebase left half done. `Plan` is
what the file in the checkout says. While `jam` is not "no", git refuses to stash, merge, pop
and commit; a stash may also fail by itself; in both cases `STASHED` is set all the same.

Whoever updates the plan reads the whole file and writes it back later: `ReadPlan` (or
`MarkPlan`, if step 2 edits main's copy) and `WriteBack` in the finalizer, `ReadGate` and
`WriteGate` in `evaluate_gate` and `approve-gate`. Between the two, the content waits in `copy` and
`gate`, and everybody else goes on. A write sets the file to what was read then, so it
may take an update back; `overtaken` remembers that one did since the merge. `kind[t]` says how the plan lists a task. Four of the five
kinds are places where the two updates of the plan differ: only main's copy has the
task ("main"); the worktree's edit is not committed, since `git add docs/
EXECUTION_GUIDE.md` adds nothing when the guide is missing ("loose"); the substitution
finds nothing ("unmatched"); a line of the plan looks like a conflict marker
("markers"). A `world` is a choice of kinds, of the gates that are passed meanwhile and of a bound
on the stash; it is made once.

`Kill` may come between any two commands and leaves the checkout as it is; `Edit`,
`CommitPlan` (the chain commits a passed gate, operators commit) come at any time;
`Tidy` is an operator who finishes what was left half done or pops a stash entry. A pull or push
may find origin moved at any moment, so origin's own commits are not state.
`Delivery` keeps three sets: work that has landed, work that is published, branches.

Abstractions: edits are to files no branch touches, so an abort loses none; what an
operator resolves by hand in a conflict that the next finalize then aborts is not
followed. Plan files are readable, all marks are in one file, one gate is in progress at a time, and
`git add` and `git commit` of the plan are one step. One finalize runs
at a time; `MergeLock` shows when two may.

### Controls

Three views of one session: `session` is the tmux session (`boot` until its script
writes its first event, `run`, `drain` once it has seen the pause file), `status` what
`status_helper.py` folds the lifecycle events to, and per tab `seen`, the last poll that
arrived, under the optimistic `starting`, `resuming` and `pausing`. A request is a slot of
`call` that goes from "sent" to "ok" or to the slug of an error, and for cancel and
restart on to "refetch", the poll they wait for. The handlers exclude each other (none of
them awaits on the event loop). Start and resume are two steps each, since a status request, which
has a thread of its own, and the session go on while they run: `ServeStart` writes `started`
and `FinishStart` starts tmux, `ServeResume` starts tmux and `FinishResume` removes the pause
file, or fails to, and writes `resumed`. A status request is two steps as well: `AskStatus`
folds the events, `ProbeSession` asks tmux. `ref` is
`stateRef.current`, which guards the clicks and lags behind the render until `Effects`.
`Fault` pays for whatever is outside the code: a lost request or answer, a failing tmux,
the cap on sessions, a hidden tab. `SeePause` is enabled for chains only: for an autopilot
the server writes the pause file where the autopilot never looks.

The session may end, boot or drain at any moment and need not: no property of `controls`
rests on its being fair.

### Terminal

A *line* is one chain of steps begun by one run of the hook's effect: waiting for the
token, connecting, open, waiting for the backoff timer. Several can be alive after a switch
of targets, since a token fetch cannot be cancelled and `mountedRef` is true again at
once; `wsRef` and `timerRef` name the two the cleanup knows of, and the cleanup of a run
without a target only takes `mountedRef` away (`LeftLines`, `LeftRef`). `queue`, `shown`,
`written` and `effects` split a React commit from its effects, so that a frame may
arrive in between. `server` is down, refusing (accepts and then closes) or serving;
`hidden` says that the csrf cookie cannot be read, so that the token must be fetched.

### Feeds

A file is counted in half lines, so that a read may end in the middle of one. A poll is
in `polls` from `Tick` to its answer, with the offset it asked from and, once `Serve`
has read the file, the offset it read to; `NotFound` is the 404 of a file that is not
there yet or whose folder is being renamed. `StreamAnswer` and `LogAnswer` are the two
hooks' updates, `Reset` their first effect. `DerivePhaseEvents`, `Visible` and
`Rendered` are the way from events to rows. `seen` and `lost` are history variables.

### PlanGraph, Stepper and Panel

`PlanGraph` and `Stepper` have no state. Where a choice of the code is a chain of `if`s, the
cases of the model exclude one another, since a `CASE` whose guards overlap has no fixed value. A plan is its phases, the dependencies and what
the file says of each task; what is known of a task is its plan status, its autopilot's
phases and the sessions of its branch, in the order of the list: `FindSession` takes the
first, or of a pending task the first at work. `Visit` is one turn of the loop in `buildTreeLayout`, with its
queue and the record of a column that is moved later; `Walk` repeats it until the queue is
empty, and `Rows` then counts, for each task, the ones above it. `LayoutSound` says
what the columns are for: each task is one further than the last of those it depends on, which
is the length of its longest chain. `RoutePath` and
`SegmentCrossesAnyBox` work on pixels. `PhaseFigures` has what `_handle_phase_event` may tell of a
phase: any figure may be missing, and an end is written after its start. `Panel` has the two ways to a session panel, the
features list with `useFeaturePlanTask` (`lookups`: every lookup begun, `live` if it is
not cancelled) and the pipeline's dialog. Each action ends in `Rendered`, `TaskEffect`
and `FallBack`, the panel's effects, which belong to the same commit. `Poll` moves a task
from one `Life` to a next one.

### Fleet and Shell

`Fleet` says what lists, chips, rail, overview, project header and feature tab show of
plans, features, sessions and autopilots; names are ordered by `Alpha` and found by
`Finds`. `Shell` keeps the tabs and the filters. `kept` is what localStorage has of the
filters: `SetChips` writes at once (Effect A), `SetSearch` marks the scope `pending` and
`WriteSearch` is the debounce (Effect B); a list that is unmounted loses both its
state and its pending write. `Reload` starts again from what is stored, through the
migrations of `safeRead` and `migrateLegacyView`, and without the tabs of views there are no more (`BootTabs`): `ActiveIsOpen`
says what is left to hold of the tab in front after that, `AlwaysFrontIsOpen` what is lost. `Poll` takes a list from one world to
the next.

## The runs

| run | question | instance | result |
|---|---|---|---|
| `chain_recovery` | do restarts, orphans and signals keep the record and the fates? | a, b in phase 1 behind a shell gate, c in phase 2 after a; two pids for a; 2 slots, budget 3; `--retry-failed` with and without `--continue-on-failure`; both verdicts; crash and signal anywhere; endings merged, failed, conflict, dirty main | 2.03 million states, holds |
| `chain_control` | does anything start early, twice or after a pause while people act? | a, manual m, c after m; shell gate, then empty gate; both verdicts; plain, strict and stop-after-phase runs; pause, approve, mark done or failed, reboot | 0.9 million states, holds |
| `chain_progress` | does every run end, within its limits and with nothing left to start? | a, b, c in phase 1, d and e (after a) in phase 2, one pid per task; 2 slots, budget 4; pause, five endings; under fairness | 396,000 states, holds |
| `merge_lock` | do waits end, and is exclusion lost in one way only? | three finalizers at once, SIGTERM and SIGKILL anywhere, waits of 2 or 3 s up to 4 s | 92,000 states, holds, implements `Turnstile` |
| `merge_lock_exclusion` | is the lock sound for the default two slots? | three finalizers, two at once, SIGKILL anywhere | violated |
| `finalize` | do plan, report, edits and branches stay right whatever fails or is killed? | two tasks, in plans of three combinations of kinds with 2 stash entries, or with a gate that is passed meanwhile and 1; one edit; some branches merged by `/commit` beforehand | 1.9 million states, holds, implements `Delivery` |
| `finalize_lost_update` | does the post-merge update write to the latest plan? | one task, one gate | violated |
| `controls` | does what a tab says and does follow the session? | a chain, one tab in the header, one request and one fault at a time, a hidden tab among them; under fairness | 210,579 states, holds |
| `terminal` | one connection, frames in order, and an end to reconnecting? | two sessions, token readable or not, 2 lines, 2 changes of target, 2 frames, 2 attempts, 1 overflow; under fairness | 325,000 states, holds |
| `feeds` | is the stream what was written, and does it go quiet? | two tasks, files of up to three lines; a buffer of 2 events, a tail of 2 lines, 2 empty polls, 1 overlap, 2 mounts; under fairness | 180,000 states, holds |
| `panel` | does the panel act on what it shows, and is the picture consistent? | a chain with a short cut and a gate, and a fork of the older schema; two piloted tasks with seven lives; one document, one switch of view | 503,027 states, holds |
| `shell` | does the active tab stay open, are filters kept, do lists and counts agree? | two plans and two repositories in two worlds, three storages, two of them with tabs of a retired view and one with such a tab in front, 3 acts of the user between polls, loads and timers | 381,777 states, holds |

Why the bounds are enough. Two phases with one dependency across them and one task
without is the smallest plan in which a gate, a dependency and parallelism can
disagree. In `chain_recovery` a gate that blocks and a failure without
`--continue-on-failure` both meet slots that are still running. In
`chain_progress` phase 1 has more ready tasks than slots and phase 2 more than the
budget has left, so each limit binds. The number of restarts is not bounded: nothing in the model counts them.
Three finalizers are the fewest for the lock to change hands while a third is
between its probe and its `rm`; a limit of two sleeps reaches the time-out both on
and over the boundary. Two tasks are one that finalizes and one whose leftovers it finds;
with two stash entries the older one can be popped by somebody else's finalize. One gate
is enough to take a mark back and to be taken back.

For the dashboard: two targets, tasks or features are one that is left and one that is
gone to, and two lines, lookups or polls are an old one that comes late and the new one. One
request at a time is enough for the four properties of `controls`, whose races are
between a request, a poll and the session; the theorems about `Controls` hold for any
number. Two attempts reach the ceiling and the backoff before it. A buffer of two
events and a file of three lines make the buffer overflow; the tail window is two lines, so a
first read may start inside the file. `Chain` in `MCPanel` is the smallest plan in which the walk moves
a task to a later column. Three acts reach open, filter and close, or close, reload and
open. The number of polls is not bounded but in `Feeds` and `Terminal`, where frames, mounts
and swaps are. CHECK_DEADLOCK is off for `feeds` and `shell`, where a page left alone
after its last act has nothing more to do. Symmetry is not used.

**Fairness.** `WF_vars(ChainStep)`: a chain that is not killed goes on, since its gate
checks run under `timeout` and its waits are for autopilots. `WF_vars(PilotStep(i))`:
every phase of an autopilot runs under a watchdog and the lock has a bounded
wait; `commit-finalize.sh` runs outside of it and its git commands have no timeout, so `RunEnds` is
about chains whose git commands return, as a push that hangs holds its chain up for ever. Nobody is obliged to start, signal or restart a run. In `MergeLock` only a
waiter's own steps are fair; the merge it waits for may hang, as its git commands
have no timeout. `Controls`: handlers, polls, answers and effects go on; nobody has to click,
faults are never fair, a hidden tab may stay hidden and a session may hang. `Terminal`: timers fire, effects run, and a socket to a server that is down
is closed; nothing makes a server serve. `Feeds`: the interval fires (`setInterval`), and
the server reads the file and its answer arrives again and again (strongly fair, as a poll
that fails or finds no file is followed by another); a file that is gone for good, or a
server that is, leaves the view as it was.
`Panel` and `Shell` have safety properties only.

Every property of a passing run has a fault in `PROJECT.json` ("mutants"): an
operator such as `ReadyDespiteCompleted` that changes one definition as a plausible
bug would, under which TLC finds the property violated. These operators stand before the definition
they vary and are used nowhere else.

## Findings

- **Merge lock** (`merge_lock_exclusion`, `merge-lock.sh:16`): between a waiter's
  probe and its `rm` the lock can change hands without any pid being reused; two
  finalizers then merge at once. The default two slots do not exclude it: one finalizer
  killed at its merge leaves a file that the next two both meet. Nor is a kill needed
  (`Deaths = {}` gives a trace too, in which the holder leaves and the next one comes while
  a waiter stands between `cat` and `kill -0`).
- **Lost update** (`finalize_lost_update`, `commit-finalize.sh:305`): "By updating AFTER
  merge, we always write to the latest main state" (268-269) is true of the merge, not of
  the chain, which rewrites the same file when a gate passes. The finalizer reads, the gate
  is written as passed, the finalizer writes what it read, and the gate is pending
  again. In the other order the merged task is; `LandedMeansDone` holds but for such a
  write (`overtaken`), and so says that this is the only way to lose a mark.

Stated in the modules as definitions of their own and violated by what the code does
(no run checks them; the name added to the INVARIANT or PROPERTY line of a cfg of the
module gives a trace, for `PassedGateIsOpen` of `ChainControl.cfg`, for `DocIsAsked` with
`MaxDocs = 2`; `NoThroughBox` is a predicate of a plan, false of some plans with six tasks):

| definition | line | what happens |
|---|---|---|
| `Chain.SignalStopsAutopilots` | `autopilot-chain.sh:788` | the handler that is to stop "all child autopilot processes" kills the wrapper subshells; the autopilots work on and their tasks are started a second time |
| `Chain.DirtyMainNeverStarted` | `autopilot-chain.sh:1312` | a reason sentinel nobody harvested is read for a later merge conflict, which is then retried instead of halting the plan |
| `Chain.PassedGateIsOpen` | `autopilot-chain.sh:1560` | a gate with an empty checklist emits `gate_passed` but is not written as passed, so the phases behind it never start |
| `Finalize.MergedSucceeds` | `commit-finalize.sh:261` | a stash pop that fails after the merge ends the script without its JSON line, and a merged task is recorded as failed |
| `Controls.PausingEnds` | `SessionStateChip.tsx:10` | an accepted pause is followed by `phase_complete` (or by the first event of a session that boots) before a poll has seen paused; when the session then ends without an event, the chip says "Pausing" for ever |
| `Controls.ResumeStands` | `control.py:693` | a resumed chain reads `chain.PAUSE` before the handler removes it, and drains at once |
| `Controls.ResumingSettles` | `useSessionControls.ts:432` | the flags are settled only when the polled status changes; a resume whose session pauses again between two polls stays "resuming" |
| `Terminal.NoOldTarget` | `useTerminalSocket.ts:214` | "The mountedRef gate after the await prevents a target swap mid-fetch from opening a WS against the previous target": the new run of the effect has set mountedRef again |
| `Terminal.AllWritten` | `TerminalPanel.tsx:172` | a frame that arrives between a commit and its effect is drained without being written |
| `Feeds.LogLinesOnce` | `useAutopilotLog.ts:41` | the log's poll is not guarded by an in-flight flag as the stream's is: overlapping polls show lines twice |
| `Feeds.StripWhenStale` | `useSessionActivity.ts:24` | the strip's events outlive the stale stream they are for |
| `Panel.StreamOnStart` | `SessionPanel.tsx:346` | a panel that was mounted before its session ran has its init flag set, and does not switch to the stream |
| `Panel.TargetIsShown` | `useFeaturePlanTask.ts:44` | until the next lookup answers, the controls keep the target of the last |
| `Panel.DocIsAsked` | `ArtifactDialog.tsx:22` | the dialog shows whichever document came last |
| `Panel.BarWithinTrack` | `Pipeline.tsx:212` | the bar of a session whose phases are all done passes 100 |
| `Panel.BriefNeverSilent` | `SessionPanel.tsx:770` | the message for a brief whose chips are all off depends on the set of visible sections, in which the sections without data always remain; the brief is silent instead |
| `Panel.NoThroughBox` | `connectorRouting.ts:79` | a line over several columns may cross a card halfway |
| `Shell.AlwaysFrontIsOpen` | `DashboardShell.tsx:598` | a page that was left with a retired view in front boots into the overview (or the legacy view) beside its other tabs without opening it, and does so again on each reload until a tab is picked |
| `Shell.NoHiddenFilter` | `DashboardShell.tsx:222` | a project filter whose last plan is gone has no chip to take it off with |
| `Shell.TerminalOpensFresh` | `ProjectSubviewTab.tsx:105` | a terminal closed in one tab is closed in the next of the same project |
| `Shell.LinkLeads`, `RailLeads` | `DashboardShell.tsx:631`, `ActivityRail.tsx:79` | a link to a plan that filters hide, or to a name no plan has, leads nowhere |
| `Shell.SearchSurvives` | `createVersionedFilterState.ts:202` | leaving a tab within 300 ms of typing drops the search |
| `Shell.RatesAreRates` | `OverviewView.tsx:433` | errors are counted over all sessions and divided by the ended ones, so the pass rate may be negative |

Seen while modelling, with no run of their own: `PUSH_EXIT` keeps the first failure after
a push retry that worked; `--skip-merge` is reported as failed and its branch, with the
done mark committed on it, deleted; where only main's plan lists a task it is marked
done before a merge that may then fail (the reason `DoneMeansMerged` leaves out the kind "main").
A pause of an autopilot writes `autopilot.PAUSE` under main's docs (`control.py:217`) while
the autopilot looks in its worktree, so it never pauses, and `PausedStops` says something for
chains only; a failing cancel closes its dialog, though the `catch` of `handleConfirmCancel` means
to keep it open, because `cancel` never throws; `chain.PAUSE` survives a start and a cancel. `restart` does not ask whether
the session it kills is still lost. A server that accepts and then closes resets the
attempts of `useTerminalSocket` each time, so it is tried for ever: `GivesUp` is about a
server that is down. An NDJSON line that a poll cut in two is lost for good (`lost` in
`Feeds`). `buildTreeLayout` does not end on a cyclic plan; `validate-plan.py` turns those
away and the model has none. The time between phases that the stepper shows may be
-1 s without any phase overlapping: `run_phase` takes its start time (`claude-session-lib.sh:1872`) before it
stamps the running marker (1921), so a duration may exceed its two times. `InTurn` asks that it does not; the
label is shown from 1 s on only, so nothing is seen of it. `SessionMonitor.tsx` is used nowhere.

## The proofs

Every theorem is about all values of the constants that meet the named assumptions of the
modules, which TLC evaluates in the runs above:

- `PlanAssumption` (a finite plan, total phase and dependency functions), `RunAssumption`
  (flags and limits of their types, each process name belongs to a task), `LockAssumption`
  (jitters of 2 to 4 seconds, a positive limit), `FinalizeAssumption` (tasks and
  gates are different things, no change of the plan is an edit, every world has a kind for each
  task and a positive stash bound), `ControlsAssumption`, `TerminalAssumption`,
  `TargetAssumption` (bounds are natural numbers, "no target" is not a target).
- `FeedsAssumption`: sizes are positive, as they are in the hooks, and what a session writes
  is of the kinds of event there are.
- `PanelAssumption`: phases, their tasks, their gate's items and the phases of a session are
  lists (JSON arrays), a phase's tasks are tasks of the plan, and a gate's `passed` is a boolean.
  The dependencies within a phase have no cycle (`Acyclic`, which `validate-plan.py` 274-335
  checks; the walk would not end on one), no task has the name of a marker, and the figures
  of a phase are natural numbers or missing, its end not before its start (`PhaseFigures`).
- `ShellAssumption` and `WorldAssumption`: what the server sends is lists, with names that are
  strings and with the statuses and lifecycles of `types.ts`. `LiteralsAreStrings` says of the
  literals in the module that they are strings, which the provers do not know by themselves.
- `StorageAssumption`: localStorage is empty or as an earlier page left it, with tabs that
  differ, the one in front among them, each of them, all of them too, possibly of a view
  there is no more; stored filters may be of another version.

Nothing bounds the number of tasks, phases, slots, processes, edits, stash entries, tabs,
requests, lines, frames, polls, events, plans, features or acts of the user.

`ChainProofs` builds one inductive invariant in layers, each inductive once those
before it are known:

1. `TypeOK /\ Shape`: where slots, batch and current slot may be non-empty, and
   `Cardinality(slots) + Cardinality(batch) <= MaxParallel` with its counterpart for the budget. The
   limits alone are not inductive: a batch is sized once and started in
   many steps, with harvests in between. Gives `TypeCorrect`, `LimitsHold` and `PauseHolds`.
2. `Tracking`: the record on disk is the slots, but for the one being recorded, and
   a task has one slot; a free pid is not recorded. Gives `RecordIsExact` and `OneProcess`.
3. `Fates`: the lists of `chain-state.json` are disjoint from each other, from the
   slots and from the batch, with the place the current task has during a settle.
   Gives `FatesApart`, `BlockedHalts` and `CompletedStaysDone`.
4. `Order`: whatever is in the batch, in a slot or at work under a pid may run. It
   needs the lemma that the plan only grows (`PlanGrows`): a settled task stays
   settled and a passed gate passed, whoever writes. Gives `PlanOrderHolds`.
5. `DueOver`: a phase in the snapshot of due gates stays over. Gives `GatesOpenInOrder`.
6. `Ours` and `GatesSeen`: an autopilot at work is in the record or being recorded, and once
   the slots are empty no gate that is due is overlooked. They give `NothingLeft`, under
   `Undisturbed`: no signal or SIGKILL of the chain alone (a reboot, which ends everything,
   is allowed, and so are pauses and approvals), no status edited by hand, no gate that
   passes without being written. Each of these is needed: without it TLC finds a
   counterexample for three tasks. An orphan's merge or a hand-made mark after the gates
   were evaluated and before the terminal check is not seen by that check, and a gate that
   is not written is the `PassedGateIsOpen` above. Verdicts of the checks, endings of
   autopilots and flags are arbitrary.

`MergeLockProofs` proves the types, the bound on a wait and `ExclusiveUnlessBroken`, that
every process at its merge holds the lock unless `broken`. The invariant adds
`StaleIsGone`: the process whose lock a waiter is about to remove has ended, so that the
removal is harmless if the file is still the one that was read. `PassInTurn` is the
refinement of `Turnstile`, by steps, for any number of finalizers and of slots. Mutual exclusion
itself is false (`merge_lock_exclusion`) and no theorem assumes the race away.

`FinalizeProofs` has one inductive invariant, `TypeOK /\ Control /\ Work`. `Control` ties
the merge step's status to the place in the script; `Work` says that a branch that is
gone, or has nothing main has not, is on main, and that the branch of a task whose merge
is to come or has failed still exists, without which `Cleanup` and the report of a
later run cannot be judged. From it follow `Delivers` (the refinement, by steps) and
`ReportIsHonest`. `EditsStay` and `PlanIsHonest` rest on a lemma about a single step,
`HeldChanges`: edits stay, and a task that nobody has called done before (`Says`: the plan, an
edit or stash of it, or a copy about to be written) is called so only after its merge or where
only main lists it. What a write, a commit and a pop make of the plan file is said by
`WrittenIsRead`, `CommittedIsRead` and `PoppedTree`. `MergedIsDone` has an invariant of its
own, `Marked`: what the finalizer is about to write has the mark, and once it has written it,
the plan has it, through commits, pushes, edits and gates, or `overtaken` is set.

`ControlsProofs`: a click, an answer or a poll leaves the server alone
(`ClientLeavesServer`), so the two claims about it go handler by handler. They need that the
request of a handler that is halfway is still the one that began (`OpeningWaits`), and that a
start that is halfway has told "running" and has no session yet (`StartTold`), or it could finish
over a status of cancelled.

`TerminalProofs`: the invariant of `OneLine` is `Held`, that a line that is alive is the
target's and is named by `wsRef` or `timerRef`, whichever the cleanup would use; that,
and not the count, is what survives a swap. `WrittenOnce` needs `FrameInv`: what is written,
then what the pending effects have yet to write, then what came after that commit, rise
together; two lemmas say that concatenating and appending keep a sequence rising.

`FeedsProofs` begins with what `Ascending` and `Select` are: each place that passes once,
in order. `ShownInOrder` rests on `Streamed`: at most one poll is in flight, it asks
from the offset, and all that is shown lies below the offset; the answer then continues the
list, and cutting the buffer keeps it in order. `NoneSkipped` rests on two invariants, for
the stream `AllTold` (every half line below the offset was shown, or is half of a line
that a read cut in two, or lies before the first read's window), for the log `Covered`
(what any poll asks from was shown, which is why overlapping polls may repeat lines but skip none).
`OnePhaseRuns` is a property of `DerivePhaseEvents` for any list of events: it needs that
a row comes from a place, and the places of rows rise (`RowIs`).

`PanelProofs`: for `TargetSettles` the invariant `Lookup` ties the lookups that are still
live to what is picked and given; a lookup of an earlier pick is no longer live and its
answer changes nothing. `TerminalLetsGo` follows step by step from what `FallBack` does
last in every commit. `CardsAlwaysTrue` is about what is drawn, of any plan and any session
data: with c of m phases completed, c < m, the bar's (2c + 1) / 2m rounds to at most 100
(`HalfPhaseBounds`); a phase is told by the set of its tasks' statuses alone (`PhaseTold`); a gate without
a prompt has as many passed items as items, and rounds to 100 (`GateWithoutPrompt`). Of the state it needs
`PlanKnown`, that the open phase is one of the plan's, and what is picked one of its tasks. It is the conjunct `CardsTrue` of
`PictureSound`.

`PictureAlwaysSound` adds the rest of `PictureSound`, which is about what loops compute, of
lists of any length. The induction theorems of the library cannot be used for it (they take a
predicate as a parameter); instead each induction is over a set of numbers that has 0 and
with k - 1 has k (`Upward`, from the fact that a set of naturals has a least member), and each
recursive function is first shown to exist. In the order of the module:

1. *Sums.* `PartialSumsAre`: there is a function that meets the equation of the partial
   sums. From it, sums keep an order (`SumsCompare`) and add up (`SumsAdd`). With `ShareBounds` the bar
   of a phase is within its track, and full when all its tasks are done (`PhaseBarWithinTrack`).
2. *The stepper.* `FooterTokens`: what went up is the sum over the rows, and if no row is low on
   cache neither is the total. `TimesAre`: start and end bracket every row. `InTurnFits`: what phases that
   ran in turn spent, up to the k-th, fits between the start and the end of the last
   that had begun; this is the induction hypothesis, as the bound on the sum alone is not inductive.
3. *Ranks.* Of finitely many things in a strict order each has another number of things before it,
   and every number below their count is had (`RanksAre`, `RanksReached`); so `Ranked` is a
   permutation, and the row of a card, which counts those above it, is its own.
4. *The walk.* `Ends` is the set of states a finite run of `Visit` may end in: as `Visit` is a function it
   is the same before and after a turn, so that a function with the equation of `Walk` exists (`WalkIs`).
   `Walking` is the invariant: a task is no further right than its number in an order of the plan without
   cycles; one past the first column is at most one right of a task it depends on; the children of a task are past it or
   queued for a column past it. `Room`, the pairs of a task and a column it may still move to, gets smaller
   with each turn that moves a task, and the queue with each other one (`VisitShrinks`); hence the
   walk ends (`WalkEnds`, `WalkOfPhaseEnds`), and at an empty queue `Walking` gives the columns.
5. *Layout and lines.* `LayoutIs`, `LinesGoRight`, `LinesReach`, and by arithmetic on
   pixels `ShortLinesClear`: of a line to the next column both parts meet only the boxes of its own ends,
   and one that goes round in the gap below its row meets none. The line of `NoThroughBox`,
   between columns further apart, is not covered, because it is false.

`ShellProofs`: `Tabbed` says that the tabs differ, that the one in front is among them or is
the legacy view, and that the storage has both as they are, which makes a reload find them;
it starts from what is left of any stored tabs (`FilterTabs`, `FirstTabs`), and closing a tab
is where it could fail (`CloseTabs`). `FrontStays`, of each step, is the action property. `Filtered` adds that filters belong to mounted
tabs and that, but for a pending search, reading the storage back gives what is on the screen.
`ScreenAlwaysSound` is about counting: the chips of a list split the places of its
rows into disjoint sets, so that their cardinalities add up (`FourParts`, `PlansShared`,
`FeaturesShared`), and the counts of two screens are of the same places (`CountsDo`, `WeekAddsUp`).

Only model-checked: the liveness properties (`RunEnds`, `WaitEnds`,
`PausingSettles`, `DialogCloses`, `GivesUp`, `GoesQuiet`), which need fairness and `ENABLED`. Every invariant
of a passing run has a theorem.

## Not modelled

- The server half of the terminal bridge (registry, fanout, eviction, per-connection queues
  of `terminal_ws.py` and `pty_session.py`): `Terminal` takes it as its environment.
- Of the control plane: the next phase of a resume, the offset cache with its half-read
  line (`status_helper.py` is written for a single thread, "no locks on _STATE_CACHE", while
  overlapping status requests run in several), stuck detection, and the cap over several targets.
- Two chains started on one plan at the same moment from two shells; two browser windows
  that share one localStorage; two finalizes in one checkout once the lock is broken.
- The grinder's batches; the phases inside an autopilot; worktree scripts and phase
  sessions, mostly process I/O around one git or CLI call.
- Metrics and grinder views, popovers, hovering, keyboard handling, layout and styling;
  the read side but for its incremental readers, middleware and validators, which are
  functions of a single request or file and better served by the unit tests beside them.

## The plan

1. *Done:* the tool side (`Chain`, `MergeLock`, `Finalize` with their abstract
   specifications), the dashboard's control path (`Controls`), terminal, feeds, panels
   and shell; proofs about each of these.
2. The terminal bridge as a module that serves `Terminal`: an entry counts its viewers, and
   a viewer gets a gapless suffix or is told of the gap.
3. `Controls` composed with `Chain` in place of its four-state session, and `Finalize`
   with `MergeLock`.
4. `Grinder`: batches, lock, abandonment and resume.
5. A refinement of `Chain` to an abstract chain in which a task has at most one tracked
   process and starts in plan order.
