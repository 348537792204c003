------------------------------ MODULE PlanGraph ------------------------------
(***************************************************************************)
(* What Pipeline.tsx draws of a plan: the tree of a phase's tasks laid out *)
(* by utils/dagLayout.ts, the lines between them routed by                 *)
(* utils/connectorRouting.ts, and the look of each task, gate and phase.   *)
(* Everything here is a function of the plan and of the sessions the       *)
(* polls return; the state is in Panel.                                    *)
(*                                                                         *)
(* A plan is [phases, depends]: a sequence of [id, tasks, gate], with the  *)
(* tasks in the order of the file, and the tasks each task depends on.     *)
(* What is known of a task is its status in the plan, its autopilot        *)
(* session and the sessions of its branch, in the order of the list.       *)
(***************************************************************************)
EXTENDS Integers, Sequences, FiniteSets, SequencesExt, FiniteSetsExt, Selection

NoGate == [none |-> TRUE]

(* Constants of dagLayout.ts and Pipeline.tsx, in pixels. *)
NODE_W == 240
NODE_H == 72
GAP_X == 28
GAP_Y == 24
MARKER_W == 140

-----------------------------------------------------------------------------
(* buildTreeLayout *)

(* deps and childrenOf: within the phase. *)
Deps(plan, ph, t) == plan.depends[t] \cap Range(ph.tasks)
Children(plan, ph, t) == Filter(ph.tasks, LAMBDA c : t \in Deps(plan, ph, c))
Roots(plan, ph) == Filter(ph.tasks, LAMBDA t : Deps(plan, ph, t) = {})
Leaves(plan, ph) == Filter(ph.tasks, LAMBDA t : Children(plan, ph, t) = <<>>)
Isolated(plan, ph) == Range(Roots(plan, ph)) \cap Range(Leaves(plan, ph))

(* validate-plan.py refuses the plans with a cycle: each task can be given a *)
(* number above those of the tasks it depends on.                            *)
Acyclic(plan, ph) ==
  \E rank \in [Range(ph.tasks) -> 1..Len(ph.tasks)] :
    \A t \in Range(ph.tasks) : \A d \in Deps(plan, ph, t) : rank[d] < rank[t]

(* computeDepth: the longest chain of dependents below a task, of a plan    *)
(* without cycles.                                                          *)
DepthOf(plan, ph) ==
  LET depth[t \in Range(ph.tasks)] ==
        LET kids == Range(Children(plan, ph, t))
        IN  IF kids = {} THEN 0 ELSE 1 + Max({depth[c] : c \in kids})
  IN  depth

(* sortedRoots: deepest first, and otherwise in the order of the file. *)
SortedRoots(plan, ph) ==
  LET D(i) == DepthOf(plan, ph)[ph.tasks[i]]
      roots == {i \in DOMAIN ph.tasks : Deps(plan, ph, ph.tasks[i]) = {}}
      before == {e \in roots \X roots : D(e[1]) > D(e[2]) \/ (D(e[1]) = D(e[2]) /\ e[1] < e[2])}
      places == Ranked(roots, before)
  IN  [k \in DOMAIN places |-> ph.tasks[places[k]]]

(* The walk from the roots: queue, and colOf as the tasks in the order they *)
(* were first put there and the column of each, -1 of one that is not.      *)
WalkStates(ph) ==
  LET tasks == Range(ph.tasks)
  IN  [queue : Seq(tasks \X Nat), order : Seq(tasks), col : [tasks -> Nat \cup {-1}]]

Pushed(plan, ph, t, col) ==
  LET kids == Children(plan, ph, t) IN [k \in DOMAIN kids |-> <<kids[k], col>>]

(* Mutant of Visit: a task stays in the first column it is reached with. *)
VisitFirst(plan, ph, s) ==
  LET t == Head(s.queue)[1]
      col == Head(s.queue)[2]
  IN  IF s.col[t] # -1 THEN [queue |-> Tail(s.queue), order |-> s.order, col |-> s.col]
      ELSE [queue |-> Tail(s.queue) \o Pushed(plan, ph, t, col + 1),
            order |-> Append(s.order, t), col |-> [s.col EXCEPT ![t] = col]]

(* One turn of the loop: a task moves to a column further right than it is, *)
(* and its children are pushed for the next one.                            *)
Visit(plan, ph, s) ==
  LET t == Head(s.queue)[1]
      col == Head(s.queue)[2]
  IN  IF col <= s.col[t] THEN [queue |-> Tail(s.queue), order |-> s.order, col |-> s.col]
      ELSE [queue |-> Tail(s.queue) \o Pushed(plan, ph, t, col + 1),
            order |-> IF s.col[t] = -1 THEN Append(s.order, t) ELSE s.order,
            col |-> [s.col EXCEPT ![t] = col]]

Walk(plan, ph) ==
  LET walk[s \in WalkStates(ph)] == IF s.queue = <<>> THEN s ELSE walk[Visit(plan, ph, s)]
  IN  walk

AtRoots(plan, ph) ==
  LET roots == SortedRoots(plan, ph)
  IN  [queue |-> [k \in DOMAIN roots |-> <<roots[k], 0>>], order |-> <<>>,
       col |-> [t \in Range(ph.tasks) |-> -1]]

(* Rows: the connected tasks of a column from the top, in the order the walk *)
(* came to them, and the isolated below.                                     *)
Rows(plan, ph, end) ==
  LET lone == Isolated(plan, ph)
      linked == Range(ph.tasks) \ lone
      above(t) == {u \in linked : end.col[u] = end.col[t]
                                    /\ PlaceOf(end.order, u) < PlaceOf(end.order, t)}
      earlier(t) == {u \in lone : PlaceOf(ph.tasks, u) < PlaceOf(ph.tasks, t)}
      below == IF linked = {} THEN 0 ELSE 1 + Max({Cardinality(above(t)) : t \in linked})
  IN  [t \in Range(ph.tasks) |->
         IF t \in lone THEN [col |-> 0, row |-> below + Cardinality(earlier(t))]
         ELSE [col |-> end.col[t], row |-> Cardinality(above(t))]]

BuildTreeLayout(plan, ph) == Rows(plan, ph, Walk(plan, ph)[AtRoots(plan, ph)])

MaxCol(nodes) == Max({nodes[t].col : t \in DOMAIN nodes} \cup {0})
MaxRow(nodes) == Max({nodes[t].row : t \in DOMAIN nodes} \cup {0})

-----------------------------------------------------------------------------
(* The lines, as pairs of ends, from left to right. *)

Entry == "entry"   \* the marker of the phase before
Exit == "exit"     \* the marker of the phase after
Gate == "gate"

HasGate(ph) == ph.gate # NoGate

(* TreeConnectors: from each task to its children. *)
TreeConnectors(plan, ph) ==
  {l \in Range(ph.tasks) \X Range(ph.tasks) : l[1] \in Deps(plan, ph, l[2])}

(* renderIsolatedTaskPaths, renderLeafToGatePath, renderLeafToExitPath *)
IsolatedPaths(plan, ph) ==
  {<<Entry, t>> : t \in Isolated(plan, ph)}
    \cup {<<t, IF HasGate(ph) THEN Gate ELSE Exit>> : t \in Isolated(plan, ph)}
LeafToGatePaths(plan, ph) ==
  {<<t, Gate>> : t \in Range(Leaves(plan, ph)) \ Isolated(plan, ph)}
LeafToExitPaths(plan, ph) ==
  {<<t, Exit>> : t \in Range(Leaves(plan, ph)) \ Isolated(plan, ph)}

(* PhasePathsLayer *)
PhasePaths(plan, ph) ==
  {<<Entry, t>> : t \in Range(Roots(plan, ph)) \ Isolated(plan, ph)}
    \cup IsolatedPaths(plan, ph)
    \cup (IF HasGate(ph) THEN LeafToGatePaths(plan, ph) \cup {<<Gate, Exit>>}
          ELSE LeafToExitPaths(plan, ph))

Lines(plan, ph) == PhasePaths(plan, ph) \cup TreeConnectors(plan, ph)

(* PhaseTree: the columns, with the gate's after the last and the markers at *)
(* both sides.                                                               *)
PlaceX(plan, ph, nodes, end) ==
  CASE end = Entry -> -1
    [] end = Gate -> MaxCol(nodes) + 1
    [] end = Exit -> MaxCol(nodes) + (IF HasGate(ph) THEN 2 ELSE 1)
    [] OTHER -> nodes[end].col

-----------------------------------------------------------------------------
(* connectorRouting *)

(* PhaseTree: where the lines of a marker meet: the row of the ends, when it *)
(* is one, and otherwise half way down.                                      *)
TreeH(nodes) == (MaxRow(nodes) + 1) * (NODE_H + GAP_Y) - GAP_Y
AnchorY(nodes, ends) ==
  LET rows == {nodes[t].row : t \in ends}
  IN  IF Cardinality(rows) = 1
        THEN (CHOOSE r \in rows : TRUE) * (NODE_H + GAP_Y) + NODE_H \div 2
        ELSE TreeH(nodes) \div 2

Left(n) == MARKER_W + GAP_X + n.col * (NODE_W + GAP_X)
MidY(n) == n.row * (NODE_H + GAP_Y) + NODE_H \div 2

SegmentCrossesAnyBox(nodes, seg, excluded) ==
  \E t \in DOMAIN nodes \ excluded :
    /\ MidY(nodes[t]) - NODE_H \div 2 <= seg.y /\ seg.y <= MidY(nodes[t]) + NODE_H \div 2
    /\ Left(nodes[t]) <= Max({seg.from, seg.upto})
    /\ Left(nodes[t]) + NODE_W >= Min({seg.from, seg.upto})

(* The horizontal segments of the path from p to c. *)
RoutePath(plan, ph, nodes, p, c) ==
  LET x1 == Left(nodes[p]) + NODE_W
      x2 == Left(nodes[c])
      y1 == MidY(nodes[p])
      y2 == MidY(nodes[c])
      mx == IF Cardinality(Deps(plan, ph, c)) > 1 THEN x2 - GAP_X \div 2 ELSE (x1 + x2) \div 2
      Seg(a, b, y) == [from |-> a, upto |-> b, y |-> y]
      crosses(seg) == SegmentCrossesAnyBox(nodes, seg, {p, c})
  IN  CASE y1 = y2 /\ ~crosses(Seg(x1, x2, y1)) -> {Seg(x1, x2, y1)}
        [] y1 = y2 /\ crosses(Seg(x1, x2, y1)) ->
             {Seg(x1, x2, y1 + NODE_H \div 2 + GAP_Y \div 2)}
        [] y1 # y2 /\ ~crosses(Seg(x1, mx, y1)) /\ ~crosses(Seg(mx, x2, y2)) ->
             {Seg(x1, mx, y1), Seg(mx, x2, y2)}
        [] OTHER -> {Seg(x1, x2, (y1 + y2) \div 2)}

-----------------------------------------------------------------------------
(* Statuses and bars.  known is, per task, [plan, pilot, phases, sessions]. *)

Round(num, den) == (2 * num + den) \div (2 * den)   \* Math.round of num/den, num >= 0

(* autopilotPhaseFraction, in half phases: [num, den], or nothing to say. *)
CANONICAL_PIPELINE_PHASES == 9
NoFraction == [num |-> 0, den |-> 0]
AutopilotPhaseFraction(k) ==
  LET completed == Count(k.phases, LAMBDA s : s = "completed")
      total == IF k.pilot = "running" THEN Max({Len(k.phases), CANONICAL_PIPELINE_PHASES})
               ELSE Len(k.phases)
  IN  IF k.phases = <<>> THEN NoFraction ELSE [num |-> 2 * completed + 1, den |-> 2 * total]

(* runningTaskProgress: the tasks whose autopilot runs. *)
Overlay(known) ==
  {t \in DOMAIN known : known[t].pilot = "running" /\ AutopilotPhaseFraction(known[t]) # NoFraction}

Statuses(ph, known) == {known[t].plan : t \in Range(ph.tasks)}

PhaseStatus(ph, known) ==
  LET s == Statuses(ph, known)
  IN  CASE s = {"done"} -> "done"
        [] "failed" \in s -> "failed"
        [] "wip" \in s /\ "failed" \notin s -> "wip"
        [] OTHER -> "pending"

(* phaseStatusWithOverlay: of a phase, a task that runs counts as one at work. *)
PhaseStatusWithOverlay(ph, known) ==
  LET s == Statuses(ph, known)
      runs == Range(ph.tasks) \cap Overlay(known) # {}
  IN  CASE s = {"done"} -> "done"
        [] "failed" \in s -> "failed"
        [] s # {"done"} /\ "failed" \notin s /\ ("wip" \in s \/ runs) -> "wip"
        [] OTHER -> "pending"

(* phaseProgressWithOverlay: the percentage, each running task counted by the *)
(* share of its own phases, in parts of a task.                               *)
PARTS == 1260
Share(t, known) ==
  LET f == AutopilotPhaseFraction(known[t])
  IN  CASE known[t].plan = "done" -> PARTS
        [] known[t].plan \notin {"done", "failed"} /\ t \in Overlay(known) ->
             Min({PARTS, (PARTS * f.num) \div f.den})
        [] OTHER -> 0
PhaseProgressWithOverlay(ph, known) ==
  LET n == Len(ph.tasks)
      shares == [i \in 1..n |-> Share(ph.tasks[i], known)]
  IN  IF n = 0 THEN 0 ELSE Round(100 * SumOf(shares), PARTS * n)

(* CompactPhaseCard, with its PhaseGauge. *)
PhaseCard(ph, known) ==
  [status |-> PhaseStatusWithOverlay(ph, known), pct |-> PhaseProgressWithOverlay(ph, known),
   done |-> Cardinality({t \in Range(ph.tasks) : known[t].plan = "done"})]

(* findSessionForTask: the first, and of a task that is pending the first   *)
(* that is at work.                                                         *)
ActiveSessionStatuses == {"working", "needs_input", "idle"}
FindSession(k) ==
  LET fits == {i \in DOMAIN k.sessions :
                 k.plan = "pending" => k.sessions[i] \in ActiveSessionStatuses}
  IN  IF fits = {} THEN "none" ELSE k.sessions[Min(fits)]

(* TaskProgressBar: nothing, or its colour and its percentage. *)
IsStuck(k) == FindSession(k) = "needs_input" /\ k.plan \notin {"done", "failed"}
NoBar == [status |-> "none", pct |-> 0]
TaskProgressBar(k) ==
  LET f == AutopilotPhaseFraction(k)
      active == k.phases # <<>> /\ k.pilot = "running"
      status == CASE k.plan = "done" -> "completed"
                  [] k.plan = "failed" -> "fault"
                  [] k.plan \notin {"done", "failed"} /\ IsStuck(k) -> "fault"
                  [] k.plan \notin {"done", "failed"} /\ ~IsStuck(k) -> "running"
      pct == IF status = "running" \/ IsStuck(k)
             THEN IF f = NoFraction THEN 50 ELSE Round(100 * f.num, f.den)
             ELSE 100
  IN  IF ~active /\ ~IsStuck(k) /\ k.plan \in {"pending", "skipped"} THEN NoBar
      ELSE [status |-> status, pct |-> pct]

(* buildTaskChips *)
TaskChips(k) ==
  (IF k.plan = "failed" THEN {"fix"} ELSE {})
    \cup (IF k.plan = "wip" /\ k.pilot # "running" /\ FindSession(k) = "needs_input"
            THEN {"needs input"} ELSE {})
    \cup (IF k.plan = "wip" /\ k.pilot # "running" /\ FindSession(k) \in {"stopped", "stale"}
            THEN {"paused"} ELSE {})

StatusDot(status) ==
  CASE status = "done" -> "check" [] status = "failed" -> "error" [] status = "skipped" -> "minus"
    [] status = "wip" -> "pulse" [] OTHER -> "ring"

(* TaskNodeCard: what is told of a task. *)
TaskNodeCard(k) ==
  [dot |-> StatusDot(k.plan), chips |-> TaskChips(k), bar |-> TaskProgressBar(k),
   phase |-> k.phases # <<>> /\ k.plan \notin {"done", "failed"}]

(* A gate is [passed, enriched, items]: enriched when the server has told   *)
(* the last result of each item.                                            *)
Passed(gate) == Count(gate.items, LAMBDA i : gate.enriched /\ i.lastResult = "passed")

GateBar(gate) ==
  CASE gate.passed -> 100
    [] ~gate.passed /\ gate.items = <<>> -> 0
    [] OTHER -> Round(100 * Passed(gate), Len(gate.items))

(* gateNodeSummary: n of m, and whether what is left is for a human. *)
GateNodeSummary(gate) ==
  LET left == \E n \in 1..Len(gate.items) :
                gate.items[n].kind = "human" /\ gate.items[n].lastResult # "passed"
  IN  [done |-> IF gate.passed THEN Len(gate.items) ELSE Passed(gate),
       total |-> Len(gate.items),
       auto |-> ~gate.passed /\ gate.enriched /\ Passed(gate) > 0 /\ left]

GateItemIcon(gate, item) ==
  CASE gate.passed -> "passed"
    [] ~gate.passed /\ item.kind = "human" -> "human"
    [] ~gate.passed /\ item.kind # "human" /\ item.lastResult = "passed" -> "passed"
    [] ~gate.passed /\ item.kind # "human" /\ item.lastResult \in {"failed", "timeout"} -> "failed"
    [] OTHER -> "pending"

(* GatePopoverChecklist *)
GateIcons(gate) ==
  [n \in 1..Len(gate.items) |->
     IF gate.enriched THEN GateItemIcon(gate, gate.items[n])
     ELSE IF gate.passed THEN "passed" ELSE "unchecked"]

ShouldShowGatePrompt(gate) ==
  ~gate.enriched
    \/ \E n \in 1..Len(gate.items) :
         ~(gate.items[n].kind = "shell" /\ gate.items[n].lastResult = "passed")

GateColumn(gate) ==
  [locked |-> ~gate.passed, bar |-> GateBar(gate), summary |-> GateNodeSummary(gate),
   icons |-> GateIcons(gate), prompt |-> ShouldShowGatePrompt(gate)]

-----------------------------------------------------------------------------
(* phaseEntryColor: the colour of the line that leaves a phase. *)
PhaseEntryColor(status) == IF status \in {"done", "wip"} THEN "signal" ELSE "grey"

(* PhaseCardConnector: on the rail, after phase i. *)
PhaseCardConnector(plan, known, i) ==
  PhaseEntryColor(PhaseStatusWithOverlay(plan.phases[i], known))

(* PhaseTree: the line that comes into phase i. *)
EntryColor(plan, known, i) ==
  IF i > 1 THEN PhaseEntryColor(PhaseStatusWithOverlay(plan.phases[i - 1], known))
  ELSE LET roots == Range(Roots(plan, plan.phases[i]))
       IN  IF \E t \in roots : known[t].plan \in {"done", "wip"} THEN "signal" ELSE "grey"

(* PhaseSideMarker: the card of a neighbour, or "Start" and "Finished". *)
Fallback == [status |-> "none", pct |-> 0, done |-> 0]
PhaseSideMarker(plan, known, i) ==
  IF i \in 1..Len(plan.phases) THEN PhaseCard(plan.phases[i], known) ELSE Fallback

PhaseTree(plan, known, i) ==
  LET ph == plan.phases[i]
  IN  [entry |-> EntryColor(plan, known, i),
       prev |-> PhaseSideMarker(plan, known, i - 1), succ |-> PhaseSideMarker(plan, known, i + 1),
       cards |-> [t \in Range(ph.tasks) |-> TaskNodeCard(known[t])]]

(* Pipeline: the phase that is open at first. *)
FirstExpanded(plan, known) ==
  LET open == {i \in 1..Len(plan.phases) : PhaseStatus(plan.phases[i], known) \in {"wip", "failed"}}
  IN  IF open = {} THEN 0 ELSE Min(open)
=============================================================================
