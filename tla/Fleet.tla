-------------------------------- MODULE Fleet --------------------------------
(***************************************************************************)
(* What the dashboard shows of the lists the server answers its polls      *)
(* with: the plans and features that pass the filters, in their order, the *)
(* activity rail, the overview, the header of a project and the tab of a   *)
(* feature.  A list is a sequence of records; a search is a string and     *)
(* Finds gives the names it is found in.                                   *)
(***************************************************************************)
EXTENDS Integers, Sequences, FiniteSets, SequencesExt, Selection

CONSTANTS
  Alpha,   \* Alpha[n]: the place of the name n in the alphabet
  Finds    \* Finds[q]: the names that contain the search q

Round(n, d) == (2 * n + d) \div (2 * d)
Percent(n, d) == IF d = 0 THEN 0 ELSE Round(100 * n, d)

(* A stable sort: what Before does not tell apart stays in its order. *)
StableSort(s, Before(_, _)) ==
  LET Ahead(i, j) == Before(s[i], s[j]) \/ (~Before(s[j], s[i]) /\ i < j)
  IN [k \in 1..Len(s) |->
        s[CHOOSE i \in 1..Len(s) : Cardinality({j \in 1..Len(s) : Ahead(j, i)}) = k - 1]]

(* The newest first, and those without a time (0) last. *)
Recent(a, b) == a > b

Matches(search, names) == search # "" => names \cap Finds[search] # {}

-----------------------------------------------------------------------------
(* The Plans tab.  A plan is [dir, project, base, lifecycle, active,         *)
(* progress, activity, ...], base the last part of its path, active the      *)
(* count of its sessions.                                                    *)

PlanChips == <<"active", "open", "done", "pending">>
PlanSorts == <<"group-then-progress-desc", "name-asc", "last-activity-desc">>
PlanDefaults == [lifecycle |-> {"active", "open"}, project |-> {}, search |-> "",
                 sort |-> PlanSorts[1]]

(* A response without a lifecycle is of a plan in progress. *)
ClassifyPlan(p) ==
  CASE p.lifecycle \in {"done", "pending"} -> p.lifecycle
    [] p.lifecycle \notin {"done", "pending"} /\ p.active > 0 -> "active"
    [] OTHER -> "open"

StatusPill(p) ==
  LET c == ClassifyPlan(p)
  IN [label |-> c, status |-> CASE c = "active" -> "running"
                                [] c = "done" -> "completed"
                                [] OTHER -> "none"]

PlanProjectChips(ps) == {ps[i].base : i \in DOMAIN ps} \ {""}

PlanPasses(p, f) ==
  /\ ClassifyPlan(p) \in f.lifecycle
  /\ f.project # {} => p.base \in f.project
  /\ Matches(f.search, {p.project, p.base})

Place(v, s) == CHOOSE i \in DOMAIN s : s[i] = v

PlanBefore(sort, a, b) ==
  LET ra == Place(ClassifyPlan(a), PlanChips)
      rb == Place(ClassifyPlan(b), PlanChips)
  IN CASE sort = "name-asc" -> Alpha[a.project] < Alpha[b.project]
       [] sort = "last-activity-desc" -> Recent(a.activity, b.activity)
       [] OTHER -> ra < rb \/ (ra = rb /\ a.progress > b.progress)

PassingPlans(ps, f) == Filter(ps, LAMBDA p : PlanPasses(p, f))

ShownPlans(ps, f) ==
  StableSort(PassingPlans(ps, f), LAMBDA a, b : PlanBefore(f.sort, a, b))

(* The hint under an empty list: the chips that are on, and those that could *)
(* be; without a missing one it is to clear the search.                      *)
EmptyHint(lifecycle, chips) ==
  [on |-> Filter(chips, LAMBDA c : c \in lifecycle),
   add |-> Filter(chips, LAMBDA c : c \notin lifecycle)]

(* The sort chips of the Plans tab are there when there is what to sort. *)
PlansBar(ps, f) ==
  [chips |-> [i \in DOMAIN PlanChips |-> <<PlanChips[i], PlanChips[i] \in f.lifecycle>>],
   projects |-> PlanProjectChips(ps),
   sorts |-> IF Len(PassingPlans(ps, f)) >= 2 THEN PlanSorts ELSE <<>>]

-----------------------------------------------------------------------------
(* The Features tab.  A feature is [project, name, root, status, lifecycle,  *)
(* activity, doneAt, phase, phases, sessions, planDir, planTask].            *)

FeatureChips == <<"active", "paused", "pending", "done">>
FeatureSorts == <<"urgency-then-completion", "name-asc", "last-activity-desc">>
FeatureDefaults == [lifecycle |-> {"active", "paused"}, project |-> {}, search |-> "",
                    sort |-> FeatureSorts[1]]
Urgency == <<"stuck", "waiting", "active", "paused", "done">>

Lifecycle(f) == IF f.lifecycle = "none" THEN "inprogress" ELSE f.lifecycle
IsDoneFeature(f) == f.lifecycle = "done"

(* Mutant of LifecycleMatches: everything in progress is active as well. *)
LifecycleMatchesTwice(f, lifecycle) ==
  \/ Lifecycle(f) = "pending" /\ "pending" \in lifecycle
  \/ /\ Lifecycle(f) = "inprogress" /\ f.status # "done"
     /\ \/ f.status = "paused" /\ "paused" \in lifecycle
        \/ "active" \in lifecycle

(* The chip that shows a feature above the divider.  One in progress whose   *)
(* status is done is shown by none.                                          *)
LifecycleMatches(f, lifecycle) ==
  \/ Lifecycle(f) = "pending" /\ "pending" \in lifecycle
  \/ /\ Lifecycle(f) = "inprogress"
     /\ \/ f.status = "paused" /\ "paused" \in lifecycle
        \/ f.status \notin {"paused", "done"} /\ "active" \in lifecycle

FeatureProjectChips(fs) == {fs[i].project : i \in DOMAIN fs} \ {""}

FeatureBefore(sort, a, b) ==
  CASE sort = "name-asc" -> Alpha[a.name] < Alpha[b.name]
    [] sort = "last-activity-desc" -> Recent(a.activity, b.activity)
    [] OTHER -> Place(a.status, Urgency) < Place(b.status, Urgency)

DoneBefore(a, b) == Recent(a.doneAt, b.doneAt)

(* The two layers of the list, the done ones under the divider. *)
Layers(fs, f) ==
  LET Passes(x) == /\ Matches(f.search, {x.name, x.project})
                   /\ f.project # {} => x.project \in f.project
      Working(x) == ~IsDoneFeature(x) /\ LifecycleMatches(x, f.lifecycle)
  IN [inprogress |-> Filter(fs, LAMBDA x : Passes(x) /\ Working(x)),
      done |-> IF "done" \in f.lifecycle THEN Filter(fs, LAMBDA x : Passes(x) /\ IsDoneFeature(x))
               ELSE <<>>]

ShownFeatures(fs, f) ==
  LET layers == Layers(fs, f)
  IN [inprogress |-> StableSort(layers.inprogress, LAMBDA a, b : FeatureBefore(f.sort, a, b)),
      done |-> StableSort(layers.done, DoneBefore)]

DoneDivider(shown) == shown.inprogress # <<>> /\ shown.done # <<>>

FeatureKey(f) == <<f.root, f.name>>

(* A card: its bar as a fraction, half a phase in while a phase runs, and    *)
(* the plan it links to, named as the last poll of the plans has it.         *)
FeatureCard(f, ps) ==
  LET linked == f.planDir # "" /\ f.planTask # ""
      found == Filter(ps, LAMBDA p : p.dir = f.planDir)
  IN [key |-> FeatureKey(f),
      bar |-> IF f.status = "done" \/ f.phase >= f.phases THEN <<1, 1>>
              ELSE <<2 * f.phase + 1, 2 * f.phases>>,
      link |-> IF linked THEN <<f.planDir>> ELSE <<>>,
      label |-> IF ~linked THEN "" ELSE IF found = <<>> THEN f.planTask ELSE found[1].project]

FeatureList(fs, f, ps) ==
  LET shown == ShownFeatures(fs, f)
      Cards(s) == [i \in DOMAIN s |-> FeatureCard(s[i], ps)]
  IN IF fs = <<>> THEN [kind |-> "none"]
     ELSE IF shown.inprogress \o shown.done = <<>>
       THEN [kind |-> "no match", hint |-> EmptyHint(f.lifecycle, FeatureChips)]
     ELSE [kind |-> "list", inprogress |-> Cards(shown.inprogress),
           done |-> Cards(shown.done),
           divider |-> IF DoneDivider(shown) THEN Len(shown.done) ELSE 0]

-----------------------------------------------------------------------------
(* The activity rail.  A session is [sid, status, event]; an autopilot       *)
(* [task, project, status].                                                  *)

ActiveSession(s) == s.status \in {"working", "needs_input"}
ActiveFeature(f) == f.status \in {"active", "waiting"}
IsAutopilotActive(a) == a.status = "running"

(* The dot of a row, by way of its tone. *)
ToneSession(status) == IF status = "needs_input" THEN "warning" ELSE "info"
ToneFeature(status) == IF status = "waiting" THEN "warning" ELSE "info"
ToneToWfStatus(tone) == IF tone = "warning" THEN "stalled" ELSE "running"

Rail(fs, ss, as) ==
  LET Row(title, tone) == [title |-> title, dot |-> ToneToWfStatus(tone)]
      s == Filter(ss, ActiveSession)
      a == Filter(as, IsAutopilotActive)
      f == Filter(fs, ActiveFeature)
  IN [sessions |-> [i \in DOMAIN s |-> Row(s[i].sid, ToneSession(s[i].status))],
      plans |-> [i \in DOMAIN a |-> Row(a[i].task, "info")],
      features |-> [i \in DOMAIN f |-> Row(f[i].name, ToneFeature(f[i].status))]]

-----------------------------------------------------------------------------
(* The overview. *)

CountFeaturesByStatus(fs) ==
  LET Of(S) == Count(fs, LAMBDA f : f.status \in S)
  IN [running |-> Of({"active"}), awaiting |-> Of({"waiting"}),
      blocked |-> Of({"stuck", "paused"}), shipped |-> Of({"done"})]

(* Rates are in tenths of a percent.  The i-th feature shipped is drawn on   *)
(* day 2i mod 7.                                                             *)
ComputeFleetStats(fs, ss) ==
  LET total == IF ss = <<>> THEN 1 ELSE Len(ss)
      ended == Count(ss, LAMBDA s : s.status \in {"completed", "stopped", "closed", "stale"})
      Events(e) == Count(ss, LAMBDA s : s.event = e)
      shipped == CountFeaturesByStatus(fs).shipped
      friction == Events("PermissionRequest")
  IN [passRate |-> Round((ended - Events("PostToolUseFailure")) * 1000,
                         IF ended = 0 THEN 1 ELSE ended),
      errorRate |-> Round(Events("PostToolUseFailure") * 1000, total),
      trust |-> IF friction > 100 THEN 0 ELSE 100 - friction,
      budget |-> IF total > 100 THEN 100 ELSE total,
      week |-> [day \in 0..6 |-> Cardinality({i \in 1..shipped : (2 * (i - 1)) % 7 = day})],
      shippedDelta |-> shipped]

(* The newest of the last twelve sessions first, then what has shipped. *)
RecentActivity(fs, ss) ==
  LET from == IF Len(ss) > 12 THEN Len(ss) - 11 ELSE 1
      told == Filter(Reverse(SubSeq(ss, from, Len(ss))),
                LAMBDA s : s.event \in {"TaskCompleted", "Stop", "PostToolUseFailure", "SessionStart"})
      shipped == Filter(fs, LAMBDA f : f.status = "done")
  IN [i \in DOMAIN told |-> told[i].sid] \o [i \in DOMAIN shipped |-> shipped[i].name]

Summarize(fs, projects, sessions) ==
  LET underway == Count(fs, ActiveFeature)
  IN IF underway = 0 /\ projects = 0 THEN <<>> ELSE <<underway, sessions, projects>>

Overview(ps, fs, ss) ==
  IF ps \o ss \o fs = <<>> THEN [kind |-> "empty"]
  ELSE [kind |-> "overview",
        header |-> Summarize(fs, Len(ps),
          Count(ss, LAMBDA s : s.status \in {"working", "needs_input", "idle"})),
        tiles |-> CountFeaturesByStatus(fs),
        stats |-> ComputeFleetStats(fs, ss),
        rows |-> [i \in DOMAIN fs |-> <<fs[i].name, Percent(fs[i].phase, fs[i].phases)>>],
        activity |-> LET a == RecentActivity(fs, ss)
                     IN SubSeq(a, 1, IF Len(a) > 6 THEN 6 ELSE Len(a))]

-----------------------------------------------------------------------------
(* A plan's row on the Plans tab and on its own tabs.  file is the plan      *)
(* itself: [tasks, schema, vision], a task [id, status, results].            *)

TaskDone(t) == t.status = "done"

PlanCompletionBand(file, fs) ==
  [done |-> Count(file.tasks, TaskDone), total |-> Len(file.tasks),
   percent |-> Percent(Count(file.tasks, TaskDone), Len(file.tasks)),
   segments |-> [i \in DOMAIN file.tasks |-> file.tasks[i].status]]

(* A plan that is done has no controls: they would start it again. *)
PlanRow(p, file, fs) ==
  [pill |-> StatusPill(p), controls |-> ClassifyPlan(p) # "done",
   band |-> PlanCompletionBand(file, Filter(fs, LAMBDA f : f.project = p.project)),
   warning |-> file.schema \notin {"1", "2"}]

ProjectPanel(p, loaded, fs) ==
  IF p.dir \notin loaded THEN [kind |-> "loading"]
  ELSE IF p.file = <<>> THEN [kind |-> "no plan"]
  ELSE [kind |-> "row", row |-> PlanRow(p, p.file[1], fs)]

VisionPane(file) ==
  [sections |-> Filter(<<"description", "vision", "tech_stack", "success_criteria", "scope">>,
                          LAMBDA s : s \in file.vision)]

(* Every result of every task, each with a block for each deviation. *)
DeviationsPane(file) ==
  LET Rows(t) == [i \in DOMAIN t.results |-> <<t.id, t.results[i]>>]
  IN FlattenSeq([i \in DOMAIN file.tasks |-> Rows(file.tasks[i])])

(* FeatureTabView: the first feature of that project and name. *)
FeatureTab(fs, project, name) ==
  LET found == Filter(fs, LAMBDA f : f.project = project /\ f.name = name)
  IN IF found = <<>> THEN [kind |-> "not found"]
     ELSE [kind |-> "feature", status |-> found[1].status,
           progress |-> Percent(found[1].phase, found[1].phases),
           sessions |-> found[1].sessions]
=============================================================================
