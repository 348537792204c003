-------------------------------- MODULE Panel --------------------------------
(***************************************************************************)
(* SessionPanel.tsx and the two views that mount it: FeaturesView, whose   *)
(* FeatureDetail looks the task of a feature up in its plan                *)
(* (useFeaturePlanTask), and Pipeline, whose dialog is given the task that *)
(* was clicked in the tree PlanGraph describes.  With it go the documents  *)
(* it opens (ArtifactDialog), the sections of the brief                    *)
(* (useTaskBriefFilters) and the phases Stepper describes.                 *)
(*                                                                         *)
(* One view is mounted at a time.  A handler, the render it causes and the *)
(* effects of that render are one step.  Features are named by their task. *)
(***************************************************************************)
EXTENDS PlanGraph, Stepper

CONSTANTS
  Plans,     \* the plans a run may be about: [phases, depends, v2, has]
  Piloted,   \* the tasks an autopilot may run
  HasPlan,   \* the features the server found in a plan
  Figures,   \* Figures[i][s]: what is told of the i-th phase, of status s
  Lives,     \* what may be known of a task
  Next1,     \* Next1[t][k]: what may be known of t next
  Docs,      \* the documents of a task
  Toggled,   \* bound: the sections of the brief the user plays with
  MaxDocs,   \* bound: documents opened
  MaxSwitches, \* bound: changes of view
  None

ASSUME PanelAssumption ==
  /\ MaxDocs \in Nat /\ MaxSwitches \in Nat
  /\ \A p \in Plans :
       /\ {None, Entry, Exit, Gate} \cap DOMAIN p.depends = {}
       /\ p.phases \in Seq(Range(p.phases))
       /\ \A i \in 1..Len(p.phases) :
            LET gate == p.phases[i].gate
            IN  /\ p.phases[i].tasks \in Seq(DOMAIN p.depends)
                /\ Acyclic(p, p.phases[i])
                /\ \/ gate = NoGate
                   \/ /\ {gate.passed, gate.enriched} \subseteq BOOLEAN
                      /\ gate.items \in Seq(Range(gate.items))
  /\ \A k \in Lives :
       /\ k.phases \in Seq(Range(k.phases))
       /\ k.sessions \in Seq(Range(k.sessions))
       /\ \A i \in 1..Len(k.phases) : Figures[i][k.phases[i]] \in PhaseFigures(k.phases[i])
  /\ Next1 \in [Piloted -> [Lives -> SUBSET Lives]]

VARIABLES
  plan,      \* the plan on the screen
  known,     \* what the polls last told of each task
  view,      \* "features" or "pipeline"
  switches,  \* changes of view so far
  picked,    \* selectedKey, or the id of selectedTask
  given,     \* the task handed to SessionPanel: [id, plan] as it was read
  lookups,   \* the requests of useFeaturePlanTask in flight: [of, live]
  panel,     \* SessionPanel when it is mounted: [mode, prev, init]
  expanded,  \* expandedPhaseId, as an index, or 0
  stored,    \* the same in localStorage
  visible,   \* visibleSections, of Toggled
  doc,       \* the artifact dialog: [url, content, loading]
  fetches,   \* its requests in flight
  opened     \* documents opened so far

viewVars == <<view, switches, picked, given, lookups, expanded, stored>>
docVars == <<doc, fetches, opened>>
vars == <<plan, known, viewVars, panel, visible, docVars>>

Tasks == DOMAIN plan.depends
NoPanel == [mode |-> "none", prev |-> None, init |-> FALSE]
NoDoc == [url |-> None, content |-> None, loading |-> FALSE]

-----------------------------------------------------------------------------
(* What is rendered of (view, picked, given, known). *)

Pilot(p, k) == IF p = None THEN "none" ELSE k[p].pilot

(* deriveSessionFlags *)
IsRunning(p, k) == Pilot(p, k) = "running"
IsCompleted(p, k) == Pilot(p, k) \in {"completed", "failed"}

(* FeatureDetail and Pipeline: when SessionPanel is there. *)
Mounted(v, p, k) == p # None /\ (v = "features" => Pilot(p, k) # "none")

(* taskId of SessionPanel, and the targetId of its SessionControls; of a     *)
(* feature without a session, FeatureDetail's own.                           *)
TaskId(v, p, g, k) ==
  CASE g # None /\ Mounted(v, p, k) -> g.id
    [] OTHER -> p

Target == TaskId(view, picked, given, known)

(* The header of SessionPanel, or of FeatureDetail without a session. *)
Header ==
  [title |-> Target, live |-> IsRunning(picked, known),
   pill |-> IF given = None THEN "none" ELSE given.plan]

(* The row of SessionControls, in both. *)
ControlsRow == [targetId |-> Target, attach |-> panel # NoPanel]

(* The prompt to copy, of a task that is not started and that no autopilot  *)
(* will run.                                                                *)
PromptBar ==
  IF given # None /\ given.plan \in {"pending", "wip"} /\ "prompt" \in plan.has[given.id]
       /\ given.id \notin Piloted
  THEN given.id ELSE None

(* DetailSidebar: the phases of the session, and its documents. *)
Phases(k) == [i \in 1..Len(k.phases) |-> Figures[i][k.phases[i]]]
DetailSidebar(t, k) ==
  [phases |-> IF Pilot(t, k) = "none" THEN <<>> ELSE Phases(k[t]),
   stepper |-> Pilot(t, k) # "none" /\ k[t].phases # <<>>]

(* mainContent, and of which task it is. *)
MainContent ==
  CASE panel.mode = "terminal" /\ Target # None -> [shows |-> "terminal", of |-> Target]
    [] panel.mode = "stream" /\ Pilot(picked, known) # "none" -> [shows |-> "stream", of |-> picked]
    [] OTHER -> IF given # None THEN [shows |-> "brief", of |-> given.id]
                ELSE [shows |-> "missing", of |-> None]

(* mergeArtifacts: the documents of both lists, each with where it is from;  *)
(* one that is in both is the autopilot's.                                   *)
MergeArtifacts(piloted, planned) ==
  [file \in piloted \cup planned |-> IF file \in piloted THEN "autopilot" ELSE "plan"]

(* buildArtifactUrl: of the session there is now, or else of the task.       *)
DocUrl(file, source) ==
  CASE source = "autopilot" /\ Pilot(picked, known) # "none" -> <<picked, file>>
    [] given # None /\ (source = "autopilot" => Pilot(picked, known) = "none") -> <<given.id, file>>
    [] OTHER -> None

(* availableBriefSections *)
Plan2Only == {"task_type", "what", "why", "where", "constraints", "manualtest_scenarios",
  "manual_test", "estimate", "scope_change", "delivered_beyond_plan", "remaining_gaps"}
BriefSections == Plan2Only \cup {"acceptance", "description"}
AvailableBriefSections(t) ==
  (plan.has[t] \cap BriefSections) \ (IF plan.v2 THEN {} ELSE Plan2Only)

(* The chips of the sections. *)
BriefChips(t) ==
  IF plan.v2
    THEN BriefSections
           \ ({s \in {"description"} : s \notin plan.has[t]}
                \cup {s \in {"manual_test"} : t \in Piloted /\ s \notin plan.has[t]})
    ELSE {"acceptance", "description"}

(* BriefMetadataFooter *)
BriefMetadataFooter(t) == plan.has[t] \cap {"auto_update", "last_updated", "extensions"}

(* BriefView: the sections that are shown, and its footer; of no section at *)
(* all, a message instead.                                                  *)
BriefView(t, shown) ==
  IF shown = {} THEN {"hidden"}
  ELSE (AvailableBriefSections(t) \cap shown) \cup BriefMetadataFooter(t)

(* SidebarExtras: the gate before, and the tasks one can go to.  The gate is *)
(* that of the phase before the task's (selectedPreviousGate).               *)
PreviousGate(t) ==
  LET at == {i \in 2..Len(plan.phases) : t \in Range(plan.phases[i].tasks)}
  IN  IF at = {} THEN NoGate ELSE plan.phases[Min(at) - 1].gate
SidebarExtras(t) ==
  [gate |-> PreviousGate(t), dependsOn |-> plan.depends[t],
   requiredBy |-> {u \in Tasks : t \in plan.depends[u]}]

-----------------------------------------------------------------------------
(* The effects of SessionPanel after a render with the task id t and the    *)
(* session of p: first render, change of task, session that arrives, and    *)
(* the way out of the terminal (R25).                                       *)

Shows(p, k) == IF IsRunning(p, k) THEN "stream" ELSE "brief"

FirstEffects(t, p, k) == [mode |-> Shows(p, k), prev |-> t, init |-> TRUE]

TaskEffect(m, t, p, k) ==
  CASE t # m.prev -> [mode |-> Shows(p, k), prev |-> t, init |-> IsRunning(p, k)]
    [] t = m.prev /\ ~m.init /\ IsRunning(p, k) -> [m EXCEPT !.init = TRUE, !.mode = "stream"]
    [] OTHER -> m

(* Mutant of FallBack: of a session that failed, the terminal stays. *)
FallBackCompleted(m, p, k) ==
  IF m.mode = "terminal" /\ Pilot(p, k) = "completed" THEN [m EXCEPT !.mode = Shows(p, k)] ELSE m

FallBack(m, p, k) ==
  IF m.mode = "terminal" /\ IsCompleted(p, k) THEN [m EXCEPT !.mode = Shows(p, k)] ELSE m

(* One render, from the panel m: the panel after it. *)
Rendered(m, v, p, g, k) ==
  LET t == TaskId(v, p, g, k)
  IN  CASE ~Mounted(v, p, k) -> NoPanel
        [] Mounted(v, p, k) /\ m = NoPanel -> FirstEffects(t, p, k)
        [] OTHER -> FallBack(TaskEffect(m, t, p, k), p, k)

(* The dialog goes with the panel, and closes when the task changes.        *)
Commit(m, v, p, g, k) ==
  /\ panel' = Rendered(m, v, p, g, k)
  /\ IF panel' = NoPanel \/ m = NoPanel THEN doc' = NoDoc /\ fetches' = {}
     ELSE /\ doc' = IF panel'.prev # m.prev THEN NoDoc ELSE doc
          /\ UNCHANGED fetches
  /\ UNCHANGED opened

-----------------------------------------------------------------------------
Init ==
  /\ plan \in Plans
  /\ known \in [DOMAIN plan.depends -> {k \in Lives : k.pilot = "none" /\ k.sessions = <<>>}]
  /\ view \in {"features", "pipeline"}
  /\ switches = 0
  /\ picked = None /\ given = None /\ lookups = {}
  /\ panel = NoPanel
  /\ stored = 0
  /\ expanded = FirstExpanded(plan, known)
  /\ visible = Toggled
  /\ doc = NoDoc /\ fetches = {} /\ opened = 0

(* usePlans, useAutopilots and useSessions answer: something new of a task. *)
Poll ==
  /\ \E t \in Piloted \cap Tasks, k \in Lives :
       /\ k \in Next1[t][known[t]]
       /\ known' = [known EXCEPT ![t] = k]
  /\ Commit(panel, view, picked, given, known')
  /\ UNCHANGED <<plan, viewVars, visible>>

(* FeaturesView: a feature is selected, and FeatureDetail looks its task up. *)
(* The instance is kept from one feature to the next, with what it has.      *)
PickFeature(t) ==
  /\ view = "features" /\ t \in Piloted \cap Tasks /\ t # picked /\ doc.url = None
  /\ picked' = t
  /\ given' = IF t \in HasPlan THEN given ELSE None
  /\ lookups' = {[l EXCEPT !.live = FALSE] : l \in lookups}
                  \cup {[of |-> u, live |-> TRUE] : u \in {t} \cap HasPlan}
  /\ Commit(panel, view, picked', given', known)
  /\ UNCHANGED <<plan, known, view, switches, expanded, stored, visible>>

(* Mutant of LookupAnswers: without the flag cancelled. *)
LookupAnswersAny(l) ==
  /\ lookups' = lookups \ {l}
  /\ given' = [id |-> l.of, plan |-> known[l.of].plan]
  /\ Commit(panel, view, picked, given', known)
  /\ UNCHANGED <<plan, known, view, switches, picked, expanded, stored, visible>>

(* The plan arrives: its task, if it is still asked for. *)
LookupAnswers(l) ==
  /\ lookups' = lookups \ {l}
  /\ given' = IF l.live THEN [id |-> l.of, plan |-> known[l.of].plan] ELSE given
  /\ Commit(panel, view, picked, given', known)
  /\ UNCHANGED <<plan, known, view, switches, picked, expanded, stored, visible>>

LookupFails(l) ==
  /\ lookups' = lookups \ {l}
  /\ given' = IF l.live THEN None ELSE given
  /\ Commit(panel, view, picked, given', known)
  /\ UNCHANGED <<plan, known, view, switches, picked, expanded, stored, visible>>

(* Pipeline: a card of the open phase is clicked, or a chip of the dialog. *)
Show(t) ==
  /\ picked' = t
  /\ given' = [id |-> t, plan |-> known[t].plan]
  /\ Commit(panel, view, picked', given', known)
  /\ UNCHANGED <<plan, known, view, switches, lookups, expanded, stored, visible>>

PickTask(t) ==
  /\ view = "pipeline" /\ picked = None /\ expanded # 0
  /\ t \in Range(plan.phases[expanded].tasks)
  /\ Show(t)

SelectTask(t) ==
  /\ view = "pipeline" /\ picked # None /\ doc.url = None
  /\ t \in SidebarExtras(picked).dependsOn \cup SidebarExtras(picked).requiredBy
  /\ Show(t)

(* handleEscape, onClose, Escape: what was mounted for the selection goes.  *)
ClosePanel ==
  /\ picked # None /\ doc.url = None
  /\ picked' = None /\ given' = None /\ lookups' = {}
  /\ Commit(panel, view, None, None, known)
  /\ UNCHANGED <<plan, known, view, switches, expanded, stored, visible>>

(* togglePhase *)
TogglePhase(i) ==
  /\ view = "pipeline" /\ picked = None
  /\ expanded' = IF expanded = i THEN 0 ELSE i
  /\ stored' = expanded'
  /\ UNCHANGED <<plan, known, view, switches, picked, given, lookups, panel, visible, docVars>>

(* Another tab of the shell: a view is unmounted and the other one mounted. *)
SwitchView ==
  /\ switches < MaxSwitches
  /\ doc.url = None /\ (view = "pipeline" => picked = None)
  /\ switches' = switches + 1
  /\ view' = IF view = "features" THEN "pipeline" ELSE "features"
  /\ picked' = None /\ given' = None /\ lookups' = {}
  /\ expanded' = IF stored # 0 THEN stored ELSE FirstExpanded(plan, known)
  /\ Commit(panel, view', None, None, known)
  /\ UNCHANGED <<plan, known, stored, visible>>

-----------------------------------------------------------------------------
(* Inside the panel. *)

SetMode(mode) ==
  /\ panel # NoPanel /\ doc.url = None
  /\ panel' = FallBack([panel EXCEPT !.mode = mode], picked, known)
  /\ UNCHANGED <<plan, known, viewVars, visible, docVars>>

(* onAttach: offered by SessionControls, which asks the server by itself. *)
Attach == Target # None /\ Pilot(picked, known) # "none" /\ SetMode("terminal")

(* onDetach *)
Detach == MainContent.shows = "terminal" /\ SetMode(Shows(picked, known))

(* The chip Task Brief. *)
ToggleBrief == SetMode(IF panel.mode = "brief" THEN "stream" ELSE "brief")

(* A chip of the brief, of a section that has something to show. *)
ToggleSection(s) ==
  /\ panel.mode = "brief" /\ given # None /\ doc.url = None
  /\ s \in BriefChips(given.id) \cap AvailableBriefSections(given.id)
  /\ visible' = IF s \in visible THEN visible \ {s} ELSE visible \cup {s}
  /\ UNCHANGED <<plan, known, viewVars, panel, docVars>>

(* handleArtifactClick, and the effect of ArtifactDialog on a new url.  The  *)
(* lists are what useAutopilotArtifacts and usePlanArtifacts last told, of   *)
(* the task before this one until they are told anew.                        *)
OpenDoc(file) ==
  /\ panel # NoPanel /\ doc.url = None /\ opened < MaxDocs
  /\ \E piloted, planned \in SUBSET Docs :
       LET merged == MergeArtifacts(piloted, planned)
       IN  /\ file \in DOMAIN merged /\ DocUrl(file, merged[file]) # None
           /\ doc' = [doc EXCEPT !.url = DocUrl(file, merged[file]), !.loading = TRUE]
           /\ fetches' = fetches \cup {DocUrl(file, merged[file])}
  /\ opened' = opened + 1
  /\ UNCHANGED <<plan, known, viewVars, panel, visible>>

(* The content of a document arrives; the dialog does not ask of which. *)
DocArrives(url) ==
  /\ fetches' = fetches \ {url}
  /\ doc' = [doc EXCEPT !.content = url, !.loading = FALSE]
  /\ UNCHANGED <<plan, known, viewVars, panel, visible, opened>>

CloseDoc ==
  /\ doc.url # None
  /\ doc' = [doc EXCEPT !.url = None, !.content = None]
  /\ UNCHANGED <<plan, known, viewVars, panel, visible, fetches, opened>>

Next ==
  \/ Poll
  \/ \E t \in Tasks : PickFeature(t) \/ PickTask(t) \/ SelectTask(t)
  \/ \E l \in lookups : LookupAnswers(l) \/ LookupFails(l)
  \/ ClosePanel
  \/ \E i \in 1..Len(plan.phases) : TogglePhase(i)
  \/ SwitchView
  \/ Attach \/ Detach \/ ToggleBrief
  \/ \E s \in Toggled : ToggleSection(s)
  \/ \E f \in Docs : OpenDoc(f)
  \/ \E u \in fetches : DocArrives(u)
  \/ CloseDoc

Spec == Init /\ [][Next]_vars

-----------------------------------------------------------------------------
(* Properties. *)

(* When no answer of useFeaturePlanTask is awaited, everything in sight is   *)
(* of the task the user picked: the title, the id that SessionControls posts *)
(* to, the prompt to copy, the stream, terminal or brief, and the document   *)
(* that would be opened -- whatever the order in which the answers of        *)
(* earlier picks came (useFeaturePlanTask.ts 44-70).                         *)
TargetSettles ==
  (\A l \in lookups : ~l.live) =>
    /\ Header.title = picked /\ ControlsRow.targetId = picked
    /\ PromptBar \in {None, picked}
    /\ panel # NoPanel => MainContent.of \in {None, picked}
    /\ \A file \in Docs, source \in {"autopilot", "plan"} :
         DocUrl(file, source) \in {None, <<picked, file>>}

(* R25: the terminal is never shown of a session that is over                *)
(* (SessionPanel.tsx 369-391).                                               *)
TerminalLetsGo == panel.mode = "terminal" => ~IsCompleted(picked, known)

(* No two tasks share a place; a task is as far right as its longest chain   *)
(* of dependencies, one further than the last of them, so that each line     *)
(* goes right; the isolated tasks are below the others.                      *)
LayoutSound(p, ph, nodes) ==
  /\ DOMAIN nodes = Range(ph.tasks)
  /\ \A t, u \in DOMAIN nodes : nodes[t] = nodes[u] => t = u
  /\ \A t \in DOMAIN nodes :
       /\ \A d \in Deps(p, ph, t) : nodes[d].col < nodes[t].col
       /\ nodes[t].col = 0 \/ \E d \in Deps(p, ph, t) : nodes[t].col = nodes[d].col + 1
  /\ \A t \in Isolated(p, ph), u \in DOMAIN nodes \ Isolated(p, ph) :
       nodes[u].row < nodes[t].row

(* Every task is on a way from the marker of the phase before to that of the *)
(* phase after, no line runs backward, and a line to the next column or      *)
(* along a row crosses no card.                                              *)
LinesSound(p, ph, nodes) ==
  LET X(e) == PlaceX(p, ph, nodes, e)
      lines == Lines(p, ph)
  IN  /\ \A l \in lines : X(l[1]) < X(l[2])
      /\ \A t \in DOMAIN nodes : t \in {l[2] : l \in lines} /\ t \in {l[1] : l \in lines}
      /\ \A l \in lines :
           l[1] # Entry /\ l[2] # Exit => {l[1], l[2]} \cap DOMAIN nodes # {}
      /\ \A l \in TreeConnectors(p, ph) :
           LET up == nodes[l[1]]
               down == nodes[l[2]]
           IN  down.col = up.col + 1 \/ down.row = up.row =>
                 \A seg \in RoutePath(p, ph, nodes, l[1], l[2]) :
                   ~SegmentCrossesAnyBox(nodes, seg, {l[1], l[2]})

(* The bar of a task is within its track while one of its phases is under    *)
(* way (Pipeline.tsx 212-214 does not clamp it: past the last phase it is    *)
(* not).                                                                     *)
TaskBarsSound(k) ==
  \A t \in DOMAIN k :
    (\E i \in 1..Len(k[t].phases) : k[t].phases[i] # "completed") =>
      TaskProgressBar(k[t]).pct \in 0..100

(* A phase is told done when all its tasks are, and a failure is never       *)
(* hidden by a task that runs.                                               *)
PhasesTold(p, k) ==
  \A i \in 1..Len(p.phases) :
    LET ph == p.phases[i]
        status == PhaseCard(ph, k).status
    IN  ph.tasks # <<>> =>
          /\ status = "done" <=> \A t \in Range(ph.tasks) : k[t].plan = "done"
          /\ status = "failed" <=> \E t \in Range(ph.tasks) : k[t].plan = "failed"

(* The bar of a phase is always within its track, and full of one that is    *)
(* done.                                                                     *)
PhaseBarsSound(p, k) ==
  \A i \in 1..Len(p.phases) :
    LET card == PhaseCard(p.phases[i], k)
    IN  card.pct \in 0..100 /\ (card.status = "done" => card.pct = 100)

(* What the brief shows of a task can be hidden: it has a chip.              *)
BriefSound(t) == AvailableBriefSections(t) \subseteq BriefChips(t)

(* A card that asks for attention has a bar that says so, and a running bar  *)
(* no chip; a gate whose prompt is gone has its bar full, and no failed item *)
(* or item of a human left (shouldShowGatePrompt, gateItemIcon).             *)
CardsSound(p, k, i) ==
  LET tree == PhaseTree(p, k, i)
  IN  /\ \A t \in DOMAIN tree.cards :
           /\ tree.cards[t].chips \cap {"fix", "needs input"} # {} =>
                tree.cards[t].bar.status = "fault"
           /\ Cardinality(tree.cards[t].chips) <= 1
      /\ i > 1 => tree.entry = PhaseCardConnector(p, k, i - 1)
      /\ HasGate(p.phases[i]) =>
           LET gate == GateColumn(p.phases[i].gate)
           IN  ~gate.prompt /\ gate.icons # <<>> =>
                 gate.bar = 100 /\ gate.summary.done = gate.summary.total
                   /\ Range(gate.icons) = {"passed"}

(* The phases ran one after another, and none longer than its times tell.   *)
InTurn(phases) ==
  \A i \in 1..Len(phases) :
    /\ phases[i].secs # Missing =>
         phases[i].from # Missing /\ phases[i].secs <= phases[i].upto - phases[i].from
    /\ \A j \in 1..(i - 1) :
         phases[j].from # Missing /\ phases[i].from # Missing => phases[j].upto <= phases[i].from

(* The totals under the phases: what went up is the sum of the rows, the     *)
(* total is told low on cache only if some phase is, the session is live     *)
(* exactly while a row is, and when it is over no row is open, the whole is  *)
(* as long as each of its rows and, of phases that ran in turn, the time     *)
(* between them is what remains of it (PhaseStepper.tsx 241-262).            *)
StepperSound(t, k) ==
  LET phases == DetailSidebar(t, k).phases
      full == FullStepper(phases, Missing)
      rows == full.rows
      tokens == full.footer.tokens
      times == full.footer.times
  IN  /\ IsLowCache(tokens) => \E i \in 1..Len(rows) : IsLowCache(rows[i].tokens)
      /\ tokens.fresh + tokens.cached =
           SumOf([i \in 1..Len(rows) |-> Max({0, rows[i].tokens.upstream})])
      /\ (\E i \in 1..Len(rows) : rows[i].times = "live") => times.live
      /\ times.wall # Missing =>
           \A i \in 1..Len(rows) :
             rows[i].times \in {"none", "ended"} /\ rows[i].elapsed <= times.wall
      /\ times.idle # Missing /\ InTurn(phases) => times.idle >= 0

(* The tree of the phase that is open (Pipeline.tsx, dagLayout.ts). *)
TreeSound(ph) ==
  LET nodes == BuildTreeLayout(plan, ph)
  IN  /\ LayoutSound(plan, ph, nodes) /\ LinesSound(plan, ph, nodes)
      /\ AnchorY(nodes, Range(Roots(plan, ph))) \in 0..TreeH(nodes)
      /\ AnchorY(nodes, Range(Leaves(plan, ph))) \in 0..TreeH(nodes)

(* What is told of plans and tasks is true: the bar, dot and chips of each   *)
(* card, the status of each phase, the gate, and the chips of the brief.     *)
CardsTrue ==
  /\ view = "pipeline" /\ picked = None =>
       /\ TaskBarsSound(known) /\ PhasesTold(plan, known)
       /\ expanded # 0 => CardsSound(plan, known, expanded)
  /\ panel # NoPanel /\ MainContent.shows = "brief" => BriefSound(given.id)

(* What is on the screen: of a plan its cards, the bars of its phases and    *)
(* the tree of the phase that is open; of a task the brief and the phases of *)
(* its session.                                                              *)
PictureSound ==
  /\ CardsTrue
  /\ view = "pipeline" /\ picked = None =>
       /\ PhaseBarsSound(plan, known)
       /\ expanded # 0 => TreeSound(plan.phases[expanded])
  /\ panel # NoPanel => StepperSound(picked, known)

(* SessionPanel.tsx 346: "Autopilot session arrived after initial render --  *)
(* switch to stream".                                                        *)
StreamArrives ==
  panel # NoPanel /\ panel'.prev = panel.prev
    /\ Pilot(picked, known) = "none" /\ IsRunning(picked, known') => panel'.mode = "stream"
StreamOnStart == [][StreamArrives]_vars

(* "keeps the brief surface from collapsing to a silent empty container when *)
(* the operator has hidden every chip" (SessionPanel.tsx 770-773); violated   *)
(* by the sections without data: they stay visible, so the set is not empty.  *)
BriefNeverSilent ==
  MainContent.shows = "brief" => BriefView(given.id, BriefSections \ (Toggled \ visible)) # {}

(* A bar is always within its track (aria-valuemax 100, Pipeline.tsx 234);   *)
(* violated when every phase of the session is completed.                    *)
BarWithinTrack == \A t \in Tasks : TaskProgressBar(known[t]).pct \in 0..100

(* The controls always act on the task that is shown as picked; violated     *)
(* while useFeaturePlanTask looks up the next one.                           *)
TargetIsShown == Target = picked

(* connectorRouting.ts: a line that goes round does not cross a card either; *)
(* violated when it goes halfway between two rows an even number apart.      *)
NoThroughBox(p, ph) ==
  LET nodes == BuildTreeLayout(p, ph)
  IN  \A l \in TreeConnectors(p, ph) : \A seg \in RoutePath(p, ph, nodes, l[1], l[2]) :
        ~SegmentCrossesAnyBox(nodes, seg, {l[1], l[2]})

(* The dialog shows the document it is open on; violated when the answer of  *)
(* an earlier one comes last.                                                *)
DocIsAsked == doc.url # None /\ doc.content # None => doc.content = doc.url
=============================================================================
