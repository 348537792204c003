-------------------------------- MODULE Shell --------------------------------
(***************************************************************************)
(* DashboardShell: the tabs of one window of the dashboard, the sidebar    *)
(* and the rail that open them, the filters of the Plans and Features tabs *)
(* (createVersionedFilterState) with their debounced search, and what of   *)
(* all that localStorage keeps over a reload.  The screens are Fleet's.    *)
(*                                                                         *)
(* The filters of the plans live in the shell, those of the features in    *)
(* FeatureList, which is there only while its tab is the active one.  A    *)
(* tab is <<view>>, <<"project", name, subview>> or                        *)
(* <<"feature", project, name>>.  A handler, its render and the effects of *)
(* that render are one step.                                               *)
(***************************************************************************)
EXTENDS Fleet

CONSTANTS
  Views,      \* VIEW_OPTIONS, "overview", "plan" and "features" among them
  Worlds,     \* what the server may know, one after the other:
              \* [plans, features, sessions, autopilots]
  Storages,   \* what localStorage may hold at the first load:
              \* [tabs, active, view, plan, features]
  MaxActs,    \* bound: what the user does, reloads included
  None

ASSUME ShellAssumption ==
  /\ {"overview", "plan", "features"} \subseteq Views
  /\ MaxActs \in Nat /\ Len(Worlds) \in Nat /\ DOMAIN Finds \subseteq STRING

(* The lists, names and states the server sends. *)
ASSUME WorldAssumption ==
  \A k \in 1..Len(Worlds) :
    LET w == Worlds[k] IN
    /\ \A l \in {"plans", "features", "sessions", "autopilots"} : w[l] \in Seq(Range(w[l]))
    /\ \A i \in DOMAIN w.plans : {w.plans[i].project, w.plans[i].base} \subseteq STRING
    /\ \A i \in DOMAIN w.features :
         LET f == w.features[i] IN
         /\ f.project \in STRING
         /\ f.lifecycle \in {"none", "inprogress", "pending", "done"}
         /\ f.status \in {"active", "waiting", "stuck", "paused", "done"}
    /\ \A i \in DOMAIN w.autopilots : w.autopilots[i].project \in STRING

VARIABLES
  polled,    \* per list, the world its last poll was answered from, 0 before
  loaded,    \* the plan directories usePlan has an answer for
  tabs,      \* openTabs
  active,    \* activeTab
  expanded,  \* plansExpanded ("plan") and expandedProjects
  terminal,  \* isTerminalOpen of the ProjectHeader there is, or TRUE
  scrolled,  \* the plan handleNavigateToPlan scrolled to
  filters,   \* the filters of each tab, None while it is not mounted
  pending,   \* the tabs with a search that is not written yet
  kept,      \* localStorage
  acts       \* what the user has done so far

vars == <<polled, loaded, tabs, active, expanded, terminal, scrolled, filters,
          pending, kept, acts>>

Lists == {"plans", "features", "sessions", "autopilots"}
Scopes == {"plan", "features"}
Subviews == {"vision", "pipeline", "deferred", "deviations"}

Data(list, k) == IF k[list] = 0 THEN <<>> ELSE Worlds[k[list]][list]
Plans == Data("plans", polled)
Features == Data("features", polled)
Sessions == Data("sessions", polled)
Autopilots == Data("autopilots", polled)

TabsOpen == {tabs[i] : i \in DOMAIN tabs}
View(v) == <<v>>
Pipeline(p) == <<"project", p, "pipeline">>

-----------------------------------------------------------------------------
(* localStorage *)

Defaults(s) == IF s = "plan" THEN PlanDefaults ELSE FeatureDefaults
Chips(s) == IF s = "plan" THEN PlanChips ELSE FeatureChips
Sorts(s) == IF s = "plan" THEN PlanSorts ELSE FeatureSorts
InSeq(v, q) == \E i \in DOMAIN q : q[i] = v

(* parseStored: a value of any other version is no value. *)
ParseStored(s, raw) ==
  IF /\ \A c \in raw.lifecycle : InSeq(c, Chips(s))
     /\ InSeq(raw.sort, Sorts(s))
  THEN raw ELSE None

SafeRead(s, raw) ==
  IF raw = None \/ ParseStored(s, raw) = None THEN Defaults(s) ELSE ParseStored(s, raw)

MigrateLegacyView(v) ==
  IF v \in {"overview", "plan", "metrics", "grinder"} THEN v
  ELSE IF v \in {"features", "autopilot"} THEN "features" ELSE "overview"

IsValidTabId(t) == t[1] \in {"project", "feature"} \/ t \in {View(v) : v \in Views}

BootTabs(st) ==
  IF st.tabs # <<>> THEN Filter(st.tabs, IsValidTabId)
  ELSE <<View(MigrateLegacyView(st.view))>>

BootActive(st) ==
  IF st.active # None /\ IsValidTabId(st.active) THEN st.active
  ELSE View(MigrateLegacyView(st.view))

Mounted(s, t) == s = "plan" \/ t = View("features")

TabIds == {View(v) : v \in Views} \cup ({"project", "feature"} \X STRING \X STRING)
StoredTabs == TabIds \cup [1..1 -> STRING \ {"project", "feature"}]
StoredFilters == [lifecycle : SUBSET STRING, project : SUBSET STRING, search : STRING, sort : STRING]

(* The prover has to be told that the literals are strings. *)
ASSUME LiteralsAreStrings ==
  /\ Subviews \cup {""} \subseteq STRING
  /\ \A s \in Scopes : Range(Chips(s)) \cup Range(Sorts(s)) \subseteq STRING

(* What an earlier page left: nothing, or its tabs and the one in front; any *)
(* of them may be of a view there is no more, and its filters may be of      *)
(* another version.                                                          *)
ASSUME StorageAssumption ==
  /\ None \notin TabIds \cup StoredFilters
  /\ \A st \in Storages :
       /\ DOMAIN st = {"tabs", "active", "view", "plan", "features"}
       /\ {st.plan, st.features} \subseteq StoredFilters \cup {None}
       /\ MigrateLegacyView(st.view) \in Views
       /\ st.tabs \in Seq(StoredTabs)
       /\ \A i, j \in DOMAIN st.tabs : st.tabs[i] = st.tabs[j] => i = j
       /\ IF st.tabs = <<>> THEN st.active = None
          ELSE \E i \in DOMAIN st.tabs : st.tabs[i] = st.active

(* The state of a page that has just been loaded. *)
Booted(st) ==
  [tabs |-> BootTabs(st), active |-> BootActive(st),
   filters |-> [s \in Scopes |-> IF Mounted(s, BootActive(st)) THEN SafeRead(s, st[s]) ELSE None]]

Init ==
  /\ polled = [l \in Lists |-> 0] /\ loaded = {}
  /\ \E st \in Storages :
       /\ tabs = Booted(st).tabs /\ active = Booted(st).active
       /\ filters = Booted(st).filters
       /\ kept = [st EXCEPT !.tabs = tabs, !.active = active]
  /\ expanded = {} /\ terminal = TRUE /\ scrolled = None /\ pending = {}
  /\ acts = 0

-----------------------------------------------------------------------------
(* What is on the screen. *)

FindPlan(name, k) == Filter(Data("plans", k), LAMBDA p : p.project = name)

(* ProjectSubviewTab: the first plan of that name. *)
ProjectScreen(name, sub, k, l) ==
  LET found == FindPlan(name, k)
      p == found[1]
  IN IF k.plans = 0 THEN [kind |-> "loading"]
     ELSE IF found = <<>> THEN [kind |-> "not found"]
     ELSE IF p.dir \notin l THEN [kind |-> "loading"]
     ELSE IF p.file = <<>> THEN [kind |-> "not found"]
     ELSE IF sub = "vision" THEN [kind |-> "vision", body |-> VisionPane(p.file[1])]
     ELSE [kind |-> sub, of |-> p.dir,
           header |-> PlanRow(p, p.file[1], Features),
           body |-> IF sub = "deviations" THEN DeviationsPane(p.file[1]) ELSE p.file[1].tasks]

(* The ProjectHeader there is, by its place: React keeps its state from one  *)
(* tab to the next when both have it in the same place.                      *)
HeaderPlace(t, k, l) ==
  IF t[1] = "project" /\ t[3] \in Subviews
     /\ ProjectScreen(t[2], t[3], k, l).kind \in Subviews \ {"vision"}
  THEN t[3] ELSE None

KeepTerminal(t, k, l) ==
  HeaderPlace(t, k, l) # None /\ HeaderPlace(t, k, l) = HeaderPlace(active, polled, loaded)

TerminalShown ==
  /\ HeaderPlace(active, polled, loaded) # None
  /\ ProjectScreen(active[2], active[3], polled, loaded).header.controls
  /\ terminal

PlansView ==
  LET shown == ShownPlans(Plans, filters["plan"])
  IN IF polled.plans = 0 THEN [kind |-> "loading"]
     ELSE IF Plans = <<>> THEN [kind |-> "none"]
     ELSE IF shown = <<>> THEN [kind |-> "no match", bar |-> PlansBar(Plans, filters["plan"]),
                                hint |-> EmptyHint(filters["plan"].lifecycle, PlanChips)]
     ELSE [kind |-> "list", bar |-> PlansBar(Plans, filters["plan"]),
           panels |-> [i \in DOMAIN shown |-> ProjectPanel(shown[i], loaded, Features)]]

FeaturesScreen ==
  IF polled.features = 0 THEN [kind |-> "loading"]
  ELSE FeatureList(Features, filters["features"], Plans)

Main ==
  CASE active[1] = "project" ->
         IF active[3] \in Subviews THEN ProjectScreen(active[2], active[3], polled, loaded)
         ELSE [kind |-> "blank"]
    [] active[1] = "feature" -> FeatureTab(Features, active[2], active[3])
    [] active = View("overview") -> Overview(Plans, Features, Sessions)
    [] active = View("plan") -> PlansView
    [] active = View("features") -> FeaturesScreen
    [] OTHER -> [kind |-> active[1]]

-----------------------------------------------------------------------------
Act == acts < MaxActs /\ acts' = acts + 1

(* The handlers of the tabs.  Each ends in Show: the tab in front, what it   *)
(* mounts and unmounts, and the two effects that write the tabs.             *)

Show(t, opened) ==
  /\ tabs' = opened
  /\ active' = t
  /\ kept' = [kept EXCEPT !.tabs = opened, !.active = t]
  /\ filters' = IF Mounted("features", t) = Mounted("features", active) THEN filters
                ELSE [filters EXCEPT !["features"] =
                        IF Mounted("features", t) THEN SafeRead("features", kept["features"]) ELSE None]
  /\ pending' = IF Mounted("features", t) THEN pending ELSE pending \ {"features"}
  /\ terminal' = IF KeepTerminal(t, polled, loaded) THEN terminal ELSE TRUE
  /\ Act
  /\ UNCHANGED <<polled, loaded>>

Opened(t) == IF t \in TabsOpen THEN tabs ELSE Append(tabs, t)
OpenOrFocusTab(t) == Show(t, Opened(t)) /\ scrolled' = None
Toggle(v, S) == IF v \in S THEN S \ {v} ELSE S \union {v}

(* A view of the sidebar, or of the select of a small screen. *)
HandleViewSelectChange(v) ==
  /\ OpenOrFocusTab(View(v))
  /\ expanded' = IF v = "plan" THEN Toggle("plan", expanded) ELSE expanded

(* A plan's row in the tree under Plans: its pipeline, and its own rows. *)
ClickProject(p) ==
  /\ "plan" \in expanded
  /\ OpenOrFocusTab(Pipeline(p.project))
  /\ expanded' = Toggle(p.dir, expanded)

ClickSubview(p, sub) ==
  /\ {"plan", p.dir} \subseteq expanded
  /\ OpenOrFocusTab(<<"project", p.project, sub>>)
  /\ UNCHANGED expanded

(* ActivityRail: the project of an autopilot is the name of its repository. *)
SelectRailPlan(a) ==
  /\ IsAutopilotActive(a)
  /\ OpenOrFocusTab(IF a.project = "" THEN View("plan") ELSE Pipeline(a.project))
  /\ UNCHANGED expanded

SelectRailFeature(f) ==
  /\ ActiveFeature(f)
  /\ OpenOrFocusTab(View("features"))
  /\ UNCHANGED expanded

(* The Output button of a plan's row. *)
OpenOutput(p) ==
  /\ active = View("plan")
  /\ PlanPasses(p, filters["plan"])
  /\ ProjectPanel(p, loaded, Features).kind = "row" /\ ClassifyPlan(p) # "done"
  /\ OpenOrFocusTab(Pipeline(p.project))
  /\ UNCHANGED expanded

(* The link of a feature's card.  The tab is on the screen before the plan   *)
(* is looked for, and a plan the filters hide is not found.                  *)
HandleNavigateToPlan(f) ==
  LET shown == PassingPlans(Plans, filters["plan"])
      layers == Layers(Features, filters["features"])
  IN /\ active = View("features")
     /\ InSeq(f, layers.inprogress \o layers.done)
     /\ FeatureCard(f, Plans).link # <<>>
     /\ Show(View("plan"), Opened(View("plan")))
     /\ scrolled' = IF \E i \in DOMAIN shown : shown[i].dir = f.planDir THEN f.planDir ELSE None
     /\ UNCHANGED expanded

SetActiveTab(t) ==
  /\ t \in TabsOpen \ {active}
  /\ Show(t, tabs) /\ scrolled' = None
  /\ UNCHANGED expanded

(* The tabs without the i-th; no tab is open twice. *)
Without(s, i) == [k \in 1..(Len(s) - 1) |-> IF k < i THEN s[k] ELSE s[k + 1]]

(* Mutant of Refocus: the tab in front stays in front. *)
RefocusNever(remaining, target) == active

Refocus(remaining, target) ==
  IF target = active THEN remaining[Len(remaining)] ELSE active

CloseTab(i) ==
  LET remaining == Without(tabs, i)
  IN /\ IF remaining = <<>> THEN Show(View("overview"), <<View("overview")>>)
        ELSE Show(Refocus(remaining, tabs[i]), remaining)
     /\ scrolled' = IF active' = active THEN scrolled ELSE None
     /\ UNCHANGED expanded

(* Everything in the page is gone, and so is a search not yet written. *)
Reload ==
  /\ tabs' = Booted(kept).tabs /\ active' = Booted(kept).active
  /\ filters' = Booted(kept).filters
  /\ kept' = [kept EXCEPT !.tabs = tabs', !.active = active']
  /\ polled' = [l \in Lists |-> 0] /\ loaded' = {}
  /\ expanded' = {} /\ terminal' = TRUE /\ scrolled' = None /\ pending' = {}
  /\ Act

-----------------------------------------------------------------------------
(* The filters of the tab in front. *)

BarShown(s) ==
  /\ active = View(s)
  /\ IF s = "plan" THEN Plans # <<>> ELSE Features # <<>>

Edit(s, f) ==
  /\ Act
  /\ filters' = [filters EXCEPT ![s] = f]
  /\ scrolled' = None
  /\ UNCHANGED <<polled, loaded, tabs, active, expanded, terminal>>

(* Mutant of SetChips: stateRef.current instead of this render's state. *)
SetChipsStale(s, f) ==
  /\ Edit(s, f)
  /\ kept' = [kept EXCEPT ![s] = filters[s]]
  /\ UNCHANGED pending

(* The chips and the order are written with the render they cause, and with  *)
(* them whatever the search is by then.                                      *)
SetChips(s, f) ==
  /\ Edit(s, f)
  /\ kept' = [kept EXCEPT ![s] = f]
  /\ UNCHANGED pending

ToggleLifecycle(s, c) ==
  SetChips(s, [filters[s] EXCEPT !.lifecycle = Toggle(c, @)])

(* The chips there are are of the plans, or features, of the last poll. *)
ToggleProject(s, p) ==
  /\ p \in IF s = "plan" THEN PlanProjectChips(Plans) ELSE FeatureProjectChips(Features)
  /\ SetChips(s, [filters[s] EXCEPT !.project = Toggle(p, @)])

SetSort(s, m) ==
  /\ m # filters[s].sort
  /\ s = "plan" => InSeq(m, PlansBar(Plans, filters[s]).sorts)
  /\ SetChips(s, [filters[s] EXCEPT !.sort = m])

(* A search waits 300 ms, and again with every change of it. *)
SetSearch(s, q) ==
  /\ q # filters[s].search
  /\ Edit(s, [filters[s] EXCEPT !.search = q])
  /\ pending' = pending \union {s}
  /\ UNCHANGED kept

(* The timer writes the filters of that moment. *)
WriteSearch(s) ==
  /\ s \in pending
  /\ kept' = [kept EXCEPT ![s] = filters[s]]
  /\ pending' = pending \ {s}
  /\ UNCHANGED <<polled, loaded, tabs, active, expanded, terminal, scrolled, filters, acts>>

-----------------------------------------------------------------------------
(* The terminal of a project's header, closed there or in itself. *)
ToggleTerminal ==
  /\ HeaderPlace(active, polled, loaded) # None
  /\ ProjectScreen(active[2], active[3], polled, loaded).header.controls
  /\ Act
  /\ terminal' = ~terminal
  /\ UNCHANGED <<polled, loaded, tabs, active, expanded, scrolled, filters, pending, kept>>

(* A poll of one of the lists is answered.  A plan that is gone takes the    *)
(* header of its tab with it.                                                *)
Poll(l) ==
  /\ polled[l] < Len(Worlds)
  /\ polled' = [polled EXCEPT ![l] = @ + 1]
  /\ terminal' = IF KeepTerminal(active, polled', loaded) THEN terminal ELSE TRUE
  /\ UNCHANGED <<loaded, tabs, active, expanded, scrolled, filters, pending, kept, acts>>

(* usePlan is answered for a plan on the screen. *)
Asked ==
  CASE active = View("plan") ->
         {Plans[i].dir : i \in {j \in DOMAIN Plans : PlanPasses(Plans[j], filters["plan"])}}
    [] active[1] = "project" /\ FindPlan(active[2], polled) # <<>> ->
         {FindPlan(active[2], polled)[1].dir}
    [] OTHER -> {}

LoadPlan(dir) ==
  /\ dir \in Asked \ loaded
  /\ loaded' = loaded \union {dir}
  /\ UNCHANGED <<polled, tabs, active, expanded, terminal, scrolled, filters, pending, kept, acts>>

Searches == DOMAIN Finds \union {""}

FilterStep ==
  \E s \in Scopes :
    \/ /\ BarShown(s)
       /\ \/ \E i \in DOMAIN Chips(s) : ToggleLifecycle(s, Chips(s)[i])
          \/ \E p \in PlanProjectChips(Plans) \union FeatureProjectChips(Features) :
               ToggleProject(s, p)
          \/ \E i \in DOMAIN Sorts(s) : SetSort(s, Sorts(s)[i])
          \/ \E q \in Searches : SetSearch(s, q)
    \/ WriteSearch(s)

TabStep ==
  \/ \E v \in Views : HandleViewSelectChange(v)
  \/ \E i \in DOMAIN Plans : ClickProject(Plans[i]) \/ OpenOutput(Plans[i])
  \/ \E i \in DOMAIN Plans, sub \in Subviews : ClickSubview(Plans[i], sub)
  \/ \E i \in DOMAIN Autopilots : SelectRailPlan(Autopilots[i])
  \/ \E i \in DOMAIN Features : SelectRailFeature(Features[i]) \/ HandleNavigateToPlan(Features[i])
  \/ \E t \in TabsOpen : SetActiveTab(t)
  \/ \E i \in DOMAIN tabs : CloseTab(i)
  \/ Reload
  \/ ToggleTerminal

Next ==
  \/ FilterStep
  \/ TabStep
  \/ \E l \in Lists : Poll(l)
  \/ \E i \in DOMAIN Plans : LoadPlan(Plans[i].dir)

Spec == Init /\ [][Next]_vars

-----------------------------------------------------------------------------
(* Whatever is opened, closed or reloaded: no tab is open twice; what comes  *)
(* to the front is open, and while it is in front it stays open.  Only the   *)
(* view a page boots with in place of one there is no more may be in front   *)
(* and not open.                                                             *)
FrontIsOpen == active \in TabsOpen
FrontIsLegacy == active = View(MigrateLegacyView(kept.view))

ActiveIsOpen ==
  /\ [](\A i, j \in DOMAIN tabs : tabs[i] = tabs[j] => i = j)
  /\ [](FrontIsOpen \/ FrontIsLegacy)
  /\ [][FrontIsOpen \/ active' # active => FrontIsOpen']_vars

(* But for a search being typed, a reload finds the filters as they are: no  *)
(* order of chips, searches, timers and mounts leaves an older one behind.   *)
FiltersKept ==
  \A s \in Scopes : Mounted(s, active) /\ s \notin pending => SafeRead(s, kept[s]) = filters[s]

(* The chips share the features and plans among them: with several on, each  *)
(* is shown once, and with all of them on only a feature that is done and    *)
(* still in progress is not.                                                 *)
OnlyChip(f, c) == [f EXCEPT !.lifecycle = {c}]
AllChips(s) == [Defaults(s) EXCEPT !.lifecycle = {Chips(s)[i] : i \in DOMAIN Chips(s)}]
Odd(x) == x.status = "done" /\ Lifecycle(x) = "inprogress"

(* How many are shown, and how many of them by the chip c. *)
PlansShown(f) == Len(PassingPlans(Plans, f))
FeaturesShown(f) == Len(Layers(Features, f).inprogress) + Len(Layers(Features, f).done)
PlansBy(c, f) == IF c \in f.lifecycle THEN PlansShown(OnlyChip(f, c)) ELSE 0
FeaturesBy(c, f) == IF c \in f.lifecycle THEN FeaturesShown(OnlyChip(f, c)) ELSE 0

ChipsShare ==
  LET f == filters["features"]
      p == filters["plan"]
  IN /\ active = View("features") =>
          /\ FeaturesShown(f) = FeaturesBy("active", f) + FeaturesBy("paused", f)
                                + FeaturesBy("pending", f) + FeaturesBy("done", f)
          /\ FeaturesShown(AllChips("features")) = Len(Features) - Count(Features, Odd)
     /\ active = View("plan") =>
          /\ PlansShown(p) = PlansBy("active", p) + PlansBy("open", p)
                             + PlansBy("done", p) + PlansBy("pending", p)
          /\ PlansShown(AllChips("plan")) = Len(Plans)

(* The overview's tiles count every feature once and the rail, the header    *)
(* and the tiles agree on those underway; the week adds up.                  *)
CountsAgree ==
  LET o == Overview(Plans, Features, Sessions)
      week == o.stats.week
  IN active = View("overview") /\ o.kind = "overview" =>
       /\ o.tiles.running + o.tiles.awaiting + o.tiles.blocked + o.tiles.shipped = Len(Features)
       /\ o.header # <<>> => o.header[1] = o.tiles.running + o.tiles.awaiting
       /\ Len(Rail(Features, Sessions, Autopilots).features) = o.tiles.running + o.tiles.awaiting
       /\ week[0] + week[1] + week[2] + week[3] + week[4] + week[5] + week[6] = o.tiles.shipped

(* No plan that reads done has controls, and no terminal is open on one. *)
DoneIsLeft ==
  LET m == Main
  IN /\ active = View("plan") /\ m.kind = "list" =>
          \A i \in DOMAIN m.panels :
            m.panels[i].kind = "row" /\ m.panels[i].row.pill.status = "completed"
              => ~m.panels[i].row.controls
     /\ TerminalShown => m.header.pill.status # "completed"

(* What the screen in front shows agrees with the lists it is made from. *)
ScreenSound == ChipsShare /\ CountsAgree /\ DoneIsLeft

(* The rest does not hold of the code; README.md says how each fails.        *)

(* The tab in front is open. *)
AlwaysFrontIsOpen == FrontIsOpen

(* A project that filters the list has a chip to turn it off with. *)
NoHiddenFilter ==
  active = View("plan") /\ PlansView.kind \in {"no match", "list"} =>
    filters["plan"].project \subseteq PlanProjectChips(Plans)

(* A tab that comes to the front has its terminal open. *)
TerminalOpensFresh == [][active' # active => terminal']_vars

(* The link of a card leads to its plan. *)
LinkLeads ==
  [][\A i \in DOMAIN Features :
       HandleNavigateToPlan(Features[i]) => scrolled' = Features[i].planDir]_vars

(* A row of the rail leads to a plan. *)
RailLeads ==
  [][\A i \in DOMAIN Autopilots :
       SelectRailPlan(Autopilots[i]) /\ polled.plans > 0 => Main'.kind # "not found"]_vars

(* What was typed into a search is there when the tab is again. *)
SearchSurvives ==
  [][Mounted("features", active) /\ ~Mounted("features", active')
       => SafeRead("features", kept'["features"]).search = filters["features"].search]_vars

(* A rate is between 0 and 100 percent. *)
RatesAreRates ==
  active = View("overview") /\ Main.kind = "overview" => Main.stats.passRate \in 0..1000
=============================================================================
