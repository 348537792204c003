----------------------------- MODULE PanelProofs -----------------------------
(***************************************************************************)
(* For every set of plans, of features with a plan, of pilots and of what  *)
(* may be known of a task: what SessionPanel shows and posts to is of the  *)
(* task that was picked as soon as no look-up of its plan is awaited; the  *)
(* terminal of a session that is over is let go; and what is drawn of a    *)
(* plan and told of a session is true.                                     *)
(*                                                                         *)
(* The last needs what the algorithms compute, of sequences of any length: *)
(* the lemmas on sums, on the places a sort gives, on the walk that finds  *)
(* the column of each task, and on the boxes a line meets, in this order.  *)
(***************************************************************************)
EXTENDS Panel, FiniteSetTheorems, WellFoundedInduction, TLAPS

NoneAwaited == \A l \in lookups : ~l.live

(* Of the look-ups in flight, only that of the picked feature counts; a     *)
(* task that was handed down is that of an earlier pick only while it is    *)
(* awaited.                                                                 *)
Lookup ==
  /\ lookups \subseteq [of : HasPlan, live : BOOLEAN]
  /\ \A l \in lookups : l.live => l.of = picked
  /\ NoneAwaited => given = None \/ given.id = picked
  /\ picked = None => given = None /\ lookups = {}
  /\ view = "pipeline" => lookups = {}

LEMMA LookupInit == Init => Lookup
BY DEF Init, Lookup, NoneAwaited

LEMMA PlansHaveNoNone ==
  ASSUME plan \in Plans
  PROVE  None \notin Tasks
BY PanelAssumption DEF Tasks

LEMMA AnswerKeepsLookup ==
  ASSUME Lookup, NEW l \in lookups, LookupAnswers(l) \/ LookupFails(l)
  PROVE  Lookup'
<1>1. /\ lookups' = lookups \ {l} /\ picked' = picked /\ picked # None
      /\ view' = view /\ view # "pipeline"
  BY DEF LookupAnswers, LookupFails, Lookup
<1>2. CASE l.live
  <2>1. given' = None \/ given'.id = picked
    BY <1>2 DEF LookupAnswers, LookupFails, Lookup
  <2> QED BY <1>1, <2>1 DEF Lookup, NoneAwaited
<1>3. CASE ~l.live
  <2>1. given' = given
    BY <1>3 DEF LookupAnswers, LookupFails
  <2>2. NoneAwaited' => NoneAwaited
    BY <1>1, <1>3 DEF NoneAwaited
  <2> QED BY <1>1, <2>1, <2>2 DEF Lookup
<1> QED BY <1>2, <1>3 DEF Lookup

LEMMA PickKeepsLookup ==
  ASSUME Lookup, plan \in Plans, NEW t \in Tasks, PickFeature(t)
  PROVE  Lookup'
<1>1. picked' = t /\ t # None /\ view' # "pipeline"
  BY PlansHaveNoNone DEF PickFeature
<1>2. lookups' = {[l EXCEPT !.live = FALSE] : l \in lookups}
                   \cup {[of |-> u, live |-> TRUE] : u \in {t} \cap HasPlan}
  BY DEF PickFeature
<1>3. ASSUME NEW l \in lookups
      PROVE  [l EXCEPT !.live = FALSE] \in [of : HasPlan, live : {FALSE}]
  BY DEF Lookup
<1>4. ASSUME NEW l \in lookups'
      PROVE  l \in [of : HasPlan, live : BOOLEAN] /\ (l.live => l.of = t)
  <2>1. CASE l \in {[m EXCEPT !.live = FALSE] : m \in lookups}
    <3>1. l \in [of : HasPlan, live : {FALSE}]
      BY <1>3, <2>1
    <3> QED BY <3>1
  <2>2. CASE l \in {[of |-> u, live |-> TRUE] : u \in {t} \cap HasPlan}
    <3>1. t \in HasPlan /\ l = [of |-> t, live |-> TRUE]
      BY <2>2
    <3> QED BY <3>1
  <2> QED BY <1>2, <2>1, <2>2
<1>5. NoneAwaited' => given' = None
  <2>1. CASE t \in HasPlan
    <3>1. [of |-> t, live |-> TRUE] \in lookups'
      BY <1>2, <2>1
    <3>2. ~NoneAwaited'
      <4>1. [of |-> t, live |-> TRUE].live
        OBVIOUS
      <4> QED BY <3>1, <4>1 DEF NoneAwaited
    <3> QED BY <3>2
  <2>2. CASE t \notin HasPlan
    BY <2>2 DEF PickFeature
  <2> QED BY <2>1, <2>2
<1> QED BY <1>1, <1>4, <1>5 DEF Lookup

LEMMA ShowKeepsLookup ==
  ASSUME Lookup, plan \in Plans, view = "pipeline", NEW t \in Tasks, Show(t)
  PROVE  Lookup'
<1>1. picked' = t /\ t # None /\ given'.id = t /\ lookups' = lookups /\ view' = view
  BY PlansHaveNoNone DEF Show
<1> QED BY <1>1 DEF Lookup

LEMMA LookupStep ==
  ASSUME Lookup, plan \in Plans, [Next]_vars
  PROVE  Lookup' /\ plan' \in Plans
<1>1. CASE UNCHANGED <<plan, viewVars>>
  BY <1>1 DEF viewVars, Lookup, NoneAwaited
<1>2. CASE UNCHANGED vars \/ Poll \/ (\E s \in Toggled : ToggleSection(s))
           \/ (\E f \in Docs : OpenDoc(f)) \/ (\E u \in fetches : DocArrives(u)) \/ CloseDoc
  BY <1>1, <1>2 DEF vars, Poll, ToggleSection, OpenDoc, DocArrives, CloseDoc
<1>3. CASE Attach \/ Detach \/ ToggleBrief
  BY <1>1, <1>3 DEF Attach, Detach, ToggleBrief, SetMode
<1>4. ASSUME NEW t \in Tasks, PickFeature(t)
      PROVE  Lookup' /\ plan' \in Plans
  BY <1>4, PickKeepsLookup DEF PickFeature
<1>5. ASSUME NEW t \in Tasks, PickTask(t) \/ SelectTask(t)
      PROVE  Lookup' /\ plan' \in Plans
  BY <1>5, ShowKeepsLookup DEF PickTask, SelectTask, Show
<1>6. ASSUME NEW l \in lookups, LookupAnswers(l) \/ LookupFails(l)
      PROVE  Lookup' /\ plan' \in Plans
  BY <1>6, AnswerKeepsLookup DEF LookupAnswers, LookupFails
<1>7. CASE ClosePanel \/ SwitchView
  BY <1>7 DEF ClosePanel, SwitchView, Lookup, NoneAwaited
<1>8. CASE \E i \in 1..Len(plan.phases) : TogglePhase(i)
  BY <1>8 DEF TogglePhase, Lookup, NoneAwaited
<1> QED BY <1>2, <1>3, <1>4, <1>5, <1>6, <1>7, <1>8 DEF Next

LEMMA LookupSettles ==
  ASSUME Lookup
  PROVE  TargetSettles
<1>1. SUFFICES ASSUME NoneAwaited
      PROVE  /\ Header.title = picked /\ ControlsRow.targetId = picked
             /\ PromptBar \in {None, picked}
             /\ panel # NoPanel => MainContent.of \in {None, picked}
             /\ \A file \in Docs, source \in {"autopilot", "plan"} :
                  DocUrl(file, source) \in {None, <<picked, file>>}
  BY DEF TargetSettles, NoneAwaited
<1>2. given = None \/ given.id = picked
  BY <1>1 DEF Lookup
<1>3. Target = picked
  BY <1>2 DEF Target, TaskId
<1>4. Header.title = picked /\ ControlsRow.targetId = picked
  BY <1>3 DEF Header, ControlsRow
<1>5. PromptBar \in {None, picked}
  BY <1>2 DEF PromptBar
<1>6. MainContent.of \in {None, picked}
  BY <1>2, <1>3 DEF MainContent
<1>7. ASSUME NEW file \in Docs, NEW source \in {"autopilot", "plan"}
      PROVE  DocUrl(file, source) \in {None, <<picked, file>>}
  BY <1>2 DEF DocUrl
<1> QED BY <1>4, <1>5, <1>6, <1>7

(* Whatever the order of picks and answers, SessionPanel and its controls   *)
(* are of the picked task once nothing is awaited (useFeaturePlanTask.ts,   *)
(* the flag cancelled; FeatureDetail.tsx).                                  *)
THEOREM TargetAlwaysSettles == Spec => []TargetSettles
<1>1. Init => Lookup /\ plan \in Plans
  BY LookupInit DEF Init
<1>2. Lookup /\ plan \in Plans /\ [Next]_vars => (Lookup /\ plan \in Plans)'
  BY LookupStep
<1>3. Lookup => TargetSettles
  BY LookupSettles
<1> QED BY <1>1, <1>2, <1>3, PTL DEF Spec

-----------------------------------------------------------------------------
(* The panel is a record, so that an effect changes its mode alone. *)
PanelForm == panel = [mode |-> panel.mode, prev |-> panel.prev, init |-> panel.init]

LEMMA FallBackLetsGo ==
  ASSUME NEW m, NEW p, NEW k, m = [mode |-> m.mode, prev |-> m.prev, init |-> m.init]
  PROVE  LET n == FallBack(m, p, k)
         IN  /\ n = [mode |-> n.mode, prev |-> n.prev, init |-> n.init]
             /\ n.mode = "terminal" => ~IsCompleted(p, k)
<1>1. Shows(p, k) # "terminal"
  BY DEF Shows
<1>2. CASE m.mode = "terminal" /\ IsCompleted(p, k)
  <2>1. FallBack(m, p, k) = [mode |-> Shows(p, k), prev |-> m.prev, init |-> m.init]
    BY <1>2 DEF FallBack
  <2> QED BY <1>1, <2>1
<1>3. CASE ~(m.mode = "terminal" /\ IsCompleted(p, k))
  BY <1>3 DEF FallBack
<1> QED BY <1>2, <1>3

LEMMA RenderLetsGo ==
  ASSUME PanelForm, NEW v, NEW p, NEW g, NEW k
  PROVE  LET n == Rendered(panel, v, p, g, k)
         IN  /\ n = [mode |-> n.mode, prev |-> n.prev, init |-> n.init]
             /\ n.mode = "terminal" => ~IsCompleted(p, k)
<1> DEFINE t == TaskId(v, p, g, k)
           e == TaskEffect(panel, t, p, k)
<1>1. CASE ~Mounted(v, p, k)
  BY <1>1 DEF Rendered, NoPanel
<1>2. CASE Mounted(v, p, k) /\ panel = NoPanel
  <2>1. Rendered(panel, v, p, g, k) = [mode |-> Shows(p, k), prev |-> t, init |-> TRUE]
    BY <1>2 DEF Rendered, FirstEffects
  <2> HIDE DEF t
  <2> QED BY <2>1 DEF Shows
<1>3. CASE Mounted(v, p, k) /\ panel # NoPanel
  <2>1. Rendered(panel, v, p, g, k) = FallBack(e, p, k)
    BY <1>3 DEF Rendered
  <2>2. e = [mode |-> e.mode, prev |-> e.prev, init |-> e.init]
    <3> HIDE DEF t
    <3> QED BY DEF TaskEffect, PanelForm
  <2> HIDE DEF e
  <2> QED BY <2>1, <2>2, FallBackLetsGo
<1> QED BY <1>1, <1>2, <1>3

LEMMA TerminalStep ==
  ASSUME PanelForm, TerminalLetsGo, [Next]_vars
  PROVE  (PanelForm /\ TerminalLetsGo)'
<1>1. CASE UNCHANGED <<panel, picked, known>>
  BY <1>1 DEF PanelForm, TerminalLetsGo, IsCompleted, Pilot
<1>2. ASSUME NEW v, NEW p, NEW g, NEW k, Commit(panel, v, p, g, k), picked' = p, known' = k
      PROVE  (PanelForm /\ TerminalLetsGo)'
  <2>1. panel' = Rendered(panel, v, p, g, k)
    BY <1>2 DEF Commit
  <2> QED BY <1>2, <2>1, RenderLetsGo DEF PanelForm, TerminalLetsGo, IsCompleted, Pilot
<1>3. CASE Poll
  BY <1>2, <1>3 DEF Poll, viewVars
<1>4. ASSUME NEW t \in Tasks, PickFeature(t) \/ PickTask(t) \/ SelectTask(t)
      PROVE  (PanelForm /\ TerminalLetsGo)'
  BY <1>2, <1>4 DEF PickFeature, PickTask, SelectTask, Show
<1>5. ASSUME NEW l \in lookups, LookupAnswers(l) \/ LookupFails(l)
      PROVE  (PanelForm /\ TerminalLetsGo)'
  BY <1>2, <1>5 DEF LookupAnswers, LookupFails
<1>6. CASE ClosePanel \/ SwitchView
  BY <1>2, <1>6 DEF ClosePanel, SwitchView
<1>7. ASSUME NEW mode, SetMode(mode)
      PROVE  (PanelForm /\ TerminalLetsGo)'
  <2> DEFINE m == [panel EXCEPT !.mode = mode]
  <2>1. m = [mode |-> mode, prev |-> panel.prev, init |-> panel.init]
    BY DEF PanelForm
  <2>2. panel' = FallBack(m, picked, known) /\ picked' = picked /\ known' = known
    BY <1>7 DEF SetMode, viewVars
  <2>3. m = [mode |-> m.mode, prev |-> m.prev, init |-> m.init]
    BY <2>1
  <2> HIDE DEF m
  <2> QED BY <2>2, <2>3, FallBackLetsGo DEF PanelForm, TerminalLetsGo, IsCompleted, Pilot
<1>8. CASE Attach \/ Detach \/ ToggleBrief
  BY <1>7, <1>8 DEF Attach, Detach, ToggleBrief
<1>9. CASE \/ UNCHANGED vars \/ CloseDoc
           \/ \E i \in 1..Len(plan.phases) : TogglePhase(i)
           \/ \E s \in Toggled : ToggleSection(s)
           \/ \E f \in Docs : OpenDoc(f)
           \/ \E u \in fetches : DocArrives(u)
  BY <1>1, <1>9 DEF vars, viewVars, CloseDoc, TogglePhase, ToggleSection, OpenDoc, DocArrives
<1> QED BY <1>3, <1>4, <1>5, <1>6, <1>8, <1>9 DEF Next

(* R25 (SessionPanel.tsx 369-391): of a session that has ended, on whatever *)
(* poll, pick or click the panel learns of it, no terminal is shown.        *)
THEOREM TerminalAlwaysLetsGo == Spec => []TerminalLetsGo
<1>1. Init => PanelForm /\ TerminalLetsGo
  BY DEF Init, PanelForm, TerminalLetsGo, NoPanel
<1>2. PanelForm /\ TerminalLetsGo /\ [Next]_vars => (PanelForm /\ TerminalLetsGo)'
  BY TerminalStep
<1> QED BY <1>1, <1>2, PTL DEF Spec
-----------------------------------------------------------------------------
(* What the cards tell.  Of what is known only this is needed: that it is   *)
(* one of Lives for each task of the plan, and that the open phase is one   *)
(* of the plan's.                                                           *)
PlanKnown ==
  /\ plan \in Plans
  /\ known \in [Tasks -> Lives]
  /\ {expanded, stored} \subseteq 0..Len(plan.phases)
  /\ picked \in Tasks \cup {None}

LEMMA SomeLeast ==
  ASSUME NEW S \in SUBSET Nat, S # {}
  PROVE  \E x \in S : \A y \in S : x <= y
<1>1. PICK x \in S : \A y \in S : <<y, x>> \notin OpToRel(<, Nat)
  BY NatLessThanWellFounded, WFMin
<1>2. \A y \in S : ~(y < x)
  BY <1>1 DEF OpToRel
<1>3. \A y \in S : x <= y
  BY <1>2
<1> QED BY <1>3

LEMMA LeastIs ==
  ASSUME NEW S \in SUBSET Nat, S # {}
  PROVE  Min(S) \in S /\ \A y \in S : Min(S) <= y
<1>1. \E x \in S : \A y \in S : x =< y
  BY SomeLeast
<1> QED BY <1>1 DEF Min

LEMMA MaxOfTwo ==
  ASSUME NEW a \in Nat, NEW b \in Nat
  PROVE  Max({a, b}) \in {a, b} /\ Max({a, b}) >= a /\ Max({a, b}) >= b
<1>1. \E x \in {a, b} : \A y \in {a, b} : x >= y
  <2>1. CASE a >= b
    BY <2>1
  <2>2. CASE b >= a
    BY <2>2
  <2> QED BY <2>1, <2>2
<1> QED BY <1>1 DEF Max

LEMMA FirstExpandedIsPhase ==
  ASSUME NEW p \in Plans, NEW k
  PROVE  FirstExpanded(p, k) \in 0..Len(p.phases)
<1> DEFINE open == {i \in 1..Len(p.phases) : PhaseStatus(p.phases[i], k) \in {"wip", "failed"}}
<1>1. Len(p.phases) \in Nat
  BY PanelAssumption
<1>2. CASE open = {}
  BY <1>1, <1>2 DEF FirstExpanded
<1>3. CASE open # {}
  <2>1. open \in SUBSET Nat /\ open \subseteq 1..Len(p.phases)
    BY <1>1
  <2>2. FirstExpanded(p, k) = Min(open)
    BY <1>3 DEF FirstExpanded
  <2> HIDE DEF open
  <2>3. Min(open) \in open
    BY <1>3, <2>1, LeastIs
  <2>4. FirstExpanded(p, k) \in 1..Len(p.phases)
    BY <2>1, <2>2, <2>3, Zenon
  <2> QED BY <1>1, <2>4
<1> QED BY <1>2, <1>3

LEMMA PlanKnownInit == Init => PlanKnown
<1> SUFFICES ASSUME Init PROVE PlanKnown
  OBVIOUS
<1>1. Len(plan.phases) \in Nat
  BY PanelAssumption DEF Init
<1>2. FirstExpanded(plan, known) \in 0..Len(plan.phases)
  BY FirstExpandedIsPhase DEF Init
<1> QED BY <1>1, <1>2 DEF Init, PlanKnown, Tasks

LEMMA PlanKnownStep ==
  ASSUME PlanKnown, [Next]_vars
  PROVE  PlanKnown'
<1>1. ASSUME UNCHANGED <<plan, known, expanded, stored>>, picked' \in {picked, None} \cup Tasks
      PROVE  PlanKnown'
  BY <1>1 DEF PlanKnown, Tasks
<1>2. CASE Poll
  <2>1. PICK t \in Piloted \cap Tasks, k \in Lives :
          k \in Next1[t][known[t]] /\ known' = [known EXCEPT ![t] = k]
    BY <1>2 DEF Poll
  <2>2. known' \in [Tasks -> Lives]
    BY <2>1 DEF PlanKnown
  <2> QED BY <1>2, <2>2 DEF Poll, viewVars, PlanKnown, Tasks
<1>3. ASSUME NEW i \in 1..Len(plan.phases), TogglePhase(i)
      PROVE  PlanKnown'
  <2>1. Len(plan.phases) \in Nat
    BY PanelAssumption DEF PlanKnown
  <2> QED BY <1>3, <2>1 DEF TogglePhase, PlanKnown, Tasks
<1>4. CASE SwitchView
  <2>1. FirstExpanded(plan, known) \in 0..Len(plan.phases)
    BY FirstExpandedIsPhase DEF PlanKnown
  <2> QED BY <1>4, <2>1 DEF SwitchView, PlanKnown, Tasks
<1>5. CASE UNCHANGED vars
  BY <1>1, <1>5 DEF vars, viewVars
<1>6. ASSUME NEW t \in Tasks, PickFeature(t) \/ PickTask(t) \/ SelectTask(t)
      PROVE  PlanKnown'
  BY <1>1, <1>6 DEF PickFeature, PickTask, SelectTask, Show
<1>7. ASSUME NEW l \in lookups, LookupAnswers(l) \/ LookupFails(l)
      PROVE  PlanKnown'
  BY <1>1, <1>7 DEF LookupAnswers, LookupFails
<1>8. CASE ClosePanel \/ Attach \/ Detach \/ ToggleBrief \/ CloseDoc
  BY <1>1, <1>8 DEF ClosePanel, Attach, Detach, ToggleBrief, SetMode, CloseDoc, viewVars
<1>9. CASE \/ \E s \in Toggled : ToggleSection(s)
           \/ \E f \in Docs : OpenDoc(f)
           \/ \E u \in fetches : DocArrives(u)
  BY <1>1, <1>9 DEF ToggleSection, OpenDoc, DocArrives, viewVars
<1> QED BY <1>2, <1>3, <1>4, <1>5, <1>6, <1>7, <1>8, <1>9 DEF Next

-----------------------------------------------------------------------------
(* Arithmetic of the bars. *)

LEMMA DivisionBounds ==
  ASSUME NEW a \in Nat, NEW b \in Nat \ {0}, NEW n \in Nat, a < (n + 1) * b
  PROVE  a \div b \in 0..n
OBVIOUS

LEMMA FullIsHundred ==
  ASSUME NEW n \in Nat \ {0}
  PROVE  Round(100 * n, n) = 100
<1>1. 201 * n = (2 * n) * 100 + n
  OBVIOUS
<1> QED BY <1>1 DEF Round

(* Of half phases, the last one not yet begun: 2c + 1 of 2m, c < m. *)
LEMMA HalfPhaseBounds ==
  ASSUME NEW c \in Nat, NEW m \in Nat, c < m
  PROVE  Round(100 * (2 * c + 1), 2 * m) \in 0..100
<1> DEFINE a == 2 * (100 * (2 * c + 1)) + 2 * m
           b == 2 * (2 * m)
<1>1. a \in Nat /\ b \in Nat \ {0} /\ a < (100 + 1) * b
  OBVIOUS
<1>2. Round(100 * (2 * c + 1), 2 * m) = a \div b
  BY DEF Round
<1> HIDE DEF a, b
<1> QED BY <1>1, <1>2, DivisionBounds

(* Of a finite sequence not all of which passes, fewer pass than there are; *)
(* all pass when there are as many.                                         *)
LEMMA PlacesCounted ==
  ASSUME NEW R, NEW s \in Seq(R), NEW W \in SUBSET (DOMAIN s)
  PROVE  /\ Cardinality(W) \in 0..Len(s)
         /\ (\E i \in DOMAIN s : i \notin W) => Cardinality(W) < Len(s)
         /\ W = DOMAIN s => Cardinality(W) = Len(s)
<1>1. DOMAIN s = 1..Len(s) /\ Len(s) \in Nat
  OBVIOUS
<1>2. IsFiniteSet(1..Len(s)) /\ Cardinality(1..Len(s)) = Len(s)
  <2>1. ASSUME NEW n \in Nat
        PROVE  IsFiniteSet(1..n) /\ Cardinality(1..n) = n
    <3>1. 1 \in Int /\ n \in Int
      OBVIOUS
    <3>2. IsFiniteSet(1..n) /\ Cardinality(1..n) = IF 1 > n THEN 0 ELSE n - 1 + 1
      BY <3>1, FS_Interval, Zenon
    <3> QED BY <3>2
  <2> QED BY <1>1, <2>1
<1>3. /\ IsFiniteSet(W) /\ Cardinality(W) <= Len(s)
      /\ Cardinality(W) = Len(s) => W = DOMAIN s
  BY <1>1, <1>2, FS_Subset
<1>4. Cardinality(W) \in Nat
  BY <1>3, FS_CardinalityType
<1> QED BY <1>1, <1>2, <1>3, <1>4

-----------------------------------------------------------------------------
(* The bar of a task: while a phase is under way it counts less than all.   *)
LEMMA FractionBelowOne ==
  ASSUME NEW k \in Lives, NEW i \in 1..Len(k.phases), k.phases[i] # "completed"
  PROVE  \E c \in Nat, m \in Nat :
           c < m /\ AutopilotPhaseFraction(k) = [num |-> 2 * c + 1, den |-> 2 * m]
<1> DEFINE W == {j \in DOMAIN k.phases : k.phases[j] = "completed"}
           n == Len(k.phases)
           c == Cardinality(W)
           m == IF k.pilot = "running" THEN Max({n, CANONICAL_PIPELINE_PHASES}) ELSE n
<1>1. k.phases \in Seq(Range(k.phases)) /\ n \in Nat /\ DOMAIN k.phases = 1..n
  BY PanelAssumption
<1>2. i \in DOMAIN k.phases /\ i \notin W
  BY <1>1
<1>3. c \in Nat /\ c < n
  <2>1. W \in SUBSET (DOMAIN k.phases)
    OBVIOUS
  <2> HIDE DEF W
  <2> QED BY <1>1, <1>2, <2>1, PlacesCounted
<1>4. m \in Nat /\ m >= n
  <2>1. CANONICAL_PIPELINE_PHASES \in Nat
    BY DEF CANONICAL_PIPELINE_PHASES
  <2>2. Max({n, CANONICAL_PIPELINE_PHASES}) \in Nat /\ Max({n, CANONICAL_PIPELINE_PHASES}) >= n
    BY <1>1, <2>1, MaxOfTwo
  <2> QED BY <1>1, <2>2
<1>5. k.phases # <<>>
  BY <1>1, <1>2
<1>6. AutopilotPhaseFraction(k) = [num |-> 2 * c + 1, den |-> 2 * m]
  BY <1>5 DEF AutopilotPhaseFraction, Count
<1>7. c < m
  <2> HIDE DEF c, m, n
  <2> QED BY <1>1, <1>3, <1>4
<1> HIDE DEF c, m
<1> QED BY <1>3, <1>4, <1>6, <1>7

LEMMA TaskBarWithinTrack ==
  ASSUME NEW k \in Lives, NEW i \in 1..Len(k.phases), k.phases[i] # "completed"
  PROVE  TaskProgressBar(k).pct \in 0..100
<1> DEFINE f == AutopilotPhaseFraction(k)
           pct == IF f = NoFraction THEN 50 ELSE Round(100 * f.num, f.den)
<1>1. pct \in 0..100
  <2>1. PICK c \in Nat, m \in Nat : c < m /\ f = [num |-> 2 * c + 1, den |-> 2 * m]
    BY FractionBelowOne
  <2>2. Round(100 * (2 * c + 1), 2 * m) \in 0..100
    BY <2>1, HalfPhaseBounds
  <2>3. f.num = 2 * c + 1 /\ f.den = 2 * m
    BY <2>1
  <2> HIDE DEF f
  <2>4. pct = 50 \/ pct = Round(100 * (2 * c + 1), 2 * m)
    BY <2>3
  <2> QED BY <2>2, <2>4
<1>2. TaskProgressBar(k).pct \in {0, 100, pct}
  <2> HIDE DEF f
  <2>1. TaskProgressBar(k).pct \in {0, 100, IF f = NoFraction THEN 50 ELSE Round(100 * f.num, f.den)}
    BY DEF TaskProgressBar, NoBar, f
  <2> QED BY <2>1
<1>3. {0, 100, pct} \subseteq 0..100
  <2> HIDE DEF pct
  <2> QED BY <1>1
<1> HIDE DEF pct
<1> QED BY <1>2, <1>3, Zenon

LEMMA PhaseTold ==
  ASSUME NEW p \in Plans, NEW k, NEW i \in 1..Len(p.phases), p.phases[i].tasks # <<>>
  PROVE  LET ph == p.phases[i]
             status == PhaseCard(ph, k).status
         IN  /\ status = "done" <=> \A t \in Range(ph.tasks) : k[t].plan = "done"
             /\ status = "failed" <=> \E t \in Range(ph.tasks) : k[t].plan = "failed"
<1> DEFINE ph == p.phases[i]
           s == Statuses(ph, k)
<1>1. PICK t \in Range(ph.tasks) : TRUE
  <2>1. ph.tasks \in Seq(DOMAIN p.depends)
    BY PanelAssumption
  <2>2. Len(ph.tasks) > 0
    BY <2>1
  <2>3. ph.tasks[1] \in Range(ph.tasks)
    BY <2>1, <2>2 DEF Range
  <2> QED BY <2>3
<1>2. s = {"done"} <=> \A u \in Range(ph.tasks) : k[u].plan = "done"
  BY <1>1 DEF Statuses
<1>3. "failed" \in s <=> \E u \in Range(ph.tasks) : k[u].plan = "failed"
  BY DEF Statuses
<1>4. PhaseCard(ph, k).status = PhaseStatusWithOverlay(ph, k)
  BY DEF PhaseCard
<1>5. \/ PhaseCard(ph, k).status = "done" /\ s = {"done"}
      \/ PhaseCard(ph, k).status = "failed" /\ "failed" \in s
      \/ PhaseCard(ph, k).status \in {"wip", "pending"} /\ s # {"done"} /\ "failed" \notin s
  BY <1>4 DEF PhaseStatusWithOverlay
<1> HIDE DEF ph, s
<1>6. /\ PhaseCard(ph, k).status = "done" <=> \A u \in Range(ph.tasks) : k[u].plan = "done"
      /\ PhaseCard(ph, k).status = "failed" <=> \E u \in Range(ph.tasks) : k[u].plan = "failed"
  BY <1>2, <1>3, <1>5
<1> QED BY <1>6 DEF ph

(* A card that asks for something has the bar of a fault, and one chip.     *)
LEMMA ChipsAreFaults ==
  ASSUME NEW k
  PROVE  /\ TaskChips(k) \cap {"fix", "needs input"} # {} => TaskProgressBar(k).status = "fault"
         /\ Cardinality(TaskChips(k)) <= 1
<1>1. TaskChips(k) \cap {"fix", "needs input"} # {} => TaskProgressBar(k).status = "fault"
  <2>1. CASE "fix" \in TaskChips(k)
    <3>1. k.plan = "failed"
      BY <2>1 DEF TaskChips
    <3> QED BY <3>1 DEF TaskProgressBar
  <2>2. CASE "needs input" \in TaskChips(k)
    <3>1. k.plan = "wip" /\ FindSession(k) = "needs_input"
      BY <2>2 DEF TaskChips
    <3> QED BY <3>1 DEF TaskProgressBar, IsStuck
  <2> QED BY <2>1, <2>2
<1>2. TaskChips(k) = {} \/ \E c : TaskChips(k) = {c}
  <2>1. CASE k.plan = "failed"
    <3>1. TaskChips(k) = {"fix"}
      BY <2>1 DEF TaskChips
    <3> QED BY <3>1
  <2>2. CASE k.plan # "failed" /\ FindSession(k) = "needs_input"
    <3>1. TaskChips(k) \in {{}, {"needs input"}}
      BY <2>2 DEF TaskChips
    <3> QED BY <3>1
  <2>3. CASE k.plan # "failed" /\ FindSession(k) # "needs_input"
    <3>1. TaskChips(k) \in {{}, {"paused"}}
      BY <2>3 DEF TaskChips
    <3> QED BY <3>1
  <2> QED BY <2>1, <2>2, <2>3
<1>3. Cardinality(TaskChips(k)) \in {0, 1}
  BY <1>2, FS_EmptySet, FS_Singleton
<1>4. Cardinality(TaskChips(k)) <= 1
  BY <1>3
<1> QED BY <1>1, <1>4

(* Without a prompt every item of the gate is known to have passed.         *)
LEMMA GateWithoutPrompt ==
  ASSUME NEW p \in Plans, NEW i \in 1..Len(p.phases), HasGate(p.phases[i])
  PROVE  LET gate == GateColumn(p.phases[i].gate)
         IN  ~gate.prompt /\ gate.icons # <<>> =>
               gate.bar = 100 /\ gate.summary.done = gate.summary.total
                 /\ Range(gate.icons) = {"passed"}
<1> DEFINE g == p.phases[i].gate
           n == Len(g.items)
<1>1. g.passed \in BOOLEAN /\ g.enriched \in BOOLEAN /\ g.items \in Seq(Range(g.items))
  BY PanelAssumption DEF HasGate
<1>2. n \in Nat /\ DOMAIN g.items = 1..n
  BY <1>1
<1> HIDE DEF g
<1>3. SUFFICES ASSUME ~ShouldShowGatePrompt(g), GateIcons(g) # <<>>
      PROVE  GateBar(g) = 100 /\ GateNodeSummary(g).done = GateNodeSummary(g).total
               /\ Range(GateIcons(g)) = {"passed"}
  BY DEF GateColumn, g
<1>4. g.enriched
  BY <1>3 DEF ShouldShowGatePrompt
<1>5. \A j \in 1..n : g.items[j].kind = "shell" /\ g.items[j].lastResult = "passed"
  BY <1>3 DEF ShouldShowGatePrompt
<1>6. GateIcons(g) = [j \in 1..n |-> "passed"]
  <2>1. \A j \in 1..n : GateItemIcon(g, g.items[j]) = "passed"
    BY <1>5 DEF GateItemIcon
  <2>2. GateIcons(g) = [j \in 1..n |-> GateItemIcon(g, g.items[j])]
    BY <1>4 DEF GateIcons
  <2> HIDE DEF n
  <2> QED BY <2>1, <2>2
<1>7. n > 0
  <2>1. n # 0
    <3> SUFFICES ASSUME n = 0 PROVE FALSE
      OBVIOUS
    <3>1. GateIcons(g) = [j \in 1..0 |-> "passed"]
      BY <1>6
    <3>2. GateIcons(g) = <<>>
      BY <3>1
    <3> QED BY <1>3, <3>2
  <2> QED BY <1>2, <2>1
<1>8. Passed(g) = n
  <2> DEFINE W == {j \in DOMAIN g.items : g.enriched /\ g.items[j].lastResult = "passed"}
  <2>1. W = DOMAIN g.items
    BY <1>2, <1>4, <1>5
  <2>2. Passed(g) = Cardinality(W)
    BY DEF Passed, Count
  <2> HIDE DEF W
  <2> QED BY <1>1, <2>1, <2>2, PlacesCounted
<1>9. GateBar(g) = 100
  <2>1. Round(100 * n, n) = 100
    BY <1>2, <1>7, FullIsHundred
  <2>2. g.items # <<>>
    BY <1>2, <1>7
  <2> QED BY <1>1, <1>8, <2>1, <2>2 DEF GateBar
<1>10. GateNodeSummary(g).done = n /\ GateNodeSummary(g).total = n
  BY <1>8 DEF GateNodeSummary
<1>11. Range(GateIcons(g)) = {"passed"}
  <2>1. 1 \in 1..n
    BY <1>2, <1>7
  <2> HIDE DEF n
  <2> QED BY <1>6, <2>1 DEF Range
<1> QED BY <1>9, <1>10, <1>11

(* A section that has something to show has a chip. *)
LEMMA SectionHasChip ==
  ASSUME NEW t
  PROVE  BriefSound(t)
BY DEF BriefSound, AvailableBriefSections, BriefChips, BriefSections, Plan2Only

(* Of any phase that can be open. *)
LEMMA OpenPhaseTold ==
  ASSUME NEW p \in Plans, NEW k, NEW i \in 1..Len(p.phases)
  PROVE  CardsSound(p, k, i)
<1> DEFINE ph == p.phases[i]
           tree == PhaseTree(p, k, i)
<1>1. /\ tree.cards = [t \in Range(ph.tasks) |-> TaskNodeCard(k[t])]
      /\ tree.entry = EntryColor(p, k, i)
  BY DEF PhaseTree
<1>2. \A t \in DOMAIN tree.cards :
        /\ tree.cards[t].chips = TaskChips(k[t])
        /\ tree.cards[t].bar = TaskProgressBar(k[t])
  BY <1>1 DEF TaskNodeCard
<1>3. i > 1 => tree.entry = PhaseCardConnector(p, k, i - 1)
  BY <1>1 DEF EntryColor, PhaseCardConnector
<1> HIDE DEF tree
<1>4. \A t \in DOMAIN tree.cards :
        /\ tree.cards[t].chips \cap {"fix", "needs input"} # {} =>
             tree.cards[t].bar.status = "fault"
        /\ Cardinality(tree.cards[t].chips) <= 1
  BY <1>2, ChipsAreFaults
<1> QED BY <1>3, <1>4, GateWithoutPrompt DEF CardsSound, tree

LEMMA CardsAreTrue ==
  ASSUME PlanKnown
  PROVE  CardsTrue
<1>1. TaskBarsSound(known)
  BY TaskBarWithinTrack DEF TaskBarsSound, PlanKnown
<1>2. PhasesTold(plan, known)
  BY PhaseTold DEF PhasesTold, PlanKnown
<1>3. expanded # 0 => CardsSound(plan, known, expanded)
  <2>1. Len(plan.phases) \in Nat
    BY PanelAssumption DEF PlanKnown
  <2>2. expanded # 0 => expanded \in 1..Len(plan.phases)
    BY <2>1 DEF PlanKnown
  <2> QED BY <2>2, OpenPhaseTold DEF PlanKnown
<1> QED BY <1>1, <1>2, <1>3, SectionHasChip DEF CardsTrue

(* Of every plan and whatever the polls tell of its tasks, the cards tell   *)
(* the truth: a task's bar stays within its track while one of its phases   *)
(* is under way, a phase is told done exactly when its tasks are and failed *)
(* as soon as one has, a card that asks for attention has the bar of a      *)
(* fault, a gate whose prompt is gone is full and passed, and what a brief  *)
(* shows can be hidden (Pipeline.tsx TaskProgressBar, buildTaskChips,       *)
(* phaseStatusWithOverlay, shouldShowGatePrompt, gateItemIcon;              *)
(* availableBriefSections).                                                 *)
THEOREM CardsAlwaysTrue == Spec => []CardsTrue
<1>1. Init => PlanKnown
  BY PlanKnownInit
<1>2. PlanKnown /\ [Next]_vars => PlanKnown'
  BY PlanKnownStep
<1>3. PlanKnown => CardsTrue
  BY CardsAreTrue
<1> QED BY <1>1, <1>2, <1>3, PTL DEF Spec

-----------------------------------------------------------------------------
(* Sums. *)

LEMMA SeqIs ==
  ASSUME NEW n \in Nat, NEW s, NEW S, s \in [1..n -> S]
  PROVE  s \in Seq(S) /\ Len(s) = n /\ DOMAIN s = 1..n
<1>1. s \in Seq(S)
  OBVIOUS
<1>2. DOMAIN s = 1..Len(s) /\ Len(s) \in Nat /\ DOMAIN s = 1..n
  BY <1>1
<1> QED BY <1>1, <1>2

(* Induction, of a set of numbers. *)
LEMMA Upward ==
  ASSUME NEW n \in Nat, NEW T, 0 \in T, \A k \in 1..n : k - 1 \in T => k \in T
  PROVE  n \in T /\ \A k \in 0..n : k \in T
<1>1. SUFFICES ASSUME (0..n) \ T # {} PROVE FALSE
  OBVIOUS
<1>2. (0..n) \ T \in SUBSET Nat
  OBVIOUS
<1>3. PICK m \in (0..n) \ T : \A l \in (0..n) \ T : m <= l
  BY <1>1, <1>2, SomeLeast
<1>4. m \in 1..n /\ m - 1 \in 0..n /\ ~(m <= m - 1)
  BY <1>3
<1> QED BY <1>3, <1>4

(* The partial sums exist, and are what their equation says.                *)
LEMMA PartialSumsAre ==
  ASSUME NEW n \in Nat, NEW s \in [1..n -> Int]
  PROVE  /\ PartialSums(s) \in [0..n -> Int]
         /\ PartialSums(s)[0] = 0
         /\ \A k \in 1..n : PartialSums(s)[k] = PartialSums(s)[k - 1] + s[k]
         /\ SumOf(s) = PartialSums(s)[n]
<1> DEFINE Is(f, m) == f[0] = 0 /\ \A k \in 1..m : f[k] = f[k - 1] + s[k]
           Have == {m \in 0..n : \E f \in [0..m -> Int] : Is(f, m)}
<1>1. Len(s) = n
  <2>1. s \in Seq(Int)
    OBVIOUS
  <2> QED BY <2>1
<1>2. \A k \in 0..n : k \in Have
  <2>1. 0 \in Have
    <3>1. [k \in 0..0 |-> 0] \in [0..0 -> Int] /\ Is([k \in 0..0 |-> 0], 0)
      OBVIOUS
    <3> HIDE DEF Is
    <3> QED BY <3>1
  <2>2. ASSUME NEW m \in 1..n, m - 1 \in Have
        PROVE  m \in Have
    <3>1. PICK f \in [0..(m - 1) -> Int] : Is(f, m - 1)
      BY <2>2
    <3> DEFINE g == [k \in 0..m |-> IF k = m THEN f[m - 1] + s[m] ELSE f[k]]
    <3>2. g \in [0..m -> Int]
      OBVIOUS
    <3>3. g[0] = 0
      BY <3>1
    <3>4. ASSUME NEW k \in 1..m
          PROVE  g[k] = g[k - 1] + s[k]
      BY <3>1, <3>4
    <3>5. Is(g, m)
      BY <3>3, <3>4
    <3> HIDE DEF Is, g
    <3> QED BY <3>2, <3>5
  <2> HIDE DEF Have
  <2> QED BY <2>1, <2>2, Upward
<1>3. PICK f \in [0..n -> Int] : Is(f, n)
  <2>1. n \in Have
    <3> HIDE DEF Have
    <3> QED BY <1>2
  <2> QED BY <2>1
<1>4. f = [k \in 0..Len(s) |-> IF k = 0 THEN 0 ELSE f[k - 1] + s[k]]
  BY <1>1, <1>3
<1> DEFINE Sums(h) == h = [k \in 0..Len(s) |-> IF k = 0 THEN 0 ELSE h[k - 1] + s[k]]
<1>5. PartialSums(s) = CHOOSE h : Sums(h)
  BY DEF PartialSums
<1>6. Sums(PartialSums(s))
  BY <1>4, <1>5
<1> DEFINE p == PartialSums(s)
<1>7. p = [k \in 0..n |-> IF k = 0 THEN 0 ELSE p[k - 1] + s[k]]
  BY <1>1, <1>6
<1> HIDE DEF p
<1>8. p[0] = 0 /\ \A k \in 1..n : p[k] = p[k - 1] + s[k]
  BY <1>7
<1>9. \A k \in 0..n : p[k] \in Int
  <2> DEFINE T == {k \in 0..n : p[k] \in Int}
  <2>1. 0 \in T /\ \A k \in 1..n : k - 1 \in T => k \in T
    BY <1>8
  <2>2. \A k \in 0..n : k \in T
    <3> HIDE DEF T
    <3> QED BY <2>1, Upward
  <2> QED BY <2>2
<1>10. p \in [0..n -> Int]
  BY <1>7, <1>9
<1> QED BY <1>1, <1>8, <1>10 DEF p, SumOf

LEMMA Distributes ==
  ASSUME NEW a \in Int, NEW b \in Int, NEW c \in Int
  PROVE  a * (b + c) = a * b + a * c /\ a * b \in Int
OBVIOUS

LEMMA AddsUp ==
  ASSUME NEW w \in Int, NEW x \in Int, NEW y \in Int, NEW z \in Int, w <= x, y <= z
  PROVE  w + y <= x + z
OBVIOUS

LEMMA BothSides ==
  ASSUME NEW a \in Nat, NEW b \in Nat, NEW p \in Int, NEW q \in Int, NEW s \in Int, NEW v \in Int,
         a * p <= b * q, a * s <= b * v
  PROVE  a * (p + s) <= b * (q + v)
<1>1. a * (p + s) = a * p + a * s /\ b * (q + v) = b * q + b * v
  BY Distributes
<1>2. a * p \in Int /\ b * q \in Int /\ a * s \in Int /\ b * v \in Int
  BY Distributes
<1> QED BY <1>1, <1>2, AddsUp

(* Sums keep an order, and add up. *)
LEMMA SumsCompare ==
  ASSUME NEW n \in Nat, NEW s \in [1..n -> Int], NEW v \in [1..n -> Int],
         NEW a \in Nat, NEW b \in Nat, \A i \in 1..n : a * s[i] <= b * v[i]
  PROVE  SumOf(s) \in Int /\ SumOf(v) \in Int /\ a * SumOf(s) <= b * SumOf(v)
<1> DEFINE p == PartialSums(s)
           q == PartialSums(v)
           T == {k \in 0..n : a * p[k] <= b * q[k]}
<1>1. /\ p \in [0..n -> Int] /\ p[0] = 0 /\ \A k \in 1..n : p[k] = p[k - 1] + s[k]
      /\ q \in [0..n -> Int] /\ q[0] = 0 /\ \A k \in 1..n : q[k] = q[k - 1] + v[k]
      /\ SumOf(s) = p[n] /\ SumOf(v) = q[n]
  BY PartialSumsAre
<1> HIDE DEF p, q
<1>2. 0 \in T
  <2>1. a * 0 = 0 /\ b * 0 = 0 /\ 0 \in 0..n
    OBVIOUS
  <2>2. a * p[0] <= b * q[0]
    BY <1>1, <2>1
  <2> QED BY <2>1, <2>2
<1>3. ASSUME NEW k \in 1..n, k - 1 \in T
      PROVE  k \in T
  <2>1. a * p[k - 1] <= b * q[k - 1]
    BY <1>3
  <2>2. k \in 0..n /\ k - 1 \in 0..n
    OBVIOUS
  <2>3. a * p[k] <= b * q[k] => k \in T
    BY <2>2
  <2> HIDE DEF T
  <2>4. /\ p[k - 1] \in Int /\ q[k - 1] \in Int /\ s[k] \in Int /\ v[k] \in Int
        /\ p[k] = p[k - 1] + s[k] /\ q[k] = q[k - 1] + v[k]
    BY <1>1, <2>2
  <2>5. a * (p[k - 1] + s[k]) <= b * (q[k - 1] + v[k])
    BY <2>1, <2>4, BothSides
  <2> QED BY <2>3, <2>4, <2>5
<1>4. n \in T
  <2> HIDE DEF T
  <2> QED BY <1>2, <1>3, Upward
<1> QED BY <1>1, <1>4

LEMMA SumsAdd ==
  ASSUME NEW n \in Nat, NEW s \in [1..n -> Int], NEW v \in [1..n -> Int],
         NEW w \in [1..n -> Int], \A i \in 1..n : w[i] = s[i] + v[i]
  PROVE  SumOf(w) = SumOf(s) + SumOf(v)
<1> DEFINE p == PartialSums(s)
           q == PartialSums(v)
           r == PartialSums(w)
           T == {k \in 0..n : r[k] = p[k] + q[k]}
<1>1. /\ p \in [0..n -> Int] /\ p[0] = 0 /\ \A k \in 1..n : p[k] = p[k - 1] + s[k]
      /\ q \in [0..n -> Int] /\ q[0] = 0 /\ \A k \in 1..n : q[k] = q[k - 1] + v[k]
      /\ r \in [0..n -> Int] /\ r[0] = 0 /\ \A k \in 1..n : r[k] = r[k - 1] + w[k]
      /\ SumOf(s) = p[n] /\ SumOf(v) = q[n] /\ SumOf(w) = r[n]
  BY PartialSumsAre
<1> HIDE DEF p, q, r
<1>2. 0 \in T
  BY <1>1
<1>3. ASSUME NEW k \in 1..n, k - 1 \in T
      PROVE  k \in T
  BY <1>1, <1>3
<1>4. n \in T
  <2> HIDE DEF T
  <2> QED BY <1>2, <1>3, Upward
<1> QED BY <1>1, <1>4

LEMMA SumOfEquals ==
  ASSUME NEW n \in Nat, NEW b \in Int, NEW s \in [1..n -> Int], \A i \in 1..n : s[i] = b
  PROVE  SumOf(s) = b * n
<1> DEFINE p == PartialSums(s)
           T == {k \in 0..n : p[k] = b * k}
<1>1. /\ p \in [0..n -> Int] /\ p[0] = 0 /\ \A k \in 1..n : p[k] = p[k - 1] + s[k]
      /\ SumOf(s) = p[n]
  BY PartialSumsAre
<1> HIDE DEF p
<1>2. 0 \in T
  BY <1>1
<1>3. ASSUME NEW k \in 1..n, k - 1 \in T
      PROVE  k \in T
  <2>1. p[k - 1] = b * (k - 1) /\ p[k] = p[k - 1] + b
    BY <1>1, <1>3
  <2>2. b * (k - 1) + b = b * k
    OBVIOUS
  <2> QED BY <2>1, <2>2
<1>4. n \in T
  <2> HIDE DEF T
  <2> QED BY <1>2, <1>3, Upward
<1> QED BY <1>1, <1>4

-----------------------------------------------------------------------------
(* The bar of a phase. *)

LEMMA PercentBounds ==
  ASSUME NEW a \in Nat, NEW m \in Nat \ {0}, a <= m
  PROVE  Round(100 * a, m) \in 0..100
<1> DEFINE u == 2 * (100 * a) + m
           v == 2 * m
<1>1. u \in Nat /\ v \in Nat \ {0} /\ u < (100 + 1) * v
  OBVIOUS
<1>2. Round(100 * a, m) = u \div v
  BY DEF Round
<1> HIDE DEF u, v
<1> QED BY <1>1, <1>2, DivisionBounds

LEMMA PartsAre == PARTS \in Nat \ {0}
BY DEF PARTS

(* The share of a task that runs, in parts. *)
LEMMA ShareBounds ==
  ASSUME NEW k \in Lives, AutopilotPhaseFraction(k) # NoFraction
  PROVE  LET f == AutopilotPhaseFraction(k)
         IN  Min({PARTS, (PARTS * f.num) \div f.den}) \in 0..PARTS
<1> DEFINE f == AutopilotPhaseFraction(k)
           n == Len(k.phases)
           W == {j \in DOMAIN k.phases : k.phases[j] = "completed"}
           c == Cardinality(W)
           m == IF k.pilot = "running" THEN Max({n, CANONICAL_PIPELINE_PHASES}) ELSE n
<1>1. k.phases # <<>> /\ k.phases \in Seq(Range(k.phases))
  BY PanelAssumption DEF AutopilotPhaseFraction
<1>2. n \in Nat \ {0}
  BY <1>1
<1>3. c \in Nat
  <2>1. W \in SUBSET (DOMAIN k.phases)
    OBVIOUS
  <2> HIDE DEF W
  <2> QED BY <1>1, <2>1, PlacesCounted
<1>4. m \in Nat \ {0}
  <2>1. CANONICAL_PIPELINE_PHASES \in Nat
    BY DEF CANONICAL_PIPELINE_PHASES
  <2>2. Max({n, CANONICAL_PIPELINE_PHASES}) \in Nat /\ Max({n, CANONICAL_PIPELINE_PHASES}) >= n
    BY <1>2, <2>1, MaxOfTwo
  <2> QED BY <1>2, <2>2
<1>5. f = [num |-> 2 * c + 1, den |-> 2 * m]
  BY <1>1 DEF AutopilotPhaseFraction, Count
<1> HIDE DEF f, c, m
<1> DEFINE x == (PARTS * f.num) \div f.den
<1>6. x \in Nat
  <2>1. ASSUME NEW a \in Nat, NEW b \in Nat \ {0}
        PROVE  a \div b \in Nat
    OBVIOUS
  <2>2. PARTS * f.num \in Nat /\ f.den \in Nat \ {0}
    BY <1>3, <1>4, <1>5, PartsAre
  <2> HIDE DEF x
  <2> QED BY <2>1, <2>2 DEF x
<1> HIDE DEF x
<1>7. Min({PARTS, x}) \in {PARTS, x} /\ Min({PARTS, x}) <= PARTS
  <2>1. \E y \in {PARTS, x} : \A z \in {PARTS, x} : y <= z
    <3>1. CASE x <= PARTS
      BY <1>6, <3>1, PartsAre
    <3>2. CASE PARTS <= x
      BY <1>6, <3>2, PartsAre
    <3> QED BY <1>6, <3>1, <3>2, PartsAre
  <2> QED BY <2>1 DEF Min
<1> QED BY <1>6, <1>7, PartsAre DEF x, f

LEMMA ShareOfTask ==
  ASSUME NEW k, NEW t, k[t] \in Lives
  PROVE  Share(t, k) \in 0..PARTS /\ (k[t].plan = "done" => Share(t, k) = PARTS)
<1> DEFINE f == AutopilotPhaseFraction(k[t])
           part == Min({PARTS, (PARTS * f.num) \div f.den})
<1>1. t \in Overlay(k) => part \in 0..PARTS
  <2>1. t \in Overlay(k) => f # NoFraction
    BY DEF Overlay
  <2> QED BY <2>1, ShareBounds
<1>2. Share(t, k) = CASE k[t].plan = "done" -> PARTS
                      [] k[t].plan \notin {"done", "failed"} /\ t \in Overlay(k) -> part
                      [] OTHER -> 0
  BY DEF Share
<1> HIDE DEF part
<1> QED BY <1>1, <1>2, PartsAre

LEMMA SumBounds ==
  ASSUME NEW n \in Nat, NEW b \in Nat, NEW s \in [1..n -> 0..b]
  PROVE  /\ SumOf(s) \in 0..(b * n)
         /\ (\A j \in 1..n : s[j] = b) => SumOf(s) = b * n
<1> DEFINE p == PartialSums(s)
           T == {k \in 0..n : p[k] \in 0..(b * k)}
<1>1. s \in [1..n -> Int]
  OBVIOUS
<1>2. /\ p \in [0..n -> Int] /\ p[0] = 0 /\ \A k \in 1..n : p[k] = p[k - 1] + s[k]
      /\ SumOf(s) = p[n]
  BY <1>1, PartialSumsAre
<1> HIDE DEF p
<1>3. 0 \in T
  BY <1>2
<1>4. ASSUME NEW k \in 1..n, k - 1 \in T
      PROVE  k \in T
  <2>1. p[k - 1] \in 0..(b * (k - 1)) /\ p[k] = p[k - 1] + s[k] /\ s[k] \in 0..b
    BY <1>2, <1>4
  <2>2. b * (k - 1) + b = b * k /\ b * k \in Int
    OBVIOUS
  <2> QED BY <2>1, <2>2
<1>5. n \in T
  <2> HIDE DEF T
  <2> QED BY <1>3, <1>4, Upward
<1>6. ASSUME \A j \in 1..n : s[j] = b
      PROVE  SumOf(s) = b * n
  <2>1. b \in Int
    OBVIOUS
  <2> QED BY <1>1, <1>6, <2>1, SumOfEquals
<1> QED BY <1>2, <1>5, <1>6

LEMMA BarOfSum ==
  ASSUME NEW n \in Nat \ {0}, NEW s \in [1..n -> 0..PARTS]
  PROVE  /\ Round(100 * SumOf(s), PARTS * n) \in 0..100
         /\ (\A j \in 1..n : s[j] = PARTS) => Round(100 * SumOf(s), PARTS * n) = 100
<1> DEFINE a == SumOf(s)
           m == PARTS * n
<1>1. a \in 0..m /\ ((\A j \in 1..n : s[j] = PARTS) => a = m)
  <2>1. PARTS \in Nat /\ n \in Nat
    BY PartsAre
  <2>2. s \in [1..n -> 0..PARTS]
    OBVIOUS
  <2> QED BY <2>1, <2>2, SumBounds
<1>2. m \in Nat \ {0}
  BY PartsAre
<1> HIDE DEF a, m
<1>3. Round(100 * a, m) \in 0..100
  <2>1. a \in Nat /\ a <= m
    BY <1>1, <1>2
  <2> QED BY <1>2, <2>1, PercentBounds, Zenon
<1>4. Round(100 * m, m) = 100
  BY <1>2, FullIsHundred
<1> QED BY <1>1, <1>3, <1>4 DEF a, m

LEMMA PhaseBarWithinTrack ==
  ASSUME NEW p \in Plans, NEW k \in [DOMAIN p.depends -> Lives], NEW i \in 1..Len(p.phases)
  PROVE  LET card == PhaseCard(p.phases[i], k)
         IN  card.pct \in 0..100 /\ (card.status = "done" => card.pct = 100)
<1> DEFINE tasks == p.phases[i].tasks
           n == Len(tasks)
           s == [j \in 1..n |-> Share(tasks[j], k)]
           pct == PhaseCard(p.phases[i], k).pct
<1>1. tasks \in Seq(DOMAIN p.depends) /\ n \in Nat
  BY PanelAssumption
<1>2. pct = IF n = 0 THEN 0 ELSE Round(100 * SumOf(s), PARTS * n)
  BY DEF PhaseCard, PhaseProgressWithOverlay
<1>3. PhaseCard(p.phases[i], k).status = "done" => n # 0 /\ \A j \in 1..n : k[tasks[j]].plan = "done"
  <2> SUFFICES ASSUME PhaseCard(p.phases[i], k).status = "done"
        PROVE  n # 0 /\ \A j \in 1..n : k[tasks[j]].plan = "done"
    OBVIOUS
  <2>1. Statuses(p.phases[i], k) = {"done"}
    BY DEF PhaseCard, PhaseStatusWithOverlay
  <2>2. {k[t].plan : t \in Range(tasks)} = {"done"}
    BY <2>1 DEF Statuses
  <2> HIDE DEF tasks
  <2>3. n # 0
    <3>1. PICK t \in Range(tasks) : TRUE
      BY <2>2
    <3> QED BY <1>1, <3>1 DEF Range
  <2>4. ASSUME NEW j \in 1..n
        PROVE  k[tasks[j]].plan = "done"
    <3>1. tasks[j] \in Range(tasks)
      BY <1>1 DEF Range
    <3> QED BY <2>2, <3>1
  <2> QED BY <2>3, <2>4
<1> HIDE DEF tasks, pct
<1>4. ASSUME NEW j \in 1..n
      PROVE  Share(tasks[j], k) \in 0..PARTS /\ (k[tasks[j]].plan = "done" => Share(tasks[j], k) = PARTS)
  <2>1. k[tasks[j]] \in Lives
    BY <1>1
  <2> QED BY <2>1, ShareOfTask
<1>5. s \in [1..n -> 0..PARTS]
  BY <1>4
<1>6. ASSUME \A j \in 1..n : k[tasks[j]].plan = "done"
      PROVE  \A j \in 1..n : s[j] = PARTS
  <2>1. ASSUME NEW j \in 1..n
        PROVE  s[j] = PARTS
    BY <1>4, <1>6
  <2> QED BY <2>1
<1> HIDE DEF s, n
<1>7. n = 0 => pct = 0
  BY <1>2
<1>8. n # 0 => pct \in 0..100 /\ ((\A j \in 1..n : s[j] = PARTS) => pct = 100)
  <2> SUFFICES ASSUME n # 0 PROVE pct \in 0..100 /\ ((\A j \in 1..n : s[j] = PARTS) => pct = 100)
    OBVIOUS
  <2>1. n \in Nat \ {0}
    BY <1>1
  <2>2. pct = Round(100 * SumOf(s), PARTS * n)
    BY <1>2
  <2>3. /\ Round(100 * SumOf(s), PARTS * n) \in 0..100
        /\ (\A j \in 1..n : s[j] = PARTS) => Round(100 * SumOf(s), PARTS * n) = 100
    BY <1>5, <2>1, BarOfSum
  <2> QED BY <2>2, <2>3
<1> QED BY <1>3, <1>6, <1>7, <1>8 DEF pct

-----------------------------------------------------------------------------
(* The phases of a session. *)
Told == {"from", "upto", "secs", "turns", "cost", "input", "made", "cached", "output"}
IsPhase(p) ==
  /\ \A f \in Told : p[f] \in Figure
  /\ p.from # Missing /\ p.upto # Missing => p.from <= p.upto

LEMMA LengthIs ==
  ASSUME NEW n \in Nat, NEW ps, ps = [i \in 1..n |-> ps[i]]
  PROVE  Len(ps) = n
<1> DEFINE R == {ps[i] : i \in 1..n}
<1>1. ps \in [1..n -> R]
  OBVIOUS
<1> HIDE DEF R
<1>2. ps \in Seq(R)
  BY <1>1
<1>3. DOMAIN ps = 1..Len(ps) /\ DOMAIN ps = 1..n /\ Len(ps) \in Nat
  BY <1>1, <1>2
<1> QED BY <1>3

LEMMA PhasesAre ==
  ASSUME NEW k \in Lives
  PROVE  /\ Len(k.phases) \in Nat
         /\ Len(Phases(k)) = Len(k.phases)
         /\ \A i \in 1..Len(k.phases) : IsPhase(Phases(k)[i])
<1>1. Len(k.phases) \in Nat
  BY PanelAssumption
<1>2. ASSUME NEW i \in 1..Len(k.phases)
      PROVE  IsPhase(Phases(k)[i])
  <2> DEFINE p == Phases(k)[i]
  <2>1. p \in PhaseFigures(k.phases[i])
    BY PanelAssumption DEF Phases
  <2> QED BY <2>1 DEF PhaseFigures, IsPhase, Told
<1>3. Phases(k) = [i \in 1..Len(k.phases) |-> Phases(k)[i]]
  BY DEF Phases
<1> QED BY <1>1, <1>2, <1>3, LengthIs

(* What is missing counts for nothing. *)
Counted(p, f) == IF p[f] = Missing THEN 0 ELSE p[f]

LEMMA CountedIs ==
  ASSUME NEW p, IsPhase(p), NEW f \in Told
  PROVE  Counted(p, f) \in Nat
BY DEF Counted, IsPhase, Figure, Missing

LEMMA Sum0Is ==
  ASSUME NEW n \in Nat, NEW ps, Len(ps) = n, NEW f \in Told,
         \A i \in 1..n : IsPhase(ps[i])
  PROVE  LET s == [i \in 1..n |-> Counted(ps[i], f)]
         IN  s \in [1..n -> Nat] /\ s \in [1..n -> Int] /\ Sum0(ps, f) = SumOf(s)
<1>1. Len(ps) = n
  OBVIOUS
<1>2. \A i \in 1..n : Counted(ps[i], f) \in Nat
  BY CountedIs
<1>3. Sum0(ps, f) = SumOf([i \in 1..n |-> Counted(ps[i], f)])
  BY <1>1 DEF Sum0, Counted
<1> QED BY <1>2, <1>3

LEMMA SumOfOne ==
  ASSUME NEW x \in Int
  PROVE  SumOf([i \in 1..1 |-> x]) = x
<1> DEFINE s == [i \in 1..1 |-> x]
<1>1. s \in [1..1 -> Int] /\ 1 \in Nat /\ s[1] = x
  OBVIOUS
<1> HIDE DEF s
<1>2. /\ PartialSums(s)[0] = 0
      /\ \A k \in 1..1 : PartialSums(s)[k] = PartialSums(s)[k - 1] + s[k]
      /\ SumOf(s) = PartialSums(s)[1]
  BY <1>1, PartialSumsAre
<1>3. PartialSums(s)[1] = PartialSums(s)[1 - 1] + s[1]
  BY <1>2
<1> QED BY <1>1, <1>2, <1>3 DEF s

Upstream(p) == Counted(p, "input") + Counted(p, "made") + Counted(p, "cached")

LEMMA ToldHas == {"from", "upto", "secs", "input", "made", "cached"} \subseteq Told
BY DEF Told

LEMMA RowTokens ==
  ASSUME NEW p, IsPhase(p)
  PROVE  LET t == Tokens(<<p>>)
         IN  /\ t.cached = Counted(p, "cached")
             /\ Max({0, t.upstream}) = Upstream(p)
             /\ ~IsLowCache(t) => 85 * Upstream(p) <= 100 * Counted(p, "cached")
<1> DEFINE ps == <<p>>
<1>1. Len(ps) = 1 /\ ps[1] = p /\ 1 \in Nat /\ \A i \in 1..1 : ps[i] = p
  OBVIOUS
<1>2. ASSUME NEW f \in Told
      PROVE  Sum0(ps, f) = Counted(p, f)
  <2> HIDE DEF ps
  <2>1. Sum0(ps, f) = SumOf([i \in 1..1 |-> Counted(ps[i], f)])
    <3>1. PICK n \in Nat : n = 1
      OBVIOUS
    <3>2. Len(ps) = n /\ \A i \in 1..n : IsPhase(ps[i])
      BY <1>1, <3>1
    <3>3. Sum0(ps, f) = SumOf([i \in 1..n |-> Counted(ps[i], f)])
      BY <3>2, Sum0Is
    <3> QED BY <3>1, <3>3
  <2>2. [i \in 1..1 |-> Counted(ps[i], f)] = [i \in 1..1 |-> Counted(p, f)]
    BY <1>1
  <2>3. Counted(p, f) \in Int
    BY CountedIs
  <2> QED BY <2>1, <2>2, <2>3, SumOfOne
<1>3. (\E i \in 1..Len(ps) : HasUsage(ps[i])) <=> HasUsage(p)
  BY <1>1
<1>4. /\ Counted(p, "input") \in Nat /\ Counted(p, "made") \in Nat /\ Counted(p, "cached") \in Nat
      /\ ~HasUsage(p) => Upstream(p) = 0
  BY CountedIs, ToldHas DEF HasUsage, Upstream, Counted
<1> DEFINE t == Tokens(ps)
<1>5. /\ t.cached = Counted(p, "cached")
      /\ t.upstream = IF HasUsage(p) THEN Upstream(p) ELSE Missing
  <2> HIDE DEF ps
  <2>1. /\ t.cached = Sum0(ps, "cached")
        /\ t.upstream = IF HasUsage(p) THEN Sum0(ps, "input") + Sum0(ps, "made") + Sum0(ps, "cached")
                        ELSE Missing
    BY <1>3 DEF Tokens
  <2> QED BY <1>2, <2>1, ToldHas DEF Upstream
<1> HIDE DEF t
<1>6. Upstream(p) \in Nat
  BY <1>4 DEF Upstream
<1>7. Max({0, t.upstream}) = Upstream(p)
  <2>1. CASE HasUsage(p)
    <3>1. Max({0, Upstream(p)}) \in {0, Upstream(p)} /\ Max({0, Upstream(p)}) >= Upstream(p)
            /\ Max({0, Upstream(p)}) >= 0
      BY <1>6, MaxOfTwo
    <3> QED BY <1>5, <1>6, <2>1, <3>1
  <2>2. CASE ~HasUsage(p)
    <3>1. Max({0, -1}) = 0
      BY DEF Max
    <3> QED BY <1>4, <1>5, <2>2, <3>1 DEF Missing
  <2> QED BY <2>1, <2>2
<1>8. ~IsLowCache(t) => 85 * Upstream(p) <= 100 * Counted(p, "cached")
  BY <1>4, <1>5, <1>6 DEF IsLowCache, HasRate, LOW_CACHE_THRESHOLD, Missing
<1> QED BY <1>5, <1>7, <1>8 DEF t

-----------------------------------------------------------------------------
LEMMA FooterTokens ==
  ASSUME NEW n \in Nat, NEW ps, Len(ps) = n,
         \A i \in 1..n : IsPhase(ps[i])
  PROVE  LET t == Tokens(ps)
         IN  /\ t.fresh + t.cached = SumOf([i \in 1..n |-> Upstream(ps[i])])
             /\ (\A i \in 1..n : 85 * Upstream(ps[i]) <= 100 * Counted(ps[i], "cached"))
                  => ~IsLowCache(t)
<1> DEFINE t == Tokens(ps)
           in == [i \in 1..n |-> Counted(ps[i], "input")]
           made == [i \in 1..n |-> Counted(ps[i], "made")]
           cached == [i \in 1..n |-> Counted(ps[i], "cached")]
           fresh == [i \in 1..n |-> Counted(ps[i], "input") + Counted(ps[i], "made")]
           up == [i \in 1..n |-> Upstream(ps[i])]
<1>1. /\ in \in [1..n -> Int] /\ made \in [1..n -> Int] /\ cached \in [1..n -> Int]
      /\ Sum0(ps, "input") = SumOf(in) /\ Sum0(ps, "made") = SumOf(made)
      /\ Sum0(ps, "cached") = SumOf(cached)
  <2>1. ASSUME NEW f \in Told
        PROVE  LET s == [i \in 1..n |-> Counted(ps[i], f)]
               IN  s \in [1..n -> Nat] /\ s \in [1..n -> Int] /\ Sum0(ps, f) = SumOf(s)
    <3>1. n \in Nat /\ Len(ps) = n /\ \A i \in 1..n : IsPhase(ps[i])
      OBVIOUS
    <3> QED BY ONLY <2>1, <3>1, Sum0Is
  <2> QED BY <2>1, ToldHas
<1>2. ASSUME NEW i \in 1..n
      PROVE  /\ in[i] \in Int /\ made[i] \in Int /\ cached[i] \in Int
             /\ fresh[i] = in[i] + made[i] /\ up[i] = fresh[i] + cached[i]
  BY <1>1, CountedIs, ToldHas DEF Upstream
<1>3. fresh \in [1..n -> Int] /\ up \in [1..n -> Int]
  <2>1. fresh = [i \in 1..n |-> fresh[i]] /\ up = [i \in 1..n |-> up[i]]
    OBVIOUS
  <2> HIDE DEF in, made, cached, fresh, up
  <2>2. \A i \in 1..n : fresh[i] \in Int /\ up[i] \in Int
    BY <1>2
  <2> QED BY <2>1, <2>2
<1>4. /\ t.cached = Sum0(ps, "cached") /\ t.fresh = Sum0(ps, "input") + Sum0(ps, "made")
      /\ t.upstream \in {t.fresh + t.cached, Missing}
  BY DEF Tokens
<1> HIDE DEF t, in, made, fresh
<1>5. SumOf(fresh) = SumOf(in) + SumOf(made)
  <2>1. \A i \in 1..n : fresh[i] = in[i] + made[i]
    BY <1>2
  <2>2. in \in [1..n -> Int] /\ made \in [1..n -> Int] /\ fresh \in [1..n -> Int]
    BY <1>1, <1>3
  <2> QED BY ONLY n \in Nat, <2>1, <2>2, SumsAdd
<1>6. SumOf(up) = SumOf(fresh) + SumOf(cached)
  <2>1. \A i \in 1..n : up[i] = fresh[i] + cached[i]
    BY <1>2
  <2>2. fresh \in [1..n -> Int] /\ cached \in [1..n -> Int] /\ up \in [1..n -> Int]
    BY <1>1, <1>3
  <2> HIDE DEF up, cached
  <2> QED BY ONLY n \in Nat, <2>1, <2>2, SumsAdd
<1>7. t.fresh + t.cached = SumOf(up)
  BY <1>1, <1>4, <1>5, <1>6
<1>8. ASSUME \A i \in 1..n : 85 * Upstream(ps[i]) <= 100 * Counted(ps[i], "cached")
      PROVE  ~IsLowCache(t)
  <2>1. \A i \in 1..n : 85 * up[i] <= 100 * cached[i]
    BY <1>8
  <2> HIDE DEF up, cached
  <2>2. PICK a \in Nat, b \in Nat : a = 85 /\ b = 100
    OBVIOUS
  <2>3. \A i \in 1..n : a * up[i] <= b * cached[i]
    BY <2>1, <2>2
  <2>4. SumOf(up) \in Int /\ SumOf(cached) \in Int /\ a * SumOf(up) <= b * SumOf(cached)
    BY <1>1, <1>3, <2>3, SumsCompare
  <2>5. 85 * SumOf(up) <= 100 * SumOf(cached)
    BY <2>2, <2>4
  <2> QED BY <1>1, <1>4, <1>7, <2>4, <2>5 DEF IsLowCache, HasRate, LOW_CACHE_THRESHOLD, Missing
<1> QED BY <1>7, <1>8 DEF t, up

(* Of finitely many numbers one is the greatest. *)
LEMMA GreatestIs ==
  ASSUME NEW n \in Nat, NEW v, NEW W \in SUBSET (1..n), W # {}, \A i \in W : v[i] \in Nat
  PROVE  LET S == {v[i] : i \in W}
         IN  Max(S) \in S /\ \A i \in W : v[i] <= Max(S)
<1> DEFINE Top(k, x) == x \in W /\ x <= k /\ \A y \in W : y <= k => v[y] <= v[x]
           T == {k \in 0..n : (\E y \in W : y <= k) => \E x \in W : Top(k, x)}
<1>1. 0 \in T
  OBVIOUS
<1>2. ASSUME NEW k \in 1..n, k - 1 \in T
      PROVE  k \in T
  <2>1. SUFFICES ASSUME \E y \in W : y <= k
        PROVE  \E x \in W : Top(k, x)
    OBVIOUS
  <2>2. CASE k \notin W
    <3>1. \A y \in W : y <= k <=> y <= k - 1
      BY <2>2
    <3>2. PICK x \in W : Top(k - 1, x)
      BY <1>2, <2>1, <3>1
    <3>3. Top(k, x)
      BY <3>1, <3>2
    <3> QED BY <3>3
  <2>3. CASE k \in W /\ \A y \in W : y <= k - 1 => v[y] <= v[k]
    <3>1. \A y \in W : y <= k => y = k \/ y <= k - 1
      OBVIOUS
    <3>2. Top(k, k)
      BY <2>3, <3>1
    <3> QED BY <2>3, <3>2
  <2>4. CASE k \in W /\ \E y \in W : y <= k - 1 /\ v[k] < v[y]
    <3>1. PICK x \in W : Top(k - 1, x)
      BY <1>2, <2>4
    <3>2. \A y \in W : y <= k => y = k \/ y <= k - 1
      OBVIOUS
    <3>3. Top(k, x)
      BY <2>4, <3>1, <3>2
    <3> QED BY <3>3
  <2>5. \A y \in W : k \in W => v[y] \in Nat /\ v[k] \in Nat
    OBVIOUS
  <2> QED BY <2>2, <2>3, <2>4, <2>5
<1>3. n \in T
  <2> HIDE DEF T
  <2> QED BY <1>1, <1>2, Upward
<1>4. PICK x \in W : Top(n, x)
  <2>1. \E y \in W : y <= n
    <3>1. PICK y \in W : TRUE
      OBVIOUS
    <3>2. y <= n
      BY <3>1
    <3> QED BY <3>2
  <2> HIDE DEF Top
  <2> QED BY <1>3, <2>1
<1>5. \A i \in W : v[i] <= v[x]
  BY <1>4
<1> DEFINE S == {v[i] : i \in W}
<1>6. \E y \in S : \A z \in S : y >= z
  BY <1>5
<1>7. Max(S) \in S /\ \A z \in S : Max(S) >= z
  <2> HIDE DEF S
  <2> QED BY <1>6 DEF Max
<1>8. S \subseteq Nat
  OBVIOUS
<1> QED BY <1>7, <1>8

(* The times of a session that is over. *)
LEMMA TimesAre ==
  ASSUME NEW n \in Nat, NEW ps, Len(ps) = n,
         \A i \in 1..n : IsPhase(ps[i]), SessionTimes(ps).wall # Missing
  PROVE  LET t == SessionTimes(ps)
         IN  /\ t.wall = t.upto - t.from /\ t.from \in Nat /\ t.upto \in Nat
             /\ \A i \in 1..n : ps[i].status # "running"
             /\ \E i \in 1..n : ps[i].from # Missing
             /\ \A i \in 1..n : ps[i].from # Missing =>
                  /\ ps[i].from \in Nat /\ ps[i].upto \in Nat /\ ps[i].from <= ps[i].upto
                  /\ t.from <= ps[i].from /\ ps[i].upto <= t.upto
             /\ t.idle # Missing => t.idle = t.wall - Sum0(ps, "secs")
<1> DEFINE began == {i \in 1..n : ps[i].from # Missing}
           live == \E i \in 1..n : ps[i].status = "running"
           ended == began # {} /\ ~live /\ \A i \in began : ps[i].upto # Missing
           froms == {ps[i].from : i \in began}
           uptos == {ps[i].upto : i \in began}
           t == SessionTimes(ps)
<1>1. Len(ps) = n
  OBVIOUS
<1>2. /\ t.from = IF began = {} THEN Missing ELSE Min(froms)
      /\ t.upto = IF ended THEN Max(uptos) ELSE Missing
      /\ t.wall = IF ended THEN t.upto - t.from ELSE Missing
      /\ t.idle # Missing => t.idle = t.wall - Sum0(ps, "secs")
  BY <1>1 DEF SessionTimes
<1> HIDE DEF t
<1>3. ended
  BY <1>2 DEF t
<1>4. \A i \in began : ps[i].from \in Nat /\ ps[i].upto \in Nat /\ ps[i].from <= ps[i].upto
  BY <1>3, ToldHas DEF IsPhase, Figure
<1>5. Min(froms) \in Nat /\ \A i \in began : Min(froms) <= ps[i].from
  <2>1. froms \in SUBSET Nat /\ froms # {}
    BY <1>3, <1>4
  <2>2. \A i \in began : ps[i].from \in froms
    OBVIOUS
  <2> HIDE DEF froms, began
  <2> QED BY <2>1, <2>2, LeastIs
<1>6. Max(uptos) \in Nat /\ \A i \in began : ps[i].upto <= Max(uptos)
  <2> DEFINE v == [i \in 1..n |-> ps[i].upto]
  <2>1. began \in SUBSET (1..n) /\ began # {} /\ \A i \in began : v[i] \in Nat /\ v[i] = ps[i].upto
    BY <1>3, <1>4
  <2>2. {v[i] : i \in began} = uptos
    BY <2>1
  <2> HIDE DEF v, began
  <2>3. Max({v[i] : i \in began}) \in {v[i] : i \in began}
          /\ \A k \in began : v[k] <= Max({v[i] : i \in began})
    BY <2>1, GreatestIs
  <2> QED BY <2>1, <2>2, <2>3
<1> HIDE DEF froms, uptos
<1> QED BY <1>2, <1>3, <1>4, <1>5, <1>6 DEF t

LEMMA Telescope ==
  ASSUME NEW q \in Nat, NEW x \in Nat, NEW start \in Nat, NEW upto \in Nat,
         NEW from \in Nat, NEW next \in Nat,
         q <= upto - start, upto <= from, x <= next - from
  PROVE  q + x <= next - start
OBVIOUS

(* Of phases that ran in turn, what was spent fits between start and end.   *)
LEMMA InTurnFits ==
  ASSUME NEW n \in Nat, NEW ps, Len(ps) = n,
         \A i \in 1..n : IsPhase(ps[i]), InTurn(ps),
         NEW start \in Nat, NEW end \in Nat, start <= end,
         \A i \in 1..n : ps[i].from # Missing =>
           /\ ps[i].from \in Nat /\ ps[i].upto \in Nat
           /\ start <= ps[i].from /\ ps[i].upto <= end
  PROVE  Sum0(ps, "secs") \in Nat /\ Sum0(ps, "secs") <= end - start
<1> DEFINE s == [i \in 1..n |-> Counted(ps[i], "secs")]
           p == PartialSums(s)
           Latest(k, l) == /\ l \in 1..k /\ ps[l].from # Missing
                         /\ \A i \in 1..k : ps[i].from # Missing => i <= l
           T == {k \in 0..n : /\ p[k] \in Nat
                              /\ \/ p[k] = 0 /\ \A i \in 1..k : ps[i].from = Missing
                                 \/ \E l \in 1..n : Latest(k, l) /\ p[k] <= ps[l].upto - start}
<1>1. "secs" \in Told
  BY ToldHas
<1>2. s \in [1..n -> Int] /\ Sum0(ps, "secs") = SumOf(s)
  <2>1. ASSUME NEW f \in Told
        PROVE  LET v == [i \in 1..n |-> Counted(ps[i], f)]
               IN  v \in [1..n -> Nat] /\ v \in [1..n -> Int] /\ Sum0(ps, f) = SumOf(v)
    <3>1. n \in Nat /\ Len(ps) = n /\ \A i \in 1..n : IsPhase(ps[i])
      OBVIOUS
    <3> QED BY ONLY <2>1, <3>1, Sum0Is
  <2> QED BY <1>1, <2>1
<1>3. /\ p[0] = 0 /\ \A k \in 1..n : p[k] = p[k - 1] + s[k]
      /\ Sum0(ps, "secs") = p[n]
  <2> HIDE DEF s
  <2> QED BY <1>2, PartialSumsAre
<1>4. ASSUME NEW i \in 1..n
      PROVE  /\ s[i] \in Nat
             /\ ps[i].from = Missing => s[i] = 0
             /\ ps[i].from # Missing => s[i] <= ps[i].upto - ps[i].from
             /\ \A j \in 1..(i - 1) :
                  ps[j].from # Missing /\ ps[i].from # Missing => ps[j].upto <= ps[i].from
  <2>1. s[i] = Counted(ps[i], "secs") /\ s[i] \in Nat
    BY <1>1, CountedIs
  <2>2. Len(ps) = n
    OBVIOUS
  <2>3. ps[i].from # Missing => ps[i].from <= ps[i].upto
    BY ToldHas DEF IsPhase, Missing
  <2> HIDE DEF s
  <2>4. ps[i].secs # Missing => ps[i].from # Missing /\ ps[i].secs <= ps[i].upto - ps[i].from
    BY <2>2 DEF InTurn
  <2>5. \A j \in 1..(i - 1) :
          ps[j].from # Missing /\ ps[i].from # Missing => ps[j].upto <= ps[i].from
    BY <2>2 DEF InTurn
  <2>6. s[i] = IF ps[i].secs = Missing THEN 0 ELSE ps[i].secs
    BY <2>1 DEF Counted
  <2>7. ps[i].from # Missing => ps[i].from \in Nat /\ ps[i].upto \in Nat
    OBVIOUS
  <2> QED BY <2>1, <2>3, <2>4, <2>5, <2>6, <2>7
<1> HIDE DEF p, s
<1>5. 0 \in T
  BY <1>3
<1>6. ASSUME NEW k \in 1..n, k - 1 \in T
      PROVE  k \in T
  <2>1. p[k] = p[k - 1] + s[k] /\ p[k - 1] \in Nat /\ s[k] \in Nat
    BY <1>3, <1>4, <1>6
  <2>2. \A i \in 1..k : i = k \/ i \in 1..(k - 1)
    OBVIOUS
  <2>3. CASE ps[k].from = Missing
    <3>1. p[k] = p[k - 1]
      BY <1>4, <2>1, <2>3
    <3>2. CASE p[k - 1] = 0 /\ \A i \in 1..(k - 1) : ps[i].from = Missing
      <4>1. p[k] = 0 /\ \A i \in 1..k : ps[i].from = Missing
        BY <2>2, <2>3, <3>1, <3>2
      <4> QED BY <4>1
    <3>3. ASSUME NEW l \in 1..n, Latest(k - 1, l), p[k - 1] <= ps[l].upto - start
          PROVE  k \in T
      <4>1. Latest(k, l)
        <5>1. l \in 1..k /\ ps[l].from # Missing
          BY <3>3
        <5>2. ASSUME NEW i \in 1..k, ps[i].from # Missing
              PROVE  i <= l
          <6>1. i \in 1..(k - 1)
            BY <2>2, <2>3, <5>2
          <6> QED BY <3>3, <5>2, <6>1
        <5> QED BY <5>1, <5>2
      <4>2. p[k] \in Nat /\ p[k] <= ps[l].upto - start
        BY <2>1, <3>1, <3>3
      <4> HIDE DEF Last
      <4> QED BY <4>1, <4>2
    <3> QED BY <1>6, <3>2, <3>3
  <2>4. CASE ps[k].from # Missing
    <3>1. Latest(k, k)
      BY <2>2, <2>4
    <3>2. s[k] <= ps[k].upto - ps[k].from /\ ps[k].from \in Nat /\ ps[k].upto \in Nat
            /\ start <= ps[k].from
      BY <1>4, <2>4
    <3>3. p[k] <= ps[k].upto - start
      <4>1. CASE p[k - 1] = 0
        BY <2>1, <3>2, <4>1
      <4>2. ASSUME NEW l \in 1..n, Latest(k - 1, l), p[k - 1] <= ps[l].upto - start
            PROVE  p[k] <= ps[k].upto - start
        <5>1. ps[l].upto <= ps[k].from /\ ps[l].upto \in Nat
          BY <1>4, <2>4, <4>2
        <5>2. p[k - 1] <= ps[l].upto - start
          BY <4>2
        <5> HIDE DEF Last
        <5>3. p[k - 1] + s[k] <= ps[k].upto - start
          BY <2>1, <3>2, <5>1, <5>2, Telescope, Zenon
        <5> QED BY <2>1, <5>3
      <4> QED BY <1>6, <4>1, <4>2
    <3>4. p[k] \in Nat
      BY <2>1
    <3> HIDE DEF Last
    <3> QED BY <3>1, <3>3, <3>4
  <2> QED BY <2>3, <2>4
<1>7. n \in T
  <2> HIDE DEF T
  <2> QED BY <1>5, <1>6, Upward
<1>8. CASE p[n] = 0
  BY <1>3, <1>8
<1>9. ASSUME NEW l \in 1..n, Latest(n, l), p[n] <= ps[l].upto - start
      PROVE  p[n] <= end - start
  BY <1>7, <1>9
<1> QED BY <1>3, <1>7, <1>8, <1>9

-----------------------------------------------------------------------------
LEMMA StepperIsSound ==
  ASSUME PlanKnown
  PROVE  StepperSound(picked, known)
<1> DEFINE ps == DetailSidebar(picked, known).phases
           n == Len(ps)
           full == FullStepper(ps, Missing)
           rows == full.rows
           tokens == full.footer.tokens
           times == full.footer.times
<1>1. n \in Nat /\ \A i \in 1..n : IsPhase(ps[i])
  <2>1. CASE ps = <<>>
    BY <2>1
  <2>2. CASE ps # <<>>
    <3>1. picked # None /\ ps = Phases(known[picked])
      BY <2>2 DEF DetailSidebar, Pilot
    <3>2. known[picked] \in Lives
      BY <3>1 DEF PlanKnown
    <3> HIDE DEF ps
    <3> QED BY <3>1, <3>2, PhasesAre
  <2> QED BY <2>1, <2>2
<1>2. /\ rows = [i \in 1..n |-> PhaseRow(ps[i])]
      /\ tokens = Tokens(ps) /\ times = SessionTimes(ps)
  BY DEF FullStepper, Footer
<1> HIDE DEF ps, n, full
<1>3. Len(rows) = n
  BY <1>1, <1>2, LengthIs
<1>4. ASSUME NEW i \in 1..n
      PROVE  /\ Max({0, rows[i].tokens.upstream}) = Upstream(ps[i])
             /\ ~IsLowCache(rows[i].tokens) =>
                  85 * Upstream(ps[i]) <= 100 * Counted(ps[i], "cached")
             /\ rows[i].times = "live" => ps[i].status = "running"
             /\ ps[i].from = Missing => rows[i].times = "none" /\ rows[i].elapsed = Missing
             /\ ps[i].from # Missing /\ ps[i].upto # Missing /\ ps[i].status # "running" =>
                  rows[i].times = "ended" /\ rows[i].elapsed = ps[i].upto - ps[i].from
  <2>1. rows[i] = PhaseRow(ps[i])
    BY <1>2
  <2>2. rows[i].tokens = Tokens(<<ps[i]>>)
    BY <2>1 DEF PhaseRow
  <2>3. /\ rows[i].times = "live" => ps[i].status = "running"
        /\ ps[i].from = Missing => rows[i].times = "none" /\ rows[i].elapsed = Missing
        /\ ps[i].from # Missing /\ ps[i].upto # Missing /\ ps[i].status # "running" =>
             rows[i].times = "ended" /\ rows[i].elapsed = ps[i].upto - ps[i].from
    BY <2>1 DEF PhaseRow
  <2>4. IsPhase(ps[i])
    BY <1>1
  <2> QED BY <2>2, <2>3, <2>4, RowTokens
<1> HIDE DEF rows, tokens, times
<1>11. /\ tokens.fresh + tokens.cached = SumOf([i \in 1..n |-> Upstream(ps[i])])
       /\ (\A i \in 1..n : 85 * Upstream(ps[i]) <= 100 * Counted(ps[i], "cached"))
            => ~IsLowCache(tokens)
  <2>1. n \in Nat /\ Len(ps) = n /\ \A i \in 1..n : IsPhase(ps[i])
    BY <1>1 DEF n
  <2>2. /\ Tokens(ps).fresh + Tokens(ps).cached = SumOf([i \in 1..n |-> Upstream(ps[i])])
        /\ (\A i \in 1..n : 85 * Upstream(ps[i]) <= 100 * Counted(ps[i], "cached"))
             => ~IsLowCache(Tokens(ps))
    BY ONLY <2>1, FooterTokens
  <2> QED BY <1>2, <2>2, Zenon
<1>5. IsLowCache(tokens) => \E i \in 1..n : IsLowCache(rows[i].tokens)
  BY <1>4, <1>11, Zenon
<1>6. tokens.fresh + tokens.cached =
        SumOf([i \in 1..n |-> Max({0, rows[i].tokens.upstream})])
  <2>1. tokens.fresh + tokens.cached = SumOf([i \in 1..n |-> Upstream(ps[i])])
    BY <1>11
  <2>2. [i \in 1..n |-> Max({0, rows[i].tokens.upstream})] = [i \in 1..n |-> Upstream(ps[i])]
    BY <1>4
  <2> QED BY <2>1, <2>2
<1>7. (\E i \in 1..n : rows[i].times = "live") => times.live
  <2>1. times.live <=> \E i \in 1..n : ps[i].status = "running"
    BY <1>2 DEF SessionTimes, n
  <2> QED BY <1>4, <2>1
<1>8. ASSUME times.wall # Missing
      PROVE  /\ times.wall = times.upto - times.from /\ times.from \in Nat /\ times.upto \in Nat
             /\ \A i \in 1..n : ps[i].status # "running"
             /\ \E i \in 1..n : ps[i].from # Missing
             /\ \A i \in 1..n : ps[i].from # Missing =>
                  /\ ps[i].from \in Nat /\ ps[i].upto \in Nat /\ ps[i].from <= ps[i].upto
                  /\ times.from <= ps[i].from /\ ps[i].upto <= times.upto
             /\ times.idle # Missing => times.idle = times.wall - Sum0(ps, "secs")
  BY <1>1, <1>2, <1>8, TimesAre DEF n
<1>9. ASSUME times.wall # Missing, NEW i \in 1..n
      PROVE  rows[i].times \in {"none", "ended"} /\ rows[i].elapsed <= times.wall
  <2>1. times.wall >= 0
    <3>1. PICK j \in 1..n : ps[j].from # Missing
      BY <1>8, <1>9
    <3> QED BY <1>8, <1>9, <3>1
  <2>2. CASE ps[i].from = Missing
    <3>1. rows[i].times = "none" /\ rows[i].elapsed = Missing
      BY <1>4, <2>2
    <3>2. times.wall \in Int
      BY <1>8, <1>9
    <3> QED BY <2>1, <3>1, <3>2 DEF Missing
  <2>3. CASE ps[i].from # Missing
    <3>1. /\ ps[i].from \in Nat /\ ps[i].upto \in Nat
          /\ times.from <= ps[i].from /\ ps[i].upto <= times.upto
          /\ ps[i].status # "running"
      BY <1>8, <1>9, <2>3
    <3>2. ps[i].upto # Missing
      BY <3>1 DEF Missing
    <3>3. rows[i].times = "ended" /\ rows[i].elapsed = ps[i].upto - ps[i].from
      BY <1>4, <2>3, <3>1, <3>2
    <3>4. times.wall = times.upto - times.from /\ times.from \in Nat /\ times.upto \in Nat
      BY <1>8, <1>9
    <3> HIDE DEF Missing
    <3>5. ps[i].upto - ps[i].from <= times.wall
      BY <3>1, <3>4
    <3> QED BY <3>3, <3>5
  <2> QED BY <2>2, <2>3
<1>10. ASSUME times.idle # Missing, InTurn(ps)
       PROVE  times.idle >= 0
  <2>1. times.wall # Missing
    BY <1>2, <1>10 DEF SessionTimes
  <2>2. times.from <= times.upto
    <3>1. PICK j \in 1..n : ps[j].from # Missing
      BY <1>8, <2>1
    <3> QED BY <1>8, <2>1, <3>1
  <2>3. Sum0(ps, "secs") \in Nat /\ Sum0(ps, "secs") <= times.upto - times.from
    BY <1>1, <1>8, <1>10, <2>1, <2>2, InTurnFits DEF n
  <2> QED BY <1>8, <1>10, <2>1, <2>3
<1> QED BY <1>3, <1>5, <1>6, <1>7, <1>9, <1>10 DEF StepperSound, ps, rows, tokens, times, full

-----------------------------------------------------------------------------
(* Ranks.  Of finitely many things in a strict order, each is after a number *)
(* of others that is its own.                                                *)
Orders(R, W) ==
  /\ \A i \in W : <<i, i>> \notin R
  /\ \A i, j \in W : i # j => <<i, j>> \in R \/ <<j, i>> \in R
  /\ \A i, j, k \in W : <<i, j>> \in R /\ <<j, k>> \in R => <<i, k>> \in R

Before(R, W, i) == {j \in W : <<j, i>> \in R}

LEMMA RanksAre ==
  ASSUME NEW W, IsFiniteSet(W), NEW R, Orders(R, W)
  PROVE  /\ Cardinality(W) \in Nat
         /\ \A i \in W : Cardinality(Before(R, W, i)) \in Nat
         /\ \A i \in W : Cardinality(Before(R, W, i)) < Cardinality(W)
         /\ \A i, j \in W : <<i, j>> \in R =>
              Cardinality(Before(R, W, i)) < Cardinality(Before(R, W, j))
         /\ \A i, j \in W :
              Cardinality(Before(R, W, i)) = Cardinality(Before(R, W, j)) => i = j
<1>1. Cardinality(W) \in Nat
  BY FS_CardinalityType
<1>2. ASSUME NEW i \in W
      PROVE  /\ IsFiniteSet(Before(R, W, i)) /\ Cardinality(Before(R, W, i)) \in Nat
             /\ Cardinality(Before(R, W, i)) < Cardinality(W)
  <2>1. Before(R, W, i) \subseteq W \ {i}
    BY DEF Before, Orders
  <2>2. IsFiniteSet(W \ {i}) /\ Cardinality(W \ {i}) = Cardinality(W) - 1
    BY FS_RemoveElement
  <2>3. /\ IsFiniteSet(Before(R, W, i)) /\ Cardinality(Before(R, W, i)) <= Cardinality(W \ {i})
        /\ Cardinality(Before(R, W, i)) \in Nat
    BY <2>1, <2>2, FS_Subset, FS_CardinalityType
  <2> QED BY <1>1, <2>2, <2>3
<1>3. ASSUME NEW i \in W, NEW j \in W, <<i, j>> \in R
      PROVE  Cardinality(Before(R, W, i)) < Cardinality(Before(R, W, j))
  <2>1. Before(R, W, i) \subseteq Before(R, W, j) \ {i} /\ i \in Before(R, W, j)
    BY <1>3 DEF Before, Orders
  <2>2. /\ IsFiniteSet(Before(R, W, j) \ {i})
        /\ Cardinality(Before(R, W, j) \ {i}) = Cardinality(Before(R, W, j)) - 1
    BY <1>2, <2>1, FS_RemoveElement
  <2>3. Cardinality(Before(R, W, i)) <= Cardinality(Before(R, W, j) \ {i})
    BY <2>1, <2>2, FS_Subset
  <2>4. Cardinality(Before(R, W, i)) \in Nat /\ Cardinality(Before(R, W, j)) \in Nat
    BY <1>2
  <2> QED BY <2>2, <2>3, <2>4
<1>4. ASSUME NEW i \in W, NEW j \in W, i # j
      PROVE  Cardinality(Before(R, W, i)) # Cardinality(Before(R, W, j))
  <2>1. <<i, j>> \in R \/ <<j, i>> \in R
    BY <1>4 DEF Orders
  <2>2. Cardinality(Before(R, W, i)) \in Nat /\ Cardinality(Before(R, W, j)) \in Nat
    BY <1>2
  <2> QED BY <1>3, <2>1, <2>2
<1> QED BY <1>1, <1>2, <1>3, <1>4

LEMMA RanksReached ==
  ASSUME NEW W, IsFiniteSet(W), NEW R, Orders(R, W)
  PROVE  \A k \in 1..Cardinality(W) : \E i \in W : Cardinality(Before(R, W, i)) = k - 1
<1> DEFINE n == Cardinality(W)
           place == [i \in W |-> Cardinality(Before(R, W, i)) + 1]
<1>1. /\ n \in Nat
      /\ \A i \in W : Cardinality(Before(R, W, i)) \in Nat /\ Cardinality(Before(R, W, i)) < n
      /\ \A i, j \in W : Cardinality(Before(R, W, i)) = Cardinality(Before(R, W, j)) => i = j
  BY RanksAre
<1> HIDE DEF n
<1>2. place \in [W -> 1..n] /\ \A i, j \in W : place[i] = place[j] => i = j
  BY <1>1
<1>3. place \in Injection(W, 1..n)
  BY <1>2 DEF Injection, IsInjective
<1>4. IsFiniteSet(1..n) /\ Cardinality(1..n) = n
  BY <1>1, FS_Interval
<1>5. place \in Surjection(W, 1..n)
  BY <1>3, <1>4, FS_Injection DEF n
<1>6. \A k \in 1..n : \E i \in W : place[i] = k
  BY <1>5 DEF Surjection
<1>7. ASSUME NEW k \in 1..n
      PROVE  \E i \in W : Cardinality(Before(R, W, i)) = k - 1
  <2>1. PICK i \in W : place[i] = k
    BY <1>6
  <2>2. Cardinality(Before(R, W, i)) + 1 = k /\ Cardinality(Before(R, W, i)) \in Nat
    BY <1>1, <2>1
  <2> QED BY <2>2
<1> QED BY <1>7 DEF n

(* What enumerates the ranks enumerates the set. *)
LEMMA RanksCover ==
  ASSUME NEW W, IsFiniteSet(W), NEW R, Orders(R, W), NEW s,
         \A k \in 1..Cardinality(W) : s[k] \in W /\ Cardinality(Before(R, W, s[k])) = k - 1
  PROVE  \A i \in W : \E k \in 1..Cardinality(W) : s[k] = i
<1>1. TAKE i \in W
<1> DEFINE k == Cardinality(Before(R, W, i)) + 1
<1>2. k \in 1..Cardinality(W) /\ k - 1 = Cardinality(Before(R, W, i))
  BY RanksAre
<1> HIDE DEF k
<1>3. s[k] \in W /\ Cardinality(Before(R, W, s[k])) = Cardinality(Before(R, W, i))
  BY <1>2
<1>4. s[k] = i
  BY <1>3, RanksAre
<1> QED BY <1>2, <1>4

LEMMA RankedIs ==
  ASSUME NEW W, IsFiniteSet(W), NEW R, Orders(R, W)
  PROVE  LET s == Ranked(W, R)
         IN  /\ DOMAIN s = 1..Cardinality(W) /\ \A k \in DOMAIN s : s[k] \in W
             /\ \A i \in W : \E k \in DOMAIN s : s[k] = i
<1> DEFINE s == Ranked(W, R)
<1>1. DOMAIN s = 1..Cardinality(W)
  BY DEF Ranked
<1>2. \A k \in 1..Cardinality(W) :
        s[k] = CHOOSE i \in W : Cardinality(Before(R, W, i)) = k - 1
  BY DEF Ranked, Before
<1>3. \A k \in 1..Cardinality(W) : s[k] \in W /\ Cardinality(Before(R, W, s[k])) = k - 1
  BY <1>2, RanksReached
<1> HIDE DEF s
<1>4. \A i \in W : \E k \in 1..Cardinality(W) : s[k] = i
  BY <1>3, RanksCover
<1> QED BY <1>1, <1>3, <1>4 DEF s

(* filter() keeps exactly what passes. *)
LEMMA SelectIs ==
  ASSUME NEW n \in Nat, NEW s, DOMAIN s = 1..n, NEW W \in SUBSET (1..n)
  PROVE  /\ Range(Select(s, W)) = {s[i] : i \in W}
         /\ DOMAIN Select(s, W) = 1..Cardinality(W)
         /\ Cardinality(W) \in Nat /\ Cardinality(W) <= n
<1> DEFINE R == {e \in W \X W : e[1] < e[2]}
           a == Ascending(W)
           S == {s[i] : i \in W}
           r == Select(s, W)
<1>1. IsFiniteSet(W) /\ Cardinality(W) \in Nat /\ Cardinality(W) <= n
  <2>1. IsFiniteSet(1..n) /\ Cardinality(1..n) = n
    BY FS_Interval
  <2>2. IsFiniteSet(W) /\ Cardinality(W) <= Cardinality(1..n)
    BY <2>1, FS_Subset
  <2>3. Cardinality(W) \in Nat
    BY <2>2, FS_CardinalityType
  <2> QED BY <2>1, <2>2, <2>3
<1>2. \A i, j \in W : <<i, j>> \in R <=> i < j
  OBVIOUS
<1>3. Orders(R, W)
  <2> HIDE DEF R
  <2>1. \A i \in W : i \in Nat
    OBVIOUS
  <2> QED BY <1>2, <2>1 DEF Orders
<1>4. ASSUME NEW i \in W
      PROVE  Before(R, W, i) = {j \in W : j < i}
  BY DEF Before
<1> HIDE DEF R
<1>5. ASSUME NEW k \in 1..Cardinality(W)
      PROVE  a[k] \in W /\ Cardinality(Before(R, W, a[k])) = k - 1
  <2>1. a[k] = CHOOSE i \in W : Cardinality({j \in W : j < i}) = k - 1
    BY DEF Ascending
  <2>2. PICK i \in W : Cardinality(Before(R, W, i)) = k - 1
    BY <1>1, <1>3, RanksReached
  <2>3. Cardinality({j \in W : j < i}) = k - 1
    BY <1>4, <2>2
  <2>4. a[k] \in W /\ Cardinality({j \in W : j < a[k]}) = k - 1
    <3> HIDE DEF a
    <3> QED BY <2>1, <2>3
  <2> QED BY <1>4, <2>4
<1>6. DOMAIN a = 1..Cardinality(W)
  BY DEF Ascending
<1>7. DOMAIN r = 1..Cardinality(W) /\ \A k \in 1..Cardinality(W) : r[k] = s[a[k]]
  BY <1>6 DEF Select
<1> HIDE DEF a, r
<1>8. \A i \in W : \E k \in 1..Cardinality(W) : a[k] = i
  BY <1>1, <1>3, <1>5, RanksCover
<1>9. \A k \in DOMAIN r : r[k] \in S
  BY <1>5, <1>7
<1>10. \A x \in S : \E k \in DOMAIN r : r[k] = x
  BY <1>7, <1>8
<1> HIDE DEF S
<1>11. Range(r) = S
  BY <1>9, <1>10 DEF Range
<1> QED BY <1>1, <1>7, <1>11 DEF r, S

-----------------------------------------------------------------------------
(* The tasks of a phase as a graph. *)
Drawn(p, ph) ==
  /\ ph.tasks \in Seq(Range(ph.tasks)) /\ Acyclic(p, ph)
  /\ {Entry, Exit, Gate} \cap Range(ph.tasks) = {}

LEMMA PhasesDrawn ==
  ASSUME NEW p \in Plans, NEW i \in 1..Len(p.phases)
  PROVE  Drawn(p, p.phases[i])
<1> DEFINE ph == p.phases[i]
<1>1. /\ ph.tasks \in Seq(DOMAIN p.depends) /\ Acyclic(p, ph)
      /\ {None, Entry, Exit, Gate} \cap DOMAIN p.depends = {}
  BY PanelAssumption
<1> HIDE DEF ph
<1>2. Len(ph.tasks) \in Nat /\ DOMAIN ph.tasks = 1..Len(ph.tasks)
  BY <1>1
<1>3. \A k \in DOMAIN ph.tasks : ph.tasks[k] \in DOMAIN p.depends
  BY <1>1
<1>4. Range(ph.tasks) \subseteq DOMAIN p.depends
  BY <1>3 DEF Range
<1>5. ph.tasks \in [1..Len(ph.tasks) -> Range(ph.tasks)]
  BY <1>1, <1>2 DEF Range
<1>6. ph.tasks \in Seq(Range(ph.tasks))
  BY <1>2, <1>5
<1> QED BY <1>1, <1>4, <1>6 DEF Drawn, ph

LEMMA TasksAre ==
  ASSUME NEW p, NEW ph, Drawn(p, ph)
  PROVE  /\ Len(ph.tasks) \in Nat /\ DOMAIN ph.tasks = 1..Len(ph.tasks)
         /\ \A k \in 1..Len(ph.tasks) : ph.tasks[k] \in Range(ph.tasks)
         /\ \A t \in Range(ph.tasks) : \E k \in 1..Len(ph.tasks) : ph.tasks[k] = t
         /\ IsFiniteSet(Range(ph.tasks))
<1> DEFINE n == Len(ph.tasks)
<1>1. n \in Nat /\ DOMAIN ph.tasks = 1..n
  BY DEF Drawn
<1>2. /\ \A k \in 1..n : ph.tasks[k] \in Range(ph.tasks)
      /\ \A t \in Range(ph.tasks) : \E k \in 1..n : ph.tasks[k] = t
  BY <1>1 DEF Range
<1>3. IsFiniteSet(Range(ph.tasks))
  <2>1. IsFiniteSet(1..n)
    BY <1>1, FS_Interval
  <2>2. ph.tasks \in [1..n -> Range(ph.tasks)]
    BY <1>1 DEF Drawn
  <2>3. ph.tasks \in Surjection(1..n, Range(ph.tasks))
    BY <1>2, <2>2 DEF Surjection
  <2> HIDE DEF n
  <2> QED BY <2>1, <2>3, FS_Surjection
<1> QED BY <1>1, <1>2, <1>3

LEMMA ChildrenAre ==
  ASSUME NEW p, NEW ph, Drawn(p, ph), NEW t
  PROVE  /\ Range(Children(p, ph, t)) = {c \in Range(ph.tasks) : t \in Deps(p, ph, c)}
         /\ \E m \in 0..Len(ph.tasks) : DOMAIN Children(p, ph, t) = 1..m
<1> DEFINE n == Len(ph.tasks)
           W == {k \in DOMAIN ph.tasks : t \in Deps(p, ph, ph.tasks[k])}
<1>1. /\ n \in Nat /\ DOMAIN ph.tasks = 1..n
      /\ \A k \in 1..n : ph.tasks[k] \in Range(ph.tasks)
      /\ \A u \in Range(ph.tasks) : \E k \in 1..n : ph.tasks[k] = u
  BY TasksAre
<1>2. W \in SUBSET (1..n)
  BY <1>1
<1>3. {ph.tasks[k] : k \in W} = {c \in Range(ph.tasks) : t \in Deps(p, ph, c)}
  <2>1. \A c \in Range(ph.tasks) : t \in Deps(p, ph, c) => \E k \in W : ph.tasks[k] = c
    BY <1>1
  <2>2. \A k \in W : ph.tasks[k] \in Range(ph.tasks) /\ t \in Deps(p, ph, ph.tasks[k])
    BY <1>1
  <2> HIDE DEF W
  <2> QED BY <2>1, <2>2
<1>4. Children(p, ph, t) = Select(ph.tasks, W)
  BY DEF Children, Filter
<1> HIDE DEF W, n
<1>5. /\ Range(Select(ph.tasks, W)) = {ph.tasks[k] : k \in W}
      /\ DOMAIN Select(ph.tasks, W) = 1..Cardinality(W)
      /\ Cardinality(W) \in Nat /\ Cardinality(W) <= n
  BY <1>1, <1>2, SelectIs
<1>6. Cardinality(W) \in 0..n
  BY <1>1, <1>5
<1> QED BY <1>3, <1>4, <1>5, <1>6 DEF n

LEMMA RootsAre ==
  ASSUME NEW p, NEW ph, Drawn(p, ph)
  PROVE  /\ Range(Roots(p, ph)) = {t \in Range(ph.tasks) : Deps(p, ph, t) = {}}
         /\ Range(Leaves(p, ph)) = {t \in Range(ph.tasks) :
                                      \A c \in Range(ph.tasks) : t \notin Deps(p, ph, c)}
<1> DEFINE n == Len(ph.tasks)
           W == {k \in DOMAIN ph.tasks : Deps(p, ph, ph.tasks[k]) = {}}
           V == {k \in DOMAIN ph.tasks : Children(p, ph, ph.tasks[k]) = <<>>}
<1>1. /\ n \in Nat /\ DOMAIN ph.tasks = 1..n
      /\ \A k \in 1..n : ph.tasks[k] \in Range(ph.tasks)
      /\ \A u \in Range(ph.tasks) : \E k \in 1..n : ph.tasks[k] = u
  BY TasksAre
<1>2. W \in SUBSET (1..n) /\ V \in SUBSET (1..n)
  BY <1>1
<1>3. Roots(p, ph) = Select(ph.tasks, W) /\ Leaves(p, ph) = Select(ph.tasks, V)
  BY DEF Roots, Leaves, Filter
<1>4. ASSUME NEW t \in Range(ph.tasks)
      PROVE  Children(p, ph, t) = <<>> <=> \A c \in Range(ph.tasks) : t \notin Deps(p, ph, c)
  <2>1. PICK m \in 0..n : DOMAIN Children(p, ph, t) = 1..m
    BY ChildrenAre
  <2>2. Range(Children(p, ph, t)) = {c \in Range(ph.tasks) : t \in Deps(p, ph, c)}
    BY ChildrenAre
  <2>3. ASSUME Children(p, ph, t) = <<>>
        PROVE  \A c \in Range(ph.tasks) : t \notin Deps(p, ph, c)
    <3>1. DOMAIN Children(p, ph, t) = {}
      BY <2>3
    <3>2. Range(Children(p, ph, t)) = {}
      BY <3>1 DEF Range
    <3> QED BY <2>2, <3>2
  <2>4. ASSUME \A c \in Range(ph.tasks) : t \notin Deps(p, ph, c)
        PROVE  Children(p, ph, t) = <<>>
    <3>1. DOMAIN Children(p, ph, t) = {}
      BY <2>2, <2>4 DEF Range
    <3>2. \E f : Children(p, ph, t) = [k \in DOMAIN f |-> Children(p, ph, t)[k]]
      BY DEF Children, Filter, Select
    <3> QED BY <3>1, <3>2
  <2> QED BY <2>3, <2>4
<1>5. {ph.tasks[k] : k \in W} = {t \in Range(ph.tasks) : Deps(p, ph, t) = {}}
  <2>1. \A t \in Range(ph.tasks) : Deps(p, ph, t) = {} => \E k \in W : ph.tasks[k] = t
    BY <1>1
  <2>2. \A k \in W : ph.tasks[k] \in Range(ph.tasks) /\ Deps(p, ph, ph.tasks[k]) = {}
    BY <1>1
  <2> HIDE DEF W
  <2> QED BY <2>1, <2>2
<1>6. {ph.tasks[k] : k \in V} = {t \in Range(ph.tasks) : Children(p, ph, t) = <<>>}
  <2>1. \A t \in Range(ph.tasks) : Children(p, ph, t) = <<>> => \E k \in V : ph.tasks[k] = t
    BY <1>1
  <2>2. \A k \in V : ph.tasks[k] \in Range(ph.tasks) /\ Children(p, ph, ph.tasks[k]) = <<>>
    BY <1>1
  <2> HIDE DEF V
  <2> QED BY <2>1, <2>2
<1> HIDE DEF V, W, n
<1>7. /\ Range(Select(ph.tasks, W)) = {ph.tasks[k] : k \in W}
      /\ Range(Select(ph.tasks, V)) = {ph.tasks[k] : k \in V}
  <2>1. n \in Nat /\ DOMAIN ph.tasks = 1..n
    BY <1>1
  <2>2. ASSUME NEW U \in SUBSET (1..n)
        PROVE  Range(Select(ph.tasks, U)) = {ph.tasks[k] : k \in U}
    BY ONLY <2>1, SelectIs
  <2> QED BY <1>2, <2>2
<1>8. {t \in Range(ph.tasks) : Children(p, ph, t) = <<>>} =
        {t \in Range(ph.tasks) : \A c \in Range(ph.tasks) : t \notin Deps(p, ph, c)}
  BY <1>4
<1> QED BY <1>3, <1>5, <1>6, <1>7, <1>8

-----------------------------------------------------------------------------
LEMMA MaxIs ==
  ASSUME NEW S, NEW x \in S, \A y \in S : x >= y
  PROVE  Max(S) \in S /\ \A y \in S : Max(S) >= y
BY DEF Max

(* Of what is told of some tasks there is a greatest. *)
LEMMA MaxOfTasks ==
  ASSUME NEW p, NEW ph, Drawn(p, ph), NEW K \in SUBSET Range(ph.tasks), K # {}, NEW g,
         \A t \in K : g[t] \in Nat
  PROVE  LET S == {g[t] : t \in K}
         IN  Max(S) \in S /\ \A t \in K : g[t] <= Max(S)
<1> DEFINE n == Len(ph.tasks)
           W == {k \in 1..n : ph.tasks[k] \in K}
           v == [k \in 1..n |-> g[ph.tasks[k]]]
           S == {g[t] : t \in K}
<1>1. n \in Nat /\ \A t \in K : \E k \in 1..n : ph.tasks[k] = t
  BY TasksAre
<1>2. W # {} /\ W \in SUBSET (1..n) /\ \A k \in W : v[k] \in Nat
  BY <1>1
<1>3. {v[k] : k \in W} = S
  BY <1>1
<1>4. \A t \in K : \E k \in W : v[k] = g[t]
  BY <1>1
<1> HIDE DEF W, v, n
<1>5. Max({v[k] : k \in W}) \in {v[k] : k \in W} /\ \A k \in W : v[k] <= Max({v[k2] : k2 \in W})
  BY <1>1, <1>2, GreatestIs
<1> HIDE DEF S
<1>6. Max(S) \in S /\ \A k \in W : v[k] <= Max(S)
  BY <1>3, <1>5
<1> QED BY <1>4, <1>6 DEF S

LEMMA MaxOrZero ==
  ASSUME NEW p, NEW ph, Drawn(p, ph), NEW K \in SUBSET Range(ph.tasks), NEW g,
         \A t \in K : g[t] \in Nat
  PROVE  LET S == {g[t] : t \in K} \cup {0}
         IN  Max(S) \in Nat /\ \A t \in K : g[t] <= Max(S)
<1> DEFINE S == {g[t] : t \in K}
           U == S \cup {0}
<1>1. PICK x \in U : \A y \in U : x >= y
  <2>1. CASE K = {}
    BY <2>1
  <2>2. CASE K # {}
    <3>1. Max(S) \in S /\ \A t \in K : g[t] <= Max(S)
      BY <2>2, MaxOfTasks
    <3>2. \A y \in U : y = 0 \/ \E t \in K : y = g[t]
      OBVIOUS
    <3>3. \A y \in S : y \in Nat
      OBVIOUS
    <3>4. \A y \in U : Max(S) >= y
      BY <3>1, <3>2, <3>3
    <3> QED BY <3>1, <3>4
  <2> QED BY <2>1, <2>2
<1>2. U \subseteq Nat /\ \A t \in K : g[t] \in U
  OBVIOUS
<1> HIDE DEF U
<1>3. Max(U) \in U /\ \A y \in U : Max(U) >= y
  BY <1>1, MaxIs
<1> QED BY <1>2, <1>3 DEF U

Kids(p, ph, t) == Range(Children(p, ph, t))
DepthStep(p, ph, g, t) == IF Kids(p, ph, t) = {} THEN 0 ELSE 1 + Max({g[c] : c \in Kids(p, ph, t)})

LEMMA KidsAre ==
  ASSUME NEW p, NEW ph, Drawn(p, ph), NEW t
  PROVE  Kids(p, ph, t) = {c \in Range(ph.tasks) : t \in Deps(p, ph, c)}
BY ChildrenAre DEF Kids

LEMMA DepthStepIsNat ==
  ASSUME NEW p, NEW ph, Drawn(p, ph), NEW g, NEW t,
         \A c \in Kids(p, ph, t) : g[c] \in Nat
  PROVE  DepthStep(p, ph, g, t) \in Nat
<1> DEFINE K == Kids(p, ph, t)
           S == {g[c] : c \in K}
<1>1. CASE K = {}
  BY <1>1 DEF DepthStep
<1>2. CASE K # {}
  <2>1. K \in SUBSET Range(ph.tasks)
    BY KidsAre
  <2> HIDE DEF K
  <2>2. Max(S) \in S
    BY <1>2, <2>1, MaxOfTasks DEF K
  <2>3. S \subseteq Nat
    BY DEF K
  <2> HIDE DEF S
  <2>4. Max(S) \in Nat
    BY <2>2, <2>3
  <2> QED BY <1>2, <2>4 DEF DepthStep, S, K
<1> QED BY <1>1, <1>2

LEMMA DepthStepSame ==
  ASSUME NEW p, NEW ph, NEW t, NEW g, NEW h,
         \A c \in Kids(p, ph, t) : g[c] = h[c]
  PROVE  DepthStep(p, ph, g, t) = DepthStep(p, ph, h, t)
<1>1. {g[c] : c \in Kids(p, ph, t)} = {h[c] : c \in Kids(p, ph, t)}
  OBVIOUS
<1> QED BY <1>1 DEF DepthStep

LEMMA DepthIs ==
  ASSUME NEW p, NEW ph, Drawn(p, ph)
  PROVE  \A t \in Range(ph.tasks) : DepthOf(p, ph)[t] \in Nat
<1> DEFINE T == Range(ph.tasks)
           n == Len(ph.tasks)
<1>1. n \in Nat
  BY TasksAre
<1>2. PICK rank \in [T -> 1..n] : \A t \in T : \A d \in Deps(p, ph, t) : rank[d] < rank[t]
  BY DEF Drawn, Acyclic
<1>3. ASSUME NEW t \in T
      PROVE  Kids(p, ph, t) \subseteq T /\ \A c \in Kids(p, ph, t) : rank[c] > rank[t]
  BY <1>2, KidsAre
<1> DEFINE D(t, g) == DepthStep(p, ph, g, t)
<1> HIDE DEF T, n
<1>4. \E f : f = [t \in T |-> D(t, f)]
  <2> DEFINE M == {k \in 0..n : \E g \in [T -> Nat] : \A t \in T :
                       rank[t] > n - k => g[t] = D(t, g)}
  <2>1. 0 \in M
    <3>1. [t \in T |-> 0] \in [T -> Nat] /\ \A t \in T : ~(rank[t] > n - 0)
      BY <1>1, <1>2
    <3> HIDE DEF D
    <3> QED BY <1>1, <3>1
  <2>2. ASSUME NEW k \in 1..n, k - 1 \in M
        PROVE  k \in M
    <3>1. PICK g \in [T -> Nat] : \A t \in T : rank[t] > n - (k - 1) => g[t] = D(t, g)
      BY <2>2
    <3> DEFINE h == [t \in T |-> IF rank[t] > n - k THEN D(t, g) ELSE g[t]]
    <3>2. \A t \in T : D(t, g) \in Nat
      BY <1>3, <3>1, DepthStepIsNat
    <3>3. h \in [T -> Nat]
      <4> HIDE DEF D
      <4> QED BY <3>1, <3>2
    <3>4. ASSUME NEW t \in T, rank[t] > n - k
          PROVE  h[t] = D(t, h)
      <4>1. ASSUME NEW c \in Kids(p, ph, t)
            PROVE  h[c] = g[c]
        <5>1. c \in T /\ rank[c] > rank[t] /\ rank[c] \in Nat /\ rank[t] \in Nat
          BY <1>2, <1>3, <4>1
        <5>2. rank[c] > n - (k - 1)
          BY <1>1, <3>4, <5>1
        <5>3. h[c] = IF rank[c] > n - k THEN D(c, g) ELSE g[c]
          BY <5>1
        <5> HIDE DEF h, D
        <5> QED BY <3>1, <5>1, <5>2, <5>3
      <4>2. D(t, h) = D(t, g)
        <5> HIDE DEF h
        <5> QED BY <4>1, DepthStepSame
      <4> HIDE DEF D
      <4> QED BY <3>4, <4>2
    <3> HIDE DEF h, D
    <3> QED BY <3>3, <3>4
  <2>3. n \in M
    <3> HIDE DEF M
    <3> QED BY <1>1, <2>1, <2>2, Upward
  <2>4. PICK g \in [T -> Nat] : \A t \in T : rank[t] > n - n => g[t] = D(t, g)
    BY <2>3
  <2>5. \A t \in T : rank[t] > n - n
    BY <1>1, <1>2
  <2>6. g = [t \in T |-> D(t, g)]
    <3> HIDE DEF D
    <3>1. \A t \in T : g[t] = D(t, g)
      BY <2>4, <2>5
    <3> QED BY <3>1
  <2> QED BY <2>6
<1> DEFINE f == DepthOf(p, ph)
<1>5. f = [t \in T |-> D(t, f)]
  BY <1>4 DEF DepthOf, DepthStep, Kids, T
<1> HIDE DEF f
<1> DEFINE M == {k \in 0..n : \A t \in T : rank[t] > n - k => f[t] \in Nat}
<1>6. 0 \in M
  BY <1>1, <1>2
<1>7. ASSUME NEW k \in 1..n, k - 1 \in M
      PROVE  k \in M
  <2>1. ASSUME NEW t \in T, rank[t] > n - k
        PROVE  f[t] \in Nat
    <3>1. ASSUME NEW c \in Kids(p, ph, t)
          PROVE  f[c] \in Nat
      <4>1. c \in T /\ rank[c] > rank[t] /\ rank[c] \in Nat /\ rank[t] \in Nat
        BY <1>2, <1>3, <3>1
      <4>2. rank[c] > n - (k - 1)
        BY <1>1, <2>1, <4>1
      <4> QED BY <1>7, <4>1, <4>2
    <3>2. D(t, f) \in Nat
      BY <3>1, DepthStepIsNat
    <3>3. f[t] = D(t, f)
      <4> HIDE DEF D
      <4> QED BY <1>5
    <3> QED BY <3>2, <3>3
  <2> QED BY <1>1, <2>1
<1>8. n \in M
  <2> HIDE DEF M
  <2> QED BY <1>1, <1>6, <1>7, Upward
<1>9. \A t \in T : rank[t] > n - n
  BY <1>1, <1>2
<1> QED BY <1>8, <1>9 DEF T, f

-----------------------------------------------------------------------------
(* The walk. *)
LEMMA SortedRootsAre ==
  ASSUME NEW p, NEW ph, Drawn(p, ph)
  PROVE  LET s == SortedRoots(p, ph)
         IN  /\ \E m \in Nat : DOMAIN s = 1..m
             /\ \A k \in DOMAIN s : s[k] \in Range(ph.tasks) /\ Deps(p, ph, s[k]) = {}
             /\ \A t \in Range(ph.tasks) : Deps(p, ph, t) = {} => \E k \in DOMAIN s : s[k] = t
<1> DEFINE T == Range(ph.tasks)
           n == Len(ph.tasks)
           D(i) == DepthOf(p, ph)[ph.tasks[i]]
           W == {i \in DOMAIN ph.tasks : Deps(p, ph, ph.tasks[i]) = {}}
           R == {e \in W \X W : D(e[1]) > D(e[2]) \/ (D(e[1]) = D(e[2]) /\ e[1] < e[2])}
           places == Ranked(W, R)
           s == SortedRoots(p, ph)
<1>1. /\ n \in Nat /\ DOMAIN ph.tasks = 1..n
      /\ \A k \in 1..n : ph.tasks[k] \in T
      /\ \A t \in T : \E k \in 1..n : ph.tasks[k] = t
  BY TasksAre
<1>2. \A i \in W : D(i) \in Nat /\ i \in 1..n
  BY <1>1, DepthIs
<1>3. IsFiniteSet(W)
  <2>1. IsFiniteSet(1..n) /\ W \in SUBSET (1..n)
    BY <1>1, FS_Interval
  <2> QED BY <2>1, FS_Subset
<1>4. \A i, j \in W : <<i, j>> \in R <=> D(i) > D(j) \/ (D(i) = D(j) /\ i < j)
  OBVIOUS
<1>5. s = [k \in DOMAIN places |-> ph.tasks[places[k]]]
  BY DEF SortedRoots
<1>6. \A i \in W : ph.tasks[i] \in T /\ Deps(p, ph, ph.tasks[i]) = {}
  BY <1>1
<1>7. \A t \in T : Deps(p, ph, t) = {} => \E i \in W : ph.tasks[i] = t
  BY <1>1
<1> HIDE DEF s, n, T, W, R, D
<1>8. Orders(R, W)
  <2>1. ASSUME NEW i \in W
        PROVE  <<i, i>> \notin R
    BY <1>1, <1>2, <1>4, <2>1
  <2>2. ASSUME NEW i \in W, NEW j \in W, i # j
        PROVE  <<i, j>> \in R \/ <<j, i>> \in R
    <3>1. D(i) \in Nat /\ D(j) \in Nat /\ i \in Int /\ j \in Int
      BY <1>1, <1>2
    <3> QED BY <1>4, <2>2, <3>1
  <2>3. ASSUME NEW i \in W, NEW j \in W, NEW k \in W, <<i, j>> \in R, <<j, k>> \in R
        PROVE  <<i, k>> \in R
    <3>1. D(i) \in Nat /\ D(j) \in Nat /\ D(k) \in Nat /\ i \in Int /\ j \in Int /\ k \in Int
      BY <1>1, <1>2
    <3> QED BY <1>4, <2>3, <3>1
  <2> QED BY <2>1, <2>2, <2>3 DEF Orders
<1>9. /\ DOMAIN places = 1..Cardinality(W) /\ \A k \in DOMAIN places : places[k] \in W
      /\ \A i \in W : \E k \in DOMAIN places : places[k] = i
  BY <1>3, <1>8, RankedIs
<1>10. Cardinality(W) \in Nat
  BY <1>3, FS_CardinalityType
<1> HIDE DEF places
<1>11. DOMAIN s = DOMAIN places /\ \A k \in DOMAIN places : s[k] = ph.tasks[places[k]]
  BY <1>5
<1>12. \A k \in DOMAIN s : s[k] \in T /\ Deps(p, ph, s[k]) = {}
  BY <1>6, <1>9, <1>11
<1>13. \A t \in T : Deps(p, ph, t) = {} => \E k \in DOMAIN s : s[k] = t
  BY <1>7, <1>9, <1>11
<1> QED BY <1>9, <1>10, <1>11, <1>12, <1>13 DEF s, T

Members(q) == {q[k] : k \in 1..Len(q)}
Due(K, c) == {<<u, c>> : u \in K}

LEMMA PushedIs ==
  ASSUME NEW p, NEW ph, Drawn(p, ph), NEW t, NEW c \in Nat
  PROVE  /\ Pushed(p, ph, t, c) \in Seq(Range(ph.tasks) \X Nat)
         /\ Len(Pushed(p, ph, t, c)) <= Len(ph.tasks)
         /\ Members(Pushed(p, ph, t, c)) = Due(Kids(p, ph, t), c)
<1> DEFINE kids == Children(p, ph, t)
           s == Pushed(p, ph, t, c)
<1>1. PICK m \in 0..Len(ph.tasks) : DOMAIN kids = 1..m
  BY ChildrenAre
<1>2. m \in Nat /\ m <= Len(ph.tasks)
  BY <1>1, TasksAre
<1>3. /\ \A k \in 1..m : kids[k] \in Kids(p, ph, t)
      /\ \A u \in Kids(p, ph, t) : \E k \in 1..m : kids[k] = u
      /\ Kids(p, ph, t) \subseteq Range(ph.tasks)
  <2>1. Kids(p, ph, t) \subseteq Range(ph.tasks)
    BY KidsAre
  <2>2. Kids(p, ph, t) = {kids[k] : k \in 1..m}
    BY <1>1 DEF Kids, Range
  <2> QED BY <2>1, <2>2
<1>4. s = [k \in 1..m |-> <<kids[k], c>>]
  BY <1>1 DEF Pushed
<1> HIDE DEF kids
<1>5. s \in [1..m -> Range(ph.tasks) \X Nat]
  BY <1>3, <1>4
<1> HIDE DEF s
<1>6. s \in Seq(Range(ph.tasks) \X Nat)
  BY <1>2, <1>5
<1>7. Len(s) = m
  <2>1. s = [k \in 1..m |-> s[k]]
    BY <1>5
  <2> QED BY <1>2, <2>1, LengthIs
<1>8. \A k \in 1..m : s[k] = <<kids[k], c>>
  BY <1>4
<1>9. {s[k] : k \in 1..m} = {<<u, c>> : u \in Kids(p, ph, t)}
  <2>1. \A k \in 1..m : \E u \in Kids(p, ph, t) : s[k] = <<u, c>>
    BY <1>3, <1>8
  <2>2. \A u \in Kids(p, ph, t) : \E k \in 1..m : s[k] = <<u, c>>
    BY <1>3, <1>8
  <2> QED BY <2>1, <2>2
<1> QED BY <1>2, <1>6, <1>7, <1>9 DEF s, Members, Due

LEMMA VisitTyped ==
  ASSUME NEW p, NEW ph, Drawn(p, ph), NEW s \in WalkStates(ph), s.queue # <<>>
  PROVE  Visit(p, ph, s) \in WalkStates(ph)
<1> DEFINE T == Range(ph.tasks)
           t == Head(s.queue)[1]
           c == Head(s.queue)[2]
<1>1. /\ s.queue \in Seq(T \X Nat) /\ s.order \in Seq(T) /\ s.col \in [T -> Nat \cup {-1}]
  BY DEF WalkStates
<1>2. Tail(s.queue) \in Seq(T \X Nat) /\ Head(s.queue) \in T \X Nat
  BY <1>1
<1>3. t \in T /\ c \in Nat /\ c + 1 \in Nat
  BY <1>2
<1> HIDE DEF t, c
<1>4. Pushed(p, ph, t, c + 1) \in Seq(T \X Nat)
  BY <1>3, PushedIs
<1>5. Tail(s.queue) \o Pushed(p, ph, t, c + 1) \in Seq(T \X Nat)
  BY <1>2, <1>4
<1>6. Append(s.order, t) \in Seq(T) /\ [s.col EXCEPT ![t] = c] \in [T -> Nat \cup {-1}]
  BY <1>1, <1>3
<1> HIDE DEF T
<1> QED BY <1>1, <1>2, <1>5, <1>6 DEF Visit, WalkStates, t, c, T

(* Where a walk ends, if it does, does not depend on whether its first turn *)
(* is taken: so there is a function that tells where walks end.             *)
IsWalk(p, ph, n, run, s, h) ==
  /\ run[0] = s /\ run[n] = h /\ h.queue = <<>>
  /\ \A k \in 0..(n - 1) : run[k].queue # <<>> /\ run[k + 1] = Visit(p, ph, run[k])

Ends(p, ph, s) ==
  {h \in WalkStates(ph) :
     \E n \in Nat : \E run \in [0..n -> WalkStates(ph)] : IsWalk(p, ph, n, run, s, h)}

LEMMA EndsOfHalted ==
  ASSUME NEW p, NEW ph, NEW s \in WalkStates(ph), s.queue = <<>>
  PROVE  Ends(p, ph, s) = {s}
<1>1. ASSUME NEW h \in Ends(p, ph, s)
      PROVE  h = s
  <2>0. PICK n \in Nat : \E run \in [0..n -> WalkStates(ph)] : IsWalk(p, ph, n, run, s, h)
    BY <1>1 DEF Ends
  <2>1. PICK run \in [0..n -> WalkStates(ph)] : IsWalk(p, ph, n, run, s, h)
    BY <2>0
  <2>2. n = 0
    <3>1. ASSUME n # 0 PROVE FALSE
      <4>1. 0 \in 0..(n - 1)
        BY <3>1
      <4> QED BY <2>1, <4>1 DEF IsWalk
    <3> QED BY <3>1
  <2> QED BY <2>1, <2>2 DEF IsWalk
<1>2. s \in Ends(p, ph, s)
  <2> DEFINE run == [k \in 0..0 |-> s]
  <2>1. run \in [0..0 -> WalkStates(ph)] /\ run[0] = s
    OBVIOUS
  <2> HIDE DEF run
  <2>2. IsWalk(p, ph, 0, run, s, s)
    <3>1. 0..(0 - 1) = {}
      OBVIOUS
    <3> QED BY <2>1, <3>1 DEF IsWalk
  <2> QED BY <2>1, <2>2 DEF Ends
<1> QED BY <1>1, <1>2

LEMMA EndsOfNext ==
  ASSUME NEW p, NEW ph, NEW s \in WalkStates(ph), s.queue # <<>>,
         Visit(p, ph, s) \in WalkStates(ph)
  PROVE  Ends(p, ph, s) = Ends(p, ph, Visit(p, ph, s))
<1> DEFINE S == WalkStates(ph)
           v == Visit(p, ph, s)
<1>1. ASSUME NEW h \in Ends(p, ph, s)
      PROVE  h \in Ends(p, ph, v)
  <2>0. PICK n \in Nat : \E run \in [0..n -> S] : IsWalk(p, ph, n, run, s, h)
    BY <1>1 DEF Ends
  <2>1. PICK run \in [0..n -> S] : IsWalk(p, ph, n, run, s, h)
    BY <2>0
  <2>2. n # 0
    BY <2>1 DEF IsWalk
  <2>3. n - 1 \in Nat /\ 0 \in 0..(n - 1)
    BY <2>2
  <2> DEFINE run1 == [k \in 0..(n - 1) |-> run[k + 1]]
  <2>4. run1 \in [0..(n - 1) -> S]
    BY <2>1, <2>3
  <2>5. run1[0] = v
    BY <2>1, <2>3 DEF IsWalk
  <2>6. run1[n - 1] = h
    BY <2>1, <2>3 DEF IsWalk
  <2>7. ASSUME NEW k \in 0..((n - 1) - 1)
        PROVE  run1[k].queue # <<>> /\ run1[k + 1] = Visit(p, ph, run1[k])
    <3>1. k \in 0..(n - 1) /\ k + 1 \in 0..(n - 1)
      BY <2>3
    <3>2. run1[k] = run[k + 1] /\ run1[k + 1] = run[(k + 1) + 1]
      BY <3>1
    <3> HIDE DEF run1
    <3> QED BY <2>1, <3>1, <3>2 DEF IsWalk
  <2> HIDE DEF run1, v
  <2>8. IsWalk(p, ph, n - 1, run1, v, h)
    <3>1. h.queue = <<>>
      BY <2>1 DEF IsWalk
    <3> QED BY <2>5, <2>6, <2>7, <3>1 DEF IsWalk
  <2>9. h \in S
    BY <1>1 DEF Ends
  <2> QED BY <2>3, <2>4, <2>8, <2>9 DEF Ends
<1>2. ASSUME NEW h \in Ends(p, ph, v)
      PROVE  h \in Ends(p, ph, s)
  <2>0. PICK n \in Nat : \E run \in [0..n -> S] : IsWalk(p, ph, n, run, v, h)
    BY <1>2 DEF Ends
  <2>1. PICK run \in [0..n -> S] : IsWalk(p, ph, n, run, v, h)
    BY <2>0
  <2> DEFINE run1 == [k \in 0..(n + 1) |-> IF k = 0 THEN s ELSE run[k - 1]]
  <2>2. n + 1 \in Nat /\ \A k \in 0..(n + 1) : k # 0 => k - 1 \in 0..n
    BY <2>1
  <2>3. run1 \in [0..(n + 1) -> S]
    BY <2>1, <2>2
  <2>4. run1[0] = s /\ run1[n + 1] = run[n]
    BY <2>1
  <2>5. ASSUME NEW k \in 0..((n + 1) - 1)
        PROVE  run1[k].queue # <<>> /\ run1[k + 1] = Visit(p, ph, run1[k])
    <3>1. k + 1 \in 0..(n + 1) /\ k \in 0..(n + 1) /\ (k + 1) - 1 = k /\ k + 1 # 0
      BY <2>1
    <3>2. run1[k + 1] = run[k]
      BY <3>1
    <3>3. CASE k = 0
      <4>1. run1[k] = s
        BY <3>1, <3>3
      <4> HIDE DEF run1
      <4> QED BY <2>1, <3>2, <3>3, <4>1 DEF IsWalk
    <3>4. CASE k # 0
      <4>1. run1[k] = run[k - 1] /\ k - 1 \in 0..(n - 1) /\ (k - 1) + 1 = k
        BY <2>1, <3>1, <3>4
      <4> HIDE DEF run1
      <4>2. run[k - 1].queue # <<>> /\ run[(k - 1) + 1] = Visit(p, ph, run[k - 1])
        BY <2>1, <4>1 DEF IsWalk
      <4> QED BY <3>2, <4>1, <4>2
    <3> QED BY <3>3, <3>4
  <2> HIDE DEF run1, v
  <2>6. IsWalk(p, ph, n + 1, run1, s, h)
    <3>1. h.queue = <<>> /\ run[n] = h
      BY <2>1 DEF IsWalk
    <3> QED BY <2>4, <2>5, <3>1 DEF IsWalk
  <2>7. h \in S
    BY <1>2 DEF Ends
  <2> QED BY <2>2, <2>3, <2>6, <2>7 DEF Ends
<1> QED BY <1>1, <1>2

LEMMA WalkIs ==
  ASSUME NEW p, NEW ph, Drawn(p, ph), NEW s \in WalkStates(ph)
  PROVE  Walk(p, ph)[s] = IF s.queue = <<>> THEN s ELSE Walk(p, ph)[Visit(p, ph, s)]
<1> DEFINE S == WalkStates(ph)
           f == [x \in S |-> CHOOSE h : h \in Ends(p, ph, x)]
           W(g) == [x \in S |-> IF x.queue = <<>> THEN x ELSE g[Visit(p, ph, x)]]
<1>1. ASSUME NEW x \in S
      PROVE  f[x] = IF x.queue = <<>> THEN x ELSE f[Visit(p, ph, x)]
  <2>1. CASE x.queue = <<>>
    <3>1. Ends(p, ph, x) = {x}
      BY <2>1, EndsOfHalted
    <3>2. (CHOOSE h : h \in {x}) = x
      OBVIOUS
    <3>3. f[x] = CHOOSE h : h \in Ends(p, ph, x)
      OBVIOUS
    <3> QED BY <2>1, <3>1, <3>2, <3>3
  <2>2. CASE x.queue # <<>>
    <3>1. Visit(p, ph, x) \in S
      BY <2>2, VisitTyped
    <3>2. Ends(p, ph, x) = Ends(p, ph, Visit(p, ph, x))
      BY <2>2, <3>1, EndsOfNext
    <3>3. /\ f[x] = CHOOSE h : h \in Ends(p, ph, x)
          /\ f[Visit(p, ph, x)] = CHOOSE h : h \in Ends(p, ph, Visit(p, ph, x))
      BY <3>1
    <3> HIDE DEF f
    <3> QED BY <2>2, <3>2, <3>3
  <2> QED BY <2>1, <2>2
<1>2. f = [x \in S |-> f[x]]
  OBVIOUS
<1> HIDE DEF f, S
<1>3. f = W(f)
  BY <1>1, <1>2
<1>4. \E g : g = W(g)
  BY <1>3
<1>5. Walk(p, ph) = CHOOSE g : g = W(g)
  BY DEF Walk, S
<1>6. Walk(p, ph) = W(Walk(p, ph))
  <2> HIDE DEF W
  <2> QED BY <1>4, <1>5
<1> QED BY <1>6 DEF S

-----------------------------------------------------------------------------
Queued(s) == Members(s.queue)

(* One turn: what is taken from the queue is in its column afterwards, or    *)
(* further right.                                                            *)
LEMMA VisitTells ==
  ASSUME NEW p, NEW ph, Drawn(p, ph), NEW s \in WalkStates(ph), s.queue # <<>>
  PROVE  LET t == Head(s.queue)[1]
             c == Head(s.queue)[2]
             v == Visit(p, ph, s)
             next == {<<u, c + 1>> : u \in Kids(p, ph, t)}
         IN  /\ t \in Range(ph.tasks) /\ c \in Nat /\ <<t, c>> \in Queued(s)
             /\ Queued(s) \subseteq Queued(v) \cup {<<t, c>>}
             /\ c <= s.col[t] =>
                  /\ v.col = s.col /\ v.order = s.order
                  /\ Queued(v) \subseteq Queued(s) /\ Len(v.queue) = Len(s.queue) - 1
             /\ ~(c <= s.col[t]) =>
                  /\ v.col = [s.col EXCEPT ![t] = c]
                  /\ v.order = IF s.col[t] = -1 THEN Append(s.order, t) ELSE s.order
                  /\ Queued(v) \subseteq Queued(s) \cup next /\ next \subseteq Queued(v)
<1> DEFINE T == Range(ph.tasks)
           t == Head(s.queue)[1]
           c == Head(s.queue)[2]
           v == Visit(p, ph, s)
           next == {<<u, c + 1>> : u \in Kids(p, ph, t)}
           q == s.queue
           w == Tail(q)
<1>1. q \in Seq(T \X Nat)
  BY DEF WalkStates
<1>2. q # <<>>
  OBVIOUS
<1> DEFINE e == Head(q)
<1> HIDE DEF q, T
<1>3. /\ w \in Seq(T \X Nat) /\ Len(w) = Len(q) - 1 /\ Len(q) \in Nat /\ Len(q) >= 1
      /\ \A k \in 1..Len(w) : w[k] = q[k + 1]
      /\ e = q[1] /\ e \in T \X Nat
  BY <1>1, <1>2
<1>4. t \in T /\ c \in Nat /\ e = <<t, c>>
  BY <1>3 DEF q
<1> HIDE DEF t, c, w, e
<1> DEFINE Q == {q[k] : k \in 1..Len(q)}
           S == {w[k] : k \in 1..Len(w)}
<1>5. Q = S \cup {e}
  <2>1. ASSUME NEW k \in 1..Len(q), k # 1
        PROVE  k - 1 \in 1..Len(w) /\ w[k - 1] = q[k]
    BY <1>3, <2>1
  <2>2. ASSUME NEW k \in 1..Len(w)
        PROVE  k + 1 \in 1..Len(q)
    BY <1>3
  <2>3. 1 \in 1..Len(q)
    BY <1>3
  <2>4. ASSUME NEW k \in 1..Len(q)
        PROVE  q[k] \in S \cup {e}
    <3>1. CASE k = 1
      BY <1>3, <3>1
    <3>2. CASE k # 1
      BY <2>1, <3>2
    <3> QED BY <3>1, <3>2
  <2>5. e \in Q
    BY <1>3, <2>3
  <2>6. ASSUME NEW k \in 1..Len(w)
        PROVE  w[k] \in Q
    BY <1>3, <2>2
  <2> QED BY <2>4, <2>5, <2>6
<1>6. Queued(s) = Q
  BY DEF Queued, Members, q
<1>7. CASE c <= s.col[t]
  <2>1. v = [queue |-> w, order |-> s.order, col |-> s.col]
    BY <1>7 DEF Visit, t, c, w, q
  <2> HIDE DEF v
  <2>2. Queued(v) = S /\ v.queue = w /\ v.col = s.col /\ v.order = s.order
    BY <2>1 DEF Queued, Members
  <2> HIDE DEF Q, S
  <2> QED BY <1>3, <1>4, <1>5, <1>6, <1>7, <2>2 DEF t, c, v, q, T
<1>8. CASE ~(c <= s.col[t])
  <2> DEFINE r == Pushed(p, ph, t, c + 1)
             P == {r[k] : k \in 1..Len(r)}
  <2>1. v = [queue |-> w \o r, order |-> IF s.col[t] = -1 THEN Append(s.order, t) ELSE s.order,
             col |-> [s.col EXCEPT ![t] = c]]
    BY <1>8 DEF Visit, t, c, w, q
  <2>2. r \in Seq(T \X Nat) /\ P = next
    <3>1. PICK x \in Nat : x = c + 1
      BY <1>4
    <3>2. /\ Pushed(p, ph, t, x) \in Seq(Range(ph.tasks) \X Nat)
          /\ Members(Pushed(p, ph, t, x)) = Due(Kids(p, ph, t), x)
      BY PushedIs
    <3> QED BY <3>1, <3>2 DEF T, Members, Due
  <2> HIDE DEF r
  <2>4. {(w \o r)[k] : k \in 1..Len(w \o r)} = S \cup P
    <3>1. /\ Len(w \o r) = Len(w) + Len(r) /\ Len(w) \in Nat /\ Len(r) \in Nat
          /\ \A k \in 1..(Len(w) + Len(r)) :
               (w \o r)[k] = IF k <= Len(w) THEN w[k] ELSE r[k - Len(w)]
      <4>1. w \in Seq(T \X Nat) /\ r \in Seq(T \X Nat)
        BY <1>3, <2>2
      <4> QED BY ONLY <4>1
    <3>2. ASSUME NEW k \in 1..Len(w)
          PROVE  k \in 1..Len(w \o r) /\ (w \o r)[k] = w[k]
      BY <3>1
    <3>3. ASSUME NEW k \in 1..Len(r)
          PROVE  k + Len(w) \in 1..Len(w \o r) /\ (w \o r)[k + Len(w)] = r[k]
      <4>1. k + Len(w) \in 1..Len(w \o r) /\ ~(k + Len(w) <= Len(w)) /\ (k + Len(w)) - Len(w) = k
        BY <3>1
      <4> QED BY <3>1, <4>1
    <3>4. ASSUME NEW k \in 1..Len(w \o r)
          PROVE  (w \o r)[k] \in S \cup P
      <4>1. CASE k <= Len(w)
        <5>1. k \in 1..Len(w)
          BY <3>1, <4>1
        <5> QED BY <3>2, <5>1
      <4>2. CASE ~(k <= Len(w))
        <5>1. k - Len(w) \in 1..Len(r) /\ (w \o r)[k] = r[k - Len(w)]
          BY <3>1, <4>2
        <5> QED BY <5>1
      <4> QED BY <4>1, <4>2
    <3> QED BY <3>2, <3>3, <3>4
  <2> HIDE DEF v
  <2>5. Queued(v) = S \cup P
    BY <2>1, <2>4 DEF Queued, Members
  <2>6. /\ v.col = [s.col EXCEPT ![t] = c]
        /\ v.order = IF s.col[t] = -1 THEN Append(s.order, t) ELSE s.order
    BY <2>1
  <2> HIDE DEF Q, S, P, next
  <2> QED BY <1>4, <1>5, <1>6, <1>8, <2>2, <2>5, <2>6 DEF t, c, v, q, T, next
<1> QED BY <1>7, <1>8 DEF t, c, q

(* What holds at each turn, of a numbering of the tasks: no task is further  *)
(* right than its number; who is past the first column is next to one it     *)
(* depends on, or left of the next; the children of a task are past it or    *)
(* queued for it, and the roots placed or queued.                            *)
Walking(p, ph, rank, s) ==
  /\ \A t \in Range(ph.tasks) :
       /\ s.col[t] <= rank[t]
       /\ s.col[t] > 0 => \E d \in Deps(p, ph, t) : s.col[t] <= s.col[d] + 1
       /\ Deps(p, ph, t) = {} => s.col[t] # -1 \/ \E e \in Queued(s) : e[1] = t
       /\ s.col[t] # -1 <=> \E k \in 1..Len(s.order) : s.order[k] = t
       /\ s.col[t] # -1 => \A u \in Kids(p, ph, t) :
            s.col[t] < s.col[u] \/ \E e \in Queued(s) : e[1] = u /\ s.col[t] < e[2]
  /\ \A e \in Queued(s) : e[2] > 0 => \E d \in Deps(p, ph, e[1]) : e[2] <= s.col[d] + 1

Numbers(p, ph, rank) ==
  /\ rank \in [Range(ph.tasks) -> 1..Len(ph.tasks)]
  /\ \A t \in Range(ph.tasks) : \A d \in Deps(p, ph, t) : rank[d] < rank[t]

LEMMA WalkingOn ==
  ASSUME NEW p, NEW ph, Drawn(p, ph), NEW rank, Numbers(p, ph, rank),
         NEW s \in WalkStates(ph), s.queue # <<>>, Walking(p, ph, rank, s)
  PROVE  Walking(p, ph, rank, Visit(p, ph, s))
<1> DEFINE T == Range(ph.tasks)
           t == Head(s.queue)[1]
           c == Head(s.queue)[2]
           v == Visit(p, ph, s)
           next == {<<u, c + 1>> : u \in Kids(p, ph, t)}
<1>1. /\ t \in T /\ c \in Nat /\ <<t, c>> \in Queued(s)
      /\ Queued(s) \subseteq Queued(v) \cup {<<t, c>>}
      /\ c <= s.col[t] =>
           /\ v.col = s.col /\ v.order = s.order /\ Queued(v) \subseteq Queued(s)
      /\ ~(c <= s.col[t]) =>
           /\ v.col = [s.col EXCEPT ![t] = c]
           /\ v.order = IF s.col[t] = -1 THEN Append(s.order, t) ELSE s.order
           /\ Queued(v) \subseteq Queued(s) \cup next /\ next \subseteq Queued(v)
  BY VisitTells
<1>2. s.col \in [T -> Nat \cup {-1}] /\ s.order \in Seq(T) /\ v \in WalkStates(ph)
  BY VisitTyped DEF WalkStates
<1>3. v.col \in [T -> Nat \cup {-1}]
  BY <1>2 DEF WalkStates
<1>4. ASSUME NEW u \in T
      PROVE  /\ rank[u] \in Nat /\ rank[u] >= 1
             /\ Deps(p, ph, u) \subseteq T /\ \A d \in Deps(p, ph, u) : rank[d] < rank[u] /\ rank[d] \in Nat
             /\ Kids(p, ph, u) \subseteq T /\ \A k \in Kids(p, ph, u) : u \in Deps(p, ph, k)
  <2>1. Deps(p, ph, u) \subseteq T
    BY DEF Deps
  <2>2. Kids(p, ph, u) = {k \in T : u \in Deps(p, ph, k)}
    BY KidsAre
  <2> QED BY <2>1, <2>2, TasksAre DEF Numbers
<1>5. \A e \in Queued(s) : e \in T \X Nat
  BY DEF Queued, Members, WalkStates
<1> HIDE DEF t, c, v, T, next
<1>6. v.col[t] >= c /\ \A u \in T : v.col[u] >= s.col[u] /\ (u # t => v.col[u] = s.col[u])
  <2>1. CASE c <= s.col[t]
    BY <1>1, <1>2, <2>1
  <2>2. CASE ~(c <= s.col[t])
    <3>1. v.col[t] = c /\ \A u \in T : u # t => v.col[u] = s.col[u]
      BY <1>1, <1>2, <2>2
    <3>2. s.col[t] \in Int /\ \A u \in T : s.col[u] \in Int
      BY <1>1, <1>2
    <3> QED BY <1>1, <2>2, <3>1, <3>2
  <2> QED BY <2>1, <2>2
<1>7. /\ \A u \in T : s.col[u] \in Int /\ v.col[u] \in Int /\ s.col[u] >= -1 /\ v.col[u] >= -1
      /\ v.col[t] \in Nat
  BY <1>1, <1>2, <1>3, <1>6
<1>8. ASSUME NEW e \in Queued(s)
      PROVE  e \in Queued(v) \/ e = <<t, c>>
  BY <1>1
<1>9. ASSUME NEW e \in Queued(v), e[2] > 0
      PROVE  \E d \in Deps(p, ph, e[1]) : e[2] <= v.col[d] + 1
  <2>1. CASE e \in Queued(s)
    <3>1. PICK d \in Deps(p, ph, e[1]) : e[2] <= s.col[d] + 1
      BY <1>9, <2>1 DEF Walking
    <3>2. e[1] \in T /\ e[2] \in Nat /\ d \in T
      BY <1>4, <1>5, <2>1
    <3>3. e[2] <= v.col[d] + 1
      BY <1>6, <1>7, <3>1, <3>2
    <3> QED BY <3>3
  <2>2. CASE e \notin Queued(s)
    <3>1. ~(c <= s.col[t]) /\ e \in next
      BY <1>1, <2>2
    <3>2. PICK u \in Kids(p, ph, t) : e = <<u, c + 1>>
      BY <3>1 DEF next
    <3>3. t \in Deps(p, ph, e[1]) /\ e[2] = c + 1
      BY <1>1, <1>4, <3>2
    <3>4. v.col[t] >= c /\ v.col[t] \in Int
      BY <1>6, <1>7
    <3> QED BY <1>1, <3>3, <3>4
  <2> QED BY <2>1, <2>2
<1>10. ASSUME NEW u \in T
       PROVE  /\ v.col[u] <= rank[u]
              /\ v.col[u] > 0 => \E d \in Deps(p, ph, u) : v.col[u] <= v.col[d] + 1
  <2>1. CASE v.col[u] = s.col[u]
    <3>1. v.col[u] <= rank[u]
      BY <2>1 DEF Walking, T
    <3>2. ASSUME v.col[u] > 0
          PROVE  \E d \in Deps(p, ph, u) : v.col[u] <= v.col[d] + 1
      <4>1. PICK d \in Deps(p, ph, u) : s.col[u] <= s.col[d] + 1
        BY <2>1, <3>2 DEF Walking, T
      <4>2. d \in T
        BY <1>4
      <4>3. v.col[u] <= v.col[d] + 1
        BY <1>6, <1>7, <2>1, <4>1, <4>2
      <4> QED BY <4>3
    <3> QED BY <3>1, <3>2
  <2>2. CASE v.col[u] # s.col[u]
    <3>1. u = t /\ v.col[u] = c
      <4>1. u = t
        BY <1>6, <2>2
      <4>2. ~(c <= s.col[t])
        BY <1>1, <2>2
      <4> QED BY <1>1, <1>2, <4>1, <4>2
    <3>2. CASE c = 0
      BY <1>4, <3>1, <3>2
    <3>3. CASE c > 0
      <4>1. PICK d \in Deps(p, ph, u) : c <= s.col[d] + 1
        <5>1. <<t, c>>[1] = t /\ <<t, c>>[2] = c
          OBVIOUS
        <5> QED BY <1>1, <3>1, <3>3, <5>1 DEF Walking
      <4>2. d \in T /\ rank[d] < rank[u] /\ rank[d] \in Nat /\ rank[u] \in Nat
        BY <1>4
      <4>3. s.col[d] <= rank[d] /\ s.col[d] \in Int /\ v.col[d] \in Int /\ v.col[d] >= s.col[d]
        BY <1>6, <1>7, <4>2 DEF Walking, T
      <4>4. c <= rank[u] /\ c <= v.col[d] + 1
        BY <1>1, <4>1, <4>2, <4>3
      <4> QED BY <3>1, <4>4
    <3> QED BY <1>1, <3>2, <3>3
  <2> QED BY <2>1, <2>2
<1>11. ASSUME NEW u \in T, Deps(p, ph, u) = {}
       PROVE  v.col[u] # -1 \/ \E e \in Queued(v) : e[1] = u
  <2>1. CASE u = t
    BY <1>7, <2>1
  <2>2. CASE u # t
    <3>1. s.col[u] # -1 \/ \E e \in Queued(s) : e[1] = u
      BY <1>11 DEF Walking, T
    <3>2. CASE s.col[u] # -1
      BY <1>6, <2>2, <3>2
    <3>3. ASSUME NEW e \in Queued(s), e[1] = u
          PROVE  \E f \in Queued(v) : f[1] = u
      <4>1. e # <<t, c>>
        BY <2>2, <3>3
      <4> QED BY <1>8, <3>3, <4>1
    <3> QED BY <3>1, <3>2, <3>3
  <2> QED BY <2>1, <2>2
<1>12. ASSUME NEW u \in T
       PROVE  v.col[u] # -1 <=> \E k \in 1..Len(v.order) : v.order[k] = u
  <2>1. s.col[u] # -1 <=> \E k \in 1..Len(s.order) : s.order[k] = u
    BY DEF Walking, T
  <2>2. CASE v.order = s.order
    <3>1. v.col[u] # -1 <=> s.col[u] # -1
      <4>1. CASE u # t
        BY <1>6, <4>1
      <4>2. CASE u = t
        <5>1. s.col[t] # -1
          <6>1. CASE c <= s.col[t]
            BY <1>1, <1>7, <6>1
          <6>2. CASE ~(c <= s.col[t])
            <7>1. Append(s.order, t) # s.order
              BY <1>1, <1>2
            <7> QED BY <1>1, <2>2, <6>2, <7>1
          <6> QED BY <6>1, <6>2
        <5> QED BY <1>7, <4>2, <5>1
      <4> QED BY <4>1, <4>2
    <3> QED BY <2>1, <2>2, <3>1
  <2>3. CASE v.order # s.order
    <3>1. v.order = Append(s.order, t)
      BY <1>1, <2>3
    <3>2. /\ Len(v.order) = Len(s.order) + 1 /\ Len(s.order) \in Nat /\ v.order[Len(s.order) + 1] = t
          /\ \A k \in 1..Len(s.order) : v.order[k] = s.order[k]
      BY <1>1, <1>2, <3>1
    <3>3. (\E k \in 1..Len(v.order) : v.order[k] = u)
            <=> u = t \/ \E k \in 1..Len(s.order) : s.order[k] = u
      <4>1. 1..Len(v.order) = (1..Len(s.order)) \cup {Len(s.order) + 1}
        BY <3>2
      <4> QED BY <3>2, <4>1
    <3> QED BY <1>6, <1>7, <2>1, <3>3
  <2> QED BY <2>2, <2>3
<1>13. ASSUME NEW x \in T, v.col[x] # -1, NEW u \in Kids(p, ph, x)
       PROVE  v.col[x] < v.col[u] \/ \E e \in Queued(v) : e[1] = u /\ v.col[x] < e[2]
  <2>1. u \in T
    BY <1>4
  <2>2. CASE v.col[x] = s.col[x]
    <3>1. s.col[x] < s.col[u] \/ \E e \in Queued(s) : e[1] = u /\ s.col[x] < e[2]
      BY <1>13, <2>2 DEF Walking, T
    <3>2. CASE s.col[x] < s.col[u]
      BY <1>6, <1>7, <2>1, <2>2, <3>2
    <3>3. ASSUME NEW e \in Queued(s), e[1] = u, s.col[x] < e[2]
          PROVE  v.col[x] < v.col[u] \/ \E f \in Queued(v) : f[1] = u /\ v.col[x] < f[2]
      <4>1. CASE e = <<t, c>>
        <5>1. u = t /\ s.col[x] < c
          BY <3>3, <4>1
        <5> QED BY <1>1, <1>6, <1>7, <2>2, <5>1
      <4>2. CASE e # <<t, c>>
        BY <1>8, <2>2, <3>3, <4>2
      <4> QED BY <4>1, <4>2
    <3> QED BY <3>1, <3>2, <3>3
  <2>3. CASE v.col[x] # s.col[x]
    <3>1. x = t /\ ~(c <= s.col[t])
      BY <1>1, <1>6, <2>3
    <3>2. v.col[x] = c
      BY <1>1, <1>2, <3>1
    <3>3. <<u, c + 1>> \in Queued(v)
      BY <1>1, <3>1 DEF next
    <3>4. <<u, c + 1>>[1] = u /\ v.col[x] < <<u, c + 1>>[2]
      BY <1>1, <3>2
    <3> QED BY <3>3, <3>4
  <2> QED BY <2>2, <2>3
<1> QED BY <1>9, <1>10, <1>11, <1>12, <1>13 DEF Walking, T, v

-----------------------------------------------------------------------------
(* Each turn leaves less room to the right of the tasks, or as much and a    *)
(* shorter queue: so the walk ends.                                          *)
Room(ph, rank, s) ==
  {e \in Range(ph.tasks) \X (0..Len(ph.tasks)) : s.col[e[1]] < e[2] /\ e[2] <= rank[e[1]]}

LEMMA RoomIsFinite ==
  ASSUME NEW p, NEW ph, Drawn(p, ph), NEW rank, NEW s
  PROVE  IsFiniteSet(Room(ph, rank, s)) /\ Cardinality(Room(ph, rank, s)) \in Nat
<1>1. IsFiniteSet(Range(ph.tasks)) /\ IsFiniteSet(0..Len(ph.tasks))
  BY TasksAre, FS_Interval
<1>2. IsFiniteSet(Range(ph.tasks) \X (0..Len(ph.tasks)))
  BY <1>1, FS_Product
<1>3. Room(ph, rank, s) \subseteq Range(ph.tasks) \X (0..Len(ph.tasks))
  BY DEF Room
<1>4. IsFiniteSet(Room(ph, rank, s))
  BY <1>2, <1>3, FS_Subset
<1> QED BY <1>4, FS_CardinalityType

LEMMA VisitShrinks ==
  ASSUME NEW p, NEW ph, Drawn(p, ph), NEW rank, Numbers(p, ph, rank),
         NEW s \in WalkStates(ph), s.queue # <<>>, Walking(p, ph, rank, s)
  PROVE  LET v == Visit(p, ph, s)
         IN  \/ Cardinality(Room(ph, rank, v)) < Cardinality(Room(ph, rank, s))
             \/ /\ Cardinality(Room(ph, rank, v)) = Cardinality(Room(ph, rank, s))
                /\ Len(v.queue) = Len(s.queue) - 1
<1> DEFINE T == Range(ph.tasks)
           t == Head(s.queue)[1]
           c == Head(s.queue)[2]
           v == Visit(p, ph, s)
<1>1. /\ t \in T /\ c \in Nat
      /\ c <= s.col[t] => v.col = s.col /\ Len(v.queue) = Len(s.queue) - 1
      /\ ~(c <= s.col[t]) => v.col = [s.col EXCEPT ![t] = c]
  <2> DEFINE next == {<<u, c + 1>> : u \in Kids(p, ph, t)}
  <2>1. /\ t \in Range(ph.tasks) /\ c \in Nat /\ <<t, c>> \in Queued(s)
        /\ Queued(s) \subseteq Queued(v) \cup {<<t, c>>}
        /\ c <= s.col[t] =>
             /\ v.col = s.col /\ v.order = s.order
             /\ Queued(v) \subseteq Queued(s) /\ Len(v.queue) = Len(s.queue) - 1
        /\ ~(c <= s.col[t]) =>
             /\ v.col = [s.col EXCEPT ![t] = c]
             /\ v.order = IF s.col[t] = -1 THEN Append(s.order, t) ELSE s.order
             /\ Queued(v) \subseteq Queued(s) \cup next /\ next \subseteq Queued(v)
    BY VisitTells
  <2> HIDE DEF t, c, v, next
  <2> QED BY <2>1
<1>2. s.col \in [T -> Nat \cup {-1}]
  BY DEF WalkStates
<1>3. \A u \in T : v.col[u] <= rank[u]
  BY WalkingOn DEF Walking
<1>4. rank \in [T -> 1..Len(ph.tasks)] /\ Len(ph.tasks) \in Nat
  BY TasksAre DEF Numbers
<1> HIDE DEF t, c, v
<1>5. CASE c <= s.col[t]
  <2>1. Room(ph, rank, v) = Room(ph, rank, s)
    BY <1>1, <1>5 DEF Room
  <2> QED BY <1>1, <1>5, <2>1 DEF v
<1>6. CASE ~(c <= s.col[t])
  <2> DEFINE e == <<t, c>>
  <2>1. v.col = [s.col EXCEPT ![t] = c] /\ v.col[t] = c
    BY <1>1, <1>2, <1>6
  <2>2. c <= rank[t] /\ rank[t] \in 1..Len(ph.tasks)
    BY <1>1, <1>3, <1>4, <2>1
  <2>3. s.col[t] < c /\ c \in 0..Len(ph.tasks)
    BY <1>1, <1>2, <1>4, <1>6, <2>2
  <2>4. e \in Room(ph, rank, s)
    BY <1>1, <2>2, <2>3 DEF Room
  <2>5. ASSUME NEW f \in Room(ph, rank, v)
        PROVE  f \in Room(ph, rank, s) \ {e}
    <3>1. /\ f \in T \X (0..Len(ph.tasks)) /\ v.col[f[1]] < f[2] /\ f[2] <= rank[f[1]]
      BY <2>5 DEF Room
    <3>2. f[1] \in T /\ f[2] \in Nat
      BY <1>4, <3>1
    <3>3. s.col[f[1]] < f[2] /\ f # e
      <4>1. CASE f[1] = t
        <5>1. s.col[t] < f[2] /\ f[2] # c
          BY <1>1, <1>2, <2>1, <2>3, <3>1, <3>2, <4>1
        <5> QED BY <4>1, <5>1
      <4>2. CASE f[1] # t
        <5>1. v.col[f[1]] = s.col[f[1]]
          BY <1>2, <2>1, <3>2, <4>2
        <5> QED BY <3>1, <4>2, <5>1
      <4> QED BY <4>1, <4>2
    <3> QED BY <3>1, <3>3 DEF Room
  <2> HIDE DEF e
  <2>6. /\ IsFiniteSet(Room(ph, rank, s)) /\ Cardinality(Room(ph, rank, s)) \in Nat
        /\ Cardinality(Room(ph, rank, v)) \in Nat
    BY RoomIsFinite
  <2>7. /\ IsFiniteSet(Room(ph, rank, s) \ {e})
        /\ Cardinality(Room(ph, rank, s) \ {e}) = Cardinality(Room(ph, rank, s)) - 1
    BY <2>4, <2>6, FS_RemoveElement
  <2>8. Cardinality(Room(ph, rank, v)) <= Cardinality(Room(ph, rank, s) \ {e})
    <3>1. Room(ph, rank, v) \subseteq Room(ph, rank, s) \ {e}
      BY <2>5
    <3> QED BY <2>7, <3>1, FS_Subset
  <2> QED BY <2>6, <2>7, <2>8 DEF v
<1> QED BY <1>5, <1>6

LEMMA WalkEnds ==
  ASSUME NEW p, NEW ph, Drawn(p, ph), NEW rank, Numbers(p, ph, rank),
         NEW s \in WalkStates(ph), Walking(p, ph, rank, s)
  PROVE  LET end == Walk(p, ph)[s]
         IN  end \in WalkStates(ph) /\ end.queue = <<>> /\ Walking(p, ph, rank, end)
<1> DEFINE Good(x) == LET end == Walk(p, ph)[x]
                      IN  end \in WalkStates(ph) /\ end.queue = <<>> /\ Walking(p, ph, rank, end)
           Bad == {x \in WalkStates(ph) : Walking(p, ph, rank, x) /\ ~Good(x)}
           R(x) == Cardinality(Room(ph, rank, x))
<1>1. ASSUME NEW x \in Bad
      PROVE  /\ x.queue # <<>> /\ Visit(p, ph, x) \in Bad
             /\ R(x) \in Nat /\ Len(x.queue) \in Nat
             /\ R(Visit(p, ph, x)) < R(x)
                  \/ (R(Visit(p, ph, x)) = R(x) /\ Len(Visit(p, ph, x).queue) < Len(x.queue))
  <2>1. x \in WalkStates(ph) /\ Walking(p, ph, rank, x) /\ ~Good(x)
    OBVIOUS
  <2>2. x.queue # <<>>
    <3>1. ASSUME x.queue = <<>> PROVE FALSE
      <4>1. Walk(p, ph)[x] = x
        BY <2>1, <3>1, WalkIs
      <4> QED BY <2>1, <3>1, <4>1
    <3> QED BY <3>1
  <2> DEFINE v == Visit(p, ph, x)
  <2>3. v \in WalkStates(ph) /\ Walking(p, ph, rank, v)
    BY <2>1, <2>2, VisitTyped, WalkingOn
  <2>4. Walk(p, ph)[x] = Walk(p, ph)[v]
    BY <2>1, <2>2, WalkIs
  <2>5. R(x) \in Nat /\ Len(x.queue) \in Nat
    <3>1. x.queue \in Seq(Range(ph.tasks) \X Nat)
      BY <2>1 DEF WalkStates
    <3> QED BY <3>1, RoomIsFinite
  <2>6. R(v) < R(x) \/ (R(v) = R(x) /\ Len(v.queue) = Len(x.queue) - 1)
    BY <2>1, <2>2, VisitShrinks
  <2> HIDE DEF v, R
  <2>7. v \in Bad
    BY <2>1, <2>3, <2>4
  <2> QED BY <2>2, <2>5, <2>6, <2>7 DEF v
<1> HIDE DEF Bad, R
<1>2. Bad = {}
  <2> SUFFICES ASSUME Bad # {} PROVE FALSE
    OBVIOUS
  <2> DEFINE Rs == {R(x) : x \in Bad}
  <2>1. Rs \in SUBSET Nat /\ Rs # {}
    BY <1>1
  <2>2. PICK r \in Rs : \A y \in Rs : r <= y
    <3> HIDE DEF Rs
    <3> QED BY <2>1, SomeLeast
  <2> DEFINE Ls == {Len(x.queue) : x \in {y \in Bad : R(y) = r}}
  <2>3. Ls \in SUBSET Nat /\ Ls # {}
    BY <1>1, <2>2
  <2>4. PICK l \in Ls : \A y \in Ls : l <= y
    <3> HIDE DEF Ls
    <3> QED BY <2>3, SomeLeast
  <2>5. PICK x \in Bad : R(x) = r /\ Len(x.queue) = l
    BY <2>4
  <2> DEFINE v == Visit(p, ph, x)
  <2>6. /\ v \in Bad /\ R(x) \in Nat /\ R(v) \in Nat /\ Len(x.queue) \in Nat /\ Len(v.queue) \in Nat
        /\ R(v) < R(x) \/ (R(v) = R(x) /\ Len(v.queue) < Len(x.queue))
    BY <1>1
  <2> HIDE DEF v
  <2>7. R(v) >= r
    BY <2>2, <2>6
  <2>8. R(v) = r /\ Len(v.queue) < l
    BY <2>5, <2>6, <2>7
  <2>9. l <= Len(v.queue)
    BY <2>4, <2>6, <2>8
  <2> QED BY <2>5, <2>6, <2>8, <2>9
<1> QED BY <1>2 DEF Bad

LEMMA AtRootsWalking ==
  ASSUME NEW p, NEW ph, Drawn(p, ph), NEW rank, Numbers(p, ph, rank)
  PROVE  AtRoots(p, ph) \in WalkStates(ph) /\ Walking(p, ph, rank, AtRoots(p, ph))
<1> DEFINE T == Range(ph.tasks)
           r == SortedRoots(p, ph)
           q == [k \in DOMAIN r |-> <<r[k], 0>>]
           s == AtRoots(p, ph)
<1>1. PICK m \in Nat : DOMAIN r = 1..m
  BY SortedRootsAre
<1>2. /\ \A k \in 1..m : r[k] \in T
      /\ \A t \in T : Deps(p, ph, t) = {} => \E k \in 1..m : r[k] = t
  BY <1>1, SortedRootsAre
<1> HIDE DEF r
<1>3. q \in [1..m -> T \X Nat] /\ \A k \in 1..m : q[k] = <<r[k], 0>>
  BY <1>1, <1>2
<1>4. s = [queue |-> q, order |-> <<>>, col |-> [t \in T |-> -1]]
  BY DEF AtRoots, r
<1> HIDE DEF q, s, T
<1>5. q \in Seq(T \X Nat) /\ Len(q) = m
  <2>1. q = [k \in 1..m |-> q[k]]
    BY <1>3
  <2> QED BY <1>1, <1>3, <2>1, LengthIs
<1>6. /\ s.queue = q /\ s.order = <<>> /\ \A t \in T : s.col[t] = -1
      /\ s.col \in [T -> Nat \cup {-1}]
  BY <1>4
<1>7. s \in WalkStates(ph)
  <2>1. s.order \in Seq(T)
    BY <1>6
  <2> QED BY <1>4, <1>5, <1>6, <2>1 DEF WalkStates, T
<1>8. Queued(s) = {q[k] : k \in 1..m}
  BY <1>5, <1>6 DEF Queued, Members
<1>9. /\ \A e \in Queued(s) : e[2] = 0
      /\ \A t \in T : Deps(p, ph, t) = {} => \E e \in Queued(s) : e[1] = t
  <2>1. \A e \in Queued(s) : \E k \in 1..m : e = <<r[k], 0>>
    BY <1>3, <1>8
  <2>2. \A k \in 1..m : <<r[k], 0>> \in Queued(s)
    BY <1>3, <1>8
  <2>3. \A t \in T : <<t, 0>>[1] = t
    OBVIOUS
  <2>4. ASSUME NEW e \in Queued(s)
        PROVE  e[2] = 0
    <3>1. PICK k \in 1..m : e = <<r[k], 0>>
      BY <2>1
    <3> QED BY <3>1
  <2>5. ASSUME NEW t \in T, Deps(p, ph, t) = {}
        PROVE  \E e \in Queued(s) : e[1] = t
    <3>1. PICK k \in 1..m : r[k] = t
      BY <1>2, <2>5
    <3> QED BY <2>2, <2>3, <3>1
  <2> QED BY <2>4, <2>5
<1>10. \A t \in T : rank[t] \in Nat
  BY TasksAre DEF Numbers, T
<1>11. Len(s.order) = 0
  BY <1>6
<1>12. ASSUME NEW t \in T
       PROVE  /\ s.col[t] <= rank[t]
              /\ ~(s.col[t] > 0) /\ s.col[t] = -1
              /\ ~\E k \in 1..Len(s.order) : s.order[k] = t
  BY <1>6, <1>10, <1>11
<1> QED BY <1>7, <1>9, <1>12 DEF Walking, s, T

(* The columns: past those of what a task depends on, and by no more than   *)
(* it must be.                                                              *)
LEMMA ColumnsAre ==
  ASSUME NEW p, NEW ph, Drawn(p, ph)
  PROVE  LET end == Walk(p, ph)[AtRoots(p, ph)]
         IN  \A t \in Range(ph.tasks) :
               /\ end.col[t] \in Nat /\ \E k \in 1..Len(end.order) : end.order[k] = t
               /\ \A d \in Deps(p, ph, t) : end.col[d] < end.col[t]
               /\ end.col[t] = 0 \/ \E d \in Deps(p, ph, t) : end.col[t] = end.col[d] + 1
               /\ end.order \in Seq(Range(ph.tasks))
<1> DEFINE T == Range(ph.tasks)
           n == Len(ph.tasks)
           end == Walk(p, ph)[AtRoots(p, ph)]
<1>1. PICK rank : Numbers(p, ph, rank)
  BY DEF Drawn, Acyclic, Numbers
<1>2. end \in WalkStates(ph) /\ end.queue = <<>> /\ Walking(p, ph, rank, end)
  BY <1>1, AtRootsWalking, WalkEnds
<1> HIDE DEF end
<1>3. Queued(end) = {}
  <2>1. Len(end.queue) = 0
    BY <1>2
  <2> QED BY <2>1 DEF Queued, Members
<1>4. end.col \in [T -> Nat \cup {-1}] /\ end.order \in Seq(T)
  BY <1>2 DEF WalkStates
<1>5. ASSUME NEW t \in T
      PROVE  /\ end.col[t] > 0 => \E d \in Deps(p, ph, t) : end.col[t] <= end.col[d] + 1
             /\ Deps(p, ph, t) = {} => end.col[t] # -1
             /\ end.col[t] # -1 <=> \E k \in 1..Len(end.order) : end.order[k] = t
             /\ \A d \in Deps(p, ph, t) : end.col[d] # -1 => end.col[d] < end.col[t]
             /\ Deps(p, ph, t) \subseteq T
             /\ \A d \in Deps(p, ph, t) : rank[d] < rank[t]
             /\ rank[t] \in 1..n
  <2>1. Deps(p, ph, t) \subseteq T
    BY DEF Deps
  <2>2. ASSUME NEW d \in Deps(p, ph, t), end.col[d] # -1
        PROVE  end.col[d] < end.col[t]
    <3>1. t \in Kids(p, ph, d)
      BY <2>2, KidsAre
    <3> QED BY <1>2, <1>3, <2>1, <2>2, <3>1 DEF Walking
  <2>3. /\ \A d \in Deps(p, ph, t) : rank[d] < rank[t]
        /\ rank[t] \in 1..n
    BY <1>1 DEF Numbers
  <2> QED BY <1>2, <1>3, <2>1, <2>2, <2>3 DEF Walking
<1>6. n \in Nat
  BY TasksAre
<1> DEFINE M == {k \in 0..n : \A t \in T : rank[t] <= k => end.col[t] \in Nat}
<1> HIDE DEF T, n
<1>7. 0 \in M
  BY <1>5, <1>6
<1>8. ASSUME NEW k \in 1..n, k - 1 \in M
      PROVE  k \in M
  <2>1. ASSUME NEW t \in T, rank[t] <= k
        PROVE  end.col[t] \in Nat
    <3>1. CASE Deps(p, ph, t) = {}
      BY <1>4, <1>5, <3>1
    <3>2. ASSUME NEW d \in Deps(p, ph, t)
          PROVE  end.col[t] \in Nat
      <4>1. d \in T /\ rank[d] \in 1..n /\ rank[d] < rank[t] /\ rank[t] \in 1..n
        BY <1>5
      <4>2. rank[d] <= k - 1
        BY <1>6, <2>1, <4>1
      <4>3. end.col[d] \in Nat
        BY <1>8, <4>1, <4>2
      <4>4. end.col[d] # -1 /\ end.col[d] < end.col[t]
        BY <1>5, <4>3
      <4>5. end.col[t] \in Nat \cup {-1}
        BY <1>4
      <4> QED BY <4>3, <4>4, <4>5
    <3> QED BY <3>1, <3>2
  <2> QED BY <1>6, <2>1
<1>9. n \in M
  <2> HIDE DEF M
  <2> QED BY <1>6, <1>7, <1>8, Upward
<1>10. ASSUME NEW t \in T
       PROVE  end.col[t] \in Nat
  BY <1>5, <1>6, <1>9
<1>11. ASSUME NEW t \in T
       PROVE  /\ \A d \in Deps(p, ph, t) : end.col[d] < end.col[t]
              /\ end.col[t] = 0 \/ \E d \in Deps(p, ph, t) : end.col[t] = end.col[d] + 1
              /\ \E k \in 1..Len(end.order) : end.order[k] = t
  <2>1. ASSUME NEW d \in Deps(p, ph, t)
        PROVE  end.col[d] \in Nat /\ end.col[d] < end.col[t]
    <3>1. d \in T
      BY <1>5
    <3>2. end.col[d] \in Nat
      BY <1>10, <3>1
    <3>3. end.col[d] # -1
      BY <3>2
    <3> QED BY <1>5, <3>2, <3>3
  <2>2. end.col[t] \in Nat /\ end.col[t] # -1
    BY <1>10
  <2>3. CASE end.col[t] > 0
    <3>1. PICK d \in Deps(p, ph, t) : end.col[t] <= end.col[d] + 1
      BY <1>5, <2>3
    <3>2. end.col[t] = end.col[d] + 1
      BY <2>1, <2>2, <3>1
    <3> QED BY <1>5, <2>1, <2>2, <3>2
  <2> QED BY <1>5, <2>1, <2>2, <2>3
<1> QED BY <1>4, <1>10, <1>11 DEF T, end

-----------------------------------------------------------------------------
(* The layout. *)
LEMMA PlaceOfIs ==
  ASSUME NEW n \in Nat, NEW s, DOMAIN s = 1..n, NEW x, \E k \in 1..n : s[k] = x
  PROVE  PlaceOf(s, x) \in 1..n /\ s[PlaceOf(s, x)] = x
<1> DEFINE S == {k \in 1..n : s[k] = x}
<1>1. S \in SUBSET Nat /\ S # {}
  OBVIOUS
<1>2. PICK k \in S : \A j \in S : k <= j
  <2> HIDE DEF S
  <2> QED BY <1>1, SomeLeast
<1>3. k \in 1..n /\ s[k] = x /\ \A j \in 1..n : s[j] = x => k <= j
  BY <1>2
<1> QED BY <1>3 DEF PlaceOf

LEMMA RanksByPlace ==
  ASSUME NEW W, IsFiniteSet(W), NEW f, \A i \in W : f[i] \in Nat,
         \A i, j \in W : f[i] = f[j] => i = j
  PROVE  /\ \A i \in W : Cardinality({j \in W : f[j] < f[i]}) \in Nat
         /\ \A i, j \in W : Cardinality({k \in W : f[k] < f[i]}) = Cardinality({k \in W : f[k] < f[j]})
              => i = j
<1> DEFINE R == {e \in W \X W : f[e[1]] < f[e[2]]}
<1>1. \A i, j \in W : <<i, j>> \in R <=> f[i] < f[j]
  OBVIOUS
<1>2. \A i \in W : Before(R, W, i) = {j \in W : f[j] < f[i]}
  BY <1>1 DEF Before
<1> HIDE DEF R
<1>3. Orders(R, W)
  BY <1>1 DEF Orders
<1>4. /\ \A i \in W : Cardinality(Before(R, W, i)) \in Nat
      /\ \A i, j \in W : Cardinality(Before(R, W, i)) = Cardinality(Before(R, W, j)) => i = j
  BY <1>3, RanksAre
<1> QED BY <1>2, <1>4

LEMMA IsolatedAre ==
  ASSUME NEW p, NEW ph, Drawn(p, ph)
  PROVE  /\ Isolated(p, ph) \subseteq Range(ph.tasks)
         /\ \A t \in Isolated(p, ph) : Deps(p, ph, t) = {}
         /\ \A t \in Range(ph.tasks) : \A d \in Deps(p, ph, t) :
              d \in Range(ph.tasks) \ Isolated(p, ph) /\ t \notin Isolated(p, ph)
<1> DEFINE T == Range(ph.tasks)
<1>1. /\ Range(Roots(p, ph)) = {t \in T : Deps(p, ph, t) = {}}
      /\ Range(Leaves(p, ph)) = {t \in T : \A c \in T : t \notin Deps(p, ph, c)}
  BY RootsAre
<1>2. \A t \in T : Deps(p, ph, t) \subseteq T
  BY DEF Deps
<1> HIDE DEF T
<1> QED BY <1>1, <1>2 DEF Isolated, T

(* What is known of the nodes. *)
Laid(p, ph, nodes) ==
  LET T == Range(ph.tasks)
      lone == Isolated(p, ph)
  IN  /\ DOMAIN nodes = T
      /\ \A t \in T : nodes[t].col \in Nat /\ nodes[t].row \in Nat
      /\ \A t, u \in T : nodes[t] = nodes[u] => t = u
      /\ \A t, u \in T \ lone : nodes[t].col = nodes[u].col /\ nodes[t].row = nodes[u].row => t = u
      /\ \A t, u \in lone : nodes[t].row = nodes[u].row => t = u
      /\ \A t \in lone, u \in T \ lone : nodes[u].row < nodes[t].row
      /\ \A t \in T : \A d \in Deps(p, ph, t) : nodes[d].col < nodes[t].col
      /\ \A t \in T : nodes[t].col = 0 \/ \E d \in Deps(p, ph, t) : nodes[t].col = nodes[d].col + 1

LEMMA LayoutIs ==
  ASSUME NEW p, NEW ph, Drawn(p, ph)
  PROVE  Laid(p, ph, BuildTreeLayout(p, ph))
<1> DEFINE T == Range(ph.tasks)
           n == Len(ph.tasks)
           end == Walk(p, ph)[AtRoots(p, ph)]
           lone == Isolated(p, ph)
           linked == T \ lone
           above(t) == {u \in linked : end.col[u] = end.col[t]
                                         /\ PlaceOf(end.order, u) < PlaceOf(end.order, t)}
           earlier(t) == {u \in lone : PlaceOf(ph.tasks, u) < PlaceOf(ph.tasks, t)}
           below == IF linked = {} THEN 0 ELSE 1 + Max({Cardinality(above(t)) : t \in linked})
           nodes == BuildTreeLayout(p, ph)
<1>1. nodes = [t \in T |-> IF t \in lone THEN [col |-> 0, row |-> below + Cardinality(earlier(t))]
                           ELSE [col |-> end.col[t], row |-> Cardinality(above(t))]]
  BY DEF BuildTreeLayout, Rows
<1>2. ASSUME NEW t \in T
      PROVE  /\ end.col[t] \in Nat /\ \E k \in 1..Len(end.order) : end.order[k] = t
             /\ \A d \in Deps(p, ph, t) : end.col[d] < end.col[t]
             /\ end.col[t] = 0 \/ \E d \in Deps(p, ph, t) : end.col[t] = end.col[d] + 1
             /\ end.order \in Seq(T)
  BY ColumnsAre
<1>3. /\ lone \subseteq T /\ \A t \in lone : Deps(p, ph, t) = {}
      /\ \A t \in T : \A d \in Deps(p, ph, t) : d \in linked /\ t \in linked
  BY IsolatedAre
<1>4. IsFiniteSet(T) /\ IsFiniteSet(linked) /\ IsFiniteSet(lone) /\ n \in Nat
  <2>1. IsFiniteSet(T) /\ n \in Nat
    BY TasksAre
  <2> QED BY <1>3, <2>1, FS_Subset
<1> HIDE DEF end, nodes, T, lone, below
<1>5. ASSUME NEW t \in T
      PROVE  PlaceOf(end.order, t) \in Nat /\ end.order[PlaceOf(end.order, t)] = t
  <2>1. end.order \in Seq(T) /\ \E k \in 1..Len(end.order) : end.order[k] = t
    BY <1>2
  <2>2. Len(end.order) \in Nat /\ DOMAIN end.order = 1..Len(end.order)
    BY <2>1
  <2>3. PlaceOf(end.order, t) \in 1..Len(end.order) /\ end.order[PlaceOf(end.order, t)] = t
    BY <2>1, <2>2, PlaceOfIs
  <2> QED BY <2>2, <2>3
<1>6. ASSUME NEW t \in T
      PROVE  PlaceOf(ph.tasks, t) \in Nat /\ ph.tasks[PlaceOf(ph.tasks, t)] = t
  <2>1. n \in Nat /\ DOMAIN ph.tasks = 1..n /\ \E k \in 1..n : ph.tasks[k] = t
    BY TasksAre DEF T
  <2> HIDE DEF n
  <2>2. PlaceOf(ph.tasks, t) \in 1..n /\ ph.tasks[PlaceOf(ph.tasks, t)] = t
    BY <2>1, PlaceOfIs
  <2> QED BY <2>1, <2>2
<1>7. ASSUME NEW t \in linked
      PROVE  /\ Cardinality(above(t)) \in Nat
             /\ \A u \in linked : end.col[u] = end.col[t] /\ Cardinality(above(u)) = Cardinality(above(t))
                  => u = t
  <2> DEFINE W == {u \in linked : end.col[u] = end.col[t]}
             f == [u \in T |-> PlaceOf(end.order, u)]
  <2>1. ASSUME NEW u \in W
        PROVE  above(u) = {j \in W : f[j] < f[u]}
    OBVIOUS
  <2>2. t \in W /\ \A u \in linked : end.col[u] = end.col[t] => u \in W
    OBVIOUS
  <2>3. /\ \A i \in W : f[i] \in Nat
        /\ \A i, j \in W : f[i] = f[j] => i = j
    BY <1>5
  <2>4. IsFiniteSet(W)
    BY <1>4, FS_Subset
  <2> HIDE DEF W, f, above
  <2>5. /\ \A i \in W : Cardinality({j \in W : f[j] < f[i]}) \in Nat
        /\ \A i, j \in W : Cardinality({k \in W : f[k] < f[i]}) = Cardinality({k \in W : f[k] < f[j]})
             => i = j
    BY <2>3, <2>4, RanksByPlace
  <2> QED BY <2>1, <2>2, <2>5
<1>8. ASSUME NEW t \in lone
      PROVE  /\ Cardinality(earlier(t)) \in Nat
             /\ \A u \in lone : Cardinality(earlier(u)) = Cardinality(earlier(t)) => u = t
  <2> DEFINE f == [u \in T |-> PlaceOf(ph.tasks, u)]
  <2>1. ASSUME NEW u \in lone
        PROVE  earlier(u) = {j \in lone : f[j] < f[u]}
    BY <1>3
  <2>2. /\ \A i \in lone : f[i] \in Nat
        /\ \A i, j \in lone : f[i] = f[j] => i = j
    BY <1>3, <1>6
  <2> HIDE DEF f, earlier
  <2>3. /\ \A i \in lone : Cardinality({j \in lone : f[j] < f[i]}) \in Nat
        /\ \A i, j \in lone :
             Cardinality({k \in lone : f[k] < f[i]}) = Cardinality({k \in lone : f[k] < f[j]}) => i = j
    BY <1>4, <2>2, RanksByPlace
  <2> QED BY <2>1, <2>3
<1>9. below \in Nat /\ \A t \in linked : Cardinality(above(t)) < below
  <2>1. CASE linked = {}
    BY <2>1 DEF below
  <2>2. CASE linked # {}
    <3> DEFINE g == [t \in linked |-> Cardinality(above(t))]
               S == {g[t] : t \in linked}
    <3>1. /\ \A t \in linked : g[t] = Cardinality(above(t)) /\ g[t] \in Nat
          /\ linked \in SUBSET Range(ph.tasks)
      BY <1>7 DEF T
    <3>2. below = 1 + Max(S)
      <4>1. S = {Cardinality(above(t)) : t \in linked}
        OBVIOUS
      <4> QED BY <2>2, <4>1 DEF below
    <3>3. S \subseteq Nat
      BY <3>1
    <3> HIDE DEF g, linked, above
    <3>4. Max(S) \in S /\ \A t \in linked : g[t] <= Max(S)
      BY <2>2, <3>1, MaxOfTasks
    <3>5. Max(S) \in Nat
      <4> HIDE DEF S
      <4> QED BY <3>3, <3>4
    <3> HIDE DEF S
    <3> QED BY <3>1, <3>2, <3>4, <3>5
  <2> QED BY <2>1, <2>2
<1> HIDE DEF above, earlier, linked
<1>10. DOMAIN nodes = T
  BY <1>1
<1>11. ASSUME NEW t \in linked
       PROVE  t \in T /\ t \notin lone /\ nodes[t].col = end.col[t] /\ nodes[t].row = Cardinality(above(t))
                /\ nodes[t].col \in Nat /\ nodes[t].row \in Nat /\ nodes[t].row < below
  <2>1. t \in T /\ t \notin lone
    BY DEF linked
  <2>2. nodes[t] = [col |-> end.col[t], row |-> Cardinality(above(t))]
    BY <1>1, <2>1
  <2> QED BY <1>2, <1>7, <1>9, <2>1, <2>2
<1>12. ASSUME NEW t \in lone
       PROVE  t \in T /\ nodes[t].col = 0 /\ nodes[t].row = below + Cardinality(earlier(t))
                /\ nodes[t].row \in Nat /\ nodes[t].row >= below /\ Cardinality(earlier(t)) \in Nat
  <2>1. t \in T
    BY <1>3
  <2>2. nodes[t] = [col |-> 0, row |-> below + Cardinality(earlier(t))]
    BY <1>1, <2>1
  <2> QED BY <1>8, <1>9, <2>1, <2>2
<1>13. \A t \in T : t \in linked \/ t \in lone
  BY DEF linked
<1>14. \A t, u \in linked : nodes[t].col = nodes[u].col /\ nodes[t].row = nodes[u].row => t = u
  BY <1>7, <1>11
<1>15. \A t, u \in lone : nodes[t].row = nodes[u].row => t = u
  <2> SUFFICES ASSUME NEW t \in lone, NEW u \in lone, nodes[t].row = nodes[u].row
               PROVE  t = u
    OBVIOUS
  <2>1. Cardinality(earlier(t)) = Cardinality(earlier(u))
    BY <1>9, <1>12
  <2> QED BY <1>8, <2>1
<1>16. \A t \in lone, u \in linked : nodes[u].row < nodes[t].row
  BY <1>9, <1>11, <1>12
<1>17. \A t, u \in T : nodes[t] = nodes[u] => t = u
  <2> SUFFICES ASSUME NEW t \in T, NEW u \in T, nodes[t] = nodes[u]
               PROVE  t = u
    OBVIOUS
  <2>1. CASE t \in linked /\ u \in linked
    BY <1>14, <2>1
  <2>2. CASE t \in lone /\ u \in lone
    BY <1>15, <2>2
  <2>3. CASE t \in lone /\ u \in linked
    BY <1>11, <1>12, <1>16, <2>3
  <2>4. CASE t \in linked /\ u \in lone
    BY <1>11, <1>12, <1>16, <2>4
  <2> QED BY <1>13, <2>1, <2>2, <2>3, <2>4
<1>18. \A t \in T : \A d \in Deps(p, ph, t) : nodes[d].col < nodes[t].col
  BY <1>2, <1>3, <1>11
<1>19. \A t \in T : nodes[t].col = 0 \/ \E d \in Deps(p, ph, t) : nodes[t].col = nodes[d].col + 1
  <2> SUFFICES ASSUME NEW t \in T
               PROVE  nodes[t].col = 0 \/ \E d \in Deps(p, ph, t) : nodes[t].col = nodes[d].col + 1
    OBVIOUS
  <2>1. CASE t \in lone
    BY <1>12, <2>1
  <2>2. CASE t \in linked
    <3>1. nodes[t].col = end.col[t]
      BY <1>11, <2>2
    <3>2. CASE end.col[t] = 0
      BY <3>1, <3>2
    <3>3. ASSUME NEW d \in Deps(p, ph, t), end.col[t] = end.col[d] + 1
          PROVE  nodes[t].col = nodes[d].col + 1
      <4>1. d \in linked
        BY <1>3
      <4>2. nodes[d].col = end.col[d]
        BY <1>11, <4>1
      <4> QED BY <3>1, <3>3, <4>2
    <3> QED BY <1>2, <3>2, <3>3
  <2> QED BY <1>13, <2>1, <2>2
<1>20. \A t \in T : nodes[t].col \in Nat /\ nodes[t].row \in Nat
  BY <1>11, <1>12, <1>13
<1> QED BY <1>10, <1>14, <1>15, <1>16, <1>17, <1>18, <1>19, <1>20 DEF Laid, T, lone, linked, nodes

LEMMA LayoutIsSound ==
  ASSUME NEW p, NEW ph, Drawn(p, ph)
  PROVE  LayoutSound(p, ph, BuildTreeLayout(p, ph))
BY LayoutIs, IsolatedAre DEF LayoutSound, Laid

-----------------------------------------------------------------------------
(* The lines. *)
LEMMA EdgesAre ==
  ASSUME NEW p, NEW ph, Drawn(p, ph), NEW nodes, Laid(p, ph, nodes)
  PROVE  /\ MaxCol(nodes) \in Nat /\ MaxRow(nodes) \in Nat
         /\ \A t \in Range(ph.tasks) :
              nodes[t].col <= MaxCol(nodes) /\ nodes[t].row <= MaxRow(nodes)
<1> DEFINE T == Range(ph.tasks)
           c == [t \in T |-> nodes[t].col]
           r == [t \in T |-> nodes[t].row]
<1>1. DOMAIN nodes = T /\ \A t \in T : c[t] = nodes[t].col /\ r[t] = nodes[t].row
                                         /\ c[t] \in Nat /\ r[t] \in Nat
  BY DEF Laid
<1>2. {nodes[t].col : t \in DOMAIN nodes} = {c[t] : t \in T}
        /\ {nodes[t].row : t \in DOMAIN nodes} = {r[t] : t \in T}
  BY <1>1
<1>3. ASSUME NEW g, \A t \in T : g[t] \in Nat
      PROVE  LET S == {g[t] : t \in T} \cup {0}
             IN  Max(S) \in Nat /\ \A t \in T : g[t] <= Max(S)
  <2>1. T \in SUBSET Range(ph.tasks)
    OBVIOUS
  <2> HIDE DEF T
  <2>2. Drawn(p, ph)
    OBVIOUS
  <2> QED BY ONLY <1>3, <2>1, <2>2, MaxOrZero
<1> HIDE DEF c, r, T
<1>4. /\ LET S == {c[t] : t \in T} \cup {0} IN Max(S) \in Nat /\ \A t \in T : c[t] <= Max(S)
      /\ LET S == {r[t] : t \in T} \cup {0} IN Max(S) \in Nat /\ \A t \in T : r[t] <= Max(S)
  BY <1>1, <1>3
<1>5. MaxCol(nodes) = Max({c[t] : t \in T} \cup {0})
  BY <1>2 DEF MaxCol
<1>6. MaxRow(nodes) = Max({r[t] : t \in T} \cup {0})
  BY <1>2 DEF MaxRow
<1> QED BY <1>1, <1>4, <1>5, <1>6 DEF T

LEMMA LinesAre ==
  ASSUME NEW p, NEW ph, Drawn(p, ph), NEW l \in Lines(p, ph)
  PROVE  LET T == Range(ph.tasks)
         IN  \/ l[1] = Entry /\ l[2] \in T
             \/ l[1] \in T /\ l[2] = Gate
             \/ l[1] \in T /\ l[2] = Exit /\ ~HasGate(ph)
             \/ l[1] = Gate /\ l[2] = Exit /\ HasGate(ph)
             \/ l[1] \in T /\ l[2] \in T /\ l[1] \in Deps(p, ph, l[2])
<1> DEFINE T == Range(ph.tasks)
<1>1. Range(Roots(p, ph)) \subseteq T /\ Range(Leaves(p, ph)) \subseteq T
  BY RootsAre
<1>2. Isolated(p, ph) \subseteq T
  BY IsolatedAre
<1> HIDE DEF T
<1>3. CASE l \in TreeConnectors(p, ph)
  BY <1>3 DEF TreeConnectors, T
<1>4. CASE l \in {<<Entry, t>> : t \in Range(Roots(p, ph)) \ Isolated(p, ph)}
  BY <1>1, <1>4 DEF T
<1>5. CASE l \in IsolatedPaths(p, ph)
  BY <1>2, <1>5 DEF IsolatedPaths, T
<1>6. CASE HasGate(ph) /\ l \in LeafToGatePaths(p, ph) \cup {<<Gate, Exit>>}
  BY <1>1, <1>6 DEF LeafToGatePaths, T
<1>7. CASE ~HasGate(ph) /\ l \in LeafToExitPaths(p, ph)
  BY <1>1, <1>7 DEF LeafToExitPaths, T
<1> QED BY <1>3, <1>4, <1>5, <1>6, <1>7 DEF Lines, PhasePaths

LEMMA LinesReach ==
  ASSUME NEW p, NEW ph, Drawn(p, ph), NEW t \in Range(ph.tasks)
  PROVE  /\ \E l \in Lines(p, ph) : l[2] = t
         /\ \E l \in Lines(p, ph) : l[1] = t
<1> DEFINE T == Range(ph.tasks)
           after == IF HasGate(ph) THEN Gate ELSE Exit
<1>1. /\ Range(Roots(p, ph)) = {u \in T : Deps(p, ph, u) = {}}
      /\ Range(Leaves(p, ph)) = {u \in T : \A c \in T : u \notin Deps(p, ph, c)}
  BY RootsAre
<1>2. Deps(p, ph, t) \subseteq T
  BY DEF Deps
<1>3. ASSUME NEW e, NEW x, <<e, x>> \in Lines(p, ph)
      PROVE  (\E l \in Lines(p, ph) : l[2] = x) /\ (\E l \in Lines(p, ph) : l[1] = e)
  <2>1. <<e, x>>[1] = e /\ <<e, x>>[2] = x
    OBVIOUS
  <2> QED BY <1>3, <2>1
<1> HIDE DEF T
<1>4. ASSUME t \in Isolated(p, ph)
      PROVE  <<Entry, t>> \in Lines(p, ph) /\ <<t, after>> \in Lines(p, ph)
  BY <1>4 DEF Lines, PhasePaths, IsolatedPaths
<1>5. ASSUME t \in Range(Roots(p, ph)), t \notin Isolated(p, ph)
      PROVE  <<Entry, t>> \in Lines(p, ph)
  BY <1>5 DEF Lines, PhasePaths
<1>6. ASSUME t \in Range(Leaves(p, ph)), t \notin Isolated(p, ph)
      PROVE  <<t, after>> \in Lines(p, ph)
  BY <1>6 DEF Lines, PhasePaths, LeafToGatePaths, LeafToExitPaths
<1>7. ASSUME NEW d \in T, NEW c \in T, d \in Deps(p, ph, c)
      PROVE  <<d, c>> \in Lines(p, ph)
  BY <1>7 DEF Lines, TreeConnectors, T
<1> HIDE DEF after
<1>8. \E l \in Lines(p, ph) : l[2] = t
  <2>1. CASE Deps(p, ph, t) = {}
    <3>1. t \in Range(Roots(p, ph))
      BY <1>1, <2>1 DEF T
    <3>2. <<Entry, t>> \in Lines(p, ph)
      BY <1>4, <1>5, <3>1
    <3> QED BY <1>3, <3>2
  <2>2. ASSUME NEW d \in Deps(p, ph, t)
        PROVE  \E l \in Lines(p, ph) : l[2] = t
    <3>1. <<d, t>> \in Lines(p, ph)
      BY <1>2, <1>7 DEF T
    <3> QED BY <1>3, <3>1
  <2> QED BY <2>1, <2>2
<1>9. \E l \in Lines(p, ph) : l[1] = t
  <2>1. CASE t \in Range(Leaves(p, ph))
    <3>1. <<t, after>> \in Lines(p, ph)
      BY <1>4, <1>6, <2>1
    <3> QED BY <1>3, <3>1
  <2>2. CASE t \notin Range(Leaves(p, ph))
    <3>1. PICK c \in T : t \in Deps(p, ph, c)
      BY <1>1, <2>2 DEF T
    <3>2. <<t, c>> \in Lines(p, ph)
      BY <1>7, <3>1 DEF T
    <3> QED BY <1>3, <3>2
  <2> QED BY <2>1, <2>2
<1> QED BY <1>8, <1>9

LEMMA MarkersApart == Entry # Gate /\ Entry # Exit /\ Gate # Exit
BY DEF Entry, Gate, Exit

LEMMA LinesGoRight ==
  ASSUME NEW p, NEW ph, Drawn(p, ph), NEW nodes, Laid(p, ph, nodes), NEW l \in Lines(p, ph)
  PROVE  PlaceX(p, ph, nodes, l[1]) < PlaceX(p, ph, nodes, l[2])
<1> DEFINE T == Range(ph.tasks)
           X(e) == PlaceX(p, ph, nodes, e)
<1>1. Entry \notin T /\ Exit \notin T /\ Gate \notin T
  BY DEF Drawn
<1>2. /\ MaxCol(nodes) \in Nat
      /\ \A t \in T : nodes[t].col <= MaxCol(nodes) /\ nodes[t].col \in Nat
  BY EdgesAre DEF Laid
<1>3. /\ X(Entry) = -1 /\ X(Gate) = MaxCol(nodes) + 1
      /\ HasGate(ph) => X(Exit) = MaxCol(nodes) + 2
      /\ ~HasGate(ph) => X(Exit) = MaxCol(nodes) + 1
  BY MarkersApart DEF PlaceX
<1>4. \A t \in T : X(t) = nodes[t].col
  BY <1>1 DEF PlaceX
<1> HIDE DEF X
<1>5. CASE l[1] = Entry /\ l[2] \in T
  BY <1>2, <1>3, <1>4, <1>5 DEF X
<1>6. CASE l[1] \in T /\ l[2] = Gate
  BY <1>2, <1>3, <1>4, <1>6 DEF X
<1>7. CASE l[1] \in T /\ l[2] = Exit /\ ~HasGate(ph)
  BY <1>2, <1>3, <1>4, <1>7 DEF X
<1>8. CASE l[1] = Gate /\ l[2] = Exit /\ HasGate(ph)
  BY <1>2, <1>3, <1>8 DEF X
<1>9. CASE l[1] \in T /\ l[2] \in T /\ l[1] \in Deps(p, ph, l[2])
  <2>1. nodes[l[1]].col < nodes[l[2]].col
    BY <1>9 DEF Laid
  <2> QED BY <1>4, <1>9, <2>1 DEF X
<1> QED BY <1>5, <1>6, <1>7, <1>8, <1>9, LinesAre

-----------------------------------------------------------------------------
(* The boxes a horizontal segment meets. *)
LEMMA Meets ==
  ASSUME NEW nodes, NEW from \in Int, NEW upto \in Int, from <= upto, NEW y, NEW excluded,
         NEW seg, seg = [from |-> from, upto |-> upto, y |-> y],
         SegmentCrossesAnyBox(nodes, seg, excluded)
  PROVE  \E t \in DOMAIN nodes \ excluded :
           /\ MidY(nodes[t]) - NODE_H \div 2 <= y /\ y <= MidY(nodes[t]) + NODE_H \div 2
           /\ Left(nodes[t]) <= upto /\ Left(nodes[t]) + NODE_W >= from
<1>1. seg.from = from /\ seg.upto = upto /\ seg.y = y
  OBVIOUS
<1>2. Max({from, upto}) = upto /\ Min({from, upto}) = from
  BY DEF Max, Min
<1> QED BY <1>1, <1>2 DEF SegmentCrossesAnyBox

LEMMA PlacesApart ==
  ASSUME NEW p, NEW ph, NEW nodes, Laid(p, ph, nodes), NEW t \in Range(ph.tasks),
         NEW u \in Range(ph.tasks), nodes[t].col = nodes[u].col, nodes[t].row = nodes[u].row
  PROVE  t = u
<1>1. CASE t \in Isolated(p, ph) /\ u \in Isolated(p, ph)
  BY <1>1 DEF Laid
<1>2. CASE t \notin Isolated(p, ph) /\ u \notin Isolated(p, ph)
  BY <1>2 DEF Laid
<1>3. CASE t \in Isolated(p, ph) /\ u \notin Isolated(p, ph)
  <2>1. nodes[u].row < nodes[t].row /\ nodes[u].row \in Nat
    BY <1>3 DEF Laid
  <2> QED BY <2>1
<1>4. CASE t \notin Isolated(p, ph) /\ u \in Isolated(p, ph)
  <2>1. nodes[t].row < nodes[u].row /\ nodes[u].row \in Nat
    BY <1>4 DEF Laid
  <2> QED BY <2>1
<1> QED BY <1>1, <1>2, <1>3, <1>4

LEMMA BoxesAre ==
  ASSUME NEW n, n.col \in Nat, n.row \in Nat
  PROVE  Left(n) = 168 + 268 * n.col /\ MidY(n) = 96 * n.row + 36 /\ NODE_W = 240
           /\ NODE_H \div 2 = 36 /\ GAP_Y \div 2 = 12 /\ GAP_X \div 2 = 14
<1>1. 72 \div 2 = 36 /\ 24 \div 2 = 12 /\ 28 \div 2 = 14
  OBVIOUS
<1> QED BY <1>1 DEF Left, MidY, NODE_W, NODE_H, GAP_X, GAP_Y, MARKER_W

(* Of a task and one in the next column, and of a line below their row. *)
LEMMA NextColumn ==
  ASSUME NEW a \in Nat, NEW ar \in Nat, NEW br \in Nat, NEW c \in Nat, NEW r \in Nat
  PROVE  /\ (168 + 268 * a + 240 + 168 + 268 * (a + 1)) \div 2 = 168 + 268 * (a + 1) - 14
         /\ 96 * r + 36 - 36 <= 96 * ar + 36 /\ 96 * ar + 36 <= 96 * r + 36 + 36 => r = ar
         /\ 168 + 268 * c <= 168 + 268 * (a + 1) - 14 /\ 168 + 268 * c + 240 >= 168 + 268 * a + 240
              => c = a
         /\ 168 + 268 * c <= 168 + 268 * (a + 1)
              /\ 168 + 268 * c + 240 >= 168 + 268 * (a + 1) - 14 => c = a + 1
         /\ ~(96 * r + 36 - 36 <= 96 * ar + 36 + 36 + 12 /\ 96 * ar + 36 + 36 + 12 <= 96 * r + 36 + 36)
OBVIOUS

-----------------------------------------------------------------------------
(* A line to the next column or along a row crosses no card. *)
LEMMA ShortLinesClear ==
  ASSUME NEW p, NEW ph, NEW nodes, Laid(p, ph, nodes), NEW l \in TreeConnectors(p, ph),
         nodes[l[2]].col = nodes[l[1]].col + 1 \/ nodes[l[2]].row = nodes[l[1]].row,
         NEW seg \in RoutePath(p, ph, nodes, l[1], l[2])
  PROVE  ~SegmentCrossesAnyBox(nodes, seg, {l[1], l[2]})
<1> DEFINE T == Range(ph.tasks)
           u == l[1]
           d == l[2]
           a == nodes[u].col
           b == nodes[d].col
           ar == nodes[u].row
           br == nodes[d].row
           x1 == Left(nodes[u]) + NODE_W
           x2 == Left(nodes[d])
           y1 == MidY(nodes[u])
           y2 == MidY(nodes[d])
           mx == IF Cardinality(Deps(p, ph, d)) > 1 THEN x2 - GAP_X \div 2 ELSE (x1 + x2) \div 2
           S(f, t, y) == [from |-> f, upto |-> t, y |-> y]
           crosses(s) == SegmentCrossesAnyBox(nodes, s, {u, d})
<1>1. u \in T /\ d \in T /\ u \in Deps(p, ph, d)
  BY DEF TreeConnectors
<1>2. /\ DOMAIN nodes = T
      /\ \A t \in T : nodes[t].col \in Nat /\ nodes[t].row \in Nat
      /\ a < b
  BY <1>1 DEF Laid
<1>3. /\ a \in Nat /\ b \in Nat /\ ar \in Nat /\ br \in Nat
      /\ x1 = 168 + 268 * a + 240 /\ x2 = 168 + 268 * b
      /\ y1 = 96 * ar + 36 /\ y2 = 96 * br + 36
  BY <1>1, <1>2, BoxesAre
<1>4. GAP_X \div 2 = 14 /\ NODE_H \div 2 + GAP_Y \div 2 = 36 + 12
  BY <1>1, <1>2, BoxesAre
<1>5. RoutePath(p, ph, nodes, u, d) =
        CASE y1 = y2 /\ ~crosses(S(x1, x2, y1)) -> {S(x1, x2, y1)}
          [] y1 = y2 /\ crosses(S(x1, x2, y1)) ->
               {S(x1, x2, y1 + NODE_H \div 2 + GAP_Y \div 2)}
          [] y1 # y2 /\ ~crosses(S(x1, mx, y1)) /\ ~crosses(S(mx, x2, y2)) ->
               {S(x1, mx, y1), S(mx, x2, y2)}
          [] OTHER -> {S(x1, x2, (y1 + y2) \div 2)}
  BY DEF RoutePath
<1>6. seg \in RoutePath(p, ph, nodes, u, d)
  OBVIOUS
<1> HIDE DEF S, crosses, mx
<1>7. CASE y1 = y2 /\ ~crosses(S(x1, x2, y1))
  <2>1. RoutePath(p, ph, nodes, u, d) = {S(x1, x2, y1)}
    BY <1>5, <1>7
  <2> QED BY <1>6, <1>7, <2>1 DEF crosses
<1>8. CASE y1 = y2 /\ crosses(S(x1, x2, y1))
  <2>1. RoutePath(p, ph, nodes, u, d) = {S(x1, x2, y1 + NODE_H \div 2 + GAP_Y \div 2)}
    BY <1>5, <1>8
  <2>2. seg = [from |-> x1, upto |-> x2, y |-> y1 + NODE_H \div 2 + GAP_Y \div 2]
    BY <1>6, <2>1 DEF S
  <2>3. x1 \in Int /\ x2 \in Int /\ x1 <= x2
    BY <1>2, <1>3
  <2>4. ASSUME crosses(seg)
        PROVE  FALSE
    <3>1. PICK t \in DOMAIN nodes \ {u, d} :
            /\ MidY(nodes[t]) - NODE_H \div 2 <= y1 + NODE_H \div 2 + GAP_Y \div 2
            /\ y1 + NODE_H \div 2 + GAP_Y \div 2 <= MidY(nodes[t]) + NODE_H \div 2
      <4> HIDE DEF x1, x2, y1
      <4> QED BY <2>2, <2>3, <2>4, Meets DEF crosses
    <3>2. nodes[t].col \in Nat /\ nodes[t].row \in Nat
      BY <1>2, <3>1
    <3>3. MidY(nodes[t]) = 96 * nodes[t].row + 36 /\ NODE_H \div 2 = 36 /\ GAP_Y \div 2 = 12
      BY <3>2, BoxesAre
    <3>4. ~(96 * nodes[t].row + 36 - 36 <= 96 * ar + 36 + 36 + 12
              /\ 96 * ar + 36 + 36 + 12 <= 96 * nodes[t].row + 36 + 36)
      BY <1>3, <3>2, NextColumn
    <3>5. y1 + NODE_H \div 2 + GAP_Y \div 2 = 96 * ar + 36 + 36 + 12
      BY <1>3, <3>3
    <3>6. MidY(nodes[t]) - NODE_H \div 2 = 96 * nodes[t].row + 36 - 36
            /\ MidY(nodes[t]) + NODE_H \div 2 = 96 * nodes[t].row + 36 + 36
      BY <3>2, <3>3
    <3> HIDE DEF y1
    <3>7. /\ 96 * nodes[t].row + 36 - 36 <= 96 * ar + 36 + 36 + 12
          /\ 96 * ar + 36 + 36 + 12 <= 96 * nodes[t].row + 36 + 36
      BY ONLY <3>1, <3>5, <3>6
    <3> QED BY <3>4, <3>7
  <2> QED BY <2>4 DEF crosses
<1>9. CASE y1 # y2
  <2>1. b = a + 1 /\ ar # br
    BY <1>3, <1>9
  <2>2. /\ mx = x2 - 14 /\ mx \in Int /\ x1 \in Int /\ x2 \in Int /\ x1 <= mx /\ mx <= x2
    <3>1. (168 + 268 * a + 240 + 168 + 268 * (a + 1)) \div 2 = 168 + 268 * (a + 1) - 14
      BY <1>3, NextColumn
    <3>2. x1 + x2 = 168 + 268 * a + 240 + 168 + 268 * (a + 1)
      BY <1>3, <2>1
    <3>3. x2 - GAP_X \div 2 = x2 - 14 /\ (x1 + x2) \div 2 = x2 - 14
      BY <1>3, <1>4, <2>1, <3>1, <3>2
    <3>4. mx = x2 - 14
      BY <3>3 DEF mx
    <3> QED BY <1>3, <2>1, <3>4
  <2>3. ASSUME NEW t \in DOMAIN nodes \ {u, d}
        PROVE  /\ nodes[t].col \in Nat /\ nodes[t].row \in Nat
               /\ Left(nodes[t]) = 168 + 268 * nodes[t].col /\ MidY(nodes[t]) = 96 * nodes[t].row + 36
               /\ NODE_H \div 2 = 36 /\ NODE_W = 240
               /\ nodes[t].col = a => nodes[t].row # ar
               /\ nodes[t].col = b => nodes[t].row # br
    <3>1. t \in T /\ t # u /\ t # d /\ nodes[t].col \in Nat /\ nodes[t].row \in Nat
      BY <1>2
    <3>2. /\ nodes[t].col = a => nodes[t].row # ar
          /\ nodes[t].col = b => nodes[t].row # br
      BY <1>1, <3>1, PlacesApart
    <3> QED BY <3>1, <3>2, BoxesAre
  <2>4. ~crosses(S(x1, mx, y1))
    <3>1. SUFFICES ASSUME crosses(S(x1, mx, y1)) PROVE FALSE
      OBVIOUS
    <3>2. PICK t \in DOMAIN nodes \ {u, d} :
            /\ MidY(nodes[t]) - NODE_H \div 2 <= y1 /\ y1 <= MidY(nodes[t]) + NODE_H \div 2
            /\ Left(nodes[t]) <= mx /\ Left(nodes[t]) + NODE_W >= x1
      <4> HIDE DEF x1, x2, y1
      <4> QED BY <2>2, <3>1, Meets DEF crosses, S
    <3>3. nodes[t].row = ar
      <4>1. 96 * nodes[t].row + 36 - 36 <= 96 * ar + 36 /\ 96 * ar + 36 <= 96 * nodes[t].row + 36 + 36
        BY <1>3, <2>3, <3>2
      <4> QED BY <1>3, <2>3, <4>1, NextColumn
    <3>4. nodes[t].col = a
      <4>1. /\ 168 + 268 * nodes[t].col <= 168 + 268 * (a + 1) - 14
            /\ 168 + 268 * nodes[t].col + 240 >= 168 + 268 * a + 240
        BY <1>3, <2>1, <2>2, <2>3, <3>2
      <4> QED BY <1>3, <2>3, <4>1, NextColumn
    <3> QED BY <2>3, <3>3, <3>4
  <2>5. ~crosses(S(mx, x2, y2))
    <3>1. SUFFICES ASSUME crosses(S(mx, x2, y2)) PROVE FALSE
      OBVIOUS
    <3>2. PICK t \in DOMAIN nodes \ {u, d} :
            /\ MidY(nodes[t]) - NODE_H \div 2 <= y2 /\ y2 <= MidY(nodes[t]) + NODE_H \div 2
            /\ Left(nodes[t]) <= x2 /\ Left(nodes[t]) + NODE_W >= mx
      <4> HIDE DEF x1, x2, y2
      <4> QED BY <2>2, <3>1, Meets DEF crosses, S
    <3>3. nodes[t].row = br
      <4>1. 96 * nodes[t].row + 36 - 36 <= 96 * br + 36 /\ 96 * br + 36 <= 96 * nodes[t].row + 36 + 36
        BY <1>3, <2>3, <3>2
      <4> QED BY <1>3, <2>3, <4>1, NextColumn
    <3>4. nodes[t].col = b
      <4>1. /\ 168 + 268 * nodes[t].col <= 168 + 268 * (a + 1)
            /\ 168 + 268 * nodes[t].col + 240 >= 168 + 268 * (a + 1) - 14
        BY <1>3, <2>1, <2>2, <2>3, <3>2
      <4>2. nodes[t].col = a + 1
        <5>1. a \in Nat /\ nodes[t].col \in Nat
          BY <1>3, <2>3
        <5> HIDE DEF a
        <5> QED BY ONLY <4>1, <5>1
      <4> QED BY <2>1, <4>2
    <3> QED BY <2>3, <3>3, <3>4
  <2>6. RoutePath(p, ph, nodes, u, d) = {S(x1, mx, y1), S(mx, x2, y2)}
    BY <1>5, <1>9, <2>4, <2>5
  <2> QED BY <1>6, <2>4, <2>5, <2>6 DEF crosses
<1> QED BY <1>7, <1>8, <1>9

LEMMA LinesAreSound ==
  ASSUME NEW p, NEW ph, Drawn(p, ph), NEW nodes, Laid(p, ph, nodes)
  PROVE  LinesSound(p, ph, nodes)
<1>1. DOMAIN nodes = Range(ph.tasks)
  BY DEF Laid
<1>2. \A l \in Lines(p, ph) : PlaceX(p, ph, nodes, l[1]) < PlaceX(p, ph, nodes, l[2])
  BY LinesGoRight
<1>3. \A t \in DOMAIN nodes :
        t \in {l[2] : l \in Lines(p, ph)} /\ t \in {l[1] : l \in Lines(p, ph)}
  BY <1>1, LinesReach
<1>4. \A l \in Lines(p, ph) : l[1] # Entry /\ l[2] # Exit => {l[1], l[2]} \cap DOMAIN nodes # {}
  <2> SUFFICES ASSUME NEW l \in Lines(p, ph), l[1] # Entry, l[2] # Exit
               PROVE  l[1] \in DOMAIN nodes \/ l[2] \in DOMAIN nodes
    OBVIOUS
  <2> QED BY <1>1, LinesAre
<1>5. \A l \in TreeConnectors(p, ph) :
        nodes[l[2]].col = nodes[l[1]].col + 1 \/ nodes[l[2]].row = nodes[l[1]].row =>
          \A seg \in RoutePath(p, ph, nodes, l[1], l[2]) :
            ~SegmentCrossesAnyBox(nodes, seg, {l[1], l[2]})
  BY ShortLinesClear
<1> QED BY <1>2, <1>3, <1>4, <1>5 DEF LinesSound

(* The markers are on the height of the tree. *)
LEMMA AnchorsAre ==
  ASSUME NEW p, NEW ph, Drawn(p, ph), NEW nodes, Laid(p, ph, nodes),
         NEW ends \in SUBSET Range(ph.tasks)
  PROVE  AnchorY(nodes, ends) \in 0..TreeH(nodes)
<1> DEFINE rows == {nodes[t].row : t \in ends}
           h == MaxRow(nodes)
<1>1. h \in Nat /\ \A r \in rows : r \in Nat /\ r <= h
  <2>1. \A t \in Range(ph.tasks) : nodes[t].row \in Nat /\ nodes[t].row <= MaxRow(nodes)
    BY EdgesAre DEF Laid
  <2> QED BY <2>1, EdgesAre
<1>2. TreeH(nodes) = (h + 1) * (72 + 24) - 24
  BY DEF TreeH, NODE_H, GAP_Y
<1> HIDE DEF rows, h
<1>3. CASE Cardinality(rows) = 1
  <2>1. rows # {}
    BY <1>3, FS_EmptySet
  <2>2. PICK r \in rows : (CHOOSE q \in rows : TRUE) = r
    BY <2>1
  <2>3. AnchorY(nodes, ends) = r * (72 + 24) + 72 \div 2
    BY <1>3, <2>2 DEF AnchorY, NODE_H, GAP_Y, rows
  <2>4. r \in Nat /\ r <= h
    BY <1>1
  <2>5. 72 \div 2 = 36
    OBVIOUS
  <2> QED BY <1>1, <1>2, <2>3, <2>4, <2>5
<1>4. CASE Cardinality(rows) # 1
  <2>1. AnchorY(nodes, ends) = TreeH(nodes) \div 2
    BY <1>4 DEF AnchorY, rows
  <2> QED BY <1>1, <1>2, <2>1
<1> QED BY <1>3, <1>4

(* The tree of a phase. *)
LEMMA TreeIsSound ==
  ASSUME plan \in Plans, NEW i \in 1..Len(plan.phases)
  PROVE  TreeSound(plan.phases[i])
<1> DEFINE ph == plan.phases[i]
           nodes == BuildTreeLayout(plan, ph)
<1>1. Drawn(plan, ph)
  BY PhasesDrawn
<1> HIDE DEF ph
<1>2. Laid(plan, ph, nodes) /\ LayoutSound(plan, ph, nodes)
  BY <1>1, LayoutIs, LayoutIsSound
<1>3. Range(Roots(plan, ph)) \subseteq Range(ph.tasks) /\ Range(Leaves(plan, ph)) \subseteq Range(ph.tasks)
  BY <1>1, RootsAre
<1> HIDE DEF nodes
<1>4. LinesSound(plan, ph, nodes)
  BY <1>1, <1>2, LinesAreSound
<1>5. /\ AnchorY(nodes, Range(Roots(plan, ph))) \in 0..TreeH(nodes)
      /\ AnchorY(nodes, Range(Leaves(plan, ph))) \in 0..TreeH(nodes)
  BY <1>1, <1>2, <1>3, AnchorsAre
<1> QED BY <1>2, <1>4, <1>5 DEF TreeSound, nodes, ph

-----------------------------------------------------------------------------
(* What is on the screen. *)

(* The walk of buildTreeLayout ends, of every phase of every plan: each task *)
(* has then a column, past those of what it depends on and one further than  *)
(* the last of them (dagLayout.ts).                                          *)
THEOREM WalkOfPhaseEnds ==
  ASSUME NEW p \in Plans, NEW i \in 1..Len(p.phases)
  PROVE  LET ph == p.phases[i]
             end == Walk(p, ph)[AtRoots(p, ph)]
         IN  /\ end.queue = <<>>
             /\ \A t \in Range(ph.tasks) :
                  /\ end.col[t] \in Nat
                  /\ \A d \in Deps(p, ph, t) : end.col[d] < end.col[t]
                  /\ end.col[t] = 0 \/ \E d \in Deps(p, ph, t) : end.col[t] = end.col[d] + 1
<1> DEFINE ph == p.phases[i]
           end == Walk(p, ph)[AtRoots(p, ph)]
<1>1. Drawn(p, ph)
  BY PhasesDrawn
<1> HIDE DEF ph
<1>2. PICK rank : Numbers(p, ph, rank)
  BY <1>1 DEF Drawn, Acyclic, Numbers
<1>3. end.queue = <<>>
  BY <1>1, <1>2, AtRootsWalking, WalkEnds
<1> QED BY <1>1, <1>3, ColumnsAre DEF ph

LEMMA PictureIsSound == PlanKnown => PictureSound
<1> SUFFICES ASSUME PlanKnown
             PROVE  PictureSound
  OBVIOUS
<1>1. CardsTrue
  BY CardsAreTrue
<1>2. PhaseBarsSound(plan, known)
  <2>1. plan \in Plans /\ known \in [DOMAIN plan.depends -> Lives]
    BY DEF PlanKnown, Tasks
  <2> QED BY <2>1, PhaseBarWithinTrack DEF PhaseBarsSound
<1>3. ASSUME expanded # 0
      PROVE  TreeSound(plan.phases[expanded])
  <2>1. plan \in Plans /\ expanded \in 1..Len(plan.phases)
    BY <1>3 DEF PlanKnown
  <2> QED BY <2>1, TreeIsSound
<1>4. StepperSound(picked, known)
  BY StepperIsSound
<1> QED BY <1>1, <1>2, <1>3, <1>4 DEF PictureSound

(* Of every plan that validate-plan.py lets through and everything the polls *)
(* may tell: the bars of the phases are within their tracks; the tree of the *)
(* open phase has each task in a place of its own, past what it depends on   *)
(* and no further than it must be, with lines that go right and, when short, *)
(* cross no card; and the totals of a session's phases are those of its rows *)
(* (Pipeline.tsx, dagLayout.ts, connectorRouting.ts, PhaseStepper.tsx).      *)
THEOREM PictureAlwaysSound == Spec => []PictureSound
<1>1. Init => PlanKnown
  BY PlanKnownInit
<1>2. PlanKnown /\ [Next]_vars => PlanKnown'
  BY PlanKnownStep
<1>3. PlanKnown => PictureSound
  BY PictureIsSound
<1> QED BY <1>1, <1>2, <1>3, PTL DEF Spec
=============================================================================
