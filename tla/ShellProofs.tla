----------------------------- MODULE ShellProofs -----------------------------
(***************************************************************************)
(* Theorems about the shell of the dashboard, for any views, any lists the *)
(* server answers with and any storage an earlier page left.               *)
(***************************************************************************)
EXTENDS Shell, FiniteSetTheorems, SequenceTheorems, TLAPS

-----------------------------------------------------------------------------
(* filter() of what all passes is the sequence. *)
LEMMA SelectAll ==
  ASSUME NEW S, NEW s \in Seq(S)
  PROVE  Select(s, DOMAIN s) = s
<1> DEFINE n == Len(s)
           W == 1..n
<1>1. n \in Nat /\ DOMAIN s = W /\ s \in [W -> S]
  BY LenProperties
<1>2. Cardinality(W) = n /\ IsFiniteSet(W)
  BY <1>1, FS_Interval
<1>3. ASSUME NEW i \in W PROVE Cardinality({j \in W : j < i}) = i - 1
  <2>1. {j \in W : j < i} = 1..(i - 1)
    BY <1>1
  <2>2. i \in Int /\ i - 1 \in Nat
    BY <1>1
  <2>3. Cardinality(1..(i - 1)) = i - 1
    <3> HIDE DEF n
    <3>1. Cardinality(1..(i - 1)) = IF 1 > i - 1 THEN 0 ELSE (i - 1) - 1 + 1
      BY <2>2, FS_Interval
    <3> QED BY <2>2, <3>1
  <2> QED BY <2>1, <2>3
<1> HIDE DEF n
<1>4. ASSUME NEW k \in W PROVE Ascending(W)[k] = k
  <2>1. Ascending(W)[k] = CHOOSE i \in W : Cardinality({j \in W : j < i}) = k - 1
    BY <1>2 DEF Ascending
  <2>2. \A i \in W : Cardinality({j \in W : j < i}) = k - 1 <=> i = k
    BY <1>1, <1>3
  <2> QED BY <2>1, <2>2
<1>5. DOMAIN Ascending(W) = W
  BY <1>2 DEF Ascending
<1> HIDE DEF W
<1>6. Select(s, W) = [k \in W |-> s[k]]
  BY <1>4, <1>5 DEF Select
<1> QED BY <1>1, <1>6

(* What filter() keeps, it keeps once and in order. *)
LEMMA AscendingIs ==
  ASSUME NEW W \in SUBSET Int, IsFiniteSet(W)
  PROVE  /\ Cardinality(W) \in Nat
         /\ DOMAIN Ascending(W) = 1..Cardinality(W)
         /\ \A k \in 1..Cardinality(W) : Ascending(W)[k] \in W
         /\ \A k, l \in 1..Cardinality(W) : k < l => Ascending(W)[k] < Ascending(W)[l]
         /\ \A i \in W : \E k \in 1..Cardinality(W) : Ascending(W)[k] = i
<1> DEFINE n == Cardinality(W)
           Below(i) == {j \in W : j < i}
           Index == [i \in W |-> Cardinality(Below(i)) + 1]
<1>1. n \in Nat
  BY FS_CardinalityType
<1>2. \A i \in W : Cardinality(Below(i)) \in Nat /\ IsFiniteSet(Below(i))
  BY FS_Subset, FS_CardinalityType
<1>3. \A i, j \in W : i < j => Cardinality(Below(i)) < Cardinality(Below(j))
  <2> TAKE i, j \in W
  <2> HAVE i < j
  <2>1. Below(i) \subseteq Below(j) \ {i} /\ i \in Below(j)
    <3>1. i \in Int /\ j \in Int /\ \A x \in W : x \in Int
      OBVIOUS
    <3>2. \A x \in W : x < i => x < j /\ x # i
      BY <3>1
    <3> QED BY <3>1, <3>2
  <2>2. IsFiniteSet(Below(j) \ {i}) /\ Cardinality(Below(j) \ {i}) = Cardinality(Below(j)) - 1
    BY <1>2, <2>1, FS_RemoveElement
  <2>3. Cardinality(Below(i)) <= Cardinality(Below(j) \ {i})
    BY <2>1, <2>2, FS_Subset
  <2> QED BY <1>2, <2>2, <2>3
<1>4. \A i \in W : Cardinality(Below(i)) + 1 \in 1..n
  <2> TAKE i \in W
  <2>1. Below(i) \subseteq W \ {i}
    OBVIOUS
  <2>2. IsFiniteSet(W \ {i}) /\ Cardinality(W \ {i}) = n - 1
    BY FS_RemoveElement
  <2>3. Cardinality(Below(i)) <= n - 1
    BY <2>1, <2>2, FS_Subset
  <2> QED BY <1>1, <1>2, <2>3
<1> HIDE DEF Below, n
<1>5. Index \in [W -> 1..n] /\ \A i, j \in W : Index[i] = Index[j] => i = j
  BY <1>2, <1>3, <1>4
<1>6. Index \in Injection(W, 1..n)
  BY <1>5 DEF Injection, IsInjective
<1>7. IsFiniteSet(1..n) /\ Cardinality(1..n) = n
  BY <1>1, FS_Interval
<1>8. Index \in Surjection(W, 1..n)
  BY <1>6, <1>7, FS_Injection DEF n
<1>9. \A k \in 1..n : \E i \in W : Index[i] = k
  BY <1>8 DEF Surjection
<1>10. \A k \in 1..n : Ascending(W)[k] \in W /\ Cardinality(Below(Ascending(W)[k])) = k - 1
  <2> TAKE k \in 1..n
  <2>1. \E i \in W : Cardinality(Below(i)) = k - 1
    BY <1>1, <1>2, <1>9
  <2>2. Ascending(W)[k] = CHOOSE i \in W : Cardinality(Below(i)) = k - 1
    BY DEF Ascending, n, Below
  <2> QED BY <2>1, <2>2
<1>11. ASSUME NEW i \in W, NEW j \in W, Cardinality(Below(i)) <= Cardinality(Below(j))
       PROVE  i <= j
  <2>1. ~(j < i)
    BY <1>2, <1>3, <1>11
  <2> QED BY <2>1
<1>12. ASSUME NEW k \in 1..n, NEW l \in 1..n, k < l
       PROVE  Ascending(W)[k] < Ascending(W)[l]
  <2> DEFINE i == Ascending(W)[k]
             j == Ascending(W)[l]
  <2>1. /\ i \in W /\ Cardinality(Below(i)) = k - 1
        /\ j \in W /\ Cardinality(Below(j)) = l - 1
    BY <1>10
  <2> HIDE DEF i, j
  <2>2. i <= j /\ i # j
    BY <1>1, <1>11, <1>12, <2>1
  <2>3. i \in Int /\ j \in Int
    BY <2>1
  <2>4. i < j
    BY <2>2, <2>3
  <2> QED BY <2>4 DEF i, j
<1>13. ASSUME NEW i \in W
       PROVE  \E k \in 1..n : Ascending(W)[k] = i
  <2> DEFINE k == Cardinality(Below(i)) + 1
             j == Ascending(W)[k]
  <2>1. k \in 1..n
    BY <1>4
  <2>2. j \in W /\ Cardinality(Below(j)) = Cardinality(Below(i))
    BY <1>2, <1>10, <2>1
  <2> HIDE DEF k
  <2>3. i <= j /\ j <= i
    <3> HIDE DEF j
    <3>1. Cardinality(Below(i)) \in Nat
      BY <1>2
    <3> QED BY <1>11, <2>2, <3>1
  <2>4. i \in Int /\ j \in Int
    BY <2>2
  <2>5. j = i
    BY <2>3, <2>4
  <2> QED BY <2>1, <2>5
<1>14. DOMAIN Ascending(W) = 1..n
  BY DEF Ascending, n
<1> QED BY <1>1, <1>10, <1>12, <1>13, <1>14 DEF n

LEMMA TabIsValid ==
  ASSUME NEW t \in TabIds
  PROVE  IsValidTabId(t) /\ t # None
<1>1. t # None
  BY StorageAssumption
<1>2. CASE t \in {View(v) : v \in Views}
  BY <1>1, <1>2 DEF IsValidTabId
<1>3. CASE t \in {"project", "feature"} \X STRING \X STRING
  BY <1>1, <1>3 DEF IsValidTabId
<1> QED BY <1>2, <1>3 DEF TabIds

-----------------------------------------------------------------------------
(* The tabs, and that the storage has them as they are.  The tab in front is *)
(* none of them only as the view a page booted with in another's place.      *)
TabsAre(ts, t) ==
  /\ ts \in Seq(TabIds) /\ t \in TabIds
  /\ \A i, j \in DOMAIN ts : ts[i] = ts[j] => i = j
InFront(ts, t) == \E i \in DOMAIN ts : ts[i] = t
TabsWith(ts, t) == TabsAre(ts, t) /\ InFront(ts, t)

Keys == {"tabs", "active", "view", "plan", "features"}

Tabbed ==
  /\ TabsAre(tabs, active)
  /\ FrontIsOpen \/ FrontIsLegacy
  /\ DOMAIN kept = Keys /\ kept.tabs = tabs /\ kept.active = active

Polled == polled \in [Lists -> 0..Len(Worlds)]

(* What comes to the front is open and stays so. *)
FrontStays == FrontIsOpen \/ active' # active => FrontIsOpen'

LEMMA FrontIs == FrontIsOpen <=> InFront(tabs, active)
BY DEF FrontIsOpen, TabsOpen, InFront

LEMMA BootedIs ==
  ASSUME NEW st, TabsAre(st.tabs, st.active), st.tabs # <<>>
  PROVE  BootTabs(st) = st.tabs /\ BootActive(st) = st.active
<1>1. st.tabs \in Seq(TabIds) /\ st.active \in TabIds
  BY DEF TabsAre
<1>2. {i \in DOMAIN st.tabs : IsValidTabId(st.tabs[i])} = DOMAIN st.tabs
  <2>1. \A i \in DOMAIN st.tabs : st.tabs[i] \in TabIds
    BY <1>1
  <2> QED BY <2>1, TabIsValid
<1>3. BootTabs(st) = st.tabs
  BY <1>1, <1>2, SelectAll DEF BootTabs, Filter
<1>4. BootActive(st) = st.active
  BY <1>1, TabIsValid DEF BootActive
<1> QED BY <1>3, <1>4

LEMMA NamesAre ==
  ASSUME Polled
  PROVE  /\ \A i \in DOMAIN Plans : Plans[i].project \in STRING /\ Plans[i].base \in STRING
         /\ \A i \in DOMAIN Features : Features[i].project \in STRING
         /\ \A i \in DOMAIN Autopilots : Autopilots[i].project \in STRING
<1>1. \A l \in Lists : polled[l] = 0 \/ polled[l] \in 1..Len(Worlds)
  BY ShellAssumption DEF Polled
<1>2. \A l \in Lists : polled[l] = 0 => Data(l, polled) = <<>>
  BY DEF Data
<1>3. \A l \in Lists : polled[l] \in 1..Len(Worlds) => Data(l, polled) = Worlds[polled[l]][l]
  BY DEF Data
<1>4. ASSUME NEW k \in 1..Len(Worlds)
      PROVE  /\ \A i \in DOMAIN Worlds[k].plans : Worlds[k].plans[i].project \in STRING /\ Worlds[k].plans[i].base \in STRING
             /\ \A i \in DOMAIN Worlds[k].features : Worlds[k].features[i].project \in STRING
             /\ \A i \in DOMAIN Worlds[k].autopilots : Worlds[k].autopilots[i].project \in STRING
  BY WorldAssumption
<1>5. {"plans", "features", "autopilots"} \subseteq Lists
  BY DEF Lists
<1> QED BY <1>1, <1>2, <1>3, <1>4, <1>5 DEF Plans, Features, Autopilots

LEMMA OpenedIs ==
  ASSUME Tabbed, NEW t \in TabIds
  PROVE  TabsWith(Opened(t), t)
<1>1. tabs \in Seq(TabIds) /\ \A i, j \in DOMAIN tabs : tabs[i] = tabs[j] => i = j
  BY DEF Tabbed, TabsAre
<1>2. CASE t \in TabsOpen
  BY <1>1, <1>2 DEF Opened, TabsWith, TabsAre, InFront, TabsOpen
<1>3. CASE t \notin TabsOpen
  <2> DEFINE n == Len(tabs)
             u == Append(tabs, t)
  <2>1. /\ n \in Nat /\ DOMAIN tabs = 1..n /\ u \in Seq(TabIds) /\ DOMAIN u = 1..(n + 1)
        /\ \A i \in 1..n : u[i] = tabs[i]
        /\ u[n + 1] = t
    BY <1>1, AppendProperties, LenProperties
  <2>2. \A i \in 1..n : u[i] # t
    BY <1>3, <2>1 DEF TabsOpen
  <2> HIDE DEF n, u
  <2>3. \A i \in 1..(n + 1) : i \in 1..n \/ i = n + 1
    BY <2>1
  <2>4. \A i, j \in DOMAIN u : u[i] = u[j] => i = j
    BY <1>1, <2>1, <2>2, <2>3
  <2>5. n + 1 \in DOMAIN u
    BY <2>1
  <2>6. Opened(t) = u
    BY <1>3 DEF Opened, u
  <2> QED BY <2>1, <2>4, <2>5, <2>6 DEF TabsWith, TabsAre, InFront
<1> QED BY <1>2, <1>3

LEMMA ShowTabs ==
  ASSUME Tabbed, NEW t, NEW opened, TabsWith(opened, t), Show(t, opened)
  PROVE  Tabbed' /\ FrontStays
<1>1. /\ tabs' = opened /\ active' = t /\ kept' = [kept EXCEPT !.tabs = opened, !.active = t]
      /\ DOMAIN kept = Keys
  BY DEF Show, Tabbed
<1>2. FrontIsOpen'
  BY <1>1 DEF FrontIsOpen, TabsOpen, TabsWith, InFront
<1>3. TabsAre(tabs, active)'
  BY <1>1 DEF TabsAre, TabsWith
<1> QED BY <1>1, <1>2, <1>3 DEF Tabbed, FrontStays, Keys

LEMMA CloseTabs ==
  ASSUME Tabbed, NEW i \in DOMAIN tabs, CloseTab(i)
  PROVE  Tabbed' /\ FrontStays
<1> DEFINE n == Len(tabs)
           remaining == Without(tabs, i)
<1>1. /\ tabs \in Seq(TabIds) /\ active \in TabIds /\ n \in Nat /\ DOMAIN tabs = 1..n
      /\ \A j, k \in 1..n : tabs[j] = tabs[k] => j = k
      /\ i \in 1..n
  BY LenProperties DEF Tabbed, TabsAre
<1>3. /\ remaining = [k \in 1..(n - 1) |-> IF k < i THEN tabs[k] ELSE tabs[k + 1]]
  BY DEF Without
<1> HIDE DEF remaining, n
<1>4. \A k \in 1..(n - 1) : k \in 1..n /\ k + 1 \in 1..n
  BY <1>1
<1>5. remaining \in [1..(n - 1) -> TabIds] /\ n - 1 \in Nat
  <2>1. \A k \in 1..n : tabs[k] \in TabIds
    BY <1>1
  <2> QED BY <1>1, <1>3, <1>4, <2>1
<1>6. remaining \in Seq(TabIds) /\ Len(remaining) = n - 1 /\ DOMAIN remaining = 1..(n - 1)
  BY <1>5, SeqDef, LenProperties
<1>7. \A j, k \in 1..(n - 1) : remaining[j] = remaining[k] => j = k
  <2> TAKE j, k \in 1..(n - 1)
  <2> HAVE remaining[j] = remaining[k]
  <2> DEFINE x == IF j < i THEN j ELSE j + 1
             y == IF k < i THEN k ELSE k + 1
  <2>1. x \in 1..n /\ y \in 1..n /\ remaining[j] = tabs[x] /\ remaining[k] = tabs[y]
    BY <1>3, <1>4
  <2>2. x = y
    BY <1>1, <2>1
  <2> QED BY <1>1, <2>2
<1>8. CASE remaining = <<>>
  <2>1. View("overview") \in TabIds
    BY ShellAssumption DEF TabIds
  <2>2. TabsWith(<<View("overview")>>, View("overview"))
    <3> HIDE DEF View
    <3> QED BY <2>1 DEF TabsWith, TabsAre, InFront
  <2> QED BY <1>8, <2>2, ShowTabs DEF CloseTab, remaining
<1>9. CASE remaining # <<>>
  <2> DEFINE front == Refocus(remaining, tabs[i])
  <2>1. n - 1 \in 1..(n - 1)
    BY <1>1, <1>6, <1>9
  <2>2. Show(front, remaining)
    BY <1>9 DEF CloseTab, remaining
  <2>3. ASSUME tabs[i] = active \/ FrontIsOpen
        PROVE  \E k \in 1..(n - 1) : remaining[k] = front
    <3>1. CASE tabs[i] = active
      BY <1>6, <2>1, <3>1 DEF Refocus
    <3>2. CASE tabs[i] # active
      <4>1. PICK a \in 1..n : tabs[a] = active
        BY <1>1, <2>3, <3>2 DEF FrontIsOpen, TabsOpen
      <4> DEFINE k == IF a < i THEN a ELSE a - 1
      <4>2. a # i
        BY <3>2, <4>1
      <4>3. k \in 1..(n - 1) /\ a = (IF k < i THEN k ELSE k + 1)
        BY <1>1, <4>2
      <4>4. remaining[k] = tabs[a]
        BY <1>3, <4>3
      <4> QED BY <3>2, <4>1, <4>3, <4>4 DEF Refocus
    <3> QED BY <3>1, <3>2
  <2>4. CASE tabs[i] = active \/ FrontIsOpen
    <3>1. InFront(remaining, front) /\ front \in TabIds
      BY <1>5, <1>6, <2>3, <2>4 DEF InFront
    <3>2. TabsWith(remaining, front)
      BY <1>6, <1>7, <3>1 DEF TabsWith, TabsAre
    <3> HIDE DEF front
    <3> QED BY <2>2, <3>2, ShowTabs
  <2>5. CASE tabs[i] # active /\ ~FrontIsOpen
    <3>1. front = active
      BY <2>5 DEF Refocus
    <3> HIDE DEF front
    <3>2. /\ tabs' = remaining /\ active' = active
          /\ kept' = [kept EXCEPT !.tabs = remaining, !.active = active]
      BY <2>2, <3>1 DEF Show
    <3>3. TabsAre(tabs, active)'
      BY <1>1, <1>6, <1>7, <3>2 DEF TabsAre
    <3>4. FrontIsLegacy'
      BY <2>5, <3>2 DEF Tabbed, Keys, FrontIsLegacy
    <3> QED BY <2>5, <3>2, <3>3, <3>4 DEF Tabbed, Keys, FrontStays
  <2> QED BY <2>4, <2>5
<1> QED BY <1>8, <1>9

LEMMA TabbedStep ==
  ASSUME Tabbed, Polled, [Next]_vars
  PROVE  Tabbed' /\ Polled' /\ FrontStays
<1>1. ASSUME UNCHANGED <<tabs, active, polled>>,
             kept' = kept \/ \E s \in Scopes : \E f : kept' = [kept EXCEPT ![s] = f]
      PROVE  Tabbed' /\ Polled' /\ FrontStays
  <2>1. /\ tabs' = tabs /\ active' = active /\ polled' = polled
        /\ DOMAIN kept' = DOMAIN kept /\ kept'.tabs = kept.tabs /\ kept'.active = kept.active
        /\ kept'.view = kept.view
    BY <1>1 DEF Tabbed, Keys, Scopes
  <2>2. (FrontIsOpen' <=> FrontIsOpen) /\ (FrontIsLegacy' <=> FrontIsLegacy)
    BY <2>1 DEF FrontIsOpen, FrontIsLegacy, TabsOpen
  <2>3. TabsAre(tabs, active)' /\ Polled'
    BY <2>1 DEF Tabbed, TabsAre, Polled
  <2> QED BY <2>1, <2>2, <2>3 DEF Tabbed, FrontStays
<1>2. ASSUME NEW s \in Scopes, FilterStep PROVE Tabbed' /\ Polled' /\ FrontStays
  BY <1>1, <1>2 DEF FilterStep, ToggleLifecycle, ToggleProject, SetSort, SetSearch, SetChips, Edit, WriteSearch
<1>3. ASSUME NEW t \in TabIds, OpenOrFocusTab(t) PROVE Tabbed' /\ Polled' /\ FrontStays
  <2>1. Show(t, Opened(t)) /\ TabsWith(Opened(t), t)
    BY <1>3, OpenedIs DEF OpenOrFocusTab
  <2>2. polled' = polled
    BY <2>1 DEF Show
  <2> QED BY <2>1, <2>2, ShowTabs DEF Polled
<1>4. /\ \A v \in Views : View(v) \in TabIds
      /\ \A p \in STRING, sub \in Subviews : <<"project", p, sub>> \in TabIds
      /\ \A p \in STRING : Pipeline(p) \in TabIds
  <2>1. \A p \in STRING, sub \in STRING : <<"project", p, sub>> \in TabIds
    BY DEF TabIds
  <2>2. Subviews \subseteq STRING /\ "pipeline" \in STRING
    BY LiteralsAreStrings DEF Subviews
  <2> QED BY <2>1, <2>2 DEF TabIds, Pipeline
<1>5. View("plan") \in TabIds /\ View("features") \in TabIds
  BY <1>4, ShellAssumption
<1>6. ASSUME TabStep PROVE Tabbed' /\ Polled' /\ FrontStays
  <2>1. ASSUME NEW v \in Views, HandleViewSelectChange(v) PROVE Tabbed' /\ Polled' /\ FrontStays
    BY <1>3, <1>4, <2>1 DEF HandleViewSelectChange
  <2>2. ASSUME NEW i \in DOMAIN Plans, ClickProject(Plans[i]) \/ OpenOutput(Plans[i]) PROVE Tabbed' /\ Polled' /\ FrontStays
    BY <1>3, <1>4, <2>2, NamesAre DEF ClickProject, OpenOutput
  <2>3. ASSUME NEW i \in DOMAIN Plans, NEW sub \in Subviews, ClickSubview(Plans[i], sub) PROVE Tabbed' /\ Polled' /\ FrontStays
    BY <1>3, <1>4, <2>3, NamesAre DEF ClickSubview
  <2>4. ASSUME NEW i \in DOMAIN Autopilots, SelectRailPlan(Autopilots[i]) PROVE Tabbed' /\ Polled' /\ FrontStays
    BY <1>3, <1>4, <1>5, <2>4, NamesAre DEF SelectRailPlan
  <2>5. ASSUME NEW i \in DOMAIN Features, SelectRailFeature(Features[i]) PROVE Tabbed' /\ Polled' /\ FrontStays
    BY <1>3, <1>5, <2>5 DEF SelectRailFeature
  <2>6. ASSUME NEW i \in DOMAIN Features, HandleNavigateToPlan(Features[i]) PROVE Tabbed' /\ Polled' /\ FrontStays
    <3>1. Show(View("plan"), Opened(View("plan")))
      BY <2>6 DEF HandleNavigateToPlan
    <3>2. polled' = polled
      BY <3>1 DEF Show
    <3> QED BY <1>5, <3>1, <3>2, OpenedIs, ShowTabs DEF Polled
  <2>7. ASSUME NEW t \in TabsOpen, SetActiveTab(t) PROVE Tabbed' /\ Polled' /\ FrontStays
    <3>1. Show(t, tabs) /\ polled' = polled
      BY <2>7 DEF SetActiveTab, Show
    <3>2. TabsWith(tabs, t)
      BY <2>7 DEF TabsOpen, Tabbed, TabsWith, TabsAre, InFront
    <3> QED BY <3>1, <3>2, ShowTabs DEF Polled
  <2>8. ASSUME NEW i \in DOMAIN tabs, CloseTab(i) PROVE Tabbed' /\ Polled' /\ FrontStays
    <3>1. polled' = polled
      BY <2>8 DEF CloseTab, Show
    <3> QED BY <2>8, <3>1, CloseTabs DEF Polled
  <2>9. ASSUME Reload PROVE Tabbed' /\ Polled' /\ FrontStays
    <3>1. /\ tabs' = BootTabs(kept) /\ active' = BootActive(kept)
          /\ kept' = [kept EXCEPT !.tabs = tabs', !.active = active']
      BY <2>9 DEF Reload, Booted
    <3>2. Polled'
      BY <2>9, ShellAssumption DEF Reload, Polled
    <3>3. CASE tabs # <<>>
      <4>1. tabs' = tabs /\ active' = active
        BY <3>1, <3>3, BootedIs DEF Tabbed
      <4>2. (FrontIsOpen' <=> FrontIsOpen) /\ (FrontIsLegacy' <=> FrontIsLegacy)
        BY <3>1, <4>1 DEF FrontIsOpen, FrontIsLegacy, TabsOpen, Tabbed, Keys
      <4>3. TabsAre(tabs, active)'
        BY <4>1 DEF Tabbed, TabsAre
      <4> QED BY <3>1, <3>2, <4>1, <4>2, <4>3 DEF Tabbed, Keys, FrontStays
    <3>4. CASE tabs = <<>>
      <4>1. active \in TabIds /\ active = View(MigrateLegacyView(kept.view))
        BY <3>4 DEF Tabbed, TabsAre, FrontIsOpen, FrontIsLegacy, TabsOpen
      <4>2. tabs' = <<active>> /\ active' = active
        BY <3>1, <3>4, <4>1, TabIsValid DEF Tabbed, BootTabs, BootActive
      <4>3. TabsWith(<<active>>, active)
        BY <4>1 DEF TabsWith, TabsAre, InFront
      <4>4. TabsAre(tabs, active)' /\ FrontIsOpen'
        BY <4>2, <4>3 DEF TabsWith, TabsAre, InFront, FrontIsOpen, TabsOpen
      <4> QED BY <3>1, <3>2, <4>4 DEF Tabbed, Keys, FrontStays
    <3> QED BY <3>2, <3>3, <3>4
  <2>10. ASSUME ToggleTerminal PROVE Tabbed' /\ Polled' /\ FrontStays
    BY <1>1, <2>10 DEF ToggleTerminal
  <2> QED BY <1>6, <2>1, <2>2, <2>3, <2>4, <2>5, <2>6, <2>7, <2>8, <2>9, <2>10 DEF TabStep
<1>7. ASSUME NEW l \in Lists, Poll(l) PROVE Tabbed' /\ Polled' /\ FrontStays
  <2>1. polled'= [polled EXCEPT ![l] = polled[l] + 1] /\ polled[l] < Len(Worlds)
        /\ UNCHANGED <<tabs, active, kept>>
    BY <1>7 DEF Poll
  <2>2. Polled'
    BY <2>1, ShellAssumption DEF Polled
  <2>3. /\ FrontIsOpen' <=> FrontIsOpen
        /\ FrontIsLegacy' <=> FrontIsLegacy
        /\ TabsAre(tabs, active)' <=> TabsAre(tabs, active)
    BY <2>1 DEF FrontIsOpen, FrontIsLegacy, TabsOpen, TabsAre
  <2> QED BY <2>1, <2>2, <2>3 DEF Tabbed, FrontStays
<1>8. ASSUME NEW d, LoadPlan(d) PROVE Tabbed' /\ Polled' /\ FrontStays
  BY <1>1, <1>8 DEF LoadPlan
<1>9. ASSUME UNCHANGED vars PROVE Tabbed' /\ Polled' /\ FrontStays
  BY <1>1, <1>9 DEF vars
<1>10. \E s : s \in Scopes
  BY DEF Scopes
<1> QED BY <1>2, <1>6, <1>7, <1>8, <1>9, <1>10 DEF Next

(* A stored tab that passes is one a page of today may open. *)
LEMMA StoredIsTab ==
  ASSUME NEW t \in StoredTabs, IsValidTabId(t)
  PROVE  t \in TabIds
<1>1. CASE t \in TabIds
  BY <1>1
<1>2. CASE t \in [1..1 -> STRING \ {"project", "feature"}]
  <2>1. t[1] \notin {"project", "feature"}
    BY <1>2
  <2> QED BY <2>1 DEF IsValidTabId, TabIds
<1> QED BY <1>1, <1>2 DEF StoredTabs

(* What is left of a list without the tabs that are no more. *)
LEMMA FilterTabs ==
  ASSUME NEW s \in Seq(StoredTabs), \A i, j \in DOMAIN s : s[i] = s[j] => i = j
  PROVE  LET ts == Filter(s, IsValidTabId)
         IN /\ ts \in Seq(TabIds)
            /\ \A i, j \in DOMAIN ts : ts[i] = ts[j] => i = j
            /\ \A i \in DOMAIN s : IsValidTabId(s[i]) => \E k \in DOMAIN ts : ts[k] = s[i]
<1> DEFINE W == {i \in DOMAIN s : IsValidTabId(s[i])}
           a == Ascending(W)
           n == Cardinality(W)
           ts == Filter(s, IsValidTabId)
<1>1. W \in SUBSET Int /\ W \subseteq DOMAIN s /\ IsFiniteSet(W)
  <2>1. DOMAIN s = 1..Len(s) /\ Len(s) \in Nat
    BY LenProperties
  <2>2. IsFiniteSet(1..Len(s))
    BY <2>1, FS_Interval
  <2>3. W \subseteq 1..Len(s)
    BY <2>1
  <2> QED BY <2>1, <2>2, <2>3, FS_Subset
<1>2. \A i \in W : s[i] \in TabIds
  BY StoredIsTab
<1>3. \A i \in DOMAIN s : IsValidTabId(s[i]) => i \in W
  OBVIOUS
<1>4. ts = [k \in DOMAIN a |-> s[a[k]]]
  BY DEF Filter, Select
<1> HIDE DEF W, a, ts
<1>5. /\ n \in Nat /\ DOMAIN a = 1..n
      /\ \A k \in 1..n : a[k] \in W
      /\ \A k, l \in 1..n : k < l => a[k] < a[l]
      /\ \A i \in W : \E k \in 1..n : a[k] = i
  BY <1>1, AscendingIs DEF a
<1> HIDE DEF n
<1>6. ts \in [1..n -> TabIds] /\ DOMAIN ts = 1..n
  BY <1>2, <1>4, <1>5
<1>7. ts \in Seq(TabIds)
  BY <1>5, <1>6, SeqDef
<1>8. ASSUME NEW i \in DOMAIN ts, NEW j \in DOMAIN ts, ts[i] = ts[j]
      PROVE  i = j
  <2>1. i \in 1..n /\ j \in 1..n /\ s[a[i]] = s[a[j]] /\ a[i] \in DOMAIN s /\ a[j] \in DOMAIN s
    BY <1>1, <1>4, <1>5, <1>6, <1>8
  <2>2. a[i] = a[j] /\ a[i] \in Int
    BY <1>1, <1>5, <2>1
  <2>3. ~(i < j) /\ ~(j < i)
    <3>1. i < j => a[i] < a[j]
      BY <1>5, <2>1
    <3>2. j < i => a[j] < a[i]
      BY <1>5, <2>1
    <3> QED BY <2>2, <3>1, <3>2
  <2> QED BY <1>5, <2>1, <2>3
<1>9. ASSUME NEW i \in DOMAIN s, IsValidTabId(s[i])
      PROVE  \E k \in DOMAIN ts : ts[k] = s[i]
  BY <1>3, <1>4, <1>5, <1>6, <1>9
<1> QED BY <1>7, <1>8, <1>9 DEF ts

(* A page's first tabs: what is left of the stored ones, with the one that   *)
(* was in front, or the view of before there were tabs.                      *)
LEMMA FirstTabs ==
  ASSUME NEW st \in Storages
  PROVE  /\ TabsAre(BootTabs(st), BootActive(st)) /\ DOMAIN st = Keys
         /\ \/ InFront(BootTabs(st), BootActive(st))
            \/ BootActive(st) = View(MigrateLegacyView(st.view))
<1> DEFINE t == View(MigrateLegacyView(st.view))
<1>1. /\ DOMAIN st = Keys /\ st.tabs \in Seq(StoredTabs)
      /\ \A i, j \in DOMAIN st.tabs : st.tabs[i] = st.tabs[j] => i = j
      /\ IF st.tabs = <<>> THEN st.active = None
         ELSE \E i \in DOMAIN st.tabs : st.tabs[i] = st.active
      /\ t \in TabIds
  BY StorageAssumption DEF Keys, TabIds
<1> HIDE DEF t
<1>2. CASE st.tabs = <<>>
  <2>1. BootTabs(st) = <<t>> /\ BootActive(st) = t
    BY <1>1, <1>2 DEF BootTabs, BootActive, t
  <2>2. TabsWith(<<t>>, t)
    BY <1>1 DEF TabsWith, TabsAre, InFront
  <2> QED BY <1>1, <2>1, <2>2 DEF TabsWith
<1>3. CASE st.tabs # <<>>
  <2> DEFINE ts == Filter(st.tabs, IsValidTabId)
  <2>1. /\ BootTabs(st) = ts /\ ts \in Seq(TabIds)
        /\ \A i, j \in DOMAIN ts : ts[i] = ts[j] => i = j
        /\ \A i \in DOMAIN st.tabs : IsValidTabId(st.tabs[i]) => \E k \in DOMAIN ts : ts[k] = st.tabs[i]
    BY <1>1, <1>3, FilterTabs DEF BootTabs
  <2> HIDE DEF ts
  <2>2. PICK i \in DOMAIN st.tabs : st.tabs[i] = st.active
    BY <1>1, <1>3
  <2>3. st.active \in StoredTabs
    BY <1>1, <2>2
  <2>4. CASE st.active # None /\ IsValidTabId(st.active)
    <3>1. BootActive(st) = st.active /\ st.active \in TabIds
      BY <2>3, <2>4, StoredIsTab DEF BootActive
    <3>2. InFront(ts, st.active)
      BY <2>1, <2>2, <2>4 DEF InFront
    <3> QED BY <1>1, <2>1, <3>1, <3>2 DEF TabsAre
  <2>5. CASE ~(st.active # None /\ IsValidTabId(st.active))
    <3>1. BootActive(st) = t
      BY <2>5 DEF BootActive, t
    <3> QED BY <1>1, <2>1, <3>1 DEF TabsAre, t
  <2> QED BY <2>4, <2>5
<1> QED BY <1>2, <1>3

LEMMA FirstTabbed == Init => Tabbed /\ Polled
<1> SUFFICES ASSUME Init PROVE Tabbed /\ Polled
  OBVIOUS
<1>1. PICK st \in Storages :
        /\ tabs = BootTabs(st) /\ active = BootActive(st)
        /\ kept = [st EXCEPT !.tabs = tabs, !.active = active]
  BY DEF Init, Booted
<1>2. Polled
  BY ShellAssumption DEF Init, Polled
<1>3. /\ TabsAre(tabs, active) /\ DOMAIN st = Keys
      /\ InFront(tabs, active) \/ active = View(MigrateLegacyView(st.view))
  BY <1>1, FirstTabs
<1>4. kept.view = st.view /\ DOMAIN kept = Keys /\ kept.tabs = tabs /\ kept.active = active
  BY <1>1, <1>3 DEF Keys
<1> QED BY <1>2, <1>3, <1>4, FrontIs DEF Tabbed, FrontIsLegacy

LEMMA AlwaysTabbed == Spec => [](Tabbed /\ Polled)
BY FirstTabbed, TabbedStep, PTL DEF Spec

(* For any storage, views and lists: however tabs are opened, brought to the *)
(* front, closed and reloaded, none is open twice, and what comes to the     *)
(* front is open and stays so: what closeTab puts in front is left, and the  *)
(* two effects write the tabs and the one in front so that a reload finds    *)
(* both.  Only the view of before there were tabs, which a page boots with   *)
(* in place of a retired one, may be in front and not open.                  *)
THEOREM FrontTabIsOpen == Spec => ActiveIsOpen
<1>1. Tabbed => (\A i, j \in DOMAIN tabs : tabs[i] = tabs[j] => i = j) /\ (FrontIsOpen \/ FrontIsLegacy)
  BY DEF Tabbed, TabsAre
<1>2. Tabbed /\ Polled /\ [Next]_vars => [FrontIsOpen \/ active' # active => FrontIsOpen']_vars
  BY TabbedStep DEF FrontStays
<1> QED BY <1>1, <1>2, AlwaysTabbed, PTL DEF Spec, ActiveIsOpen

-----------------------------------------------------------------------------
(* The filters are those of a mounted tab, of this version; the storage may *)
(* hold older ones, never another version's in their place.                 *)
ChipSet(s) == Range(Chips(s))
SortSet(s) == Range(Sorts(s))
FilterSet(s) ==
  [lifecycle : SUBSET ChipSet(s), project : SUBSET STRING, search : STRING, sort : SortSet(s)]

Filtered ==
  /\ pending \subseteq Scopes /\ DOMAIN filters = Scopes
  /\ \A s \in Scopes :
       /\ IF Mounted(s, active) THEN filters[s] \in FilterSet(s) ELSE filters[s] = None
       /\ kept[s] \in StoredFilters \cup {None}
       /\ s \in pending => Mounted(s, active)
       /\ Mounted(s, active) /\ s \notin pending => SafeRead(s, kept[s]) = filters[s]

LEMMA ChipsAre ==
  ASSUME NEW s \in Scopes
  PROVE  /\ ChipSet(s) \subseteq STRING /\ SortSet(s) \subseteq STRING
         /\ Defaults(s) \in FilterSet(s)
<1>1. ChipSet(s) \subseteq STRING /\ SortSet(s) \subseteq STRING /\ "" \in STRING
  BY LiteralsAreStrings DEF ChipSet, SortSet
<1>2. /\ Defaults(s).lifecycle \subseteq ChipSet(s) /\ Defaults(s).project = {}
      /\ Defaults(s).search = "" /\ Defaults(s).sort \in SortSet(s)
  <2>1. CASE s = "plan"
    <3>1. /\ PlanDefaults.lifecycle = {PlanChips[1], PlanChips[2]}
          /\ PlanDefaults.sort = PlanSorts[1]
          /\ {1, 2} \subseteq DOMAIN PlanChips /\ 1 \in DOMAIN PlanSorts
      BY DEF PlanDefaults, PlanChips, PlanSorts
    <3> QED BY <2>1, <3>1 DEF ChipSet, SortSet, Chips, Sorts, Defaults, PlanDefaults, Range
  <2>2. CASE s = "features"
    <3>1. /\ FeatureDefaults.lifecycle = {FeatureChips[1], FeatureChips[2]}
          /\ FeatureDefaults.sort = FeatureSorts[1]
          /\ {1, 2} \subseteq DOMAIN FeatureChips /\ 1 \in DOMAIN FeatureSorts
      BY DEF FeatureDefaults, FeatureChips, FeatureSorts
    <3> QED BY <2>2, <3>1 DEF ChipSet, SortSet, Chips, Sorts, Defaults, FeatureDefaults, Range
  <2> QED BY <2>1, <2>2 DEF Scopes
<1>3. Defaults(s) = [lifecycle |-> Defaults(s).lifecycle, project |-> Defaults(s).project,
                     search |-> Defaults(s).search, sort |-> Defaults(s).sort]
  BY DEF Defaults, PlanDefaults, FeatureDefaults, Scopes
<1> QED BY <1>1, <1>2, <1>3 DEF FilterSet

LEMMA SafeReadIs ==
  ASSUME NEW s \in Scopes
  PROVE  /\ \A raw \in StoredFilters \cup {None} : SafeRead(s, raw) \in FilterSet(s)
         /\ \A f \in FilterSet(s) : f \in StoredFilters /\ f # None /\ SafeRead(s, f) = f
<1>1. ASSUME NEW f \in FilterSet(s)
      PROVE  f \in StoredFilters /\ f # None /\ SafeRead(s, f) = f
  <2>1. f \in StoredFilters /\ f # None
    BY ChipsAre, StorageAssumption DEF FilterSet, StoredFilters
  <2>2. (\A c \in f.lifecycle : InSeq(c, Chips(s))) /\ InSeq(f.sort, Sorts(s))
    BY DEF FilterSet, ChipSet, SortSet, InSeq, Range
  <2>3. ParseStored(s, f) = f
    BY <2>2 DEF ParseStored
  <2> QED BY <2>1, <2>3 DEF SafeRead
<1>2. ASSUME NEW raw \in StoredFilters \cup {None}
      PROVE  SafeRead(s, raw) \in FilterSet(s)
  <2>1. CASE raw = None \/ ParseStored(s, raw) = None
    BY <2>1, ChipsAre DEF SafeRead
  <2>2. CASE raw # None /\ ParseStored(s, raw) # None
    <3>1. /\ raw \in StoredFilters /\ ParseStored(s, raw) = raw
          /\ (\A c \in raw.lifecycle : InSeq(c, Chips(s))) /\ InSeq(raw.sort, Sorts(s))
      BY <2>2 DEF ParseStored
    <3>2. raw.lifecycle \subseteq ChipSet(s) /\ raw.sort \in SortSet(s)
      BY <3>1 DEF InSeq, ChipSet, SortSet, Range
    <3>3. raw \in FilterSet(s)
      BY <3>1, <3>2 DEF StoredFilters, FilterSet
    <3> QED BY <2>2, <3>1, <3>3 DEF SafeRead
  <2> QED BY <2>1, <2>2
<1> QED BY <1>1, <1>2

LEMMA ShowFilters ==
  ASSUME Tabbed, Filtered, NEW t, NEW opened, Show(t, opened)
  PROVE  Filtered'
<1>1. /\ active' = t /\ \A s \in Scopes : kept'[s] = kept[s]
      /\ filters' = IF Mounted("features", t) = Mounted("features", active) THEN filters
                    ELSE [filters EXCEPT !["features"] =
                            IF Mounted("features", t) THEN SafeRead("features", kept["features"]) ELSE None]
      /\ pending' = IF Mounted("features", t) THEN pending ELSE pending \ {"features"}
  BY DEF Show, Tabbed, Keys, Scopes
<1>2. Scopes = {"plan", "features"} /\ DOMAIN filters = Scopes /\ DOMAIN filters' = Scopes
      /\ pending' \subseteq Scopes
  BY <1>1 DEF Scopes, Filtered
<1>3. \A u : Mounted("plan", u)
  BY DEF Mounted
<1>4. /\ filters'["plan"] = filters["plan"] /\ kept'["plan"] = kept["plan"]
      /\ "plan" \in pending' <=> "plan" \in pending
  BY <1>1, <1>2
<1>5. SafeRead("features", kept["features"]) \in FilterSet("features")
  BY <1>2, SafeReadIs DEF Filtered
<1>6. /\ IF Mounted("features", t) THEN filters'["features"] \in FilterSet("features")
                                   ELSE filters'["features"] = None
      /\ "features" \in pending' => Mounted("features", t)
      /\ Mounted("features", t) /\ "features" \notin pending'
           => SafeRead("features", kept["features"]) = filters'["features"]
  <2>1. CASE Mounted("features", t) /\ Mounted("features", active)
    BY <1>1, <1>2, <2>1 DEF Filtered
  <2>2. CASE Mounted("features", t) /\ ~Mounted("features", active)
    BY <1>1, <1>2, <1>5, <2>2
  <2>3. CASE ~Mounted("features", t)
    BY <1>1, <1>2, <2>3 DEF Filtered
  <2> QED BY <2>1, <2>2, <2>3
<1>7. \A s \in Scopes : kept'[s] \in StoredFilters \cup {None}
  BY <1>1 DEF Filtered
<1>8. /\ IF Mounted("plan", t) THEN filters'["plan"] \in FilterSet("plan") ELSE filters'["plan"] = None
      /\ "plan" \in pending' => Mounted("plan", t)
      /\ Mounted("plan", t) /\ "plan" \notin pending' => SafeRead("plan", kept'["plan"]) = filters'["plan"]
  BY <1>2, <1>3, <1>4 DEF Filtered
<1> QED BY <1>1, <1>2, <1>6, <1>7, <1>8 DEF Filtered

LEMMA FilteredStep ==
  ASSUME Tabbed, Polled, Filtered, [Next]_vars
  PROVE  Filtered'
<1>1. ASSUME UNCHANGED <<active, filters, pending, kept>> PROVE Filtered'
  BY <1>1 DEF Filtered
<1>2. ASSUME NEW t, NEW opened, Show(t, opened) PROVE Filtered'
  BY <1>2, ShowFilters
<1>3. ASSUME NEW s \in Scopes, NEW f \in FilterSet(s), Mounted(s, active), UNCHANGED active,
             filters' = [filters EXCEPT ![s] = f],
             \/ kept' = [kept EXCEPT ![s] = f] /\ pending' = pending
             \/ kept' = kept /\ pending' = pending \union {s}
      PROVE  Filtered'
  <2>1. /\ DOMAIN filters = Scopes /\ DOMAIN kept = Keys /\ Scopes \subseteq Keys
        /\ f \in StoredFilters /\ SafeRead(s, f) = f
    BY SafeReadIs DEF Filtered, Tabbed, Keys, Scopes
  <2>2. /\ DOMAIN filters' = Scopes /\ filters'[s] = f /\ \A r \in Scopes \ {s} : filters'[r] = filters[r]
        /\ kept'[s] \in {f, kept[s]} /\ \A r \in Scopes \ {s} : kept'[r] = kept[r]
        /\ s \notin pending' => kept'[s] = f
    BY <1>3, <2>1
  <2>3. pending' \subseteq Scopes /\ \A r \in Scopes \ {s} : r \in pending' <=> r \in pending
    BY <1>3 DEF Filtered
  <2> QED BY <1>3, <2>1, <2>2, <2>3 DEF Filtered
<1>4. ASSUME NEW s \in Scopes, BarShown(s) PROVE Mounted(s, active) /\ filters[s] \in FilterSet(s)
  BY <1>4 DEF BarShown, Mounted, Filtered, Scopes
<1>5. ASSUME NEW s \in Scopes, BarShown(s), NEW i \in DOMAIN Chips(s), ToggleLifecycle(s, Chips(s)[i])
      PROVE  Filtered'
  <2> DEFINE f == [filters[s] EXCEPT !.lifecycle = Toggle(Chips(s)[i], filters[s].lifecycle)]
  <2>1. f \in FilterSet(s)
    <3>1. Chips(s)[i] \in ChipSet(s)
      BY DEF ChipSet, Range
    <3> QED BY <1>4, <1>5, <3>1 DEF FilterSet, Toggle
  <2>2. SetChips(s, f)
    BY <1>5 DEF ToggleLifecycle
  <2> HIDE DEF f
  <2> QED BY <1>3, <1>4, <1>5, <2>1, <2>2 DEF SetChips, Edit
<1>6. ASSUME NEW s \in Scopes, BarShown(s), NEW p, ToggleProject(s, p)
      PROVE  Filtered'
  <2> DEFINE f == [filters[s] EXCEPT !.project = Toggle(p, filters[s].project)]
  <2>1. p \in STRING
    BY <1>6, NamesAre DEF ToggleProject, PlanProjectChips, FeatureProjectChips
  <2>2. f \in FilterSet(s)
    BY <1>4, <1>6, <2>1 DEF FilterSet, Toggle
  <2>3. SetChips(s, f)
    BY <1>6 DEF ToggleProject
  <2> HIDE DEF f
  <2> QED BY <1>3, <1>4, <1>6, <2>2, <2>3 DEF SetChips, Edit
<1>7. ASSUME NEW s \in Scopes, BarShown(s), NEW i \in DOMAIN Sorts(s), SetSort(s, Sorts(s)[i])
      PROVE  Filtered'
  <2> DEFINE f == [filters[s] EXCEPT !.sort = Sorts(s)[i]]
  <2>1. f \in FilterSet(s)
    <3>1. Sorts(s)[i] \in SortSet(s)
      BY DEF SortSet, Range
    <3> QED BY <1>4, <1>7, <3>1 DEF FilterSet
  <2>2. SetChips(s, f)
    BY <1>7 DEF SetSort
  <2> HIDE DEF f
  <2> QED BY <1>3, <1>4, <1>7, <2>1, <2>2 DEF SetChips, Edit
<1>8. ASSUME NEW s \in Scopes, BarShown(s), NEW q \in Searches, SetSearch(s, q)
      PROVE  Filtered'
  <2> DEFINE f == [filters[s] EXCEPT !.search = q]
  <2>1. q \in STRING
    BY ShellAssumption, LiteralsAreStrings DEF Searches
  <2>2. f \in FilterSet(s)
    BY <1>4, <1>8, <2>1 DEF FilterSet
  <2>3. /\ filters' = [filters EXCEPT ![s] = f] /\ active' = active
        /\ kept' = kept /\ pending' = pending \union {s}
    BY <1>8 DEF SetSearch, Edit
  <2> HIDE DEF f
  <2> QED BY <1>3, <1>4, <1>8, <2>2, <2>3
<1>9. ASSUME NEW s \in Scopes, WriteSearch(s) PROVE Filtered'
  <2>1. /\ kept' = [kept EXCEPT ![s] = filters[s]] /\ pending' = pending \ {s} /\ s \in pending
        /\ UNCHANGED <<filters, active>>
    BY <1>9 DEF WriteSearch
  <2>2. filters[s] \in FilterSet(s) /\ Mounted(s, active)
    BY <2>1 DEF Filtered
  <2>3. filters[s] \in StoredFilters /\ SafeRead(s, filters[s]) = filters[s]
    BY <2>2, SafeReadIs
  <2>4. kept'[s] = filters[s] /\ \A r \in Scopes \ {s} : kept'[r] = kept[r]
    BY <2>1 DEF Tabbed, Keys, Scopes
  <2> QED BY <2>1, <2>2, <2>3, <2>4 DEF Filtered
<1>10. ASSUME FilterStep PROVE Filtered'
  BY <1>5, <1>6, <1>7, <1>8, <1>9, <1>10 DEF FilterStep
<1>11. ASSUME Reload PROVE Filtered'
  <2>1. /\ filters' = [s \in Scopes |-> IF Mounted(s, active') THEN SafeRead(s, kept[s]) ELSE None]
        /\ pending' = {} /\ \A s \in Scopes : kept'[s] = kept[s]
    BY <1>11 DEF Reload, Booted, Tabbed, Keys, Scopes
  <2> QED BY <2>1, SafeReadIs DEF Filtered
<1>12. ASSUME TabStep PROVE Filtered'
  <2>1. ASSUME NEW i \in DOMAIN tabs, CloseTab(i) PROVE Filtered'
    BY <1>2, <2>1 DEF CloseTab
  <2>2. ASSUME NEW v, HandleViewSelectChange(v) PROVE Filtered'
    BY <1>2, <2>2 DEF HandleViewSelectChange, OpenOrFocusTab
  <2>3. ASSUME NEW p, ClickProject(p) \/ OpenOutput(p) \/ (\E sub \in Subviews : ClickSubview(p, sub)) PROVE Filtered'
    BY <1>2, <2>3 DEF ClickProject, OpenOutput, ClickSubview, OpenOrFocusTab
  <2>4. ASSUME NEW a, SelectRailPlan(a) \/ SelectRailFeature(a) \/ HandleNavigateToPlan(a) PROVE Filtered'
    BY <1>2, <2>4 DEF SelectRailPlan, SelectRailFeature, HandleNavigateToPlan, OpenOrFocusTab
  <2>5. ASSUME NEW t, SetActiveTab(t) PROVE Filtered'
    BY <1>2, <2>5 DEF SetActiveTab
  <2>6. ASSUME ToggleTerminal PROVE Filtered'
    BY <1>1, <2>6 DEF ToggleTerminal
  <2> QED BY <1>11, <1>12, <2>1, <2>2, <2>3, <2>4, <2>5, <2>6 DEF TabStep
<1>13. ASSUME (\E l \in Lists : Poll(l)) \/ (\E d : LoadPlan(d)) \/ UNCHANGED vars PROVE Filtered'
  BY <1>1, <1>13 DEF Poll, LoadPlan, vars
<1> QED BY <1>10, <1>12, <1>13 DEF Next

LEMMA AlwaysFiltered == Spec => []Filtered
<1>1. Init => Filtered
  <2> SUFFICES ASSUME Init PROVE Filtered
    OBVIOUS
  <2>1. PICK st \in Storages :
          /\ active = BootActive(st)
          /\ filters = [s \in Scopes |-> IF Mounted(s, BootActive(st)) THEN SafeRead(s, st[s]) ELSE None]
          /\ kept = [st EXCEPT !.tabs = tabs, !.active = active]
    BY DEF Init, Booted
  <2>2. \A s \in Scopes : kept[s] = st[s] /\ st[s] \in StoredFilters \cup {None}
    BY <2>1, StorageAssumption DEF Scopes
  <2>3. pending = {}
    BY DEF Init
  <2> QED BY <2>1, <2>2, <2>3, SafeReadIs DEF Filtered
<1> QED BY <1>1, AlwaysTabbed, FilteredStep, PTL DEF Spec

(* But for a search that is still to be written, a reload finds the filters *)
(* of every mounted tab as they are, whatever the order of chips, searches,  *)
(* timers, mounts and reloads was, and whatever version of the filters was   *)
(* stored at first: no write leaves an older state behind.                   *)
THEOREM FiltersSurvive == Spec => []FiltersKept
<1>1. Filtered => FiltersKept
  BY DEF Filtered, FiltersKept
<1> QED BY <1>1, AlwaysFiltered, PTL

-----------------------------------------------------------------------------
(* The length of what filter() keeps is the count of its places. *)
LEMMA SelectLen ==
  ASSUME NEW s, NEW W, IsFiniteSet(W)
  PROVE  Len(Select(s, W)) = Cardinality(W)
<1>1. Cardinality(W) \in Nat
  BY FS_CardinalityType
<1>2. DOMAIN Ascending(W) = 1..Cardinality(W)
  BY DEF Ascending
<1> DEFINE c == Cardinality(W)
           E(k) == s[Ascending(W)[k]]
<1>3. Select(s, W) = [k \in 1..c |-> E(k)]
  BY <1>2 DEF Select
<1> HIDE DEF c, E
<1>4. Len([k \in 1..c |-> E(k)]) = c
  BY <1>1 DEF c
<1> QED BY <1>3, <1>4 DEF c

LEMMA DisjointUnion ==
  ASSUME NEW A, NEW B, IsFiniteSet(A), IsFiniteSet(B), A \cap B = {}
  PROVE  IsFiniteSet(A \cup B) /\ Cardinality(A \cup B) = Cardinality(A) + Cardinality(B)
<1>1. Cardinality(A) \in Nat /\ Cardinality(B) \in Nat /\ Cardinality(A \cap B) = 0
  BY FS_CardinalityType, FS_EmptySet
<1>2. /\ IsFiniteSet(A \cup B)
      /\ Cardinality(A \cup B) = Cardinality(A) + Cardinality(B) - Cardinality(A \cap B)
  BY FS_Union
<1> QED BY <1>1, <1>2

(* The places of a list that a set of disjoint conditions shares. *)
LEMMA FourParts ==
  ASSUME NEW A, NEW B, NEW C, NEW D,
         IsFiniteSet(A \cup B \cup C \cup D),
         A \cap B = {}, A \cap C = {}, A \cap D = {}, B \cap C = {}, B \cap D = {}, C \cap D = {}
  PROVE  /\ Cardinality(A \cup B \cup C \cup D)
              = Cardinality(A) + Cardinality(B) + Cardinality(C) + Cardinality(D)
         /\ Cardinality(A) \in Nat /\ Cardinality(B) \in Nat
         /\ Cardinality(C) \in Nat /\ Cardinality(D) \in Nat
<1>1. IsFiniteSet(A) /\ IsFiniteSet(B) /\ IsFiniteSet(C) /\ IsFiniteSet(D)
  BY FS_Subset
<1>2. /\ IsFiniteSet(A \cup B) /\ Cardinality(A \cup B) = Cardinality(A) + Cardinality(B)
      /\ IsFiniteSet(C \cup D) /\ Cardinality(C \cup D) = Cardinality(C) + Cardinality(D)
  BY <1>1, DisjointUnion
<1>3. (A \cup B) \cap (C \cup D) = {} /\ (A \cup B) \cup (C \cup D) = A \cup B \cup C \cup D
  OBVIOUS
<1>4. Cardinality(A \cup B \cup C \cup D) = Cardinality(A \cup B) + Cardinality(C \cup D)
  BY <1>2, <1>3, DisjointUnion
<1>5. /\ Cardinality(A) \in Nat /\ Cardinality(B) \in Nat
      /\ Cardinality(C) \in Nat /\ Cardinality(D) \in Nat
  BY <1>1, FS_CardinalityType
<1> QED BY <1>2, <1>4, <1>5
(* What the screens are made from is what a poll was answered with. *)
LEMMA ListsAre ==
  ASSUME Polled
  PROVE  /\ \A l \in Lists : Data(l, polled) \in Seq(Range(Data(l, polled)))
         /\ \A i \in DOMAIN Features :
              /\ Features[i].lifecycle \in {"none", "inprogress", "pending", "done"}
              /\ Features[i].status \in {"active", "waiting", "stuck", "paused", "done"}
<1>1. \A l \in Lists : polled[l] = 0 \/ polled[l] \in 1..Len(Worlds)
  BY ShellAssumption DEF Polled
<1>2. \A l \in Lists : polled[l] = 0 => Data(l, polled) = <<>>
  BY DEF Data
<1>3. \A l \in Lists : polled[l] \in 1..Len(Worlds) => Data(l, polled) = Worlds[polled[l]][l]
  BY DEF Data
<1>4. ASSUME NEW k \in 1..Len(Worlds)
      PROVE  /\ \A l \in Lists : Worlds[k][l] \in Seq(Range(Worlds[k][l]))
             /\ \A i \in DOMAIN Worlds[k].features :
                  /\ Worlds[k].features[i].lifecycle \in {"none", "inprogress", "pending", "done"}
                  /\ Worlds[k].features[i].status \in {"active", "waiting", "stuck", "paused", "done"}
  <2>1. \A l \in Lists : Worlds[k][l] \in Seq(Range(Worlds[k][l]))
    BY WorldAssumption DEF Lists
  <2>2. \A i \in DOMAIN Worlds[k].features :
                  /\ Worlds[k].features[i].lifecycle \in {"none", "inprogress", "pending", "done"}
                  /\ Worlds[k].features[i].status \in {"active", "waiting", "stuck", "paused", "done"}
    BY WorldAssumption
  <2> QED BY <2>1, <2>2
<1>5. "features" \in Lists
  BY DEF Lists
<1>6. \A l \in Lists : Data(l, polled) \in Seq(Range(Data(l, polled)))
  <2> SUFFICES ASSUME NEW l \in Lists PROVE Data(l, polled) \in Seq(Range(Data(l, polled)))
    OBVIOUS
  <2>1. <<>> \in Seq(Range(<<>>))
    OBVIOUS
  <2> QED BY <1>1, <1>2, <1>3, <1>4, <2>1
<1> QED BY <1>1, <1>2, <1>3, <1>4, <1>5, <1>6 DEF Features

(* The places of a list of plans: by any one condition they are finite, and  *)
(* what is shown is as much as there are of them.                            *)
LEMMA PlacesFinite ==
  ASSUME NEW s, s \in Seq(Range(s)), NEW W \in SUBSET DOMAIN s
  PROVE  IsFiniteSet(W) /\ Len(Select(s, W)) = Cardinality(W)
         /\ Cardinality(DOMAIN s) = Len(s)
<1>1. DOMAIN s = 1..Len(s) /\ Len(s) \in Nat
  BY LenProperties
<1>2. IsFiniteSet(DOMAIN s) /\ Cardinality(DOMAIN s) = Len(s)
  <2> DEFINE n == Len(s)
  <2> HIDE DEF n
  <2>1. IsFiniteSet(1..n) /\ Cardinality(1..n) = IF 1 > n THEN 0 ELSE n - 1 + 1
    BY <1>1, FS_Interval DEF n
  <2>2. Cardinality(1..n) = n
    BY <1>1, <2>1 DEF n
  <2> QED BY <1>1, <2>1, <2>2 DEF n
<1>3. IsFiniteSet(W)
  BY <1>2, FS_Subset
<1> QED BY <1>2, <1>3, SelectLen

LEMMA PlansShared ==
  ASSUME Polled, Filtered
  PROVE  LET p == filters["plan"]
         IN /\ PlansShown(p) = PlansBy("active", p) + PlansBy("open", p)
                               + PlansBy("done", p) + PlansBy("pending", p)
            /\ PlansShown(AllChips("plan")) = Len(Plans)
<1> DEFINE p == filters["plan"]
           W(f) == {i \in DOMAIN Plans : PlanPasses(Plans[i], f)}
           By(c) == IF c \in p.lifecycle THEN W(OnlyChip(p, c)) ELSE {}
<1>1. Plans \in Seq(Range(Plans))
  BY ListsAre DEF Plans, Lists
<1>2. ASSUME NEW f PROVE PlansShown(f) = Cardinality(W(f)) /\ IsFiniteSet(W(f))
  <2>1. PassingPlans(Plans, f) = Select(Plans, W(f))
    BY DEF PassingPlans, Filter
  <2>2. W(f) \in SUBSET DOMAIN Plans
    OBVIOUS
  <2> HIDE DEF W
  <2> QED BY <1>1, <2>1, <2>2, PlacesFinite DEF PlansShown
<1>3. p \in FilterSet("plan")
  BY DEF Filtered, Scopes, Mounted
<1>4. ChipSet("plan") = {"active", "open", "done", "pending"}
  BY DEF ChipSet, Chips, PlanChips, Range
<1>5. \A i \in DOMAIN Plans : ClassifyPlan(Plans[i]) \in {"active", "open", "done", "pending"}
  BY DEF ClassifyPlan
<1>6. ASSUME NEW c PROVE PlansBy(c, p) = Cardinality(By(c))
  <2>1. Cardinality({}) = 0
    BY FS_EmptySet
  <2> HIDE DEF W
  <2> QED BY <1>2, <2>1 DEF PlansBy
<1>7. ASSUME NEW c
      PROVE  OnlyChip(p, c).lifecycle = {c} /\ OnlyChip(p, c).project = p.project
             /\ OnlyChip(p, c).search = p.search
  BY <1>3 DEF OnlyChip, FilterSet
<1>8. \A c : By(c) = {i \in W(p) : ClassifyPlan(Plans[i]) = c}
  BY <1>7 DEF PlanPasses
<1>9. W(p) = By("active") \cup By("open") \cup By("done") \cup By("pending")
  <2> HIDE DEF By, p
  <2> QED BY <1>5, <1>8
<1>10. /\ By("active") \cap By("open") = {} /\ By("active") \cap By("done") = {}
       /\ By("active") \cap By("pending") = {} /\ By("open") \cap By("done") = {}
       /\ By("open") \cap By("pending") = {} /\ By("done") \cap By("pending") = {}
  <2> HIDE DEF By, W
  <2> QED BY <1>8
<1>11. PlansShown(p) = PlansBy("active", p) + PlansBy("open", p)
                       + PlansBy("done", p) + PlansBy("pending", p)
  <2> HIDE DEF By, W, p
  <2> QED BY <1>2, <1>6, <1>9, <1>10, FourParts
<1>12. W(AllChips("plan")) = DOMAIN Plans
  <2>1. /\ AllChips("plan").lifecycle = ChipSet("plan")
        /\ AllChips("plan").project = {} /\ AllChips("plan").search = ""
    BY DEF AllChips, ChipSet, Range, Defaults, PlanDefaults
  <2> QED BY <1>4, <1>5, <2>1 DEF PlanPasses, Matches
<1>13. PlansShown(AllChips("plan")) = Len(Plans)
  <2> HIDE DEF W
  <2> QED BY <1>1, <1>2, <1>12, PlacesFinite
<1> QED BY <1>11, <1>13
LEMMA FeaturesShared ==
  ASSUME Polled, Filtered, active = View("features")
  PROVE  LET f == filters["features"]
         IN /\ FeaturesShown(f) = FeaturesBy("active", f) + FeaturesBy("paused", f)
                                  + FeaturesBy("pending", f) + FeaturesBy("done", f)
            /\ FeaturesShown(AllChips("features")) = Len(Features) - Count(Features, Odd)
<1> DEFINE f == filters["features"]
           Fit(x, g) == /\ Matches(g.search, {x.name, x.project})
                        /\ g.project # {} => x.project \in g.project
           Above(g) == {i \in DOMAIN Features :
                          /\ Fit(Features[i], g)
                          /\ ~IsDoneFeature(Features[i]) /\ LifecycleMatches(Features[i], g.lifecycle)}
           Below(g) == {i \in DOMAIN Features :
                          "done" \in g.lifecycle /\ Fit(Features[i], g) /\ IsDoneFeature(Features[i])}
           By(c) == IF c \in f.lifecycle THEN Above(OnlyChip(f, c)) \cup Below(OnlyChip(f, c)) ELSE {}
<1>1. Features \in Seq(Range(Features))
  BY ListsAre DEF Features, Lists
<1>2. ASSUME NEW g
      PROVE  /\ FeaturesShown(g) = Cardinality(Above(g) \cup Below(g))
             /\ IsFiniteSet(Above(g) \cup Below(g))
  <2>1. Layers(Features, g).inprogress = Select(Features, Above(g))
    BY DEF Layers, Filter
  <2>2. Len(Layers(Features, g).done) = Cardinality(Below(g))
    <3>1. CASE "done" \in g.lifecycle
      <4>1. Layers(Features, g).done = Select(Features, Below(g))
        BY <3>1 DEF Layers, Filter
      <4>2. Below(g) \in SUBSET DOMAIN Features
        OBVIOUS
      <4> HIDE DEF Below
      <4> QED BY <1>1, <4>1, <4>2, PlacesFinite
    <3>2. CASE "done" \notin g.lifecycle
      <4>1. Layers(Features, g).done = <<>> /\ Below(g) = {}
        BY <3>2 DEF Layers
      <4> HIDE DEF Below
      <4> QED BY <4>1, FS_EmptySet
    <3> QED BY <3>1, <3>2
  <2>3. /\ Above(g) \in SUBSET DOMAIN Features /\ Below(g) \in SUBSET DOMAIN Features
        /\ Above(g) \cap Below(g) = {}
    OBVIOUS
  <2> HIDE DEF Above, Below
  <2>4. IsFiniteSet(Above(g)) /\ IsFiniteSet(Below(g)) /\ Len(Select(Features, Above(g))) = Cardinality(Above(g))
    BY <1>1, <2>3, PlacesFinite
  <2> QED BY <2>1, <2>2, <2>3, <2>4, DisjointUnion DEF FeaturesShown
<1>3. f \in FilterSet("features")
  BY DEF Filtered, Scopes, Mounted
<1>4. ChipSet("features") = {"active", "paused", "pending", "done"}
  BY DEF ChipSet, Chips, FeatureChips, Range
<1>5. ASSUME NEW c PROVE FeaturesBy(c, f) = Cardinality(By(c))
  <2>1. Cardinality({}) = 0
    BY FS_EmptySet
  <2> HIDE DEF Above, Below
  <2> QED BY <1>2, <2>1 DEF FeaturesBy
<1>6. ASSUME NEW c
      PROVE  OnlyChip(f, c).lifecycle = {c} /\ OnlyChip(f, c).project = f.project
             /\ OnlyChip(f, c).search = f.search
  BY <1>3 DEF OnlyChip, FilterSet
(* The chip of a feature; one that is odd has none. *)
<1> DEFINE Chip(x) == IF x.lifecycle \in {"done", "pending"} THEN x.lifecycle
                      ELSE IF x.status = "paused" THEN "paused"
                      ELSE IF x.status = "done" THEN "none" ELSE "active"
           Here(g) == {i \in DOMAIN Features : Fit(Features[i], g) /\ Chip(Features[i]) \in g.lifecycle}
<1>7. ASSUME NEW g, g.lifecycle \subseteq ChipSet("features")
      PROVE  Above(g) \cup Below(g) = Here(g)
  <2>1. ASSUME NEW i \in DOMAIN Features
        PROVE  /\ ~IsDoneFeature(Features[i]) /\ LifecycleMatches(Features[i], g.lifecycle)
                    <=> Chip(Features[i]) \in g.lifecycle \ {"done"}
               /\ IsDoneFeature(Features[i]) <=> Chip(Features[i]) = "done"
    <3> DEFINE x == Features[i]
    <3>1. /\ x.lifecycle \in {"none", "inprogress", "pending", "done"}
          /\ x.status \in {"active", "waiting", "stuck", "paused", "done"}
      BY ListsAre
    <3> HIDE DEF x
    <3>2. IsDoneFeature(x) <=> Chip(x) = "done"
      BY <3>1 DEF IsDoneFeature
    <3>3. ASSUME x.lifecycle # "done"
          PROVE  LifecycleMatches(x, g.lifecycle) <=> Chip(x) \in g.lifecycle
      <4>1. "none" \notin g.lifecycle
        BY <1>4, <1>7
      <4> QED BY <3>1, <3>3, <4>1 DEF LifecycleMatches, Lifecycle
    <3> QED BY <3>2, <3>3 DEF x, IsDoneFeature
  <2> HIDE DEF Chip, Fit
  <2> QED BY <2>1
<1>8. ASSUME NEW c \in ChipSet("features")
      PROVE  By(c) = {i \in Here(f) : Chip(Features[i]) = c}
  <2>1. Above(OnlyChip(f, c)) \cup Below(OnlyChip(f, c)) = Here(OnlyChip(f, c))
    <3> HIDE DEF Above, Below, Here
    <3> QED BY <1>6, <1>7
  <2> HIDE DEF Chip, Above, Below
  <2> QED BY <1>6, <2>1
<1>9. Above(f) \cup Below(f) = Here(f)
  <2> HIDE DEF Above, Below, Here
  <2> QED BY <1>3, <1>7 DEF FilterSet
<1>10. Here(f) = By("active") \cup By("paused") \cup By("pending") \cup By("done")
  <2>1. \A i \in Here(f) : Chip(Features[i]) \in {"active", "paused", "pending", "done"}
    <3> HIDE DEF f, Chip, Fit
    <3> QED BY <1>3, <1>4 DEF FilterSet, f
  <2> HIDE DEF By, Here, Chip
  <2> QED BY <1>4, <1>8, <2>1
<1>11. /\ By("active") \cap By("paused") = {} /\ By("active") \cap By("pending") = {}
       /\ By("active") \cap By("done") = {} /\ By("paused") \cap By("pending") = {}
       /\ By("paused") \cap By("done") = {} /\ By("pending") \cap By("done") = {}
  <2> HIDE DEF By, Here, Chip
  <2> QED BY <1>4, <1>8
<1>12. FeaturesShown(f) = FeaturesBy("active", f) + FeaturesBy("paused", f)
                          + FeaturesBy("pending", f) + FeaturesBy("done", f)
  <2> HIDE DEF By, Above, Below, Here, f
  <2> QED BY <1>2, <1>5, <1>9, <1>10, <1>11, FourParts
<1>13. FeaturesShown(AllChips("features")) = Len(Features) - Count(Features, Odd)
  <2> DEFINE all == AllChips("features")
             odd == {i \in DOMAIN Features : Odd(Features[i])}
  <2>1. all.lifecycle = ChipSet("features") /\ all.project = {} /\ all.search = ""
    BY DEF AllChips, ChipSet, Range, Defaults, FeatureDefaults
  <2>2. \A i \in DOMAIN Features : Chip(Features[i]) \in all.lifecycle <=> ~Odd(Features[i])
    <3> SUFFICES ASSUME NEW i \in DOMAIN Features
                 PROVE  Chip(Features[i]) \in all.lifecycle <=> ~Odd(Features[i])
      OBVIOUS
    <3> DEFINE x == Features[i]
    <3>1. /\ x.lifecycle \in {"none", "inprogress", "pending", "done"}
          /\ x.status \in {"active", "waiting", "stuck", "paused", "done"}
      BY ListsAre
    <3> HIDE DEF x, all
    <3>2. Chip(x) \in {"active", "paused", "pending", "done"} <=> ~Odd(x)
      BY <3>1 DEF Odd, Lifecycle
    <3> QED BY <1>4, <2>1, <3>2 DEF x
  <2>3. \A i \in DOMAIN Features : Fit(Features[i], all)
    BY <2>1 DEF Matches
  <2>4. Here(all) = DOMAIN Features \ odd
    <3> HIDE DEF all, Chip, Fit
    <3> QED BY <2>2, <2>3
  <2>5. Above(all) \cup Below(all) = Here(all)
    <3> HIDE DEF Above, Below, Here, all
    <3> QED BY <1>7, <2>1
  <2>6. odd \in SUBSET DOMAIN Features /\ Count(Features, Odd) = Cardinality(odd)
    BY DEF Count
  <2> HIDE DEF Above, Below, Here, all, odd
  <2>7. /\ IsFiniteSet(odd) /\ IsFiniteSet(DOMAIN Features \ odd)
        /\ Cardinality(DOMAIN Features) = Len(Features)
    <3>1. DOMAIN Features \ odd \in SUBSET DOMAIN Features
      OBVIOUS
    <3> QED BY <1>1, <2>6, <3>1, PlacesFinite
  <2>8. Cardinality(odd \cup (DOMAIN Features \ odd)) = Cardinality(odd) + Cardinality(DOMAIN Features \ odd)
    <3>1. odd \cap (DOMAIN Features \ odd) = {}
      OBVIOUS
    <3> QED BY <2>7, <3>1, DisjointUnion
  <2>9. odd \cup (DOMAIN Features \ odd) = DOMAIN Features
    BY <2>6
  <2>10. /\ FeaturesShown(all) = Cardinality(DOMAIN Features \ odd)
         /\ Cardinality(odd) \in Nat /\ Cardinality(DOMAIN Features \ odd) \in Nat
    BY <1>2, <2>4, <2>5, <2>7, FS_CardinalityType
  <2> QED BY <2>6, <2>7, <2>8, <2>9, <2>10 DEF all
<1> QED BY <1>12, <1>13
-----------------------------------------------------------------------------
LEMMA RowOf ==
  ASSUME NEW p, NEW file, NEW fs
  PROVE  PlanRow(p, file, fs).pill.status = "completed" <=> ~PlanRow(p, file, fs).controls
BY DEF PlanRow, StatusPill

LEMMA PanelRow ==
  ASSUME NEW p, NEW l, NEW fs, ProjectPanel(p, l, fs).kind = "row"
  PROVE  ProjectPanel(p, l, fs).row = PlanRow(p, p.file[1], fs)
<1>1. p.dir \in l /\ p.file # <<>>
  BY DEF ProjectPanel
<1> QED BY <1>1 DEF ProjectPanel

LEMMA DoneLeft == DoneIsLeft
<1>1. ASSUME active = View("plan"), Main.kind = "list", NEW i \in DOMAIN Main.panels,
             Main.panels[i].kind = "row", Main.panels[i].row.pill.status = "completed"
      PROVE  ~Main.panels[i].row.controls
  <2> DEFINE shown == ShownPlans(Plans, filters["plan"])
  <2>1. Main = PlansView
    BY <1>1 DEF Main, View
  <2>2. /\ Main.panels = [j \in DOMAIN shown |-> ProjectPanel(shown[j], loaded, Features)]
    BY <1>1, <2>1 DEF PlansView
  <2>3. Main.panels[i] = ProjectPanel(shown[i], loaded, Features)
    BY <1>1, <2>2
  <2> HIDE DEF shown
  <2>4. Main.panels[i].row = PlanRow(shown[i], shown[i].file[1], Features)
    BY <1>1, <2>3, PanelRow
  <2> QED BY <1>1, <2>4, RowOf
<1>2. ASSUME TerminalShown PROVE Main.header.pill.status # "completed"
  <2> DEFINE m == ProjectScreen(active[2], active[3], polled, loaded)
             p == FindPlan(active[2], polled)[1]
  <2>1. /\ active[1] = "project" /\ active[3] \in Subviews /\ m.kind \in Subviews \ {"vision"}
        /\ m.header.controls
    BY <1>2 DEF TerminalShown, HeaderPlace
  <2>2. Main = m
    BY <2>1 DEF Main, View
  <2>3. m.header = PlanRow(p, p.file[1], Features)
    BY <2>1 DEF ProjectScreen, Subviews
  <2> HIDE DEF m, p
  <2> QED BY <2>1, <2>2, <2>3, RowOf
<1> QED BY <1>1, <1>2 DEF DoneIsLeft

-----------------------------------------------------------------------------
(* A week draws each of the n features shipped on one day. *)
LEMMA WeekAddsUp ==
  ASSUME NEW n \in Nat
  PROVE  LET On(d) == Cardinality({i \in 1..n : (2 * (i - 1)) % 7 = d})
         IN On(0) + On(1) + On(2) + On(3) + On(4) + On(5) + On(6) = n
<1> DEFINE D(d) == {i \in 1..n : (2 * (i - 1)) % 7 = d}
<1>1. IsFiniteSet(1..n) /\ Cardinality(1..n) = n
  <2>1. IsFiniteSet(1..n) /\ Cardinality(1..n) = IF 1 > n THEN 0 ELSE n - 1 + 1
    BY FS_Interval
  <2> QED BY <2>1
<1>2. 1..n = (D(0) \cup D(1) \cup D(2) \cup D(3)) \cup (D(4) \cup D(5) \cup D(6) \cup {})
  <2>1. \A i \in 1..n : (2 * (i - 1)) % 7 \in 0..6
    OBVIOUS
  <2> QED BY <2>1
<1>3. \A d, e : d # e => D(d) \cap D(e) = {}
  OBVIOUS
<1> HIDE DEF D
<1> DEFINE A == D(0) \cup D(1) \cup D(2) \cup D(3)
           B == D(4) \cup D(5) \cup D(6) \cup {}
<1>4. A \cap B = {}
  BY <1>3
<1>5. IsFiniteSet(A) /\ IsFiniteSet(B)
  <2>1. A \in SUBSET (1..n) /\ B \in SUBSET (1..n)
    BY <1>2
  <2> HIDE DEF A, B
  <2> QED BY <1>1, <2>1, FS_Subset
<1>6. Cardinality(A \cup B) = Cardinality(A) + Cardinality(B)
  <2> HIDE DEF A, B
  <2> QED BY <1>4, <1>5, DisjointUnion
<1>7. /\ Cardinality(A) = Cardinality(D(0)) + Cardinality(D(1)) + Cardinality(D(2)) + Cardinality(D(3))
      /\ Cardinality(D(0)) \in Nat /\ Cardinality(D(1)) \in Nat
      /\ Cardinality(D(2)) \in Nat /\ Cardinality(D(3)) \in Nat
  <2> DEFINE p == D(0)
             q == D(1)
             r == D(2)
             t == D(3)
  <2>1. /\ p \cap q = {} /\ p \cap r = {} /\ p \cap t = {}
        /\ q \cap r = {} /\ q \cap t = {} /\ r \cap t = {}
    BY <1>3
  <2>2. A = p \cup q \cup r \cup t
    OBVIOUS
  <2> HIDE DEF p, q, r, t, A
  <2>3. IsFiniteSet(p \cup q \cup r \cup t)
    BY <1>5, <2>2
  <2>4. /\ Cardinality(p \cup q \cup r \cup t)
             = Cardinality(p) + Cardinality(q) + Cardinality(r) + Cardinality(t)
        /\ Cardinality(p) \in Nat /\ Cardinality(q) \in Nat
        /\ Cardinality(r) \in Nat /\ Cardinality(t) \in Nat
    BY <2>1, <2>3, FourParts
  <2> QED BY <2>2, <2>4 DEF p, q, r, t
<1>8. /\ Cardinality(B) = Cardinality(D(4)) + Cardinality(D(5)) + Cardinality(D(6)) + Cardinality({})
      /\ Cardinality(D(4)) \in Nat /\ Cardinality(D(5)) \in Nat
      /\ Cardinality(D(6)) \in Nat /\ Cardinality({}) \in Nat
  <2> DEFINE p == D(4)
             q == D(5)
             r == D(6)
             t == {}
  <2>1. /\ p \cap q = {} /\ p \cap r = {} /\ p \cap t = {}
        /\ q \cap r = {} /\ q \cap t = {} /\ r \cap t = {}
    BY <1>3
  <2>2. B = p \cup q \cup r \cup t
    OBVIOUS
  <2> HIDE DEF p, q, r, t, B
  <2>3. IsFiniteSet(p \cup q \cup r \cup t)
    BY <1>5, <2>2
  <2>4. /\ Cardinality(p \cup q \cup r \cup t)
             = Cardinality(p) + Cardinality(q) + Cardinality(r) + Cardinality(t)
        /\ Cardinality(p) \in Nat /\ Cardinality(q) \in Nat
        /\ Cardinality(r) \in Nat /\ Cardinality(t) \in Nat
    BY <2>1, <2>3, FourParts
  <2> QED BY <2>2, <2>4 DEF p, q, r, t
<1>9. Cardinality({}) = 0
  BY FS_EmptySet
<1>10. Cardinality(A \cup B) = n
  BY <1>1, <1>2
<1> HIDE DEF A, B
<1>11. Cardinality(D(0)) + Cardinality(D(1)) + Cardinality(D(2)) + Cardinality(D(3))
        + Cardinality(D(4)) + Cardinality(D(5)) + Cardinality(D(6)) = n
  BY <1>6, <1>7, <1>8, <1>9, <1>10
<1> QED BY <1>11 DEF D
LEMMA CountsDo ==
  ASSUME Polled
  PROVE  CountsAgree
<1> DEFINE o == Overview(Plans, Features, Sessions)
           St(S) == {i \in DOMAIN Features : Features[i].status \in S}
           run == St({"active"})
           wait == St({"waiting"})
           stop == St({"stuck", "paused"})
           ship == St({"done"})
           n == Cardinality(ship)
           On(d) == Cardinality({i \in 1..n : (2 * (i - 1)) % 7 = d})
<1>1. Features \in Seq(Range(Features))
  BY ListsAre DEF Features, Lists
<1>2. ASSUME o.kind = "overview"
      PROVE  /\ o.tiles = CountFeaturesByStatus(Features)
             /\ o.stats = ComputeFleetStats(Features, Sessions)
             /\ o.header # <<>> => o.header[1] = Count(Features, ActiveFeature)
  <2>1. ~(Plans \o Sessions \o Features = <<>>)
    BY <1>2 DEF Overview
  <2> QED BY <2>1 DEF Overview, Summarize
<1>3. LET tiles == CountFeaturesByStatus(Features)
      IN /\ tiles.running = Cardinality(run) /\ tiles.awaiting = Cardinality(wait)
         /\ tiles.blocked = Cardinality(stop) /\ tiles.shipped = Cardinality(ship)
  BY DEF CountFeaturesByStatus, Count
<1>4. ComputeFleetStats(Features, Sessions).week = [d \in 0..6 |-> On(d)]
  <2>1. CountFeaturesByStatus(Features).shipped = n
    BY <1>3
  <2> HIDE DEF n
  <2> QED BY <2>1 DEF ComputeFleetStats
<1>5. /\ run \cap wait = {} /\ run \cap stop = {} /\ run \cap ship = {}
      /\ wait \cap stop = {} /\ wait \cap ship = {} /\ stop \cap ship = {}
  OBVIOUS
<1>6. run \cup wait \cup stop \cup ship = DOMAIN Features
  BY ListsAre
<1>7. /\ run \cup wait = {i \in DOMAIN Features : ActiveFeature(Features[i])}
      /\ run \cup wait \in SUBSET DOMAIN Features
  BY DEF ActiveFeature
<1> HIDE DEF run, wait, stop, ship
<1>8. /\ Cardinality(run) + Cardinality(wait) + Cardinality(stop) + Cardinality(ship) = Len(Features)
      /\ n \in Nat /\ IsFiniteSet(run) /\ IsFiniteSet(wait)
  <2>1. IsFiniteSet(DOMAIN Features) /\ Cardinality(DOMAIN Features) = Len(Features)
    BY <1>1, PlacesFinite
  <2>2. IsFiniteSet(run) /\ IsFiniteSet(wait)
    BY <1>6, <2>1, FS_Subset
  <2>3. IsFiniteSet(run \cup wait \cup stop \cup ship)
    BY <1>6, <2>1
  <2>4. Cardinality(run \cup wait \cup stop \cup ship)
          = Cardinality(run) + Cardinality(wait) + Cardinality(stop) + Cardinality(ship)
    BY <1>5, <2>3, FourParts
  <2>5. n \in Nat
    BY <2>3, FS_Subset, FS_CardinalityType
  <2> QED BY <1>6, <2>1, <2>2, <2>4, <2>5
<1>9. /\ Count(Features, ActiveFeature) = Cardinality(run) + Cardinality(wait)
      /\ Len(Rail(Features, Sessions, Autopilots).features) = Cardinality(run) + Cardinality(wait)
  <2> DEFINE f == Filter(Features, ActiveFeature)
             Row(k) == [title |-> f[k].name, dot |-> ToneToWfStatus(ToneFeature(f[k].status))]
  <2>1. Cardinality(run \cup wait) = Cardinality(run) + Cardinality(wait)
    BY <1>5, <1>8, DisjointUnion
  <2>2. Count(Features, ActiveFeature) = Cardinality(run \cup wait)
    BY <1>7 DEF Count
  <2>3. f = Select(Features, run \cup wait)
    BY <1>7 DEF Filter
  <2>4. IsFiniteSet(run \cup wait) /\ Len(Select(Features, run \cup wait)) = Cardinality(run \cup wait)
    BY <1>1, <1>7, PlacesFinite
  <2>5. DOMAIN f = 1..Cardinality(run \cup wait)
    BY <2>3 DEF Select, Ascending
  <2>6. Rail(Features, Sessions, Autopilots).features = [k \in DOMAIN f |-> Row(k)]
    BY DEF Rail
  <2>7. Cardinality(run \cup wait) \in Nat
    BY <2>4, FS_CardinalityType
  <2> HIDE DEF f, Row
  <2> DEFINE c == Cardinality(run \cup wait)
  <2>8. Rail(Features, Sessions, Autopilots).features = [k \in 1..c |-> Row(k)]
    BY <2>5, <2>6
  <2>9. c \in Nat
    BY <2>7
  <2> HIDE DEF c
  <2>10. Len([k \in 1..c |-> Row(k)]) = c
    BY <2>9
  <2> QED BY <2>1, <2>2, <2>8, <2>10 DEF c
<1>10. On(0) + On(1) + On(2) + On(3) + On(4) + On(5) + On(6) = n
  <2>1. n \in Nat
    BY <1>8
  <2> HIDE DEF n
  <2> QED BY <2>1, WeekAddsUp
<1>11. ASSUME o.kind = "overview"
       PROVE  LET w == o.stats.week
              IN w[0] + w[1] + w[2] + w[3] + w[4] + w[5] + w[6] = n
  <2>1. o.stats.week = [d \in 0..6 |-> On(d)]
    BY <1>2, <1>4, <1>11
  <2> HIDE DEF n, On, o
  <2> QED BY <1>10, <2>1
<1> HIDE DEF n, On
<1>12. CountsAgree <=> (active = View("overview") /\ o.kind = "overview" =>
       /\ o.tiles.running + o.tiles.awaiting + o.tiles.blocked + o.tiles.shipped = Len(Features)
       /\ o.header # <<>> => o.header[1] = o.tiles.running + o.tiles.awaiting
       /\ Len(Rail(Features, Sessions, Autopilots).features) = o.tiles.running + o.tiles.awaiting
       /\ LET w == o.stats.week
          IN w[0] + w[1] + w[2] + w[3] + w[4] + w[5] + w[6] = o.tiles.shipped)
  BY DEF CountsAgree
<1> HIDE DEF o
<1> QED BY <1>2, <1>3, <1>8, <1>9, <1>11, <1>12 DEF n

(* Whatever the server answers and whatever is on: of several chips each     *)
(* shows what it would alone, and with all on only a feature that is done    *)
(* and still in progress is not shown; the tiles, the header, the rail and   *)
(* the week count the same features; and what reads done has no controls.    *)
THEOREM ScreenAlwaysSound == Spec => []ScreenSound
<1>1. Polled /\ Filtered => ScreenSound
  BY PlansShared, FeaturesShared, CountsDo, DoneLeft DEF ScreenSound, ChipsShare
<1> QED BY <1>1, AlwaysTabbed, AlwaysFiltered, PTL
=============================================================================
