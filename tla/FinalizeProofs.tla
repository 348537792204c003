--------------------------- MODULE FinalizeProofs ---------------------------
(***************************************************************************)
(* Theorems about Finalize, for any tasks, edits, kinds of plan and depth  *)
(* of the stash.                                                           *)
(***************************************************************************)
EXTENDS Finalize, TLAPS

Entries == SUBSET Changes

(* What the merge step's status says about the place of the script, and     *)
(* about the task that finalizes.                                           *)
Control ==
  /\ pc \in {"plan", "main", "commit"} => merge \in {"none", "skip"}
  /\ pc \in {"stash", "pull", "rebase", "merge", "abort"} => merge = "none"
  /\ pc = "unstash" => merge = "fail"
  /\ pc \in {"pop", "mark", "write", "record", "push", "repull", "repush"} => merge = "ok"
  /\ pc = "cleanup" => merge \in {"skip", "ok"}
  /\ pc \in {"plan", "main", "commit", "stash"} => Len(stash) < world.room

(* A branch that is gone, has nothing main has not, or is past its merge    *)
(* step has its work on main; one that is not is still there.               *)
Work ==
  /\ Tasks \ kept \subseteq main
  /\ Tasks \ extra \subseteq main
  /\ cur \in Tasks => report = NoReport
  /\ cur \in Tasks /\ merge \in {"skip", "ok"} => cur \in main
  /\ cur \in Tasks /\ merge \in {"none", "fail"} => cur \in kept

Inv == TypeOK /\ Control /\ Work

-----------------------------------------------------------------------------
(* Taking the newest entry of the stash. *)
LEMMA PopLemma ==
  ASSUME stash \in Seq(Entries), stash # <<>>
  PROVE  /\ Head(stash) \in Entries
         /\ Tail(stash) \in Seq(Entries)
         /\ Len(Tail(stash)) = Len(stash) - 1
         /\ Len(stash) \in Nat
  OBVIOUS

(* Adding one. *)
LEMMA PushLemma ==
  ASSUME stash \in Seq(Entries), NEW e \in Entries
  PROVE  /\ <<e>> \o stash \in Seq(Entries)
         /\ Len(<<e>> \o stash) = Len(stash) + 1
         /\ Len(stash) \in Nat
  OBVIOUS

(* What is in some entry of a stash. *)
Stashed(s) == UNION {s[i] : i \in 1 .. Len(s)}

LEMMA StashedPush ==
  ASSUME NEW s \in Seq(Entries), NEW e \in Entries
  PROVE  Stashed(<<e>> \o s) = e \cup Stashed(s)
<1> DEFINE p == <<e>> \o s
<1>1. /\ Len(s) \in Nat /\ Len(p) = Len(s) + 1 /\ p[1] = e
      /\ \A i \in 1 .. Len(s) : p[i + 1] = s[i]
  OBVIOUS
<1>2. ASSUME NEW x \in Stashed(p)
      PROVE  x \in e \cup Stashed(s)
  <2>1. PICK i \in 1 .. Len(p) : x \in p[i]
    BY DEF Stashed
  <2>2. CASE i = 1
    BY <1>1, <2>1, <2>2
  <2>3. CASE i # 1
    <3>1. i - 1 \in 1 .. Len(s) /\ p[i] = s[i - 1]
      BY <1>1, <2>3
    <3> QED
      BY <2>1, <3>1 DEF Stashed
  <2> QED
    BY <2>2, <2>3
<1>3. ASSUME NEW x \in Stashed(s)
      PROVE  x \in Stashed(p)
  <2>1. PICK i \in 1 .. Len(s) : x \in s[i]
    BY DEF Stashed
  <2>2. i + 1 \in 1 .. Len(p) /\ p[i + 1] = s[i]
    BY <1>1
  <2> QED
    BY <2>1, <2>2 DEF Stashed
<1>4. e \subseteq Stashed(p)
  <2>1. 1 \in 1 .. Len(p)
    BY <1>1
  <2> QED
    BY <1>1, <2>1 DEF Stashed
<1> QED
  BY <1>2, <1>3, <1>4

LEMMA StashedPop ==
  ASSUME NEW s \in Seq(Entries), s # <<>>
  PROVE  Stashed(s) = Head(s) \cup Stashed(Tail(s))
<1>1. Head(s) \in Entries /\ Tail(s) \in Seq(Entries)
  OBVIOUS
<1>2. s = <<Head(s)>> \o Tail(s)
  OBVIOUS
<1> QED
  BY <1>1, <1>2, StashedPush

-----------------------------------------------------------------------------
LEMMA Apart == \A e \in Edits, i \in Items, b \in BOOLEAN : e # <<i, b>>
BY FinalizeAssumption DEF Items

LEMMA PlanIs ==
  /\ Plan \subseteq Items
  /\ Plan' = {i \in Items : IF i \in done' THEN <<i, FALSE>> \notin tree' ELSE <<i, TRUE>> \in tree'}
BY DEF Plan

LEMMA DiffIs ==
  ASSUME NEW content \in SUBSET Items, done \subseteq Items
  PROVE  /\ Diff(content) \subseteq Items \X BOOLEAN
         /\ \A e \in Edits : e \notin Diff(content)
         /\ \A i \in Items : <<i, TRUE>> \in Diff(content) <=> i \in content \ done
         /\ \A i \in Items : <<i, FALSE>> \in Diff(content) <=> i \in done \ content
<1>1. \A i \in Items : <<i, TRUE>> \in Items \X BOOLEAN /\ <<i, FALSE>> \in Items \X BOOLEAN
  OBVIOUS
<1>2. \A x \in Diff(content) : \E i \in Items : x = <<i, TRUE>> \/ x = <<i, FALSE>>
  BY DEF Diff
<1>3. Diff(content) \subseteq Items \X BOOLEAN
  BY <1>1, <1>2
<1>4. \A e \in Edits : e \notin Diff(content)
  BY <1>2, Apart
<1> QED BY <1>3, <1>4 DEF Diff

(* What is written is what is then read. *)
LEMMA WrittenIsRead ==
  ASSUME NEW content \in SUBSET Items, done \subseteq Items, WritePlan(content), UNCHANGED done
  PROVE  /\ Plan' = content
         /\ tree' \cap Edits = tree \cap Edits
         /\ \A i \in Items : <<i, TRUE>> \in tree' => i \in content
         /\ tree' \subseteq Edits \cup (Items \X BOOLEAN)
<1>1. tree' = (tree \cap Edits) \cup Diff(content) /\ done' = done
  BY DEF WritePlan
<1>2. \A i \in Items :
        /\ <<i, TRUE>> \in tree' <=> i \in content \ done
        /\ <<i, FALSE>> \in tree' <=> i \in done \ content
  BY <1>1, DiffIs, Apart
<1>3. Plan' = content
  BY <1>1, <1>2, PlanIs
<1>4. \A i \in Items : <<i, TRUE>> \in tree' => i \in content
  BY <1>2
<1>5. tree' \cap Edits = tree \cap Edits
  BY <1>1, DiffIs
<1>6. tree' \subseteq Edits \cup (Items \X BOOLEAN)
  BY <1>1, DiffIs
<1> QED BY <1>3, <1>4, <1>5, <1>6

(* A commit does not change what is read. *)
LEMMA CommittedIsRead ==
  ASSUME CommitsPlan
  PROVE  /\ Plan' = Plan /\ done' = Plan
         /\ tree' \cap Edits = tree \cap Edits
         /\ \A i \in Items, b \in BOOLEAN : <<i, b>> \notin tree'
         /\ tree' \subseteq Edits
BY Apart, PlanIs DEF CommitsPlan

(* What a pop brings in comes from the tree or from the entry. *)
LEMMA PoppedTree ==
  ASSUME NEW entry \in Entries, tree \in Entries, done \subseteq Items,
         tree' = ((tree \cup entry) \cap Edits) \cup Diff(With(Plan, entry))
  PROVE  /\ tree' \in Entries
         /\ tree' \cap Edits = (tree \cup entry) \cap Edits
         /\ \A i \in Items : <<i, TRUE>> \in tree' => <<i, TRUE>> \in tree \cup entry
<1>1. With(Plan, entry) \in SUBSET Items
  BY DEF With
<1>2. \A e \in Edits : e \notin Diff(With(Plan, entry))
  BY <1>1, DiffIs
<1>3. ASSUME NEW i \in Items, <<i, TRUE>> \in tree'
      PROVE  <<i, TRUE>> \in tree \cup entry
  <2>1. i \in With(Plan, entry) /\ i \notin done
    BY <1>1, <1>3, DiffIs, Apart
  <2>2. i \in Plan \/ <<i, TRUE>> \in entry
    BY <2>1 DEF With
  <2> QED BY <2>1, <2>2 DEF Plan
<1>4. tree' \in Entries
  BY <1>1, DiffIs DEF Entries, Changes
<1> QED BY <1>2, <1>3, <1>4

-----------------------------------------------------------------------------
LEMMA InitInv == Init => Inv
<1> SUFFICES ASSUME Init PROVE Inv
  OBVIOUS
<1>1. stash \in Seq(SUBSET Changes) /\ Len(stash) = 0
  BY DEF Init
<1>2. world \in Worlds /\ world.room \in Nat \ {0}
  BY FinalizeAssumption DEF Init, World
<1>3. /\ main \subseteq Tasks /\ extra \subseteq Tasks /\ kept \subseteq Tasks
      /\ origin \subseteq main
      /\ report \in (Tasks \cup {NoTask}) \X {"none", "success", "blocked", "failed"}
  BY DEF Init, NoReport
<1>4. Len(stash) <= world.room
  BY <1>1, <1>2
<1>5. cur = NoTask /\ pc = "idle" /\ NoTask \notin Tasks
  BY FinalizeAssumption DEF Init
<1>6. TypeOK
  BY <1>1, <1>2, <1>3, <1>4, <1>5 DEF Init, TypeOK, Places
<1> QED
  BY <1>5, <1>6 DEF Init, Inv, Control, Work

LEMMA PopTypes ==
  ASSUME TypeOK, PopRestores
  PROVE  /\ tree' \in Entries /\ stash' \in Seq(Entries) /\ Len(stash') <= world.room
         /\ tree' \cap Edits = (tree \cup Head(stash)) \cap Edits
         /\ \A i \in Items : <<i, TRUE>> \in tree' => <<i, TRUE>> \in tree \cup Head(stash)
<1>1. stash \in Seq(Entries) /\ stash # <<>> /\ tree \in Entries
  BY DEF Entries, PopRestores, TypeOK
<1>2. /\ Head(stash) \in Entries /\ Tail(stash) \in Seq(Entries)
      /\ Len(Tail(stash)) = Len(stash) - 1 /\ Len(stash) \in Nat
  BY <1>1, PopLemma
<1>3. stash' = Tail(stash) /\ world.room \in Nat /\ Len(stash) <= world.room
  BY FinalizeAssumption DEF PopRestores, TypeOK, World
<1>5. done \subseteq Items
  BY DEF TypeOK
<1>4. tree' = ((tree \cup Head(stash)) \cap Edits) \cup Diff(With(Plan, Head(stash)))
  BY DEF PopRestores
<1>6. Len(stash') <= world.room /\ stash' \in Seq(Entries)
  BY <1>2, <1>3
<1> QED
  BY <1>1, <1>2, <1>4, <1>5, <1>6, PoppedTree

LEMMA NextInv == Inv /\ [Next]_vars => Inv'
<1> SUFFICES ASSUME Inv, [Next]_vars PROVE Inv'
  OBVIOUS
<1>w. world.room \in Nat /\ Tasks \subseteq Items /\ NoTask \notin Tasks
  BY FinalizeAssumption DEF Inv, TypeOK, World, Items
<1>r. /\ NoReport \in (Tasks \cup {NoTask}) \X {"none", "success", "blocked", "failed"}
      /\ \A x \in Tasks, y \in {"none", "success", "blocked", "failed"} :
           <<x, y>> \in (Tasks \cup {NoTask}) \X {"none", "success", "blocked", "failed"}
  BY DEF NoReport
<1> USE <1>w DEF Inv, TypeOK, Control, Work, Places, At, Go, checkout, branches, control, copies
<1>1. ASSUME NEW t \in Tasks, Begin(t) PROVE Inv'
  BY <1>1, <1>r DEF Begin
<1>2. ASSUME NEW t \in Tasks, NothingLeft(t) PROVE Inv'
  BY <1>2, <1>r DEF NothingLeft
<1>3. CASE MarkPlan
  <2>1. Plan \cup {cur} \in SUBSET Items
    BY <1>3, PlanIs DEF MarkPlan
  <2> QED
    BY <1>3, <2>1 DEF MarkPlan
<1>4. CASE CommitBranch
  BY <1>4 DEF CommitBranch
<1>5. CASE CommitFails
  BY <1>5 DEF CommitFails
<1>6. CASE PullMain
  BY <1>6 DEF PullMain
<1>7. CASE Rebase
  BY <1>7 DEF Rebase
<1>8. CASE MergeOk
  <2>1. done' \subseteq Items /\ main' \subseteq Tasks /\ origin' \subseteq main'
    BY <1>8 DEF MergeOk
  <2>2. pc' \in {"pop", "mark"} /\ cur' = cur /\ cur \in Tasks
    BY <1>8 DEF MergeOk
  <2> QED
    BY <1>8, <2>1, <2>2 DEF MergeOk
<1>9. CASE MergeFails
  BY <1>9 DEF MergeFails
<1>10. CASE AbortMerge
  BY <1>10 DEF AbortMerge
<1>11. CASE PopAfterMergeFails
  BY <1>11 DEF PopAfterMergeFails, EndAs, Gone, PopFails
<1>12. CASE ReadPlan
  <2>1. Plan \cup {cur} \in SUBSET Items
    BY <1>12, PlanIs DEF ReadPlan
  <2> QED
    BY <1>12, <2>1 DEF ReadPlan
<1>13. CASE RecordRefused
  BY <1>13 DEF RecordRefused, EndAs, Gone, Changes
<1>14. CASE Push
  BY <1>14 DEF Push
<1>15. CASE PushFails
  BY <1>15 DEF PushFails
<1>16. CASE PullRebase
  BY <1>16 DEF PullRebase
<1>17. CASE Cleanup
  BY <1>17 DEF Cleanup
<1>18. CASE Report
  <2>1. report' \in (Tasks \cup {NoTask}) \X {"none", "success", "blocked", "failed"}
    BY <1>18, <1>r DEF Report, EndAs, ReadResult
  <2> QED
    BY <1>18, <2>1 DEF Report, EndAs, Gone
<1>19. CASE Kill
  BY <1>19 DEF Kill, Gone
<1>20. CASE CommitPlan
  <2>1. done' \subseteq Items /\ tree' \subseteq Changes
    BY <1>20, CommittedIsRead, PlanIs DEF CommitPlan, Changes
  <2> QED
    BY <1>20, <2>1 DEF CommitPlan
<1>21. CASE StashEdits
  <2>1. CASE tree' = {} /\ stash' = <<tree>> \o stash
    <3>1. tree \in Entries /\ stash \in Seq(Entries)
      BY DEF Entries
    <3>2. stash' = <<tree>> \o stash /\ tree' = {}
      BY <2>1
    <3>3. stash' \in Seq(Entries) /\ Len(stash') <= world.room
      BY <1>21, <3>1, <3>2, PushLemma DEF StashEdits
    <3> QED
      BY <1>21, <3>2, <3>3 DEF StashEdits, Entries
  <2>2. CASE UNCHANGED <<tree, stash>>
    BY <1>21, <2>2 DEF StashEdits
  <2> QED
    BY <1>21, <2>1, <2>2 DEF StashEdits
<1>22. CASE Unstash
  <2>1. CASE PopRestores
    <3>2. tree' \in Entries /\ stash' \in Seq(Entries) /\ Len(stash') <= world.room
      BY <2>1, PopTypes
    <3> QED
      BY <1>22, <2>1, <3>2 DEF Unstash, PopRestores, Entries
  <2>2. CASE PopFails
    BY <1>22, <2>2 DEF Unstash, PopFails
  <2> QED
    BY <1>22, <2>1, <2>2 DEF Unstash
<1>23. CASE PopAfterMerge
  <2>1. CASE PopRestores
    <3>2. tree' \in Entries /\ stash' \in Seq(Entries) /\ Len(stash') <= world.room
      BY <2>1, PopTypes
    <3> QED
      BY <1>23, <2>1, <3>2 DEF PopAfterMerge, PopRestores, Entries
  <2> QED
    BY <1>23, <2>1 DEF PopAfterMerge
<1>24. CASE Tidy
  <2>1. CASE PopRestores
    <3>1. tree' \in Entries /\ stash' \in Seq(Entries) /\ Len(stash') <= world.room
      BY <2>1, PopTypes
    <3> QED
      BY <1>24, <2>1, <3>1 DEF Tidy, PopRestores, Entries
  <2>2. CASE UNCHANGED <<tree, stash>> /\ jam' = "no"
    BY <1>24, <2>2 DEF Tidy
  <2> QED
    BY <1>24, <2>1, <2>2 DEF Tidy
<1>25. ASSUME NEW e \in Edits, Edit(e) PROVE Inv'
  BY <1>25 DEF Edit, Changes
<1>27. CASE WriteBack
  <2>1. PICK content \in copy : WritePlan(content) /\ Overtakes(content)
    BY <1>27 DEF WriteBack
  <2>2. tree' \subseteq Changes
    BY <1>27, <2>1, WrittenIsRead DEF WriteBack, Changes
  <2> QED
    BY <1>27, <2>1, <2>2 DEF WriteBack, Overtakes
<1>28. CASE RecordMark
  <2>1. done' \subseteq Items /\ tree' \subseteq Changes
    BY <1>28, CommittedIsRead, PlanIs DEF RecordMark, Changes
  <2> QED
    BY <1>28, <2>1 DEF RecordMark
<1>29. CASE WriteGate
  <2>1. PICK content \in gate : WritePlan(content) /\ Overtakes(content)
    BY <1>29 DEF WriteGate
  <2>2. tree' \subseteq Changes
    BY <1>29, <2>1, WrittenIsRead DEF WriteGate, Changes
  <2> QED
    BY <1>29, <2>1, <2>2 DEF WriteGate, Overtakes
<1>30. ASSUME NEW g \in world.gates, ReadGate(g) PROVE Inv'
  <2>1. g \in Items
    BY FinalizeAssumption DEF World, Items
  <2>2. Plan \cup {g} \in SUBSET Items
    BY <2>1, PlanIs
  <2> QED
    BY <1>30, <2>2 DEF ReadGate
<1>26. CASE UNCHANGED vars
  BY <1>26 DEF vars
<1> QED
  BY <1>1, <1>2, <1>3, <1>4, <1>5, <1>6, <1>7, <1>8, <1>9, <1>10, <1>11,
     <1>12, <1>13, <1>14, <1>15, <1>16, <1>17, <1>18, <1>19, <1>20, <1>21,
     <1>22, <1>23, <1>24, <1>25, <1>26, <1>27, <1>28, <1>29, <1>30
     DEF Next, FinalizeStep

LEMMA Invariance == Spec => []Inv
BY InitInv, NextInv, PTL DEF Spec

-----------------------------------------------------------------------------
(* The types: the checkout, the branches and the script's variables, with   *)
(* origin never ahead of main in a task's work and a bounded stash.         *)
THEOREM TypeCorrect == Spec => []TypeOK
<1>1. Inv => TypeOK
  BY DEF Inv
<1> QED
  BY <1>1, Invariance, PTL

(* A task's work is published and its branch thrown away only after the     *)
(* merge of that branch (commit-finalize.sh, steps 5 and 6).                *)
THEOREM Delivers == Spec => DeliverySpec
<1>1. Init => D!Init
  BY DEF Init, D!Init
<1>2. Inv /\ [Next]_vars => [D!Next]_<<main, origin, kept>>
  <2> SUFFICES ASSUME Inv, [Next]_vars,
                      <<main, origin, kept>>' # <<main, origin, kept>>
               PROVE  D!Next
    OBVIOUS
  <2>1. CASE MergeOk
    <3>1. cur \in Tasks /\ D!Land(cur)
      BY <2>1 DEF MergeOk, At, checkout, Inv, Control, Work, D!Land
    <3> QED
      BY <3>1 DEF D!Next
  <2>2. CASE Push
    BY <2>2 DEF Push, branches, D!Next, D!Publish
  <2>3. CASE Cleanup
    <3>1. cur \in Tasks /\ D!Discard(cur)
      BY <2>3 DEF Cleanup, At, Inv, Control, Work, D!Discard
    <3> QED
      BY <3>1 DEF D!Next
  <2>4. CASE Next /\ ~(MergeOk \/ Push \/ Cleanup)
    BY <2>4 DEF Next, FinalizeStep, Begin, NothingLeft, MarkPlan, CommitBranch,
                CommitFails, StashEdits, PullMain, Rebase, MergeFails, AbortMerge,
                Unstash, PopAfterMerge, PopAfterMergeFails, ReadPlan, WriteBack,
                RecordMark, RecordRefused, PushFails, PullRebase, Report, Kill,
                ReadGate, WriteGate, CommitPlan, Tidy, Edit, branches
  <2>5. CASE UNCHANGED vars
    BY <2>5 DEF vars, branches
  <2> QED
    BY <2>1, <2>2, <2>3, <2>4, <2>5
<1> QED
  BY <1>1, <1>2, Invariance, PTL DEF Spec, DeliverySpec, D!Spec

-----------------------------------------------------------------------------
(* Who calls a task done: the plan on main, a copy that is to be written     *)
(* back, or a change that is uncommitted.                                   *)
Says(t) == t \in done \/ t \in UNION (copy \cup gate) \/ <<t, TRUE>> \in Held

(* How a step changes what is held and said: edits stay, and a task is newly *)
(* called done only after its merge, or where only main's plan has it.      *)
HeldStep ==
  /\ Held \cap Edits \subseteq Held'
  /\ main \subseteq main' /\ kind' = kind
  /\ \A t \in Tasks : Says(t)' => Says(t) \/ t \in main' \/ kind[t] = "main"

LEMMA HeldIs ==
  /\ Held = tree \cup Stashed(stash)
  /\ Held' = tree' \cup Stashed(stash')
BY DEF Held, Stashed

LEMMA PlanSays == ASSUME NEW t \in Tasks, t \in Plan PROVE Says(t)
BY HeldIs DEF Plan, Says

LEMMA HeldChanges == Inv /\ [Next]_vars => HeldStep
<1> SUFFICES ASSUME Inv, [Next]_vars PROVE HeldStep
  OBVIOUS
<1>1. /\ stash \in Seq(Entries) /\ tree \in Entries /\ done \subseteq Items /\ Tasks \subseteq Items
      /\ copy \subseteq SUBSET Items /\ gate \subseteq SUBSET Items
  BY DEF Inv, TypeOK, Entries, Items
<1>a. ASSUME NEW t \in Tasks, NEW e \in Edits, NEW b \in BOOLEAN
      PROVE  e # <<t, b>>
  BY <1>1, Apart
<1>2. CASE StashEdits
  <2>1. CASE tree' = {} /\ stash' = <<tree>> \o stash
    BY <1>1, <1>2, <2>1, StashedPush, HeldIs DEF StashEdits, HeldStep, Says, copies, kind
  <2>2. CASE UNCHANGED <<tree, stash>>
    BY <1>2, <2>2, HeldIs DEF StashEdits, HeldStep, Says, copies, kind
  <2> QED
    BY <1>2, <2>1, <2>2 DEF StashEdits
<1>3. ASSUME PopRestores, UNCHANGED <<world, gate, main, done>>, copy' \subseteq copy
      PROVE  HeldStep
  <2>1. /\ stash # <<>> /\ stash' = Tail(stash)
        /\ tree' \cap Edits = (tree \cup Head(stash)) \cap Edits
        /\ \A i \in Items : <<i, TRUE>> \in tree' => <<i, TRUE>> \in tree \cup Head(stash)
    BY <1>3, PopTypes DEF PopRestores, Inv
  <2>2. Stashed(stash) = Head(stash) \cup Stashed(stash')
    BY <1>1, <2>1, StashedPop
  <2> QED
    BY <1>1, <1>3, <2>1, <2>2, HeldIs DEF HeldStep, Says, kind
<1>4. ASSUME UNCHANGED <<tree, stash, world, gate, done>>, copy' \subseteq copy, main \subseteq main'
      PROVE  HeldStep
  BY <1>4, HeldIs DEF HeldStep, Says, kind
<1>5. ASSUME NEW content \in copy \cup gate, WritePlan(content),
             UNCHANGED <<stash, world, main, done>>, copy' \subseteq copy, gate' \subseteq gate
      PROVE  HeldStep
  <2>1. /\ tree' \cap Edits = tree \cap Edits
        /\ \A i \in Items : <<i, TRUE>> \in tree' => i \in content
    BY <1>1, <1>5, WrittenIsRead
  <2> QED
    BY <1>1, <1>5, <2>1, HeldIs DEF HeldStep, Says, kind
<1>6. ASSUME CommitsPlan, UNCHANGED <<stash, world, copy, gate, main>>
      PROVE  HeldStep
  <2>1. /\ done' = Plan /\ tree' \cap Edits = tree \cap Edits
        /\ \A i \in Items, b \in BOOLEAN : <<i, b>> \notin tree'
    BY <1>6, CommittedIsRead
  <2> QED
    BY <1>1, <1>6, <2>1, PlanSays, HeldIs DEF HeldStep, Says, kind
<1>7. CASE MarkPlan \/ ReadPlan
  <2>1. /\ UNCHANGED <<tree, stash, world, gate, main, done>>
        /\ \/ copy' = copy
           \/ copy' = {Plan \cup {cur}} /\ (kind[cur] = "main" \/ cur \in main)
    <3>1. CASE MarkPlan
      BY <3>1 DEF MarkPlan, MarksMain, checkout
    <3>2. CASE ReadPlan
      BY <3>2 DEF ReadPlan, checkout, At, Inv, Control, Work
    <3> QED
      BY <1>7, <3>1, <3>2
  <2>2. ASSUME NEW t \in Tasks, Says(t)'
        PROVE  Says(t) \/ t \in main' \/ kind[t] = "main"
    <3>1. CASE t \in UNION (copy' \cup gate')
      <4>1. t \in UNION (copy \cup gate) \/ t \in Plan \/ kind[t] = "main" \/ t \in main'
        BY <2>1, <3>1
      <4> QED
        BY <2>1, <4>1, PlanSays DEF Says
    <3>2. CASE t \notin UNION (copy' \cup gate')
      BY <2>1, <2>2, <3>2, HeldIs DEF Says
    <3> QED
      BY <3>1, <3>2
  <2> QED
    BY <2>1, <2>2, HeldIs DEF HeldStep, kind
<1>8. ASSUME NEW g \in world.gates, ReadGate(g) PROVE HeldStep
  <2>1. /\ UNCHANGED <<tree, stash, world, copy, main, done>>
        /\ gate' = {Plan \cup {g}} /\ g \notin Tasks
    BY <1>8, FinalizeAssumption DEF ReadGate, checkout, Inv, TypeOK, World
  <2>2. ASSUME NEW t \in Tasks, Says(t)'
        PROVE  Says(t)
    <3>1. CASE t \in UNION (copy' \cup gate')
      <4>1. t \in UNION (copy \cup gate) \/ t \in Plan
        BY <2>1, <3>1
      <4> QED
        BY <4>1, PlanSays DEF Says
    <3>2. CASE t \notin UNION (copy' \cup gate')
      BY <2>1, <2>2, <3>2, HeldIs DEF Says
    <3> QED
      BY <3>1, <3>2
  <2> QED
    BY <2>1, <2>2, HeldIs DEF HeldStep, kind
<1>9. CASE WriteBack \/ WriteGate
  BY <1>5, <1>9 DEF WriteBack, WriteGate
<1>10. CASE RecordMark
  BY <1>4, <1>6, <1>10 DEF RecordMark, copies
<1>11. CASE RecordRefused
  <2>1. tree' = tree \cap Edits /\ UNCHANGED <<stash, world, gate, main, done>> /\ copy' = {}
    BY <1>11 DEF RecordRefused, EndAs, Gone
  <2> QED
    BY <1>1, <2>1, HeldIs DEF HeldStep, Says, kind
<1>12. CASE CommitPlan
  BY <1>6, <1>12 DEF CommitPlan, copies
<1>13. CASE Unstash \/ PopAfterMerge \/ PopAfterMergeFails \/ Tidy
  <2>1. CASE PopRestores
    BY <1>3, <1>13, <2>1 DEF Unstash, PopAfterMerge, PopAfterMergeFails, Tidy, EndAs, Gone, copies
  <2>2. CASE ~PopRestores
    BY <1>4, <1>13, <2>2 DEF Unstash, PopAfterMerge, PopAfterMergeFails, PopFails, Tidy, EndAs,
       Gone, copies
  <2> QED
    BY <2>1, <2>2
<1>14. ASSUME NEW e \in Edits, Edit(e) PROVE HeldStep
  BY <1>1, <1>14, <1>a, HeldIs DEF HeldStep, Edit, Says, copies, kind
<1>15. CASE MergeOk
  <2>1. /\ UNCHANGED <<tree, stash, world, copy, gate>> /\ main' = main \cup {cur}
        /\ done' \subseteq done \cup {cur}
    BY <1>15 DEF MergeOk, checkout, copies
  <2> QED
    BY <2>1, HeldIs DEF HeldStep, Says, kind
<1>16. CASE /\ Next
            /\ ~(StashEdits \/ Unstash \/ PopAfterMerge \/ PopAfterMergeFails \/ Tidy \/ MergeOk)
            /\ ~(MarkPlan \/ ReadPlan \/ WriteBack \/ WriteGate \/ RecordMark \/ RecordRefused)
            /\ ~CommitPlan
            /\ ~(\E e \in Edits : Edit(e)) /\ ~(\E g \in world.gates : ReadGate(g))
  <2>1. UNCHANGED <<tree, stash, world, gate, main, done>> /\ copy' \subseteq copy
    BY <1>16 DEF Next, FinalizeStep, Begin, NothingLeft, CommitBranch, CommitFails,
                PullMain, Rebase, MergeFails, AbortMerge, Push, PushFails,
                PullRebase, Cleanup, Report, Kill, EndAs, Gone, checkout, copies
  <2> QED
    BY <1>4, <2>1
<1>17. CASE UNCHANGED vars
  BY <1>4, <1>17 DEF vars, checkout, copies
<1> QED
  BY <1>2, <1>7, <1>8, <1>9, <1>10, <1>11, <1>12, <1>13, <1>14, <1>15, <1>16, <1>17

(* No edit of people is lost over stash, merge, abort and pop, whoever is   *)
(* killed where (commit-finalize.sh:209-263, 341-346).                      *)
THEOREM EditsStay == Spec => EditsKept
<1>1. Inv /\ [Next]_vars => [Held \cap Edits \subseteq Held']_vars
  BY HeldChanges DEF HeldStep
<1> QED
  BY <1>1, Invariance, PTL DEF Spec, EditsKept

-----------------------------------------------------------------------------
(* The plan says done only of what has been merged, where the worktree has  *)
(* the plan, and so do the copies of it that finalize and gates write back  *)
(* (commit-finalize.sh:110-164, 265-324; autopilot-chain.sh:1749-1765).      *)
THEOREM PlanIsHonest == Spec => []DoneMeansMerged
<1>1. Init => DoneMeansMerged
  <2>1. ASSUME Init PROVE done = {} /\ copy = {} /\ gate = {} /\ tree = {} /\ Stashed(stash) = {}
    BY <2>1 DEF Init, Stashed
  <2> QED
    BY <2>1, HeldIs DEF DoneMeansMerged
<1>2. Inv /\ DoneMeansMerged /\ [Next]_vars => DoneMeansMerged'
  <2> SUFFICES ASSUME Inv, DoneMeansMerged, [Next]_vars,
                      NEW t \in Tasks, kind'[t] # "main", Says(t)'
               PROVE  t \in main'
    BY DEF DoneMeansMerged, Says
  <2>1. kind[t] # "main" /\ main \subseteq main' /\ (Says(t) \/ t \in main')
    BY HeldChanges DEF HeldStep
  <2> QED
    BY <2>1 DEF DoneMeansMerged, Says
<1> QED
  BY <1>1, <1>2, Invariance, PTL DEF Spec

(* success is said of merged work only, and a blocked task still has its    *)
(* branch (autopilot.sh:1526-1548).                                         *)
THEOREM ReportIsHonest == Spec => []HonestReport
<1>1. Init => HonestReport
  BY DEF Init, HonestReport, NoReport
<1>2. Inv /\ HonestReport /\ [Next]_vars => HonestReport'
  <2> SUFFICES ASSUME Inv, HonestReport, [Next]_vars PROVE HonestReport'
    OBVIOUS
  <2>1. ASSUME NEW t \in Tasks, Begin(t) PROVE HonestReport'
    BY <2>1 DEF Begin, HonestReport, NoReport
  <2>2. ASSUME NEW t \in Tasks, NothingLeft(t) PROVE HonestReport'
    BY <2>2 DEF NothingLeft, HonestReport, Inv, TypeOK, Work, branches
  <2>3. CASE MergeOk
    BY <2>3 DEF MergeOk, HonestReport
  <2>4. CASE Cleanup
    BY <2>4 DEF Cleanup, HonestReport, NoReport, Inv, Work, At, control
  <2>5. CASE PopAfterMergeFails \/ RecordRefused
    BY <2>5 DEF PopAfterMergeFails, RecordRefused, EndAs, HonestReport, Inv, TypeOK,
                At, branches
  <2>6. CASE Report
    BY <2>6 DEF Report, ReadResult, EndAs, HonestReport, Inv, TypeOK, Work, At, branches
  <2>7. CASE /\ Next
             /\ ~(MergeOk \/ Cleanup \/ PopAfterMergeFails \/ RecordRefused \/ Report)
             /\ ~(\E t \in Tasks : Begin(t) \/ NothingLeft(t))
    BY <2>7 DEF Next, FinalizeStep, MarkPlan, CommitBranch, CommitFails, StashEdits,
                PullMain, Rebase, MergeFails, AbortMerge, Unstash, PopAfterMerge,
                ReadPlan, WriteBack, RecordMark, Push, PushFails, PullRebase, Kill,
                ReadGate, WriteGate, CommitPlan, Tidy, Edit,
                branches, control, HonestReport
  <2>8. CASE UNCHANGED vars
    BY <2>8 DEF vars, branches, control, HonestReport
  <2> QED
    BY <2>1, <2>2, <2>3, <2>4, <2>5, <2>6, <2>7, <2>8
<1> QED
  BY <1>1, <1>2, Invariance, PTL DEF Spec

(* Once a finalize that merged is past the plan, the plan in the checkout    *)
(* says done, whatever the chain and people read, write and commit           *)
(* meanwhile, unless a copy was written back that lacked what was in the     *)
(* plan by then (commit-finalize.sh:265-324, autopilot-chain.sh:1749-1765).  *)
THEOREM MergedIsDone == Spec => []LandedMeansDone
<1> DEFINE Past == {"push", "repull", "repush", "cleanup", "report"}
           Listed == kind[cur] \in {"branch", "loose", "main"}
           Marked ==
             /\ pc = "write" => \A content \in copy : cur \in content
             /\ pc \in {"record"} \cup Past /\ merge = "ok" /\ Listed => overtaken \/ cur \in Plan
<1>1. Init => Marked
  BY DEF Init
<1>2. Inv /\ Marked /\ [Next]_vars => Marked'
  <2> SUFFICES ASSUME Inv, Marked, [Next]_vars PROVE Marked'
    OBVIOUS
  <2>0. done \subseteq Items /\ copy \subseteq SUBSET Items /\ gate \subseteq SUBSET Items
    BY DEF Inv, TypeOK
  <2>1. CASE ReadPlan
    BY <2>1 DEF ReadPlan, PlanHasTask, At, Go, kind, control
  <2>2. CASE WriteBack
    <3>1. PICK content \in copy : WritePlan(content)
      BY <2>2 DEF WriteBack
    <3>2. Plan' = content
      BY <2>0, <2>2, <3>1, WrittenIsRead DEF WriteBack
    <3>3. pc = "write" => cur \in content
      BY <2>2
    <3>4. cur' = cur /\ pc' = (IF pc = "write" THEN "record" ELSE "commit")
      BY <2>2 DEF WriteBack, Go
    <3> QED
      BY <3>2, <3>3, <3>4
  <2>3. CASE WriteGate
    <3>1. PICK content \in gate : WritePlan(content) /\ Overtakes(content)
      BY <2>3 DEF WriteGate
    <3>2. Plan' = content
      BY <2>0, <2>3, <3>1, WrittenIsRead DEF WriteGate
    <3>3. UNCHANGED <<world, copy, cur, pc, merge>>
      BY <2>3 DEF WriteGate, control
    <3>4. overtaken' \/ merge # "ok" \/ (~overtaken /\ Plan \subseteq Plan')
      BY <3>1, <3>2 DEF Overtakes
    <3> QED
      BY <3>3, <3>4 DEF kind
  <2>4. CASE RecordMark \/ CommitPlan
    <3>1. Plan' = Plan
      <4>1. CASE CommitsPlan
        BY <4>1, CommittedIsRead
      <4>2. CASE UNCHANGED <<done, tree>>
        BY <4>2 DEF Plan
      <4> QED
        BY <2>4, <4>1, <4>2 DEF RecordMark, CommitPlan
    <3>2. UNCHANGED <<world, copy, overtaken, cur, merge>> /\ (pc' = pc \/ (pc = "record" /\ pc' = "push"))
      BY <2>4 DEF RecordMark, CommitPlan, At, Go, control, copies
    <3> QED
      BY <3>1, <3>2 DEF kind
  <2>5. ASSUME pc' \notin {"write", "record"} \cup Past \/ (pc' # "write" /\ merge' # "ok") PROVE Marked'
    BY <2>5
  <2>6. CASE Push \/ PushFails \/ PullRebase \/ Cleanup
    <3>1. UNCHANGED <<world, done, tree, overtaken, cur, merge>> /\ pc' \in Past
      BY <2>6 DEF Push, PushFails, PullRebase, Cleanup, Go, checkout, control, copies
    <3>2. pc \in Past \/ merge # "ok"
      BY <2>6 DEF Push, PushFails, PullRebase, Cleanup, At
    <3> QED
      BY <3>1, <3>2 DEF kind, Plan
  <2>7. ASSUME NEW e \in Edits, Edit(e) PROVE Marked'
    <3>1. \A i \in Items, b \in BOOLEAN : <<i, b>> \in tree' <=> <<i, b>> \in tree
      BY <2>7, Apart DEF Edit
    <3>2. UNCHANGED <<world, done, overtaken, copy, cur, pc, merge>>
      BY <2>7 DEF Edit, control, copies
    <3>3. Plan' = Plan
      BY <3>1, <3>2, PlanIs DEF Plan
    <3> QED
      BY <3>2, <3>3 DEF kind
  <2>8. ASSUME NEW g \in world.gates, ReadGate(g) PROVE Marked'
    BY <2>8 DEF ReadGate, checkout, control, kind, Plan
  <2>9. CASE UNCHANGED vars
    BY <2>9 DEF vars, checkout, control, copies, kind, Plan
  <2>10. CASE MarkPlan \/ CommitBranch \/ CommitFails \/ StashEdits \/ PullMain \/ Rebase
              \/ MergeOk \/ MergeFails \/ AbortMerge \/ Unstash \/ PopAfterMerge
              \/ PopAfterMergeFails \/ RecordRefused \/ Report \/ Kill \/ Tidy
              \/ \E t \in Tasks : Begin(t) \/ NothingLeft(t)
    <3>1. pc' \notin {"write", "record"} \cup Past \/ (pc' # "write" /\ merge' # "ok")
      BY <2>10 DEF MarkPlan, CommitBranch, CommitFails, StashEdits, PullMain, Rebase, MergeOk,
         MergeFails, AbortMerge, Unstash, PopAfterMerge, PopAfterMergeFails, RecordRefused,
         Report, Kill, Tidy, Begin, NothingLeft, EndAs, Gone, At, Go, control, Inv, Control
    <3> QED
      BY <2>5, <3>1
  <2> QED
    BY <2>1, <2>2, <2>3, <2>4, <2>6, <2>7, <2>8, <2>9, <2>10 DEF Next, FinalizeStep
<1>3. Marked => LandedMeansDone
  BY DEF LandedMeansDone
<1> QED
  BY <1>1, <1>2, <1>3, Invariance, PTL DEF Spec
=============================================================================
