------------------------------ MODULE Delivery ------------------------------
(***************************************************************************)
(* What the finalize phase promises about a task's work: it lands on main  *)
(* from a branch that is still there, main is published as it is, and a    *)
(* branch is thrown away only when its work is on main.                    *)
(***************************************************************************)
CONSTANT Tasks

VARIABLES
  landed,     \* the tasks whose work is on main
  published,  \* the tasks whose work is on origin
  branches    \* the tasks whose branch exists

Init ==
  /\ landed \in SUBSET Tasks
  /\ published \in SUBSET landed
  /\ branches = Tasks

Land(t) ==
  /\ t \in branches
  /\ landed' = landed \cup {t}
  /\ UNCHANGED <<published, branches>>

Publish ==
  /\ published' = landed
  /\ UNCHANGED <<landed, branches>>

Discard(t) ==
  /\ t \in branches \cap landed
  /\ branches' = branches \ {t}
  /\ UNCHANGED <<landed, published>>

Next == Publish \/ \E t \in Tasks : Land(t) \/ Discard(t)

Spec == Init /\ [][Next]_<<landed, published, branches>>
=============================================================================
