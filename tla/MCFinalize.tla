----------------------------- MODULE MCFinalize -----------------------------
(* Two tasks, one gate and one edit outside the plan. *)
EXTENDS Finalize

CONSTANTS t, u, g, code

(* u is new in the plan since its worktree was made; or the two are in      *)
(* plans with different faults.                                             *)
NewTask == [x \in {t, u} |-> IF x = t THEN "branch" ELSE "main"]
Faulty ==
  { [x \in {t, u} |-> IF x = t THEN "loose" ELSE "markers"],
    [x \in {t, u} |-> IF x = t THEN "loose" ELSE "unmatched"] }

(* Two entries in the stash, or one and a gate. *)
Small ==
  [kind : Faulty \cup {NewTask}, gates : {{}}, room : {2}]
    \cup [kind : {NewTask}, gates : {{g}}, room : {1}]

OneGate == [kind : {[x \in {t} |-> "branch"]}, gates : {{g}}, room : {1}]
=============================================================================
