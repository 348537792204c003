----------------------------- MODULE Turnstile -----------------------------
(***************************************************************************)
(* What parallel finalize phases may expect of the merge lock: each passes *)
(* through the main checkout at most once, or not at all, and they pass    *)
(* one at a time until the turnstile is forced.                            *)
(***************************************************************************)
CONSTANT Procs

VARIABLES
  state,    \* out: not merging yet; in: merging; past: never again
  forced    \* somebody opened it for another

Init ==
  /\ state = [p \in Procs |-> "out"]
  /\ forced = FALSE

Enter(p) ==
  /\ state[p] = "out"
  /\ forced \/ \A q \in Procs : state[q] # "in"
  /\ state' = [state EXCEPT ![p] = "in"]
  /\ UNCHANGED forced

(* It has merged, or given up, or died, and may force the turnstile as it goes. *)
Pass(p) ==
  /\ state[p] # "past"
  /\ state' = [state EXCEPT ![p] = "past"]
  /\ forced' \in {forced, TRUE}

(* Somebody outside, or one that is past it already. *)
Force ==
  /\ forced' = TRUE
  /\ UNCHANGED state

Next == Force \/ \E p \in Procs : Enter(p) \/ Pass(p)

Spec == Init /\ [][Next]_<<state, forced>>
=============================================================================
