------------------------------ MODULE MCChain ------------------------------
(* Small plans for model checking the chain scheduler. *)
EXTENDS Chain, TLC

(* Two phases: b is independent of a; c, in the second phase, needs a. *)
abc == {"a", "b", "c"}
abcPhase == [t \in abc |-> IF t = "c" THEN 2 ELSE 1]
abcDepends == [t \in abc |-> IF t = "c" THEN {"a"} ELSE {}]
ShellGates == [p \in 1 .. 2 |-> IF p = 1 THEN "shell" ELSE "none"]

(* Each task can have an orphan of an earlier run beside its process. *)
abcPids == {<<"a", 1>>, <<"a", 2>>, <<"b", 1>>, <<"c", 1>>}
abcSinglePids == abc \X {1}
abcSingleTaskOf == [i \in abcSinglePids |-> i[1]]
abcTaskOf == [i \in abcPids |-> i[1]]

(* More ready tasks than slots in the first phase, more than are left of the *)
(* budget in the second.                                                      *)
abcde == {"a", "b", "c", "d", "e"}
abcdePhase == [t \in abcde |-> IF t \in {"a", "b", "c"} THEN 1 ELSE 2]
abcdeDepends == [t \in abcde |-> IF t = "e" THEN {"a"} ELSE {}]
abcdePids == abcde \X {1}
abcdeTaskOf == [i \in abcdePids |-> i[1]]

(* A manual task that c, in the second phase, waits for; the second gate has *)
(* no checklist.                                                             *)
acm == {"a", "c", "m"}
acmPhase == [t \in acm |-> IF t = "c" THEN 2 ELSE 1]
acmDepends == [t \in acm |-> IF t = "c" THEN {"m"} ELSE {}]
EmptyGates == [p \in 1 .. 2 |-> IF p = 1 THEN "empty" ELSE "none"]
MixedGates == [p \in 1 .. 2 |-> IF p = 1 THEN "shell" ELSE "empty"]
acmPids == {"a", "c"} \X {1}
acmTaskOf == [i \in acmPids |-> i[1]]

Plain == [strict |-> FALSE, continue |-> FALSE, retry |-> FALSE, stop |-> FALSE]
KeepGoing == [Plain EXCEPT !.continue = TRUE, !.retry = TRUE]
StopEarly == [Plain EXCEPT !.stop = TRUE]
Strict == [Plain EXCEPT !.strict = TRUE]

Resuming == {KeepGoing}
RetryOnly == {KeepGoing, [Plain EXCEPT !.retry = TRUE]}
ByHand == {Plain, StopEarly, Strict}
=============================================================================
