------------------------------ MODULE MCPanel ------------------------------
(* Panel with two plans.  The first has a chain and a short cut to its end, *)
(* a task with two dependencies of different depth, and a task on its own;  *)
(* its second phase depends on the first and has a gate.  The second plan   *)
(* is of the older schema, with a gate that has two items.                  *)
EXTENDS Panel, TLC

At(id, tasks, gate) == [id |-> id, tasks |-> tasks, gate |-> gate]
Item(kind, result) == [kind |-> kind, lastResult |-> result]

Six == {"a", "b", "c", "d", "e", "f"}
Chain == [phases |-> <<At("p1", <<"e", "d", "a", "b", "c">>, NoGate),
                       At("p2", <<"f">>, [passed |-> FALSE, enriched |-> TRUE, items |-> <<Item("shell", "passed")>>])>>,
          depends |-> [t \in Six |-> CASE t = "b" -> {"a"} [] t = "c" -> {"b"}
                                       [] t = "d" -> {"a", "c"} [] t = "f" -> {"a"}
                                       [] OTHER -> {}],
          v2 |-> TRUE,
          has |-> [t \in Six |-> {"what", "acceptance", "prompt", "last_updated"}]]

Fork == [phases |-> <<At("p1", <<"a", "b", "c", "e">>,
                         [passed |-> FALSE, enriched |-> TRUE,
                          items |-> <<Item("shell", "passed"), Item("human", "none")>>])>>,
         depends |-> [t \in {"a", "b", "c", "e"} |->
                        IF t \in {"b", "e"} THEN {"a"} ELSE IF t = "c" THEN {"a", "b"} ELSE {}],
         v2 |-> FALSE,
         has |-> [t \in {"a", "b", "c", "e"} |-> {"what", "description"}]]

Life(plan_, pilot, phases, sessions) ==
  [plan |-> plan_, pilot |-> pilot, phases |-> phases, sessions |-> sessions]
Nine == [i \in 1..9 |-> "completed"]
Two == <<"completed", "running">>

idle == Life("pending", "none", <<>>, <<>>)
early == Life("wip", "running", Two, <<"working">>)
asks == Life("wip", "running", Two, <<"needs_input", "working">>)
left == Life("wip", "completed", <<"completed", "completed">>, <<"needs_input">>)
broken == Life("failed", "failed", <<"completed", "failed">>, <<"stopped">>)
reset == Life("pending", "failed", <<"completed", "failed">>, <<"stopped", "needs_input">>)
done == Life("done", "completed", Nine, <<"closed">>)

(* What a phase took: nothing before it starts, then its start, and when it *)
(* is over all of it; the odd ones ran from the cache, and of the third the *)
(* server has no tokens.                                                    *)
Took(status, from, upto, secs, t) ==
  [status |-> status, from |-> from, upto |-> upto, secs |-> secs, turns |-> secs, cost |-> secs,
   input |-> t[1], made |-> t[2], cached |-> t[3], output |-> t[4]]
NoTokens == <<-1, -1, -1, -1>>
MCFigures == [i \in 1..9 |-> [s \in {"pending", "running", "completed", "failed"} |->
  CASE s = "pending" -> Took(s, -1, -1, -1, NoTokens)
    [] s = "running" -> Took(s, 10 * i, -1, -1, NoTokens)
    [] OTHER -> Took(s, 10 * i, 10 * i + 8, 8,
                       IF i = 3 THEN NoTokens ELSE IF i % 2 = 1 THEN <<1, 2, 97, 5>> ELSE <<10, 40, 50, 9>>)]]

MCPlans == {Chain, Fork}
MCLives == {idle, early, asks, left, broken, reset, done}
MCNext1 == [t \in {"a", "b"} |-> [k \in MCLives |->
  CASE k = idle -> {early}
    [] k = early -> IF t = "a" THEN {asks, broken} ELSE {done}
    [] k = asks -> {early, left}
    [] k = broken -> {early, reset}
    [] k \in {left, reset} -> {early}
    [] k = done -> {}]]
=============================================================================
