------------------------------ MODULE MCFeeds ------------------------------
(* Feeds with two scripts of three lines: a phase that is overtaken by the  *)
(* next and tried again, and a phase that completes after a system event,   *)
(* which the server filters out.                                            *)
EXTENDS Feeds

Phase(p, s) == [type |-> "phase", phase |-> p, status |-> s]
First == <<Phase("ba", "running"), Phase("plan", "running"), Phase("ba", "running")>>
Second == <<Phase("ba", "running"), [type |-> "system"], Phase("ba", "completed")>>
Third == <<[type |-> "assistant", blocks |-> {"text", "tool_use"}]>>

CONSTANTS a, b

MCScripts == {(a :> First @@ b :> Third), (a :> Second @@ b :> Third)}
=============================================================================
