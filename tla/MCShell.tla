------------------------------- MODULE MCShell -------------------------------
(* Shell with two repositories and two plans; the first plan has the name   *)
(* of its repository, the second has not.  In the second world the first    *)
(* plan is done, its features have moved on and the second plan is gone.    *)
EXTENDS Shell

MCAlpha == [n \in {"atlas", "beacon", "login", "search", "audit", "old"} |->
  CASE n = "atlas" -> 1 [] n = "audit" -> 2 [] n = "beacon" -> 3
    [] n = "login" -> 4 [] n = "old" -> 5 [] n = "search" -> 6]
MCFinds == [q \in {"a"} |-> {"atlas", "beacon", "search", "audit", "lab"}]

Task(id, status, results) == [id |-> id, status |-> status, results |-> results]
File(schema) ==
  [tasks |-> <<Task("t1", "done", <<0, 2>>), Task("t2", "wip", <<>>), Task("t3", "pending", <<1>>)>>,
   schema |-> schema, vision |-> {"description", "scope"}]
Plan(dir, project, base, lifecycle, active_, progress, activity, file) ==
  [dir |-> dir, project |-> project, base |-> base, lifecycle |-> lifecycle,
   active |-> active_, progress |-> progress, activity |-> activity, file |-> file]
Feature(project, name, status, lifecycle, at, doneAt, phase, sessions) ==
  [project |-> project, name |-> name, root |-> project, status |-> status,
   lifecycle |-> lifecycle, activity |-> at, doneAt |-> doneAt, phase |-> phase,
   phases |-> 8, sessions |-> sessions,
   planDir |-> IF name = "login" THEN "d1" ELSE "", planTask |-> IF name = "login" THEN "t2" ELSE ""]
Session(sid, status, event) == [sid |-> sid, status |-> status, event |-> event]
Pilot(task, project, status) == [task |-> task, project |-> project, status |-> status]

World1 ==
  [plans |-> <<Plan("d1", "atlas", "atlas", "none", 1, 33, 5, <<File("2")>>),
               Plan("d2", "beacon", "lab", "pending", 0, 0, 0, <<File("3")>>)>>,
   features |-> <<Feature("atlas", "login", "active", "none", 5, 0, 3, <<"s1">>),
                  Feature("atlas", "search", "paused", "inprogress", 0, 0, 1, <<>>),
                  Feature("lab", "old", "done", "done", 1, 2, 8, <<>>)>>,
   sessions |-> <<Session("s1", "working", "PostToolUseFailure"), Session("s2", "idle", "PermissionRequest")>>,
   autopilots |-> <<Pilot("login", "atlas", "running"), Pilot("audit", "", "running"),
                    Pilot("old", "lab", "completed")>>]

World2 ==
  [plans |-> <<Plan("d1", "atlas", "atlas", "done", 0, 100, 9, <<File("2")>>)>>,
   features |-> <<Feature("atlas", "login", "done", "inprogress", 9, 0, 8, <<>>),
                  Feature("atlas", "search", "stuck", "inprogress", 8, 0, 2, <<"s3">>),
                  Feature("lab", "audit", "waiting", "none", 7, 0, 4, <<>>),
                  Feature("lab", "old", "done", "done", 1, 2, 8, <<>>)>>,
   sessions |-> <<Session("s1", "completed", "TaskCompleted"), Session("s2", "stale", "Stop")>>,
   autopilots |-> <<Pilot("audit", "lab", "running")>>]

MCWorlds == <<World1, World2>>

(* A first visit, a page left with tabs of each kind and filters of an older *)
(* version, and one left with a view in front that there is no more; each of *)
(* the two has such a tab among its own.                                     *)
Stored(t, a, v, p, f) == [tabs |-> t, active |-> a, view |-> v, plan |-> p, features |-> f]
MCStorages ==
  {Stored(<<>>, None, "none", None, None),
   Stored(<<<<"feature", "atlas", "login">>, View("deferred"), Pipeline("atlas"), Pipeline("beacon")>>,
          Pipeline("atlas"), "none",
          [PlanDefaults EXCEPT !.lifecycle = {"running"}],
          [FeatureDefaults EXCEPT !.lifecycle = {"done"}]),
   Stored(<<View("deferred"), View("metrics")>>, View("deferred"), "autopilot", None, None)}
=============================================================================
