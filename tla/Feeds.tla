-------------------------------- MODULE Feeds --------------------------------
(***************************************************************************)
(* The live views of a running session: the pollers useStreamPolling (an   *)
(* NDJSON stream, behind StreamViewer) and useAutopilotLog (a plain log,   *)
(* behind LogViewer), which fetch what was appended to a file since the    *)
(* last byte offset, and useSessionActivity, asked when the stream is      *)
(* quiet.  One viewer at a time is mounted, for one task.                  *)
(*                                                                         *)
(* A file is counted in half lines: line i is the units 2i-1 and 2i, and a *)
(* read may end inside a line that is still being written.                 *)
(***************************************************************************)
EXTENDS Integers, Sequences, FiniteSets, SequencesExt, Selection

CONSTANTS
  Tasks,        \* the tasks whose session may be shown
  Scripts,      \* what the sessions write: per task, the events in order
  MaxEvents,    \* MAX_EVENTS
  MaxBuffer,    \* MAX_BUFFER_BYTES, in units
  TailUnits,    \* INITIAL_TAIL_BYTES, in units
  Threshold,    \* CONSECUTIVE_EMPTY_THRESHOLD
  Toggled,      \* bound: the filters the user plays with
  MaxOverlaps,  \* bound: polls that begin while another is in flight
  MaxMounts     \* bound: viewers mounted, task changes included

(* The events a session writes; a phase ends as its exit code says. *)
EventKinds ==
  [type : {"phase"}, phase : STRING, status : {"running", "completed", "failed"}]
  \cup [type : {"assistant", "user"},
        blocks : SUBSET {"text", "thinking", "tool_use", "tool_result"}]
  \cup [type : {"result", "orchestrator", "lifecycle", "system"}]

ASSUME FeedsAssumption ==
  /\ {MaxEvents, MaxBuffer, TailUnits, Threshold} \subseteq Nat \ {0}
  /\ MaxMounts \in Nat /\ MaxOverlaps \in Nat /\ Toggled \subseteq {"phase", "orchestrator", "text", "result", "tool"}
  /\ \A s \in Scripts : \A t \in Tasks : s[t] \in Seq(EventKinds)

VARIABLES
  script,    \* what the sessions write in this run
  size,      \* per task, the units written so far
  viewer,    \* the viewer that is mounted, or "none"
  task,      \* its task
  mounts,    \* viewers mounted so far
  polls,     \* the requests in flight
  overlaps,  \* polls begun while another was in flight, since the mount
  offset,    \* offsetRef
  shown,     \* the events or the log lines, in display order
  empties,   \* consecutiveEmptyRef
  isLive,
  hasStream, \* "null", "true" or "false"
  hidden,    \* hiddenFilters
  activity,  \* the events of useSessionActivity, and isActive
  seen,      \* history: the units ever shown since the viewer was mounted
  lost       \* history: the units of lines a read cut in two

pollVars == <<polls, overlaps, offset, shown, empties, isLive, hasStream, seen, lost>>
vars == <<script, size, viewer, task, mounts, pollVars, hidden, activity>>

Viewers == {"stream", "log"}
Filters == {"phase", "orchestrator", "text", "result", "tool"}
NoActivity == [any |-> FALSE, active |-> FALSE]

-----------------------------------------------------------------------------
(* What the server returns of the units from+1 .. upto of a file.           *)

(* _tail_start, and the first line dropped when the read starts inside.     *)
Start(from, upto) ==
  IF from = 0 /\ upto > TailUnits THEN 2 * ((upto - TailUnits) \div 2 + 1) ELSE from

(* read_stream_incremental: the lines that parse, the system events left out. *)
Whole(t, from, upto) ==
  {i \in 1..(upto \div 2) : 2 * (i - 1) >= Start(from, upto) /\ script[t][i].type # "system"}
Events(t, from, upto) ==
  LET lines == Ascending(Whole(t, from, upto))
  IN  [n \in DOMAIN lines |-> [from |-> 2 * (lines[n] - 1), upto |-> 2 * lines[n]]]

(* read_log_incremental, split at the newlines. *)
LogLines(from, upto) ==
  LET s == Start(from, upto)
      first == s \div 2
      last == (upto + 1) \div 2
  IN  IF upto <= s THEN <<>>
      ELSE [n \in 1..(last - first) |->
              [from |-> IF n = 1 THEN s ELSE 2 * (first + n - 1),
               upto |-> IF n = last - first THEN upto ELSE 2 * (first + n)]]

Units(entries) == UNION {(e.from + 1)..e.upto : e \in Range(entries)}

-----------------------------------------------------------------------------
(* What the viewer makes of the events. *)

Event(e) == script[task][e.upto \div 2]
IsPhase(e) == Event(e).type = "phase"

(* getEventFilter *)
EventFilter(k) ==
  CASE k.type \in {"phase", "orchestrator", "result"} -> k.type
    [] k.type = "user" -> "tool"
    [] k.type = "assistant" /\ "tool_use" \in k.blocks -> "tool"
    [] k.type = "assistant" /\ k.blocks \cap {"text", "tool_use"} = {"text"} -> "text"
    [] OTHER -> "none"

(* The events of which a later one tells more: superseded. *)
Superseded(events, n) ==
  \E k \in (n + 1)..Len(events) :
    IsPhase(events[k]) /\ Event(events[k]).phase = Event(events[n]).phase

(* The places of the events that are not superseded. *)
Latest(events) ==
  {n \in 1..Len(events) : IsPhase(events[n]) => ~Superseded(events, n)}

(* Mutant: what is superseded is dropped, but nothing is completed. *)
DerivePhaseEventsRaw(events) ==
  LET kept == Ascending(Latest(events)) IN [j \in DOMAIN kept |-> Event(events[kept[j]])]

(* derivePhaseEvents: the last event of each phase, and a phase that runs   *)
(* is complete when a later one began.                                      *)
DerivePhaseEvents(events) ==
  LET kept == Ascending(Latest(events))
      passed(n) == \E k \in (n + 1)..Len(events) : IsPhase(events[k])
  IN  [j \in DOMAIN kept |->
         LET e == Event(events[kept[j]]) IN
         IF IsPhase(events[kept[j]]) /\ e.status = "running" /\ passed(kept[j])
           THEN [e EXCEPT !.status = "completed"] ELSE e]

(* filteredEvents *)
Visible(events, without) ==
  LET derived == DerivePhaseEvents(events)
  IN  Select(derived, {j \in DOMAIN derived : EventFilter(derived[j]) \notin without})

(* StreamEventRenderer: the parts a row is made of. *)
Rendered(k) ==
  CASE k.type = "phase" -> {"PhaseMarker"}
    [] k.type = "result" -> {"ResultSummary"}
    [] k.type = "orchestrator" -> {"OrchestratorMessage"}
    [] k.type = "assistant" -> {b \in k.blocks : b \in {"text", "tool_use"}}
    [] k.type = "user" -> k.blocks \cap {"tool_result"}
    [] OTHER -> {}

(* PhaseMarker: one dot and one pill, both of the status. *)
PhaseMarker(k) ==
  IF k.status \in {"completed", "failed"} THEN k.status ELSE "running"

-----------------------------------------------------------------------------
Init ==
  /\ script \in Scripts /\ size = [t \in Tasks |-> 0]
  /\ viewer = "none" /\ task \in Tasks /\ mounts = 0
  /\ polls = <<>> /\ overlaps = 0 /\ offset = 0 /\ shown = <<>>
  /\ empties = 0 /\ isLive = FALSE /\ hasStream = "null"
  /\ hidden = {"tool"}
  /\ activity = NoActivity
  /\ seen = {} /\ lost = {}

(* The session appends to its file, a line at once or in two writes. *)
Write(t) ==
  /\ size[t] < 2 * Len(script[t])
  /\ \E n \in {1, 2} : size' = [size EXCEPT ![t] = @ + n] /\ (n = 2 => size[t] % 2 = 0)
  /\ UNCHANGED <<script, viewer, task, mounts, pollVars, hidden, activity>>

-----------------------------------------------------------------------------
Asked(from) == [from |-> from, upto |-> -1]
Without(i) == RemoveAt(polls, i)

(* Mutant: the refs are kept. *)
ResetDisplay ==
  /\ shown' = <<>> /\ empties' = 0 /\ isLive' = FALSE /\ hasStream' = "null"
  /\ seen' = {} /\ lost' = {}
  /\ overlaps' = 0 /\ UNCHANGED offset

(* The first effect of the hooks. *)
Reset ==
  /\ overlaps' = 0 /\ offset' = 0 /\ shown' = <<>>
  /\ empties' = 0 /\ isLive' = FALSE /\ hasStream' = "null"
  /\ seen' = {} /\ lost' = {}

(* Mount, and the first poll at once. *)
Mount(v, t) ==
  /\ mounts < MaxMounts /\ viewer = "none"
  /\ viewer' = v /\ task' = t /\ mounts' = mounts + 1
  /\ Reset
  /\ polls' = <<Asked(0)>>
  /\ hidden' = {"tool"}
  /\ activity' = NoActivity
  /\ UNCHANGED <<script, size>>

(* Another task in the same viewer: the cleanup cancels what is in flight,  *)
(* and the filters stay.                                                    *)
ChangeTask(t) ==
  /\ mounts < MaxMounts /\ viewer # "none" /\ t # task
  /\ task' = t /\ mounts' = mounts + 1
  /\ Reset
  /\ polls' = <<Asked(offset')>>
  /\ activity' = NoActivity
  /\ UNCHANGED <<script, size, viewer, hidden>>

Unmount ==
  /\ viewer # "none"
  /\ viewer' = "none" /\ polls' = <<>>
  /\ Reset
  /\ hidden' = {"tool"}
  /\ activity' = NoActivity
  /\ UNCHANGED <<script, size, task, mounts>>

(* Mutant: the stream's poll is not guarded by inFlight. *)
TickUnguarded ==
  /\ viewer # "none"
  /\ polls # <<>> => overlaps < MaxOverlaps
  /\ polls' = Append(polls, Asked(offset))
  /\ overlaps' = IF polls = <<>> THEN overlaps ELSE overlaps + 1
  /\ UNCHANGED <<script, size, viewer, task, mounts, offset, shown, empties, isLive,
                 hasStream, seen, lost, hidden, activity>>

(* setInterval: the stream's poll returns at once while one is in flight,   *)
(* the log's does not.                                                      *)
Tick ==
  /\ viewer # "none"
  /\ polls # <<>> => overlaps < MaxOverlaps
  /\ viewer = "stream" => polls = <<>>
  /\ polls' = Append(polls, Asked(offset))
  /\ overlaps' = IF polls = <<>> THEN overlaps ELSE overlaps + 1
  /\ UNCHANGED <<script, size, viewer, task, mounts, offset, shown, empties, isLive,
                 hasStream, seen, lost, hidden, activity>>

Replied(i, upto) ==
  /\ i \in 1..Len(polls) /\ polls[i].upto = -1
  /\ polls' = [polls EXCEPT ![i].upto = upto]
  /\ UNCHANGED <<script, size, viewer, task, mounts, overlaps, offset, shown, empties, isLive,
                 hasStream, seen, lost, hidden, activity>>

(* The server reads the file to its end; it may be empty so far. *)
Serve(i) ==
  Replied(i, IF size[task] < polls[i].from THEN polls[i].from ELSE size[task])

(* 404: there is no file yet, or none is found while its folder is renamed. *)
NotFound(i) == Replied(i, -2)

(* A fetch that fails, or an answer that is not ok. *)
PollFails(i) ==
  /\ i \in 1..Len(polls)
  /\ polls' = Without(i)
  /\ UNCHANGED <<script, size, viewer, task, mounts, overlaps, offset, shown, empties, isLive,
                 hasStream, seen, lost, hidden, activity>>

NotFoundAnswer(i) ==
  /\ i \in 1..Len(polls) /\ polls[i].upto = -2
  /\ polls' = Without(i)
  /\ hasStream' = IF viewer = "stream" THEN "false" ELSE hasStream
  /\ UNCHANGED <<script, size, viewer, task, mounts, overlaps, offset, shown, empties, isLive,
                 seen, lost, hidden, activity>>

(* Mutant: a poll that brings nothing is not counted. *)
EmptyAnswerUncounted ==
  /\ empties' = empties
  /\ isLive' = (isLive /\ empties < Threshold)

(* Threshold empty polls in a row: the stream is not live. *)
EmptyAnswer ==
  /\ empties' = IF empties < Threshold THEN empties + 1 ELSE empties
  /\ isLive' = (isLive /\ empties + 1 < Threshold)

StreamAnswer(i) ==
  /\ viewer = "stream" /\ i \in 1..Len(polls) /\ polls[i].upto >= 0
  /\ LET p == polls[i]
         new == Events(task, p.from, p.upto)
         all == shown \o new
     IN  /\ polls' = Without(i)
         /\ hasStream' = "true"
         /\ offset' = p.upto
         /\ seen' = seen \cup Units(new)
         /\ lost' = lost \cup (IF Start(p.from, p.upto) % 2 = 1 THEN {p.from, p.from + 1} ELSE {})
                         \cup (IF p.upto % 2 = 1 THEN {p.upto, p.upto + 1} ELSE {})
         /\ IF new # <<>>
              THEN /\ empties' = 0 /\ isLive' = TRUE
                   /\ shown' = IF Len(all) > MaxEvents
                                 THEN SubSeq(all, Len(all) - MaxEvents + 1, Len(all)) ELSE all
              ELSE /\ EmptyAnswer
                   /\ UNCHANGED shown
  /\ UNCHANGED <<script, size, viewer, task, mounts, overlaps, hidden, activity>>

(* The log: lines go from the front while the buffer is over its cap. *)
LogAnswer(i) ==
  /\ viewer = "log" /\ i \in 1..Len(polls) /\ polls[i].upto >= 0
  /\ LET p == polls[i]
         new == LogLines(p.from, p.upto)
         all == shown \o new
         bytes(n) == FoldLeft(LAMBDA a, e : a + e.upto - e.from, 0, SubSeq(all, n, Len(all)))
         first == CHOOSE n \in 1..Len(all) :
                    /\ bytes(n) <= MaxBuffer \/ n = Len(all)
                    /\ \A k \in 1..(n - 1) : bytes(k) > MaxBuffer
     IN  /\ polls' = Without(i)
         /\ IF new = <<>> THEN UNCHANGED <<offset, shown, seen>>
            ELSE /\ offset' = p.upto
                 /\ shown' = SubSeq(all, first, Len(all))
                 /\ seen' = seen \cup Units(new)
  /\ UNCHANGED <<script, size, viewer, task, mounts, overlaps, empties, isLive, hasStream, lost,
                 hidden, activity>>

-----------------------------------------------------------------------------
(* The user, and the activity strip. *)

ToggleFilter(f) ==
  /\ viewer = "stream" /\ hasStream # "false" /\ f \in Toggled
  /\ hidden' = IF f \in hidden THEN hidden \ {f} ELSE hidden \cup {f}
  /\ UNCHANGED <<script, size, viewer, task, mounts, pollVars, activity>>

(* useSessionActivity, enabled while the stream is not live: its last       *)
(* answer stays when it is disabled, the dot does not.                      *)
ActivityAnswer ==
  /\ viewer = "stream" /\ ~isLive
  /\ activity' \in {a \in [any : BOOLEAN, active : BOOLEAN] : a.active => a.any}
  /\ UNCHANGED <<script, size, viewer, task, mounts, pollVars, hidden>>

ActivityStops ==
  /\ viewer = "stream" /\ isLive /\ activity.active
  /\ activity' = [activity EXCEPT !.active = FALSE]
  /\ UNCHANGED <<script, size, viewer, task, mounts, pollVars, hidden>>

(* ActivityStrip: shown whenever there are events. *)
ActivityStrip ==
  (IF viewer = "stream" /\ activity.any THEN {"Live activity"} ELSE {})
  \cup (IF viewer = "stream" /\ activity.any /\ activity.active THEN {"dot"} ELSE {})

-----------------------------------------------------------------------------
Session == \E t \in Tasks : Write(t)

Answer(i) == StreamAnswer(i) \/ LogAnswer(i)

User ==
  \/ \E t \in Tasks : (\E v \in Viewers : Mount(v, t)) \/ ChangeTask(t)
  \/ Unmount
  \/ \E f \in Filters : ToggleFilter(f)

Next ==
  \/ Session \/ User \/ Tick \/ ActivityAnswer \/ ActivityStops
  \/ \E i \in 1..(MaxOverlaps + 1) :
       Serve(i) \/ NotFound(i) \/ PollFails(i) \/ NotFoundAnswer(i) \/ Answer(i)

(* The timer fires, and the server reads and answers now and then. *)
Fairness ==
  /\ WF_vars(Tick)
  /\ \A i \in 1..(MaxOverlaps + 1) :
       SF_vars(Serve(i)) /\ SF_vars(Answer(i)) /\ WF_vars(NotFoundAnswer(i))

Spec == Init /\ [][Next]_vars /\ Fairness

-----------------------------------------------------------------------------
(* InOrder: the stream viewer shows every event once, in the order of the   *)
(* file, whatever the timing of the polls (the inFlight guard, C5a.11).     *)
InOrder ==
  viewer = "stream" =>
    \A i, j \in DOMAIN shown : i < j => shown[i].upto <= shown[j].from

(* NothingSkipped: what lies between the first unit a viewer showed and its *)
(* offset was shown, but for system events and lines a read cut in two; a   *)
(* change of task begins anew.  (Of a log as long as it fits the first      *)
(* read: two first polls in flight may leave out what lies between them.)   *)
NothingSkipped ==
  viewer = "stream" \/ (viewer = "log" /\ size[task] <= TailUnits) =>
    \A u \in 1..offset :
      LET i == (u + 1) \div 2 IN
      \/ u \in seen \cup lost
      \/ size[task] > TailUnits /\ \A v \in seen : v > u
      \/ viewer = "stream" /\ i <= Len(script[task]) /\ script[task][i].type = "system"

(* OneRunning: of the phase headers shown, one at most says "running", and  *)
(* it is the last; no phase has two headers.                                *)
OneRunning ==
  viewer = "stream" =>
    LET rows == Visible(shown, hidden) IN
    \A i, j \in {n \in DOMAIN rows : "PhaseMarker" \in Rendered(rows[n])} :
      /\ i # j => rows[i].phase # rows[j].phase
      /\ i < j => PhaseMarker(rows[i]) # "running"

(* GoesQuiet: a session that writes no more (it has a script of finite  *)
(* length) is shown as not live in the end.                                   *)
GoesQuiet == isLive ~> ~isLive

(* LogLinesOnce: as InOrder, of the log viewer. *)
LogLinesOnce ==
  viewer = "log" =>
    \A i, j \in DOMAIN shown : i < j => shown[i].upto <= shown[j].from

(* StripWhenStale: the strip is there "when the NDJSON stream goes stale"   *)
(* (useSessionActivity.ts); its events outlive that.                        *)
StripWhenStale == ActivityStrip # {} => ~isLive
=============================================================================
