---------------------------- MODULE ControlsProofs ----------------------------
(***************************************************************************)
(* For any number of tabs, requests and faults, of a chain or of a single  *)
(* autopilot: every variable of Controls keeps its type, and what the      *)
(* server calls cancelled does not run, nor a chain it calls paused for    *)
(* longer than its pause file takes.                                       *)
(***************************************************************************)
EXTENDS Controls, TLAPS

LEMMA ClientLeavesServer ==
  ASSUME \/ \E t \in Tabs : Click(t) \/ Poll(t) \/ Effects(t)
         \/ \E s \in Slots : RequestFails(s) \/ AnswerLost(s) \/ Answered(s)
         \/ UNCHANGED vars
  PROVE  UNCHANGED server
<1>1. ASSUME NEW t \in Tabs, Click(t)
      PROVE  UNCHANGED server
  BY <1>1 DEF Click, ClickStart, ClickPause, ClickResume, ClickRestart, ConfirmCancel,
              OpenDialog, CloseDialog, SwitchTab
<1>2. ASSUME NEW t \in Tabs, Poll(t) \/ Effects(t)
      PROVE  UNCHANGED server
  BY <1>2 DEF Poll, AskStatus, ProbeSession, StatusArrives, StatusFails, SkipStatus, Effects
<1>3. ASSUME NEW s \in Slots, RequestFails(s) \/ AnswerLost(s) \/ Answered(s)
      PROVE  UNCHANGED server
  BY <1>3 DEF RequestFails, AnswerLost, Answered, StartAnswered, PauseAnswered,
              ResumeAnswered, CancelAnswered, RestartAnswered
<1> QED BY <1>1, <1>2, <1>3 DEF vars

-----------------------------------------------------------------------------
LEMMA FaultTypes ==
  ASSUME TypeOK, Fault
  PROVE  faults' \in 0..MaxFaults
BY ControlsAssumption DEF Fault, TypeOK

LEMMA StateTypes ==
  ASSUME NEW st \in Statuses \cup {"none"}, NEW b \in BOOLEAN, NEW c \in BOOLEAN
  PROVE  DeriveState(st, b, c) \in UIStates
BY DEF DeriveState, Statuses, UIStates

LEMMA SeenTypes ==
  ASSUME TypeOK, NEW t \in Tabs
  PROVE  seen[t].status \in Statuses \cup {"none"}
BY DEF TypeOK, Snapshots, Unknown

LEMMA PostTypes ==
  ASSUME TypeOK, NEW s \in Slots, NEW t \in Tabs, NEW verb \in Verbs, Post(s, t, verb)
  PROVE  call' \in [Slots -> Calls \cup {Idle}] /\ error' \in [Tabs -> {"none"} \cup Slugs]
<1>1. [tab |-> t, verb |-> verb, at |-> "sent"] \in Calls
  BY DEF Calls
<1> QED BY <1>1 DEF Post, TypeOK

LEMMA MoveTypes ==
  ASSUME TypeOK, NEW s \in Slots, call[s] # Idle,
         NEW stage \in {"sent", "refetch", "ok"} \cup Slugs, Move(s, stage)
  PROVE  call' \in [Slots -> Calls \cup {Idle}]
<1>1. call[s] \in Calls
  BY DEF TypeOK
<1>2. [call[s] EXCEPT !.at = stage] \in Calls
  BY <1>1 DEF Calls
<1> QED BY <1>2 DEF Move, TypeOK

LEMMA RenderedTypes ==
  ASSUME TypeOK, NEW t \in Tabs, Rendered(t),
         starting' \in [Tabs -> BOOLEAN], resuming' \in [Tabs -> BOOLEAN]
  PROVE  ref' \in [Tabs -> UIStates]
<1>1. DeriveState(seen[t].status, starting'[t], resuming'[t]) \in UIStates
  BY SeenTypes, StateTypes
<1> QED BY <1>1 DEF Rendered, TypeOK

LEMMA ClickTypes ==
  ASSUME TypeOK, NEW t \in Tabs, Click(t)
  PROVE  TypeOK'
<1>1. ASSUME NEW s \in Slots, ClickStart(s, t)
      PROVE  TypeOK'
  <2>1. starting' \in [Tabs -> BOOLEAN] /\ UNCHANGED <<resuming, pausing>>
    BY <1>1 DEF ClickStart, TypeOK
  <2>2. ref' \in [Tabs -> UIStates]
    BY <1>1, <2>1, RenderedTypes DEF ClickStart, TypeOK
  <2> QED BY <1>1, <2>1, <2>2, PostTypes DEF ClickStart, server, TypeOK, Verbs
<1>2. ASSUME NEW s \in Slots, ClickPause(s, t)
      PROVE  TypeOK'
  <2>1. pausing' \in [Tabs -> BOOLEAN] /\ UNCHANGED <<starting, resuming>>
    BY <1>2 DEF ClickPause, TypeOK
  <2>2. ref' \in [Tabs -> UIStates]
    BY <1>2, <2>1, RenderedTypes DEF ClickPause, TypeOK
  <2> QED BY <1>2, <2>1, <2>2, PostTypes DEF ClickPause, server, TypeOK, Verbs
<1>3. ASSUME NEW s \in Slots, ClickResume(s, t)
      PROVE  TypeOK'
  <2>1. resuming' \in [Tabs -> BOOLEAN] /\ UNCHANGED <<starting, pausing>>
    BY <1>3 DEF ClickResume, TypeOK
  <2>2. ref' \in [Tabs -> UIStates]
    BY <1>3, <2>1, RenderedTypes DEF ClickResume, TypeOK
  <2> QED BY <1>3, <2>1, <2>2, PostTypes DEF ClickResume, server, TypeOK, Verbs
<1>4. ASSUME NEW s \in Slots, ClickRestart(s, t)
      PROVE  TypeOK'
  BY <1>4, PostTypes DEF ClickRestart, server, view, flags, TypeOK, Verbs
<1>5. ASSUME NEW s \in Slots, ConfirmCancel(s, t)
      PROVE  TypeOK'
  BY <1>5, PostTypes DEF ConfirmCancel, server, view, flags, TypeOK, Verbs
<1>6. CASE OpenDialog(t) \/ CloseDialog(t)
  BY <1>6 DEF OpenDialog, CloseDialog, server, view, flags, TypeOK
<1>7. CASE SwitchTab(t)
  BY <1>7, FaultTypes DEF SwitchTab, server, flags, TypeOK
<1> QED BY <1>1, <1>2, <1>3, <1>4, <1>5, <1>6, <1>7 DEF Click

(* The start or resume that is halfway waits for nobody else. *)
OpeningWaits == opening # NoSlot => call[opening] # Idle /\ call[opening].at = "sent"

LEMMA ServeTypes ==
  ASSUME TypeOK, OpeningWaits, NEW s \in Slots, Serve(s)
  PROVE  TypeOK'
<1>1. {"already_running", "concurrent_cap_reached", "tmux_error", "pause_write_failed",
       "cannot_resume"} \subseteq Slugs
  BY DEF Slugs
<1>2. CASE ServeStart(s)
  <2>1. call' \in [Slots -> Calls \cup {Idle}]
    BY <1>1, <1>2, MoveTypes DEF ServeStart, Arrives, At, Refuse, TypeOK
  <2> QED BY <1>2, <2>1, FaultTypes DEF ServeStart, Refuse, view, flags, TypeOK, Statuses
<1>3. CASE ServePause(s)
  <2>1. call' \in [Slots -> Calls \cup {Idle}]
    BY <1>1, <1>3, MoveTypes DEF ServePause, Arrives, At, Refuse
  <2> QED BY <1>3, <2>1, FaultTypes DEF ServePause, Refuse, view, flags, TypeOK, Statuses
<1>4. CASE ServeCancel(s)
  <2>1. call' \in [Slots -> Calls \cup {Idle}]
    BY <1>1, <1>4, MoveTypes DEF ServeCancel, Arrives, At, Refuse
  <2> QED BY <1>4, <2>1, FaultTypes DEF ServeCancel, Refuse, view, flags, TypeOK, Statuses
<1>5. CASE ServeResume(s)
  <2>1. call' \in [Slots -> Calls \cup {Idle}]
    BY <1>1, <1>5, MoveTypes DEF ServeResume, Arrives, At, Refuse, TypeOK
  <2> QED BY <1>5, <2>1, FaultTypes DEF ServeResume, Refuse, view, flags, TypeOK, Statuses
<1>6. CASE FinishResume(s)
  <2>1. call[s] # Idle
    BY <1>6, ControlsAssumption DEF FinishResume, OpeningWaits, Slots, NoSlot
  <2> QED BY <1>6, <2>1, MoveTypes, FaultTypes DEF FinishResume, view, flags, TypeOK, Statuses
<1>7. CASE FinishStart(s)
  <2>1. call[s] # Idle
    BY <1>7, ControlsAssumption DEF FinishStart, OpeningWaits, Slots, NoSlot
  <2>2. call' \in [Slots -> Calls \cup {Idle}]
    BY <1>1, <1>7, <2>1, MoveTypes DEF FinishStart
  <2> QED BY <1>7, <2>2, FaultTypes DEF FinishStart, view, flags, TypeOK
<1> QED BY <1>2, <1>3, <1>4, <1>5, <1>6, <1>7 DEF Serve

LEMMA AnsweredTypes ==
  ASSUME TypeOK, NEW s \in Slots, Answered(s)
  PROVE  TypeOK'
<1>1. call[s] \in Calls /\ call[s] # Idle /\ call[s].tab \in Tabs
  BY DEF Answered, StartAnswered, PauseAnswered, ResumeAnswered, CancelAnswered,
         RestartAnswered, Failed, At, TypeOK, Calls
<1>2. Failed(s) => call[s].at \in Slugs
  BY DEF Failed
<1>3. Done(s) => call' \in [Slots -> Calls \cup {Idle}]
  BY DEF Done, TypeOK
<1>4. Move(s, "refetch") => call' \in [Slots -> Calls \cup {Idle}]
  BY <1>1, MoveTypes
<1>5. [tab |-> call[s].tab, verb |-> "relaunch", at |-> "sent"] \in Calls
  BY <1>1 DEF Calls, Verbs
<1>6. /\ starting \in [Tabs -> BOOLEAN] /\ resuming \in [Tabs -> BOOLEAN]
      /\ pausing \in [Tabs -> BOOLEAN] /\ error \in [Tabs -> {"none"} \cup Slugs]
  BY DEF TypeOK
<1>7. CASE StartAnswered(s)
  <2>1. /\ call' \in [Slots -> Calls \cup {Idle}] /\ starting' \in [Tabs -> BOOLEAN]
        /\ error' \in [Tabs -> {"none"} \cup Slugs]
    BY <1>1, <1>2, <1>3, <1>4, <1>6, <1>7 DEF StartAnswered
  <2>2. fetch' \in [Tabs -> Fetches \cup {NoFetch}]
    BY <1>7 DEF StartAnswered, TypeOK
  <2> QED BY <1>7, <2>1, <2>2 DEF StartAnswered, server, TypeOK
<1>8. CASE PauseAnswered(s)
  <2>1. /\ call' \in [Slots -> Calls \cup {Idle}] /\ pausing' \in [Tabs -> BOOLEAN]
        /\ error' \in [Tabs -> {"none"} \cup Slugs]
    BY <1>1, <1>2, <1>3, <1>6, <1>8 DEF PauseAnswered
  <2> QED BY <1>8, <2>1 DEF PauseAnswered, server, view, TypeOK
<1>9. CASE ResumeAnswered(s)
  <2>1. /\ call' \in [Slots -> Calls \cup {Idle}] /\ resuming' \in [Tabs -> BOOLEAN]
        /\ error' \in [Tabs -> {"none"} \cup Slugs]
    BY <1>1, <1>2, <1>3, <1>6, <1>9 DEF ResumeAnswered
  <2> QED BY <1>9, <2>1 DEF ResumeAnswered, server, view, TypeOK
<1>10. CASE CancelAnswered(s)
  <2>1. /\ call' \in [Slots -> Calls \cup {Idle}]
        /\ error' \in [Tabs -> {"none"} \cup Slugs]
    BY <1>1, <1>2, <1>3, <1>4, <1>6, <1>10 DEF CancelAnswered
  <2>2. /\ fetch' \in [Tabs -> Fetches \cup {NoFetch}]
        /\ dialog' \in [Tabs -> {"closed", "open", "cancelling"}]
    BY <1>10 DEF CancelAnswered, TypeOK
  <2> QED BY <1>10, <2>1, <2>2 DEF CancelAnswered, server, flags, TypeOK
<1>11. CASE RestartAnswered(s)
  <2>1. call' \in [Slots -> Calls \cup {Idle}] /\ starting' \in [Tabs -> BOOLEAN]
    BY <1>1, <1>3, <1>5, <1>6, <1>11 DEF RestartAnswered, TypeOK
  <2>2. error' \in [Tabs -> {"none"} \cup Slugs]
    BY <1>1, <1>2, <1>6, <1>11 DEF RestartAnswered
  <2> QED BY <1>11, <2>1, <2>2 DEF RestartAnswered, server, view, TypeOK
<1> QED BY <1>7, <1>8, <1>9, <1>10, <1>11 DEF Answered

LEMMA PollTypes ==
  ASSUME TypeOK, NEW t \in Tabs, Poll(t) \/ Effects(t)
  PROVE  TypeOK'
<1>1. EndRefetch(t) => /\ call' \in [Slots -> Calls \cup {Idle}]
                       /\ dialog' \in [Tabs -> {"closed", "open", "cancelling"}]
  BY DEF EndRefetch, TypeOK
<1>2. CASE AskStatus(t)
  <2>1. [status |-> status, live |-> FALSE, probed |-> status \notin LiveStatuses] \in Fetches
    BY DEF Fetches, TypeOK
  <2> QED BY <1>2, <2>1 DEF AskStatus, server, flags, TypeOK
<1>7. CASE ProbeSession(t)
  <2>1. fetch[t] \in Fetches
    BY <1>7 DEF ProbeSession, TypeOK
  <2>2. PICK alive \in BOOLEAN :
          /\ fetch' = [fetch EXCEPT ![t].live = alive, ![t].probed = TRUE]
          /\ IF alive = (session # "none") THEN UNCHANGED faults ELSE ~alive /\ Fault
    BY <1>7 DEF ProbeSession
  <2>3. [[fetch[t] EXCEPT !.live = alive] EXCEPT !.probed = TRUE] \in Fetches
    BY <2>1 DEF Fetches
  <2>4. fetch' \in [Tabs -> Fetches \cup {NoFetch}]
    BY <2>2, <2>3 DEF TypeOK
  <2>5. faults' \in 0..MaxFaults
    BY <2>2, FaultTypes DEF TypeOK
  <2> QED BY <1>7, <2>4, <2>5 DEF ProbeSession, server, flags, TypeOK
<1>3. CASE StatusArrives(t)
  <2>1. fetch[t] \in Fetches
    BY <1>3 DEF StatusArrives, TypeOK
  <2>2. [status |-> fetch[t].status, live |-> fetch[t].live] \in Snapshots
    BY <2>1 DEF Fetches, Snapshots
  <2> QED BY <1>1, <1>3, <2>2 DEF StatusArrives, server, flags, TypeOK
<1>4. CASE StatusFails(t)
  BY <1>1, <1>4, FaultTypes DEF StatusFails, server, flags, TypeOK, Slugs
<1>5. CASE SkipStatus(t)
  BY <1>1, <1>5 DEF SkipStatus, server, view, flags, TypeOK
<1>6. CASE Effects(t)
  <2>1. State(t) \in UIStates
    BY SeenTypes, StateTypes DEF State, TypeOK
  <2>2. seen[t].status \in Statuses \cup {"none"}
    BY SeenTypes
  <2> QED BY <1>6, <2>1, <2>2 DEF Effects, server, TypeOK
<1> QED BY <1>2, <1>3, <1>4, <1>5, <1>6, <1>7 DEF Poll

LEMMA LostTypes ==
  ASSUME TypeOK, NEW s \in Slots, RequestFails(s) \/ AnswerLost(s)
  PROVE  TypeOK'
<1>1. call' \in [Slots -> Calls \cup {Idle}]
  BY MoveTypes DEF RequestFails, AnswerLost, At, Slugs
<1> QED BY <1>1, FaultTypes DEF RequestFails, AnswerLost, server, view, flags, TypeOK

LEMMA SessionTypes ==
  ASSUME TypeOK, Session
  PROVE  TypeOK'
BY DEF Session, Boot, PhaseDone, SeePause, PauseExit, RunEnds, view, flags, TypeOK, Statuses

LEMMA TypeStep ==
  ASSUME TypeOK, OpeningWaits, [Next]_vars
  PROVE  TypeOK'
<1>1. CASE UNCHANGED vars
  BY <1>1 DEF vars, server, view, flags, TypeOK
<1> QED BY <1>1, ClickTypes, PollTypes, ServeTypes, LostTypes, AnsweredTypes, SessionTypes DEF Next

LEMMA OpeningKept ==
  ASSUME TypeOK, OpeningWaits, opening # NoSlot,
         \/ \E t \in Tabs : Click(t) \/ Poll(t) \/ Effects(t)
         \/ \E s \in Slots : RequestFails(s) \/ AnswerLost(s) \/ Answered(s)
         \/ Session
         \/ UNCHANGED vars
  PROVE  opening' = opening /\ call'[opening] = call[opening]
<1> DEFINE Kept == opening' = opening /\ call'[opening] = call[opening]
<1>2. call \in [Slots -> Calls \cup {Idle}] /\ opening \in Slots
  BY DEF TypeOK
<1>3. "sent" \notin Slugs
  BY DEF Slugs
<1>4. ASSUME NEW t \in Tabs, Click(t)
      PROVE  Kept
  BY <1>2, <1>4 DEF Click, ClickStart, ClickPause, ClickResume, ClickRestart, ConfirmCancel,
                    OpenDialog, CloseDialog, SwitchTab, Post, server, OpeningWaits
<1>5. ASSUME NEW t \in Tabs, Poll(t) \/ Effects(t)
      PROVE  Kept
  BY <1>2, <1>5 DEF Poll, AskStatus, ProbeSession, StatusArrives, StatusFails, SkipStatus,
                    EndRefetch, Refetching, At, Effects, server, OpeningWaits
<1>6. ASSUME NEW s \in Slots, RequestFails(s) \/ AnswerLost(s)
      PROVE  Kept
  BY <1>2, <1>6 DEF RequestFails, AnswerLost, Move, At, server, OpeningWaits
<1>7. ASSUME NEW s \in Slots, Answered(s)
      PROVE  Kept
  BY <1>2, <1>3, <1>7 DEF Answered, StartAnswered, PauseAnswered, ResumeAnswered, CancelAnswered,
                    RestartAnswered, Failed, Done, Move, At, server, OpeningWaits
<1>9. CASE Session \/ UNCHANGED vars
  BY <1>9 DEF Session, Boot, PhaseDone, SeePause, PauseExit, RunEnds, vars, server
<1> QED BY <1>4, <1>5, <1>6, <1>7, <1>9

(* A start that is halfway has told its event and has no session yet. *)
StartTold ==
  opening # NoSlot /\ call[opening].verb \in {"start", "relaunch"}
  => status = "running" /\ session = "none"

LEMMA OpeningStep ==
  ASSUME TypeOK, OpeningWaits, StartTold, [Next]_vars
  PROVE  (OpeningWaits /\ StartTold)'
<1>1. CASE opening' = NoSlot
  BY <1>1 DEF OpeningWaits, StartTold
<1>2. CASE /\ opening # NoSlot
           /\ \/ \E t \in Tabs : Click(t) \/ Poll(t) \/ Effects(t)
              \/ \E s \in Slots : RequestFails(s) \/ AnswerLost(s) \/ Answered(s)
              \/ UNCHANGED vars
  BY <1>2, OpeningKept, ClientLeavesServer DEF OpeningWaits, StartTold, server
<1>3. CASE opening # NoSlot /\ Session
  <2>1. opening' = opening /\ call'[opening] = call[opening]
    BY <1>3, OpeningKept
  <2>2. session # "none"
    BY <1>3 DEF Session, Boot, PhaseDone, SeePause, PauseExit, RunEnds
  <2> QED BY <2>1, <2>2 DEF OpeningWaits, StartTold
<1>4. ASSUME NEW s \in Slots, Serve(s)
      PROVE  (OpeningWaits /\ StartTold)'
  <2>1. CASE ServeStart(s)
    <3>1. opening' = NoSlot \/ (opening' = s /\ call' = call /\ status' = "running" /\ session' = "none")
      BY <2>1 DEF ServeStart, Arrives, Refuse
    <3> QED BY <1>1, <2>1, <3>1 DEF ServeStart, Arrives, At, OpeningWaits, StartTold
  <2>2. CASE ServeResume(s)
    <3>1. opening' = NoSlot \/ (opening' = s /\ call' = call)
      BY <2>2 DEF ServeResume, Arrives, Refuse
    <3> QED BY <1>1, <2>2, <3>1 DEF ServeResume, Arrives, At, OpeningWaits, StartTold
  <2>3. CASE ServePause(s) \/ ServeCancel(s) \/ FinishStart(s) \/ FinishResume(s)
    BY <1>1, <2>3 DEF ServePause, ServeCancel, FinishStart, FinishResume, Arrives, Refuse
  <2> QED BY <1>4, <2>1, <2>2, <2>3 DEF Serve
<1>5. CASE opening = NoSlot /\ ~(\E s \in Slots : Serve(s))
  <2>1. UNCHANGED server \/ Session
    BY <1>5, ClientLeavesServer DEF Next
  <2>2. opening' = opening
    BY <2>1 DEF server, Session, Boot, PhaseDone, SeePause, PauseExit, RunEnds
  <2> QED BY <1>1, <1>5, <2>2
<1> QED BY <1>2, <1>3, <1>4, <1>5 DEF Next

Inv == TypeOK /\ OpeningWaits /\ StartTold

LEMMA Invariance == Spec => []Inv
<1>1. Init => Inv
  <2> SUFFICES ASSUME Init PROVE Inv
    OBVIOUS
  <2>1. /\ seen \in [Tabs -> Snapshots \cup {Unknown}] /\ fetch \in [Tabs -> Fetches \cup {NoFetch}]
        /\ ref \in [Tabs -> UIStates] /\ reconciled \in [Tabs -> Statuses \cup {"none"}]
    BY DEF Init, UIStates
  <2>2. {starting, resuming, pausing, visible} \subseteq [Tabs -> BOOLEAN]
    BY DEF Init
  <2>3. call \in [Slots -> Calls \cup {Idle}]
    BY DEF Init
  <2>4. /\ error \in [Tabs -> {"none"} \cup Slugs]
        /\ dialog \in [Tabs -> {"closed", "open", "cancelling"}]
    BY DEF Init
  <2>5. /\ session = "none" /\ status = "idle" /\ pauseFile = FALSE /\ opening = NoSlot
        /\ faults \in 0..MaxFaults
    BY ControlsAssumption DEF Init
  <2> QED BY <2>1, <2>2, <2>3, <2>4, <2>5 DEF Inv, TypeOK, OpeningWaits, StartTold, Statuses
<1>2. Inv /\ [Next]_vars => Inv'
  BY TypeStep, OpeningStep DEF Inv
<1> QED BY <1>1, <1>2, PTL DEF Spec

(* Every variable keeps its type: above all the state a tab derives of what *)
(* it has seen and of its flags is one that the components know             *)
(* (useSessionControls.ts, _deriveState), through any sequence of clicks,   *)
(* answers and polls.                                                       *)
THEOREM TypeCorrect == Spec => []TypeOK
BY Invariance, PTL DEF Inv

-----------------------------------------------------------------------------
(* What the server says, against what runs. *)
Truthful == CancelledIsDead /\ PausedStops

LEMMA ServeKeepsTruth ==
  ASSUME Inv, Truthful, NEW s \in Slots, Serve(s)
  PROVE  Truthful'
<1> USE DEF Truthful, CancelledIsDead, PausedStops
<1>1. CASE ServeStart(s)
  BY <1>1 DEF ServeStart, Arrives, Refuse
<1>2. CASE FinishStart(s)
  <2>1. opening # NoSlot /\ call[opening].verb \in {"start", "relaunch"}
    BY <1>2, ControlsAssumption DEF FinishStart, Slots, NoSlot
  <2>2. status = "running"
    BY <2>1 DEF Inv, StartTold
  <2> QED BY <1>2, <2>2 DEF FinishStart
<1>3. CASE ServePause(s)
  BY <1>3 DEF ServePause, Refuse
<1>4. CASE ServeCancel(s)
  BY <1>4 DEF ServeCancel, Refuse
<1>5. CASE ServeResume(s)
  BY <1>5 DEF ServeResume, Refuse, Inv, TypeOK, Slots, NoSlot
<1>6. CASE FinishResume(s)
  BY <1>6 DEF FinishResume
<1> QED BY <1>1, <1>2, <1>3, <1>4, <1>5, <1>6 DEF Serve

LEMMA TruthStep ==
  ASSUME Inv, Truthful, [Next]_vars
  PROVE  Truthful'
<1>1. UNCHANGED server => Truthful'
  BY DEF server, Truthful, CancelledIsDead, PausedStops
<1>2. Session => Truthful'
  BY DEF Session, Boot, PhaseDone, SeePause, PauseExit, RunEnds, Truthful, CancelledIsDead,
         PausedStops
<1> QED BY <1>1, <1>2, ClientLeavesServer, ServeKeepsTruth DEF Next

LEMMA AlwaysTruthful == Spec => []Truthful
<1>1. Init => Truthful
  BY DEF Init, Truthful, CancelledIsDead, PausedStops
<1> QED BY <1>1, TruthStep, Invariance, PTL DEF Spec

(* Whichever handlers, answers, polls and steps of the session come in      *)
(* between, a status cancelled is not that of a session that runs           *)
(* (control.py, _handle_cancel; _handle_resume refuses what was cancelled,  *)
(* and a start has written its own event before it starts the session).     *)
THEOREM CancelledStaysDead == Spec => []CancelledIsDead
BY AlwaysTruthful, PTL DEF Truthful

(* A chain that is called paused has its pause file before it, or drains,   *)
(* or is gone, over every interleaving of handlers that fail halfway with   *)
(* the chain's own steps (control.py, _handle_pause, _handle_resume;        *)
(* autopilot-chain.sh:956-979).                                             *)
THEOREM PausedChainStops == Spec => []PausedStops
BY AlwaysTruthful, PTL DEF Truthful
=============================================================================
