------------------------------ MODULE Controls ------------------------------
(***************************************************************************)
(* Start, pause, resume, cancel and restart of one session from the        *)
(* dashboard: the hook useSessionControls with the components around it,   *)
(* the handlers of control.py, and the session in its tmux.                *)
(*                                                                         *)
(* Three views of the session meet here.  The session itself runs or does  *)
(* not; the server folds the lifecycle events of its stream into a status; *)
(* a browser tab polls that status and lays optimistic flags over it until *)
(* a poll settles them.  Requests, answers and polls overlap.              *)
(***************************************************************************)
EXTENDS Naturals

CONSTANTS
  Tabs,       \* browser tabs that show the session's controls
  MaxCalls,   \* bound: requests under way at one time
  MaxFaults,  \* bound: failures, losses and hidden tabs in one behaviour
  Kind,       \* targetKind: "chain" or "autopilot"
  Density     \* "header" or "panel"

ASSUME ControlsAssumption ==
  /\ MaxCalls \in Nat \ {0}
  /\ MaxFaults \in Nat
  /\ Kind \in {"chain", "autopilot"}
  /\ Density \in {"header", "panel"}

VARIABLES
  session,     \* the tmux session: none, boot, run, drain
  status,      \* what the lifecycle events amount to
  pauseFile,   \* the pause file exists
  opening,     \* the start or resume that is halfway: one of its two acts is done
  seen,        \* per tab: swrData, a status with the session's liveness
  fetch,       \* per tab: the status request under way, with what it has found so far
  starting,    \* per tab: isStarting
  resuming,    \* per tab: isResuming
  pausing,     \* per tab: pauseRequestedAt is set
  ref,         \* per tab: stateRef.current
  reconciled,  \* per tab: the status the reconcile effect last ran for
  error,       \* per tab: the slug of the error shown
  dialog,      \* per tab: closed, open, cancelling
  visible,     \* per tab: not document.hidden
  call,        \* per slot: a mutation under way, or Idle
  faults       \* faults left

server == <<session, status, pauseFile, opening>>
flags == <<starting, resuming, pausing>>
view == <<seen, fetch, ref, reconciled, visible>>
vars == <<server, view, flags, error, dialog, call, faults>>

Slots == 1..MaxCalls
NoSlot == 0
Statuses == {"idle", "running", "paused", "cancelled"}
Unknown == [status |-> "none", live |-> FALSE]
Snapshots == [status : Statuses, live : BOOLEAN]
Fetches == [status : Statuses, live : BOOLEAN, probed : BOOLEAN]
NoFetch == [status |-> "no fetch", live |-> FALSE, probed |-> FALSE]
Verbs == {"start", "pause", "resume", "cancel", "restart", "relaunch"}
Slugs == {"csrf", "network", "tmux_error", "pause_write_failed", "concurrent_cap_reached",
          "already_running", "cannot_resume", "http"}
Idle == [verb |-> "idle"]
UIStates == {"idle", "starting", "running", "paused", "resuming", "cancelled"}

-----------------------------------------------------------------------------
(* How the hook and its components read the server's status. *)

DeriveState(st, isStarting, isResuming) ==
  CASE st = "none" -> "idle"
    [] st = "idle" /\ isStarting -> "starting"
    [] st \in {"idle", "paused"} /\ isResuming /\ ~(st = "idle" /\ isStarting) -> "resuming"
    [] OTHER -> st

State(t) == DeriveState(seen[t].status, starting[t], resuming[t])

IsAllowed(verb, st) ==
  CASE verb = "start" -> st \in {"idle", "cancelled"}
    [] verb = "pause" -> st = "running"
    [] verb = "resume" -> st = "paused"
    [] verb = "cancel" -> st \in {"starting", "running", "resuming", "paused"}
    [] OTHER -> TRUE

IsStale(t) == State(t) = "running" /\ ~seen[t].live

(* The buttons a tab shows and enables, _BUTTON_VISIBILITY included. *)
Offered(t) ==
  LET st == State(t)
      hidden == Density = "header" /\ IsStale(t)
  IN  {v \in {"start", "pause", "resume", "cancel"} :
         /\ IsAllowed(v, st)
         /\ v \in {"pause", "cancel"} => ~hidden
         /\ v = "pause" => ~pausing[t]}
      \cup (IF st \in {"running", "paused", "resuming"} /\ ~hidden THEN {"attach"} ELSE {})
      \cup (IF hidden THEN {"restart"} ELSE {})

(* The chip: what the tab says of the session. *)
Chip(t) ==
  IF State(t) = "running" /\ pausing[t] THEN "pausing" ELSE State(t)

-----------------------------------------------------------------------------
Init ==
  /\ session = "none" /\ status = "idle" /\ pauseFile = FALSE /\ opening = NoSlot
  /\ seen = [t \in Tabs |-> Unknown]
  /\ fetch = [t \in Tabs |-> NoFetch]
  /\ starting = [t \in Tabs |-> FALSE]
  /\ resuming = [t \in Tabs |-> FALSE]
  /\ pausing = [t \in Tabs |-> FALSE]
  /\ ref = [t \in Tabs |-> "idle"]
  /\ reconciled = [t \in Tabs |-> "none"]
  /\ error = [t \in Tabs |-> "none"]
  /\ dialog = [t \in Tabs |-> "closed"]
  /\ visible = [t \in Tabs |-> TRUE]
  /\ call = [s \in Slots |-> Idle]
  /\ faults = MaxFaults

-----------------------------------------------------------------------------
Fault == faults > 0 /\ faults' = faults - 1

(* The operator's clicks.  A render follows each click before the next one, *)
(* and its effects copy the new state to stateRef.                          *)

Post(s, t, verb) ==
  /\ call[s] = Idle /\ \A r \in Slots : call[r] = Idle => s <= r
  /\ call' = [call EXCEPT ![s] = [tab |-> t, verb |-> verb, at |-> "sent"]]
  /\ error' = [error EXCEPT ![t] = "none"]

Rendered(t) ==
  ref' = [ref EXCEPT ![t] = DeriveState(seen[t].status, starting'[t], resuming'[t])]

ClickStart(s, t) ==
  /\ visible[t] /\ dialog[t] = "closed"
  /\ "start" \in Offered(t) /\ IsAllowed("start", ref[t])
  /\ Post(s, t, "start")
  /\ starting' = [starting EXCEPT ![t] = TRUE]
  /\ UNCHANGED <<resuming, pausing>>
  /\ Rendered(t)
  /\ UNCHANGED <<server, seen, fetch, reconciled, visible, dialog, faults>>

ClickPause(s, t) ==
  /\ visible[t] /\ dialog[t] = "closed"
  /\ "pause" \in Offered(t) /\ IsAllowed("pause", ref[t])
  /\ Post(s, t, "pause")
  /\ pausing' = [pausing EXCEPT ![t] = TRUE]
  /\ UNCHANGED <<starting, resuming>>
  /\ Rendered(t)
  /\ UNCHANGED <<server, seen, fetch, reconciled, visible, dialog, faults>>

ClickResume(s, t) ==
  /\ visible[t] /\ dialog[t] = "closed"
  /\ "resume" \in Offered(t) /\ IsAllowed("resume", ref[t])
  /\ Post(s, t, "resume")
  /\ resuming' = [resuming EXCEPT ![t] = TRUE]
  /\ UNCHANGED <<starting, pausing>>
  /\ Rendered(t)
  /\ UNCHANGED <<server, seen, fetch, reconciled, visible, dialog, faults>>

ClickRestart(s, t) ==
  /\ visible[t] /\ dialog[t] = "closed"
  /\ "restart" \in Offered(t)
  /\ Post(s, t, "restart")
  /\ UNCHANGED <<server, view, flags, dialog, faults>>

OpenDialog(t) ==
  /\ visible[t] /\ dialog[t] = "closed"
  /\ "cancel" \in Offered(t)
  /\ dialog' = [dialog EXCEPT ![t] = "open"]
  /\ UNCHANGED <<server, view, flags, error, call, faults>>

CloseDialog(t) ==
  /\ visible[t] /\ dialog[t] = "open"
  /\ dialog' = [dialog EXCEPT ![t] = "closed"]
  /\ UNCHANGED <<server, view, flags, error, call, faults>>

(* "Cancel anyway": the dialog stays up while the request is under way, and *)
(* closes at once when the state has become one that cannot be cancelled.   *)
ConfirmCancel(s, t) ==
  /\ visible[t] /\ dialog[t] = "open"
  /\ IF IsAllowed("cancel", ref[t])
       THEN /\ Post(s, t, "cancel")
            /\ dialog' = [dialog EXCEPT ![t] = "cancelling"]
       ELSE /\ dialog' = [dialog EXCEPT ![t] = "closed"]
            /\ UNCHANGED <<call, error>>
  /\ UNCHANGED <<server, view, flags, faults>>

(* document.hidden *)
SwitchTab(t) ==
  /\ IF visible[t] THEN Fault ELSE UNCHANGED faults
  /\ visible' = [visible EXCEPT ![t] = ~@]
  /\ UNCHANGED <<server, flags, error, dialog, call, seen, fetch, ref, reconciled>>

-----------------------------------------------------------------------------
(* A mutation's way to the server: _postMutation. *)

At(s, stage) == call[s] # Idle /\ call[s].at = stage
Move(s, stage) == call' = [call EXCEPT ![s].at = stage]

(* No csrf token can be had, CSRFMiddleware turns the token away, or the    *)
(* request is lost: the server does not act.                                *)
RequestFails(s) ==
  /\ At(s, "sent") /\ opening # s
  /\ Fault
  /\ \E slug \in {"csrf", "network"} : Move(s, slug)
  /\ UNCHANGED <<server, view, flags, error, dialog>>

(* The server acted and its answer is lost, or comes back as a page of a    *)
(* proxy: _parseControlError calls it http.                                 *)
AnswerLost(s) ==
  /\ At(s, "ok")
  /\ Fault
  /\ \E slug \in {"network", "http"} : Move(s, slug)
  /\ UNCHANGED <<server, view, flags, error, dialog>>

-----------------------------------------------------------------------------
(* control.py.  A handler runs to its end before the next one: none awaits. *)
(* The session, and the reads of the status, which have threads of their    *)
(* own, do not wait for it: start and resume, which write an event and      *)
(* start the session one after the other, are two steps.                    *)

Arrives(s, verbs) == At(s, "sent") /\ call[s].verb \in verbs /\ opening = NoSlot
Refuse(s, slug) == Move(s, slug) /\ UNCHANGED <<session, pauseFile, opening>>

(* _handle_start up to its event. *)
ServeStart(s) ==
  /\ Arrives(s, {"start", "relaunch"})
  /\ \/ session # "none" /\ Refuse(s, "already_running") /\ UNCHANGED <<status, faults>>
     \/ Fault /\ Refuse(s, "concurrent_cap_reached") /\ UNCHANGED status
     \/ /\ session = "none"
        /\ status' = "running" /\ opening' = s
        /\ UNCHANGED <<session, pauseFile, call, faults>>
  /\ UNCHANGED <<view, flags, error, dialog>>

(* The event stays when tmux fails. *)
FinishStart(s) ==
  /\ opening = s /\ call[s].verb \in {"start", "relaunch"}
  /\ opening' = NoSlot
  /\ \/ session' = "boot" /\ Move(s, "ok") /\ UNCHANGED faults
     \/ Fault /\ Move(s, "tmux_error") /\ UNCHANGED session
  /\ UNCHANGED <<status, pauseFile, view, flags, error, dialog>>

(* Mutant: The paused event is written before the file, which may fail. *)
ServePauseTold(s) ==
  /\ Arrives(s, {"pause"})
  /\ \/ Fault /\ Refuse(s, "pause_write_failed") /\ status' = "paused"
     \/ /\ pauseFile' = TRUE /\ status' = "paused"
        /\ Move(s, "ok")
        /\ UNCHANGED <<session, opening, faults>>
  /\ UNCHANGED <<view, flags, error, dialog>>

(* _handle_pause: the status says paused at once, whatever the session does. *)
ServePause(s) ==
  /\ Arrives(s, {"pause"})
  /\ \/ Fault /\ Refuse(s, "pause_write_failed") /\ UNCHANGED status
     \/ /\ pauseFile' = TRUE /\ status' = "paused"
        /\ Move(s, "ok")
        /\ UNCHANGED <<session, opening, faults>>
  /\ UNCHANGED <<view, flags, error, dialog>>

(* Mutant: The cancelled event is written before the kill is known to work. *)
ServeCancelTold(s) ==
  /\ Arrives(s, {"cancel", "restart"})
  /\ \/ Fault /\ Refuse(s, "tmux_error") /\ status' = "cancelled"
     \/ /\ session' = "none" /\ status' = "cancelled"
        /\ Move(s, "ok")
        /\ UNCHANGED <<pauseFile, opening, faults>>
  /\ UNCHANGED <<view, flags, error, dialog>>

(* _handle_cancel: a session that is gone already is as good as killed. *)
ServeCancel(s) ==
  /\ Arrives(s, {"cancel", "restart"})
  /\ \/ Fault /\ Refuse(s, "tmux_error") /\ UNCHANGED status
     \/ /\ session' = "none" /\ status' = "cancelled"
        /\ Move(s, "ok")
        /\ UNCHANGED <<pauseFile, opening, faults>>
  /\ UNCHANGED <<view, flags, error, dialog>>

(* _handle_resume up to start_session: what runs or was cancelled is not    *)
(* resumed, everything else is, unless the next phase cannot be told or the *)
(* cap is reached.                                                          *)
ServeResume(s) ==
  /\ Arrives(s, {"resume"})
  /\ \/ /\ status \in {"cancelled", "running"}
        /\ Refuse(s, "cannot_resume") /\ UNCHANGED faults
     \/ /\ status \notin {"cancelled", "running"} /\ session # "none"
        /\ Refuse(s, "already_running") /\ UNCHANGED faults
     \/ /\ Fault
        /\ \E slug \in {"cannot_resume", "concurrent_cap_reached", "tmux_error"} : Refuse(s, slug)
     \/ /\ status \notin {"cancelled", "running"} /\ session = "none"
        /\ session' = "boot" /\ opening' = s
        /\ UNCHANGED <<pauseFile, call, faults>>
  /\ UNCHANGED <<status, view, flags, error, dialog>>

(* The session runs already: now chain.PAUSE is removed, if it can be, and  *)
(* `resumed` is written.                                                    *)
FinishResume(s) ==
  /\ opening = s /\ call[s].verb = "resume"
  /\ opening' = NoSlot
  /\ \/ pauseFile' = (pauseFile /\ Kind = "autopilot") /\ UNCHANGED faults
     \/ Fault /\ UNCHANGED pauseFile
  /\ status' = "running"
  /\ Move(s, "ok")
  /\ UNCHANGED <<session, view, flags, error, dialog>>

-----------------------------------------------------------------------------
(* The answer reaches the hook. *)

Done(s) == call' = [call EXCEPT ![s] = Idle]
Failed(s) == call[s] # Idle /\ call[s].at \in Slugs

(* start, and the second leg of restart, which ends in a new poll. *)
StartAnswered(s) ==
  /\ Failed(s) \/ At(s, "ok")
  /\ call[s].verb \in {"start", "relaunch"}
  /\ LET t == call[s].tab IN
     /\ IF Failed(s)
          THEN /\ starting' = [starting EXCEPT ![t] = FALSE]
               /\ error' = [error EXCEPT ![t] = call[s].at]
          ELSE UNCHANGED <<starting, error>>
     /\ IF call[s].verb = "relaunch"
          THEN Move(s, "refetch") /\ fetch' = [fetch EXCEPT ![t] = NoFetch]
          ELSE Done(s) /\ UNCHANGED fetch
  /\ UNCHANGED <<server, resuming, pausing, seen, ref, reconciled, visible, dialog, faults>>

PauseAnswered(s) ==
  /\ Failed(s) \/ At(s, "ok")
  /\ call[s].verb = "pause"
  /\ LET t == call[s].tab IN
     IF Failed(s)
       THEN /\ pausing' = [pausing EXCEPT ![t] = FALSE]
            /\ error' = [error EXCEPT ![t] = call[s].at]
       ELSE UNCHANGED <<pausing, error>>
  /\ Done(s)
  /\ UNCHANGED <<server, view, starting, resuming, dialog, faults>>

ResumeAnswered(s) ==
  /\ Failed(s) \/ At(s, "ok")
  /\ call[s].verb = "resume"
  /\ LET t == call[s].tab IN
     IF Failed(s)
       THEN /\ resuming' = [resuming EXCEPT ![t] = FALSE]
            /\ error' = [error EXCEPT ![t] = call[s].at]
       ELSE UNCHANGED <<resuming, error>>
  /\ Done(s)
  /\ UNCHANGED <<server, view, starting, pausing, dialog, faults>>

(* Mutant: a refused cancel is shown, and the dialog left as it is. *)
CancelAnsweredThrown(s) ==
  /\ Failed(s) \/ At(s, "ok")
  /\ call[s].verb = "cancel"
  /\ LET t == call[s].tab IN
     IF Failed(s)
       THEN /\ error' = [error EXCEPT ![t] = call[s].at]
            /\ Done(s) /\ UNCHANGED <<fetch, dialog>>
       ELSE /\ Move(s, "refetch")
            /\ fetch' = [fetch EXCEPT ![t] = NoFetch]
            /\ UNCHANGED <<error, dialog>>
  /\ UNCHANGED <<server, flags, seen, ref, reconciled, visible, faults>>

(* cancel resolves without throwing whatever the answer, and the dialog is  *)
(* closed: at once after a failure, after a new poll otherwise.             *)
CancelAnswered(s) ==
  /\ Failed(s) \/ At(s, "ok")
  /\ call[s].verb = "cancel"
  /\ LET t == call[s].tab IN
     IF Failed(s)
       THEN /\ error' = [error EXCEPT ![t] = call[s].at]
            /\ dialog' = [dialog EXCEPT ![t] = "closed"]
            /\ Done(s) /\ UNCHANGED fetch
       ELSE /\ Move(s, "refetch")
            /\ fetch' = [fetch EXCEPT ![t] = NoFetch]
            /\ UNCHANGED <<error, dialog>>
  /\ UNCHANGED <<server, flags, seen, ref, reconciled, visible, faults>>

(* restart goes from its cancel to its start without asking stateRef. *)
RestartAnswered(s) ==
  /\ Failed(s) \/ At(s, "ok")
  /\ call[s].verb = "restart"
  /\ LET t == call[s].tab IN
     IF Failed(s)
       THEN /\ error' = [error EXCEPT ![t] = call[s].at]
            /\ Done(s) /\ UNCHANGED starting
       ELSE /\ call' = [call EXCEPT ![s] = [tab |-> t, verb |-> "relaunch", at |-> "sent"]]
            /\ starting' = [starting EXCEPT ![t] = TRUE]
            /\ UNCHANGED error
  /\ UNCHANGED <<server, view, resuming, pausing, dialog, faults>>

-----------------------------------------------------------------------------
(* The status poll: useSWR asks while the tab is visible, and scopedMutate  *)
(* asks anew, dropping what is under way.                                   *)

(* derive_status folds the events, and _state_to_dict then asks tmux about  *)
(* a session that should be there.                                          *)
LiveStatuses == {"running", "paused"}

Refetching(t) == {s \in Slots : At(s, "refetch") /\ call[s].tab = t}

(* Calls that waited for the new poll go on: the dialog of a cancel closes. *)
EndRefetch(t) ==
  /\ call' = [s \in Slots |-> IF s \in Refetching(t) THEN Idle ELSE call[s]]
  /\ dialog' = IF \E s \in Refetching(t) : call[s].verb = "cancel"
                 THEN [dialog EXCEPT ![t] = "closed"] ELSE dialog

AskStatus(t) ==
  /\ visible[t] /\ fetch[t] = NoFetch
  /\ fetch' = [fetch EXCEPT ![t] = [status |-> status, live |-> FALSE,
                                    probed |-> status \notin LiveStatuses]]
  /\ UNCHANGED <<server, flags, error, dialog, call, seen, ref, reconciled, visible, faults>>

(* A probe that fails counts as a session that is gone. *)
ProbeSession(t) ==
  /\ fetch[t] # NoFetch /\ ~fetch[t].probed
  /\ \E alive \in BOOLEAN :
       /\ fetch' = [fetch EXCEPT ![t].live = alive, ![t].probed = TRUE]
       /\ IF alive = (session # "none") THEN UNCHANGED faults ELSE ~alive /\ Fault
  /\ UNCHANGED <<server, flags, error, dialog, call, seen, ref, reconciled, visible>>

StatusArrives(t) ==
  /\ fetch[t] # NoFetch /\ fetch[t].probed
  /\ seen' = [seen EXCEPT ![t] =
                IF visible[t] THEN [status |-> fetch[t].status, live |-> fetch[t].live] ELSE @]
  /\ fetch' = [fetch EXCEPT ![t] = NoFetch]
  /\ EndRefetch(t)
  /\ UNCHANGED <<server, flags, error, ref, reconciled, visible, faults>>

(* swrError becomes the error shown; only the next click takes it away. *)
StatusFails(t) ==
  /\ fetch[t] # NoFetch /\ Fault
  /\ error' = [error EXCEPT ![t] = "http"]
  /\ fetch' = [fetch EXCEPT ![t] = NoFetch]
  /\ EndRefetch(t)
  /\ UNCHANGED <<server, flags, seen, ref, reconciled, visible>>

(* A hidden tab polls nothing, not even for scopedMutate. *)
SkipStatus(t) ==
  /\ ~visible[t] /\ fetch[t] = NoFetch /\ Refetching(t) # {}
  /\ EndRefetch(t)
  /\ UNCHANGED <<server, view, flags, error, faults>>

(* Mutant: paused settles the resume but not the pause. *)
EffectsKeepPausing(t) ==
  /\ ref[t] # State(t) \/ reconciled[t] # seen[t].status
  /\ ref' = [ref EXCEPT ![t] = State(t)]
  /\ reconciled' = [reconciled EXCEPT ![t] = seen[t].status]
  /\ LET st == IF reconciled[t] = seen[t].status THEN "same" ELSE seen[t].status IN
     /\ starting' = [starting EXCEPT ![t] = @ /\ st \notin {"running", "cancelled"}]
     /\ resuming' = [resuming EXCEPT ![t] = @ /\ st \notin {"running", "paused", "cancelled"}]
     /\ pausing' = [pausing EXCEPT ![t] = @ /\ st # "cancelled"]
  /\ UNCHANGED <<server, error, dialog, call, seen, fetch, visible, faults>>

(* The effects after a render: stateRef follows the state; the pending      *)
(* flags are settled when the status has changed, and only then.            *)
Effects(t) ==
  /\ ref[t] # State(t) \/ reconciled[t] # seen[t].status
  /\ ref' = [ref EXCEPT ![t] = State(t)]
  /\ reconciled' = [reconciled EXCEPT ![t] = seen[t].status]
  /\ LET st == IF reconciled[t] = seen[t].status THEN "same" ELSE seen[t].status IN
     /\ starting' = [starting EXCEPT ![t] = @ /\ st \notin {"running", "cancelled"}]
     /\ resuming' = [resuming EXCEPT ![t] = @ /\ st \notin {"running", "paused", "cancelled"}]
     /\ pausing' = [pausing EXCEPT ![t] = @ /\ st \notin {"paused", "cancelled"}]
  /\ UNCHANGED <<server, error, dialog, call, seen, fetch, visible, faults>>

-----------------------------------------------------------------------------
(* The session: autopilot-chain.sh run, or autopilot.sh --full. *)

Boot ==
  /\ session = "boot"
  /\ session' = "run" /\ status' = "running"
  /\ UNCHANGED <<pauseFile, opening, view, flags, error, dialog, call, faults>>

(* A gate passes, or a phase ends: phase_complete makes the status running. *)
PhaseDone ==
  /\ session \in {"run", "drain"}
  /\ status' = "running"
  /\ UNCHANGED <<session, pauseFile, opening, view, flags, error, dialog, call, faults>>

(* A chain looks for chain.PAUSE in its plan's directory, where the server  *)
(* writes it, and the request is latched.  An autopilot looks for           *)
(* autopilot.PAUSE in its worktree; the server writes it under docs of main.*)
SeePause ==
  /\ Kind = "chain" /\ session = "run" /\ pauseFile
  /\ session' = "drain"
  /\ UNCHANGED <<status, pauseFile, opening, view, flags, error, dialog, call, faults>>

PauseExit ==
  /\ session = "drain"
  /\ session' = "none" /\ status' = "paused"
  /\ UNCHANGED <<pauseFile, opening, view, flags, error, dialog, call, faults>>

(* Done, failed, blocked or killed: no lifecycle event tells of it. *)
RunEnds ==
  /\ session \in {"run", "drain"}
  /\ session' = "none"
  /\ UNCHANGED <<status, pauseFile, opening, view, flags, error, dialog, call, faults>>

-----------------------------------------------------------------------------
Click(t) ==
  \/ \E s \in Slots : ClickStart(s, t) \/ ClickPause(s, t) \/ ClickResume(s, t)
                       \/ ClickRestart(s, t) \/ ConfirmCancel(s, t)
  \/ OpenDialog(t) \/ CloseDialog(t) \/ SwitchTab(t)

Serve(s) ==
  \/ ServeStart(s) \/ FinishStart(s) \/ ServePause(s) \/ ServeCancel(s)
  \/ ServeResume(s) \/ FinishResume(s)

Answered(s) ==
  \/ StartAnswered(s) \/ PauseAnswered(s) \/ ResumeAnswered(s)
  \/ CancelAnswered(s) \/ RestartAnswered(s)

Poll(t) ==
  AskStatus(t) \/ ProbeSession(t) \/ StatusArrives(t) \/ StatusFails(t) \/ SkipStatus(t)

Session == Boot \/ PhaseDone \/ SeePause \/ PauseExit \/ RunEnds

Next ==
  \/ \E t \in Tabs : Click(t) \/ Poll(t) \/ Effects(t)
  \/ \E s \in Slots : Serve(s) \/ RequestFails(s) \/ AnswerLost(s) \/ Answered(s)
  \/ Session

(* Requests are served and answered, polls go on and renders are followed   *)
(* by their effects.  Nobody has to click, a tab may stay hidden, and a     *)
(* session may hang.                                                        *)
Fairness ==
  /\ \A t \in Tabs : WF_vars(Poll(t)) /\ WF_vars(Effects(t))
  /\ \A s \in Slots : WF_vars(Serve(s)) /\ WF_vars(Answered(s))

Spec == Init /\ [][Next]_vars /\ Fairness

-----------------------------------------------------------------------------
Calls == [tab : Tabs, verb : Verbs,
          at : {"sent", "refetch", "ok"} \cup Slugs]

(* TypeOK: every variable keeps its type, stateRef a state of the UI. *)
TypeOK ==
  /\ session \in {"none", "boot", "run", "drain"}
  /\ status \in Statuses /\ pauseFile \in BOOLEAN /\ opening \in Slots \cup {NoSlot}
  /\ seen \in [Tabs -> Snapshots \cup {Unknown}]
  /\ fetch \in [Tabs -> Fetches \cup {NoFetch}]
  /\ {starting, resuming, pausing, visible} \subseteq [Tabs -> BOOLEAN]
  /\ ref \in [Tabs -> UIStates]
  /\ reconciled \in [Tabs -> Statuses \cup {"none"}]
  /\ error \in [Tabs -> {"none"} \cup Slugs]
  /\ dialog \in [Tabs -> {"closed", "open", "cancelling"}]
  /\ faults \in 0..MaxFaults
  /\ call \in [Slots -> Calls \cup {Idle}]

-----------------------------------------------------------------------------
(* CancelledIsDead: what the event stream calls cancelled has no tmux       *)
(* session, whichever handlers and session steps came between (_handle_cancel *)
(* writes cancelled only after the kill).                                   *)
CancelledIsDead == status = "cancelled" => session = "none"

(* PausedStops: a status of paused is no lie of a chain that works on: it   *)
(* has its pause file before it, or is on its last steps, or is gone,       *)
(* though the event is written when the pause is asked for, the file taken  *)
(* away by a resume whose chain runs already, and either may fail           *)
(* (_handle_pause; _handle_resume, step 8).                                 *)
PausedStops ==
  Kind = "chain" /\ status = "paused" /\ session \in {"boot", "run"} /\ opening = NoSlot
  => pauseFile

(* PausingSettles: when the server stays at paused or cancelled, a tab that *)
(* is looked at stops saying "Pausing", and does not keep the flag for the  *)
(* session that is resumed or started next (the reconcile effect, which     *)
(* runs on a change of the polled status only).                             *)
PausingSettles ==
  \A t \in Tabs :
    <>[](status \in {"paused", "cancelled"}) /\ []<>visible[t] => <>[]~pausing[t]

(* DialogCloses: the cancel dialog, which cannot be closed while its        *)
(* request and the poll after it are under way, does not stay up, though    *)
(* either may get lost and the tab be hidden meanwhile (handleConfirmCancel).*)
DialogCloses ==
  \A t \in Tabs : (dialog[t] = "cancelling") ~> (dialog[t] # "cancelling")

(* PausingEnds: the chip "cannot lie about" a pause (SessionStateChip.tsx   *)
(* 10): a visible tab does not go on saying "Pausing" of a session that is  *)
(* over.                                                                    *)
PausingEnds ==
  \A t \in Tabs :
    (Chip(t) = "pausing" /\ session = "none")
      ~> (Chip(t) # "pausing" \/ ~visible[t] \/ session # "none")

(* ResumeStands: a chain that was resumed does not obey the pause it was    *)
(* resumed from ("remove chain.PAUSE AFTER start_session", control.py 693). *)
ResumeStands == [][opening # NoSlot /\ opening' = NoSlot => session' # "drain"]_vars

(* ResumingSettles: "the read path (SWR /status poll) reconciles            *)
(* pending-mutation flags" (useSessionControls.ts): the state resuming of a *)
(* visible tab is left.                                                     *)
ResumingSettles ==
  \A t \in Tabs : (State(t) = "resuming") ~> (State(t) # "resuming" \/ ~visible[t])
=============================================================================
