------------------------------ MODULE Terminal ------------------------------
(***************************************************************************)
(* The terminal panel of one browser tab: the hook useTerminalSocket, the  *)
(* csrf token it asks for, and the component TerminalPanel that writes the *)
(* frames to xterm.  The server is the environment: it opens connections,  *)
(* sends frames and closes with the codes of terminal_ws.py.               *)
(*                                                                         *)
(* Each run of the hook's effect begins one line: a chain of steps that    *)
(* waits for the token, connects, is open, waits to reconnect, and so on   *)
(* until it ends.  A line is told to end by the refs to its socket and to  *)
(* its timer, and by mountedRef.                                           *)
(***************************************************************************)
EXTENDS Integers, Sequences, FiniteSets

CONSTANTS
  Targets,      \* the sessions that may be attached, as (kind, id)
  MaxAttempts,  \* _MAX_RECONNECT_ATTEMPTS
  MaxLines,     \* bound: lines at one time
  MaxSwaps,     \* bound: changes of the panel's target
  MaxFrames,    \* bound: frames that arrive while one panel is mounted
  MaxDrops      \* bound: overflow sentinels of one panel

ASSUME TerminalAssumption ==
  /\ MaxAttempts \in Nat \ {0} /\ MaxLines \in Nat \ {0}
  /\ MaxSwaps \in Nat /\ MaxFrames \in Nat /\ MaxDrops \in Nat

CONSTANTS NoTarget, Closed   \* targetId = null; no panel mounted

ASSUME TargetAssumption ==
  /\ NoTarget \notin Targets /\ Closed \notin Targets /\ NoTarget # Closed

VARIABLES
  server,     \* down, refusing (accepts, then closes), serving
  hidden,     \* the csrf cookie cannot be read (Vite dev server)
  cached,     \* _csrfBodyTokenCache is set
  target,     \* the panel's target
  line,       \* per slot: where a line is, and its target
  wsRef,      \* the slot whose socket wsRef holds, or 0
  timerRef,   \* the slot whose timer timerRef holds, or 0
  status,     \* what the panel says of the connection
  attempt,    \* attemptRef
  queue,      \* frameQueue with every update applied
  overflow,   \* bufferOverflow.at, or 0
  shown,      \* the frames and the overflow of the last commit
  effects,    \* the effects of the last commit have yet to run
  written,    \* the frames xterm was given
  dismissed,  \* dismissedOverflowAt
  prevAt,     \* prevBufferOverflowAtRef
  arrived,    \* frames that came in since the panel was mounted
  swaps       \* target changes so far

socketVars == <<cached, line, wsRef, timerRef, status, attempt>>
frameVars == <<queue, overflow, shown, effects, written, dismissed, prevAt, arrived>>
vars == <<server, hidden, target, swaps, socketVars, frameVars>>

Slots == 1..MaxLines
NoLine == [at |-> "none", of |-> NoTarget]
Lines == [at : {"token", "connecting", "open", "timer"}, of : Targets]
Empty == [frames |-> <<>>, at |-> 0]
At(k, stage) == line[k].at = stage
Wired(k) == line[k].at \in {"connecting", "open"}
FreeSlot == CHOOSE k \in Slots : line[k] = NoLine /\ \A j \in 1..(k - 1) : line[j] # NoLine

-----------------------------------------------------------------------------
Init ==
  /\ server = "serving" /\ hidden \in BOOLEAN /\ cached = FALSE
  /\ target = Closed
  /\ line = [k \in Slots |-> NoLine]
  /\ wsRef = 0 /\ timerRef = 0
  /\ status = "idle" /\ attempt = 0
  /\ queue = <<>> /\ overflow = 0 /\ shown = Empty /\ effects = FALSE
  /\ written = <<>> /\ dismissed = 0 /\ prevAt = 0 /\ arrived = 0
  /\ swaps = 0

(* readCsrfToken finds a cookie, a meta tag or the cached body token. *)
TokenAtHand == ~hidden \/ cached

(* connect: with a token the socket is opened at once, and the socket is    *)
(* wsRef's; without one the line waits for /api/csrf.                       *)
Connect(lines, k, t) ==
  IF TokenAtHand
    THEN /\ line' = [lines EXCEPT ![k] = [at |-> "connecting", of |-> t]]
         /\ wsRef' = k /\ status' = "connecting"
    ELSE /\ line' = [lines EXCEPT ![k] = [at |-> "token", of |-> t]]
         /\ UNCHANGED status

(* Mutant: the cleanup closes the socket and forgets the timer. *)
CleanupOfSocket ==
  [k \in Slots |-> IF Wired(k) /\ wsRef = k THEN NoLine ELSE line[k]]

(* The effect's cleanup: the timer of timerRef and the socket of wsRef end. *)
(* A line that waits for its token is not told.                             *)
Cleanup ==
  [k \in Slots |->
     IF (At(k, "timer") /\ timerRef = k) \/ (Wired(k) /\ wsRef = k) THEN NoLine ELSE line[k]]

(* What a change of target leaves: with a target of null the cleanup does no *)
(* more than set mountedRef.                                                 *)
LeftLines == IF target = NoTarget THEN line ELSE Cleanup
LeftRef(ref) == IF target = NoTarget THEN ref ELSE 0

(* The effect anew: mountedRef is true again, for the old lines as well. *)
SwapTarget(t) ==
  /\ target # Closed /\ t # target /\ swaps < MaxSwaps
  /\ swaps' = swaps + 1
  /\ target' = t
  /\ attempt' = 0 /\ timerRef' = LeftRef(timerRef)
  /\ IF t = NoTarget
       THEN line' = LeftLines /\ status' = "idle" /\ wsRef' = LeftRef(wsRef)
       ELSE \E k \in Slots :
              /\ LeftLines[k] = NoLine /\ \A j \in 1..(k - 1) : LeftLines[j] # NoLine
              /\ Connect(LeftLines, k, t)
              /\ ~TokenAtHand => wsRef' = LeftRef(wsRef)
  /\ UNCHANGED <<server, hidden, cached, frameVars>>

Attach(t) ==
  /\ target = Closed /\ swaps < MaxSwaps
  /\ swaps' = swaps + 1
  /\ target' = t
  /\ Connect(line, FreeSlot, t)
  /\ ~TokenAtHand => wsRef' = 0
  /\ UNCHANGED <<server, hidden, cached, timerRef, attempt, frameVars>>

(* The panel is unmounted: mountedRef stays false, and whatever the old     *)
(* lines still do comes to nothing.                                         *)
Detach ==
  /\ target # Closed
  /\ target' = Closed
  /\ line' = [k \in Slots |-> NoLine]
  /\ wsRef' = 0 /\ timerRef' = 0 /\ status' = "idle" /\ attempt' = 0
  /\ queue' = <<>> /\ overflow' = 0 /\ shown' = Empty /\ effects' = FALSE
  /\ written' = <<>> /\ dismissed' = 0 /\ prevAt' = 0 /\ arrived' = 0
  /\ UNCHANGED <<server, hidden, cached, swaps>>

(* fetchCsrfBodyToken: one fetch for all lines that wait; all of them go on *)
(* when it comes back, one of them last.                                    *)
TokenArrives ==
  LET waiting == {k \in Slots : At(k, "token")} IN
  /\ waiting # {} /\ server # "down"
  /\ cached' = TRUE
  /\ line' = [k \in Slots |-> IF k \in waiting THEN [line[k] EXCEPT !.at = "connecting"] ELSE line[k]]
  /\ wsRef' \in waiting
  /\ status' = "connecting"
  /\ UNCHANGED <<server, hidden, target, swaps, timerRef, attempt, frameVars>>

TokenFails ==
  LET waiting == {k \in Slots : At(k, "token")} IN
  /\ waiting # {}
  /\ line' = [k \in Slots |-> IF k \in waiting THEN NoLine ELSE line[k]]
  /\ status' = "lost"
  /\ UNCHANGED <<server, hidden, target, swaps, cached, wsRef, timerRef, attempt, frameVars>>

(* _resetCsrfBodyTokenCache: a mutation of the controls on the same page    *)
(* was turned away.                                                         *)
DropToken ==
  /\ hidden /\ cached
  /\ cached' = FALSE
  /\ UNCHANGED <<server, hidden, target, swaps, line, wsRef, timerRef, status, attempt, frameVars>>

-----------------------------------------------------------------------------
(* A socket's events. *)

OnOpen(k) ==
  /\ At(k, "connecting") /\ server # "down"
  /\ line' = [line EXCEPT ![k].at = "open"]
  /\ attempt' = 0 /\ status' = "connected"
  /\ UNCHANGED <<server, hidden, target, swaps, cached, wsRef, timerRef, frameVars>>

OnFrame(k) ==
  /\ At(k, "open") /\ server = "serving" /\ arrived < MaxFrames
  /\ arrived' = arrived + 1
  /\ queue' = Append(queue, arrived + 1)
  /\ UNCHANGED <<server, hidden, target, swaps, socketVars,
                 overflow, shown, effects, written, dismissed, prevAt>>

(* The sentinel of _parseBufferOverflow; its time tells one from the next. *)
OnOverflow(k) ==
  /\ At(k, "open") /\ server = "serving" /\ overflow < MaxDrops
  /\ overflow' = overflow + 1
  /\ UNCHANGED <<server, hidden, target, swaps, socketVars,
                 queue, shown, effects, written, dismissed, prevAt, arrived>>

(* The closes there are: 1000; 1006 when nobody answers; 1011 with a reason *)
(* that may be worth another try; 1011 when the pty cannot be brought up;   *)
(* 1013 at the subscriber cap; 4001, 4400 and 4404.                         *)
Closes == {"normal", "abnormal", "internal", "pty bring-up failed", "try again",
           "csrf", "invalid id", "not found"}

ClassifyClose(c) ==
  CASE c = "normal" -> "clean"
    [] c \in {"pty bring-up failed", "csrf", "invalid id", "not found"} -> "stop"
    [] OTHER -> "reconnect"

(* Mutant: the ceiling is forgotten. *)
OnCloseForEver(k, c) ==
  /\ Wired(k)
  /\ c = "abnormal" \/ (server # "down" /\ At(k, "open"))
  /\ At(k, "connecting") => server = "down"
  /\ LET decision == ClassifyClose(c)
         again == decision = "reconnect"
     IN  /\ line' = [line EXCEPT ![k] = IF again THEN [@ EXCEPT !.at = "timer"] ELSE NoLine]
         /\ status' = IF again THEN "reconnecting" ELSE IF decision = "clean" THEN "idle" ELSE "lost"
         /\ attempt' = IF again THEN attempt + 1 ELSE attempt
         /\ timerRef' = IF again THEN k ELSE timerRef
  /\ UNCHANGED <<server, hidden, target, swaps, cached, wsRef, frameVars>>

OnClose(k, c) ==
  /\ Wired(k)
  /\ c = "abnormal" \/ (server # "down" /\ At(k, "open"))
  /\ At(k, "connecting") => server = "down"
  /\ LET decision == ClassifyClose(c)
         again == decision = "reconnect" /\ attempt < MaxAttempts
     IN  /\ line' = [line EXCEPT ![k] = IF again THEN [@ EXCEPT !.at = "timer"] ELSE NoLine]
         /\ status' = IF again THEN "reconnecting" ELSE IF decision = "clean" THEN "idle" ELSE "lost"
         /\ attempt' = IF again THEN attempt + 1 ELSE attempt
         /\ timerRef' = IF again THEN k ELSE timerRef
  /\ UNCHANGED <<server, hidden, target, swaps, cached, wsRef, frameVars>>

(* Mutant: every new connection begins to count again. *)
TimerFiresAfresh(k) ==
  /\ At(k, "timer")
  /\ Connect(line, k, line[k].of)
  /\ ~TokenAtHand => UNCHANGED wsRef
  /\ attempt' = 0
  /\ UNCHANGED <<server, hidden, target, swaps, cached, timerRef, frameVars>>

(* The backoff is over: connect, with the target of the effect that set it. *)
TimerFires(k) ==
  /\ At(k, "timer")
  /\ Connect(line, k, line[k].of)
  /\ ~TokenAtHand => UNCHANGED wsRef
  /\ UNCHANGED <<server, hidden, target, swaps, cached, timerRef, attempt, frameVars>>

ServerChanges ==
  /\ \E s \in {"down", "refusing", "serving"} : server' = s /\ s # server
  /\ UNCHANGED <<hidden, target, swaps, socketVars, frameVars>>

-----------------------------------------------------------------------------
(* React: a commit shows the state, and its effects run some time later,    *)
(* before the next commit.  A message may come in between.                  *)

Commit ==
  /\ target # Closed /\ ~effects
  /\ shown # [frames |-> queue, at |-> overflow]
  /\ shown' = [frames |-> queue, at |-> overflow]
  /\ effects' = TRUE
  /\ UNCHANGED <<server, hidden, target, swaps, socketVars,
                 queue, overflow, written, dismissed, prevAt, arrived>>

(* Mutant: the frames are written and not drained. *)
RunEffectsUndrained ==
  /\ effects
  /\ effects' = FALSE
  /\ written' = written \o shown.frames
  /\ prevAt' = shown.at
  /\ dismissed' = IF shown.frames # <<>> /\ shown.at # 0 /\ prevAt = shown.at
                    THEN shown.at ELSE dismissed
  /\ UNCHANGED <<server, hidden, target, swaps, socketVars, queue, overflow, shown, arrived>>

(* Frame ingest, drainFrames and the dismissal of the overflow alert. *)
RunEffects ==
  /\ effects
  /\ effects' = FALSE
  /\ written' = written \o shown.frames
  /\ queue' = IF shown.frames = <<>> THEN queue ELSE <<>>
  /\ prevAt' = shown.at
  /\ dismissed' = IF shown.frames # <<>> /\ shown.at # 0 /\ prevAt = shown.at
                    THEN shown.at ELSE dismissed
  /\ UNCHANGED <<server, hidden, target, swaps, socketVars, overflow, shown, arrived>>

(* What the panel shows besides the terminal. *)
Alerts ==
  (IF shown.at # 0 /\ shown.at # dismissed THEN {"overflow"} ELSE {})
  \cup (IF status \in {"reconnecting", "lost", "idle"} THEN {status} ELSE {})
  \cup (IF status \in {"connecting", "connected"} /\ written = <<>> THEN {"waiting"} ELSE {})

-----------------------------------------------------------------------------
User == (\E t \in Targets \cup {NoTarget} : SwapTarget(t)) \/ (\E t \in Targets : Attach(t)) \/ Detach

Token == TokenArrives \/ TokenFails

Socket(k) ==
  \/ OnOpen(k) \/ TimerFires(k)
  \/ \E c \in Closes : OnClose(k, c)

Message(k) == OnFrame(k) \/ OnOverflow(k)

Next ==
  \/ User \/ Token \/ DropToken \/ ServerChanges \/ Commit \/ RunEffects
  \/ \E k \in Slots : Socket(k) \/ Message(k)

(* Timers fire, fetches end, a socket to a dead server is closed by the     *)
(* browser, commits are made and followed by their effects.                 *)
Fairness ==
  /\ WF_vars(Token) /\ WF_vars(Commit) /\ WF_vars(RunEffects)
  /\ \A k \in Slots :
       /\ WF_vars(TimerFires(k)) /\ WF_vars(OnOpen(k))
       /\ WF_vars(OnClose(k, "abnormal") /\ server = "down")

Spec == Init /\ [][Next]_vars /\ Fairness

-----------------------------------------------------------------------------
(* TypeOK: every variable keeps its type. *)
TypeOK ==
  /\ server \in {"down", "refusing", "serving"}
  /\ hidden \in BOOLEAN /\ cached \in BOOLEAN /\ effects \in BOOLEAN
  /\ target \in Targets \cup {NoTarget, Closed}
  /\ line \in [Slots -> Lines \cup {NoLine}]
  /\ wsRef \in Slots \cup {0} /\ timerRef \in Slots \cup {0}
  /\ status \in {"idle", "connecting", "connected", "reconnecting", "lost"}
  /\ attempt \in 0..MaxAttempts
  /\ queue \in Seq(1..MaxFrames) /\ written \in Seq(1..MaxFrames)
  /\ shown.frames \in Seq(1..MaxFrames) /\ shown.at \in 0..MaxDrops
  /\ {overflow, dismissed, prevAt} \subseteq 0..MaxDrops
  /\ arrived \in 0..MaxFrames /\ swaps \in 0..MaxSwaps

(* OneLine: as long as the token can be read at once, one line at most is   *)
(* alive, and it is the target's: no swap leaves a socket or a timer of the *)
(* old target behind.                                                       *)
OneLine ==
  ~hidden =>
    /\ Cardinality({k \in Slots : line[k] # NoLine}) <= 1
    /\ \A k \in Slots : line[k] # NoLine => line[k].of = target

(* WrittenOnce: xterm gets frames in the order they came in, none twice.    *)
WrittenOnce == \A i, j \in DOMAIN written : i < j => written[i] < written[j]

(* GivesUp: when the server is gone for good every line ends, and the panel *)
(* says so.                                                                 *)
GivesUp ==
  (<>[](server = "down"))
    => <>[](/\ \A k \in Slots : line[k] = NoLine
            /\ target # Closed => Alerts \cap {"lost", "idle"} # {})

(* NoOldTarget: "The mountedRef gate after the await prevents a target swap *)
(* mid-fetch from opening a WS against the previous target"                 *)
(* (useTerminalSocket.ts).                                                  *)
NoOldTarget == \A k \in Slots : Wired(k) => line[k].of = target

(* AllWritten: "The queue pattern guarantees all arrived frames are written *)
(* to xterm in order" (TerminalPanel.tsx): what came in is written, or in   *)
(* the queue.                                                               *)
AllWritten ==
  \A n \in 1..arrived : \E i \in 1..Len(written \o queue) : (written \o queue)[i] = n
=============================================================================
