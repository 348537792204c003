--------------------------- MODULE TerminalProofs ---------------------------
(***************************************************************************)
(* For any number of targets, lines, attempts, frames and swaps: every     *)
(* variable of Terminal keeps its type; while the token is at hand, one    *)
(* line at most is alive, the target's; and xterm gets the frames in their *)
(* order, none twice.                                                      *)
(***************************************************************************)
EXTENDS Terminal, TLAPS, FiniteSetTheorems

Alive(k) == line[k] # NoLine

(* A line that is alive is the target's, past its token, and the ref that   *)
(* a cleanup would use to end it is its own.                                *)
Held ==
  ~hidden =>
    \A k \in Slots : Alive(k) =>
      /\ line[k].of = target
      /\ \/ At(k, "timer") /\ timerRef = k
         \/ Wired(k) /\ wsRef = k
      /\ \A j \in Slots : Alive(j) => j = k

LineType ==
  /\ line \in [Slots -> Lines \cup {NoLine}]
  /\ target \in Targets \cup {NoTarget, Closed}
  /\ hidden \in BOOLEAN

(* A panel that is not mounted has no line. *)
ClosedIsQuiet == target = Closed => \A k \in Slots : line[k] = NoLine

LineInv == LineType /\ ClosedIsQuiet /\ Held

-----------------------------------------------------------------------------
LEMMA LineTypes ==
  ASSUME NEW k \in Slots, LineType
  PROVE  /\ line[k] \in Lines \cup {NoLine}
         /\ NoLine \notin Lines
         /\ line[k] \in Lines <=> line[k].at # "none"
         /\ line[k] \in Lines => line[k].of \in Targets
BY TargetAssumption DEF LineType, Lines, NoLine

LEMMA FreeSlotIsFree ==
  ASSUME \A k \in Slots : line[k] = NoLine
  PROVE  FreeSlot = 1 /\ 1 \in Slots
<1>1. 1 \in Slots
  BY TerminalAssumption DEF Slots
<1>2. \A k \in Slots : (\A j \in 1..(k - 1) : line[j] # NoLine) => k = 1
  <2>1. SUFFICES ASSUME NEW k \in Slots, \A j \in 1..(k - 1) : line[j] # NoLine, k # 1
                 PROVE  FALSE
    OBVIOUS
  <2>2. 1 \in 1..(k - 1)
    BY <2>1, TerminalAssumption DEF Slots
  <2> QED BY <1>1, <2>1, <2>2
<1> QED BY <1>1, <1>2, TerminalAssumption DEF FreeSlot, Slots

(* Whatever the user does, the server does and the timers do. *)
LEMMA LineStep ==
  ASSUME LineInv, [Next]_vars
  PROVE  LineInv'
<1> USE DEF LineInv
<1>1. CASE UNCHANGED vars
  BY <1>1 DEF LineType, ClosedIsQuiet, Held, Alive, At, Wired, vars, socketVars
<1>2. ASSUME NEW t \in Targets \cup {NoTarget}, SwapTarget(t)
      PROVE  LineInv'
  <2>1. ~hidden => LeftLines = [k \in Slots |-> NoLine]
    <3>1. ASSUME ~hidden, NEW k \in Slots, target = NoTarget PROVE line[k] = NoLine
      BY <3>1, LineTypes, TargetAssumption DEF Held, Alive, NoLine
    <3>2. ~hidden => Cleanup = [k \in Slots |-> NoLine]
      BY DEF Held, Cleanup, Alive, At, Wired, LineType
    <3> QED BY <3>1, <3>2 DEF LeftLines, LineType
  <2>2. LeftLines \in [Slots -> Lines \cup {NoLine}]
    BY DEF LeftLines, Cleanup, LineType
  <2>3. hidden' = hidden /\ target' = t /\ t # Closed
    BY <1>2, TargetAssumption DEF SwapTarget
  <2>4. CASE t = NoTarget
    BY <1>2, <2>1, <2>2, <2>3, <2>4 DEF SwapTarget, LineType, ClosedIsQuiet, Held, Alive, At, Wired
  <2>5. CASE t # NoTarget
    <3>1. PICK k \in Slots : Connect(LeftLines, k, t)
      BY <1>2, <2>5 DEF SwapTarget
    <3>2. t \in Targets
      BY <2>5
    <3>3. LineType'
      BY <2>2, <2>3, <3>1, <3>2 DEF Connect, LineType, Lines
    <3>4. Held'
      BY <2>1, <2>2, <2>3, <3>1, <3>2 DEF Connect, Held, Alive, At, Wired, TokenAtHand
    <3> QED BY <2>3, <3>3, <3>4 DEF ClosedIsQuiet
  <2> QED BY <2>4, <2>5
<1>3. ASSUME NEW t \in Targets, Attach(t)
      PROVE  LineInv'
  <2>1. \A k \in Slots : line[k] = NoLine
    BY <1>3 DEF Attach, ClosedIsQuiet
  <2>2. FreeSlot = 1 /\ 1 \in Slots
    BY <2>1, FreeSlotIsFree
  <2>3. Connect(line, 1, t) /\ hidden' = hidden /\ target' = t /\ t # Closed
    BY <1>3, <2>2, TargetAssumption DEF Attach
  <2>4. LineType'
    BY <2>2, <2>3 DEF Connect, LineType, Lines
  <2>5. Held'
    BY <2>1, <2>2, <2>3 DEF Connect, Held, Alive, At, Wired, TokenAtHand, LineType
  <2> QED BY <2>3, <2>4, <2>5 DEF ClosedIsQuiet
<1>4. CASE Detach
  BY <1>4 DEF Detach, LineType, ClosedIsQuiet, Held, Alive
<1>5. CASE TokenArrives
  <2>1. ~hidden => \A k \in Slots : ~At(k, "token")
    BY DEF Held, Alive, At, Wired, NoLine
  <2>2. hidden /\ hidden' = hidden /\ target' = target
    BY <1>5, <2>1 DEF TokenArrives, LineType
  <2>3. LineType'
    BY <1>5, <2>2, LineTypes DEF TokenArrives, LineType, Lines, At, NoLine
  <2>4. ClosedIsQuiet'
    BY <1>5, <2>2 DEF TokenArrives, ClosedIsQuiet, At, NoLine
  <2> QED BY <2>2, <2>3, <2>4 DEF Held
<1>6. CASE TokenFails
  BY <1>6 DEF TokenFails, LineType, ClosedIsQuiet, Held, Alive, At, Wired, NoLine
<1>7. CASE DropToken \/ ServerChanges \/ Commit \/ RunEffects
  BY <1>7 DEF DropToken, ServerChanges, Commit, RunEffects, socketVars, LineType,
              ClosedIsQuiet, Held, Alive, At, Wired
<1>8. ASSUME NEW k \in Slots, OnOpen(k)
      PROVE  LineInv'
  BY <1>8 DEF OnOpen, LineType, ClosedIsQuiet, Held, Alive, At, Wired, Lines, NoLine
<1>9. ASSUME NEW k \in Slots, TimerFires(k)
      PROVE  LineInv'
  <2>1. line[k] \in Lines /\ line[k].of \in Targets /\ target # Closed
    BY <1>9, LineTypes DEF TimerFires, At, ClosedIsQuiet, NoLine, LineType, Lines
  <2>2. Connect(line, k, line[k].of) /\ hidden' = hidden /\ target' = target
    BY <1>9 DEF TimerFires
  <2>3. LineType'
    BY <2>1, <2>2 DEF Connect, LineType, Lines
  <2>4. Held'
    BY <1>9, <2>1, <2>2 DEF Connect, Held, Alive, At, Wired, TokenAtHand, LineType, NoLine, TimerFires
  <2> QED BY <2>1, <2>2, <2>3, <2>4 DEF ClosedIsQuiet
<1>10. ASSUME NEW k \in Slots, NEW c \in Closes, OnClose(k, c)
       PROVE  LineInv'
  <2>1. line[k] \in Lines /\ target # Closed /\ hidden' = hidden /\ target' = target
    BY <1>10, LineTypes DEF OnClose, Wired, ClosedIsQuiet, NoLine, LineType, Lines
  <2>2. \/ line' = [line EXCEPT ![k] = [@ EXCEPT !.at = "timer"]] /\ timerRef' = k
        \/ line' = [line EXCEPT ![k] = NoLine]
    BY <1>10 DEF OnClose
  <2>3. LineType'
    BY <2>1, <2>2 DEF LineType, Lines
  <2>4. Held'
    BY <2>1, <2>2 DEF Held, Alive, At, Wired, LineType, Lines, NoLine
  <2> QED BY <2>1, <2>3, <2>4 DEF ClosedIsQuiet
<1>11. ASSUME NEW k \in Slots, OnFrame(k) \/ OnOverflow(k)
       PROVE  LineInv'
  BY <1>11 DEF OnFrame, OnOverflow, socketVars, LineType, ClosedIsQuiet, Held, Alive, At, Wired
<1> QED BY <1>1, <1>2, <1>3, <1>4, <1>5, <1>6, <1>7, <1>8, <1>9, <1>10, <1>11
        DEF Next, User, Token, Socket, Message

LEMMA HeldIsOneLine ==
  ASSUME LineInv
  PROVE  OneLine
<1> SUFFICES ASSUME ~hidden
             PROVE  /\ Cardinality({k \in Slots : line[k] # NoLine}) <= 1
                    /\ \A k \in Slots : line[k] # NoLine => line[k].of = target
  BY DEF OneLine
<1>1. \A k \in Slots : line[k] # NoLine => line[k].of = target
  BY DEF LineInv, Held, Alive
<1>2. CASE {k \in Slots : line[k] # NoLine} = {}
  BY <1>1, <1>2, FS_EmptySet
<1>3. CASE {k \in Slots : line[k] # NoLine} # {}
  <2>1. PICK k \in Slots : line[k] # NoLine
    BY <1>3
  <2>2. {j \in Slots : line[j] # NoLine} = {k}
    BY <2>1 DEF LineInv, Held, Alive
  <2> QED BY <1>1, <2>2, FS_Singleton
<1> QED BY <1>2, <1>3

(* One connection at a time.  However often the panel is given another      *)
(* target, and whichever sockets and timers are under way, the cleanup of   *)
(* the effect (useTerminalSocket.ts) leaves none of the old target behind   *)
(* as long as the csrf cookie can be read.                                  *)
THEOREM OneLineAlways == Spec => []OneLine
<1>1. Init => LineInv
  BY DEF Init, LineInv, LineType, ClosedIsQuiet, Held, Alive
<1>2. LineInv /\ [Next]_vars => LineInv'
  BY LineStep
<1>3. LineInv => OneLine
  BY HeldIsOneLine
<1> QED BY <1>1, <1>2, <1>3, PTL DEF Spec

-----------------------------------------------------------------------------
Frames == 1..MaxFrames

LEMMA EmptySeqs == \A S : <<>> \in Seq(S)
OBVIOUS

LEMMA ZeroIsCounted == /\ 0 \in 0..MaxAttempts /\ 0 \in 0..MaxDrops
                       /\ 0 \in 0..MaxFrames /\ 0 \in 0..MaxSwaps
BY TerminalAssumption

LEMMA InitTypes == Init => TypeOK /\ LineInv
<1> SUFFICES ASSUME Init PROVE TypeOK /\ LineInv
  OBVIOUS
<1>1. line = [k \in Slots |-> NoLine] /\ target = Closed /\ hidden \in BOOLEAN
  BY DEF Init
<1>2. LineInv
  BY <1>1 DEF LineInv, LineType, ClosedIsQuiet, Held, Alive
<1>3. shown.frames = <<>> /\ shown.at = 0
  BY DEF Init, Empty
<1>4. TypeOK
  BY <1>1, <1>2, <1>3, EmptySeqs, ZeroIsCounted DEF Init, TypeOK, LineInv, LineType
<1> QED BY <1>2, <1>4

LEMMA ConnectTypes ==
  ASSUME NEW lines, NEW k \in Slots, NEW t, Connect(lines, k, t), TypeOK
  PROVE  /\ status' \in {"idle", "connecting", "connected", "reconnecting", "lost"}
         /\ TokenAtHand => wsRef' \in Slots \cup {0}
BY DEF Connect, TypeOK

LEMMA TypeStep ==
  ASSUME TypeOK, LineInv, [Next]_vars
  PROVE  TypeOK'
<1>1. LineInv'
  BY LineStep
<1>2. line' \in [Slots -> Lines \cup {NoLine}] /\ target' \in Targets \cup {NoTarget, Closed}
  BY <1>1 DEF LineInv, LineType
<1>3. CASE UNCHANGED vars
  BY <1>3 DEF vars, socketVars, frameVars, TypeOK
<1>4. ASSUME NEW t \in Targets \cup {NoTarget}, SwapTarget(t)
      PROVE  TypeOK'
  <2>1. swaps' \in 0..MaxSwaps
    BY <1>4, TerminalAssumption DEF SwapTarget, TypeOK
  <2>2. attempt' \in 0..MaxAttempts /\ timerRef' \in Slots \cup {0}
    BY <1>4, TerminalAssumption DEF SwapTarget, LeftRef, TypeOK
  <2>3. /\ wsRef' \in Slots \cup {0}
        /\ status' \in {"idle", "connecting", "connected", "reconnecting", "lost"}
    BY <1>4, ConnectTypes DEF SwapTarget, LeftRef, TypeOK
  <2> QED BY <1>2, <1>4, <2>1, <2>2, <2>3 DEF SwapTarget, frameVars, TypeOK
<1>5. ASSUME NEW t \in Targets, Attach(t)
      PROVE  TypeOK'
  <2>1. FreeSlot \in Slots
    BY <1>5, FreeSlotIsFree DEF Attach, LineInv, ClosedIsQuiet
  <2>2. swaps' \in 0..MaxSwaps
    BY <1>5, TerminalAssumption DEF Attach, TypeOK
  <2>3. /\ wsRef' \in Slots \cup {0}
        /\ status' \in {"idle", "connecting", "connected", "reconnecting", "lost"}
    BY <1>5, <2>1, ConnectTypes DEF Attach
  <2> QED BY <1>2, <1>5, <2>2, <2>3 DEF Attach, frameVars, TypeOK
<1>6. CASE Detach
  <2>1. UNCHANGED <<server, hidden, cached, swaps>> /\ effects' = FALSE
    BY <1>6 DEF Detach
  <2>2. wsRef' = 0 /\ timerRef' = 0 /\ status' = "idle" /\ attempt' = 0
    BY <1>6 DEF Detach
  <2>3. /\ queue' = <<>> /\ written' = <<>> /\ shown'.frames = <<>> /\ shown'.at = 0
        /\ overflow' = 0 /\ dismissed' = 0 /\ prevAt' = 0 /\ arrived' = 0
    BY <1>6 DEF Detach, Empty
  <2> QED BY <1>2, <2>1, <2>2, <2>3, EmptySeqs, ZeroIsCounted DEF TypeOK
<1>7. CASE TokenArrives
  BY <1>2, <1>7 DEF TokenArrives, frameVars, TypeOK
<1>8. CASE TokenFails
  BY <1>2, <1>8 DEF TokenFails, frameVars, TypeOK
<1>9. CASE DropToken \/ ServerChanges
  BY <1>2, <1>9 DEF DropToken, ServerChanges, socketVars, frameVars, TypeOK
<1>10. CASE Commit
  BY <1>2, <1>10 DEF Commit, socketVars, TypeOK
<1>11. CASE RunEffects
  <2>1. written' \in Seq(Frames)
    BY <1>11 DEF RunEffects, TypeOK, Frames
  <2>2. queue' \in Seq(Frames)
    BY <1>11, EmptySeqs DEF RunEffects, TypeOK, Frames
  <2>3. {overflow', dismissed', prevAt'} \subseteq 0..MaxDrops
    BY <1>11 DEF RunEffects, TypeOK
  <2> QED BY <1>2, <1>11, <2>1, <2>2, <2>3 DEF RunEffects, socketVars, TypeOK, Frames
<1>12. ASSUME NEW k \in Slots, Socket(k)
       PROVE  TypeOK'
  <2>1. CASE OnOpen(k)
    BY <1>2, <2>1, TerminalAssumption DEF OnOpen, frameVars, TypeOK
  <2>2. CASE TimerFires(k)
    <3>1. /\ wsRef' \in Slots \cup {0}
          /\ status' \in {"idle", "connecting", "connected", "reconnecting", "lost"}
      BY <2>2, ConnectTypes DEF TimerFires, TypeOK
    <3> QED BY <1>2, <2>2, <3>1 DEF TimerFires, frameVars, TypeOK
  <2>3. ASSUME NEW c \in Closes, OnClose(k, c)
        PROVE  TypeOK'
    <3>1. attempt' \in 0..MaxAttempts
      BY <2>3, TerminalAssumption DEF OnClose, TypeOK
    <3> QED BY <1>2, <2>3, <3>1 DEF OnClose, frameVars, TypeOK
  <2> QED BY <1>12, <2>1, <2>2, <2>3 DEF Socket
<1>13. ASSUME NEW k \in Slots, OnFrame(k)
       PROVE  TypeOK'
  <2>1. arrived + 1 \in Frames /\ arrived' \in 0..MaxFrames
    BY <1>13, TerminalAssumption DEF OnFrame, TypeOK, Frames
  <2>2. queue' \in Seq(Frames)
    BY <1>13, <2>1 DEF OnFrame, TypeOK, Frames
  <2> QED BY <1>2, <1>13, <2>1, <2>2 DEF OnFrame, socketVars, TypeOK, Frames
<1>14. ASSUME NEW k \in Slots, OnOverflow(k)
       PROVE  TypeOK'
  <2>1. overflow' \in 0..MaxDrops
    BY <1>14, TerminalAssumption DEF OnOverflow, TypeOK
  <2> QED BY <1>2, <1>14, <2>1 DEF OnOverflow, socketVars, TypeOK
<1> QED BY <1>3, <1>4, <1>5, <1>6, <1>7, <1>8, <1>9, <1>10, <1>11, <1>12, <1>13, <1>14
        DEF Next, User, Token, Message

(* Every variable keeps its type: the refs name a line or nothing, and the  *)
(* attempts stay within the ceiling of useTerminalSocket.ts.                *)
THEOREM TypeCorrect == Spec => []TypeOK
<1>1. Init => TypeOK /\ LineInv
  BY InitTypes
<1>2. TypeOK /\ LineInv /\ [Next]_vars => (TypeOK /\ LineInv)'
  BY TypeStep, LineStep
<1> QED BY <1>1, <1>2, PTL DEF Spec

-----------------------------------------------------------------------------
Rising(s) == \A i, j \in DOMAIN s : i < j => s[i] < s[j]
Before(s, t) == \A i \in DOMAIN s, j \in DOMAIN t : s[i] < t[j]
UpTo(s, n) == \A i \in DOMAIN s : s[i] <= n

(* What xterm has came before what waits in the queue, and before what the  *)
(* effects of the last commit have yet to write; the queue may hold more    *)
(* than that commit saw.                                                    *)
FrameInv ==
  /\ Rising(written) /\ Rising(queue) /\ Before(written, queue)
  /\ UpTo(written, arrived) /\ UpTo(queue, arrived)
  /\ effects => /\ Rising(shown.frames) /\ Before(written, shown.frames)
                /\ UpTo(shown.frames, arrived)

LEMMA ConcatRises ==
  ASSUME NEW s \in Seq(Nat), NEW t \in Seq(Nat), NEW n \in Nat,
         Rising(s), Rising(t), Before(s, t), UpTo(s, n), UpTo(t, n)
  PROVE  Rising(s \o t) /\ UpTo(s \o t, n)
<1>1. /\ Len(s \o t) = Len(s) + Len(t)
      /\ DOMAIN (s \o t) = 1..(Len(s) + Len(t))
      /\ \A i \in 1..(Len(s) + Len(t)) :
           (s \o t)[i] = IF i <= Len(s) THEN s[i] ELSE t[i - Len(s)]
  OBVIOUS
<1>2. Len(s) \in Nat /\ Len(t) \in Nat /\ DOMAIN s = 1..Len(s) /\ DOMAIN t = 1..Len(t)
  OBVIOUS
<1>3. ASSUME NEW i \in DOMAIN (s \o t)
      PROVE  (s \o t)[i] <= n
  <2>1. CASE i <= Len(s)
    BY <1>1, <1>2, <1>3, <2>1 DEF UpTo
  <2>2. CASE i > Len(s)
    <3>1. i - Len(s) \in DOMAIN t
      BY <1>1, <1>2, <1>3, <2>2
    <3> QED BY <1>1, <1>2, <1>3, <2>2, <3>1 DEF UpTo
  <2> QED BY <1>1, <1>2, <2>1, <2>2
<1>4. ASSUME NEW i \in DOMAIN (s \o t), NEW j \in DOMAIN (s \o t), i < j
      PROVE  (s \o t)[i] < (s \o t)[j]
  <2>1. CASE j <= Len(s)
    BY <1>1, <1>2, <1>4, <2>1 DEF Rising
  <2>2. CASE i <= Len(s) /\ j > Len(s)
    <3>1. i \in DOMAIN s /\ j - Len(s) \in DOMAIN t
      BY <1>1, <1>2, <1>4, <2>2
    <3> QED BY <1>1, <1>2, <1>4, <2>2, <3>1 DEF Before
  <2>3. CASE i > Len(s)
    <3>1. i - Len(s) \in DOMAIN t /\ j - Len(s) \in DOMAIN t /\ i - Len(s) < j - Len(s)
      BY <1>1, <1>2, <1>4, <2>3
    <3> QED BY <1>1, <1>2, <1>4, <2>3, <3>1 DEF Rising
  <2> QED BY <1>1, <1>2, <1>4, <2>1, <2>2, <2>3
<1> QED BY <1>3, <1>4 DEF Rising, UpTo

LEMMA AppendRises ==
  ASSUME NEW s \in Seq(Nat), NEW w \in Seq(Nat), NEW n \in Nat,
         Rising(s), UpTo(s, n), UpTo(w, n), Before(w, s)
  PROVE  /\ Rising(Append(s, n + 1)) /\ UpTo(Append(s, n + 1), n + 1)
         /\ Before(w, Append(s, n + 1))
<1>1. /\ DOMAIN Append(s, n + 1) = 1..(Len(s) + 1) /\ DOMAIN s = 1..Len(s) /\ Len(s) \in Nat
      /\ \A i \in 1..Len(s) : Append(s, n + 1)[i] = s[i] /\ s[i] \in Nat
      /\ Append(s, n + 1)[Len(s) + 1] = n + 1
  OBVIOUS
<1>2. \A i \in DOMAIN w : w[i] \in Nat
  OBVIOUS
<1> QED BY <1>1, <1>2 DEF Rising, UpTo, Before

LEMMA FramesAreNumbers ==
  ASSUME TypeOK
  PROVE  /\ written \in Seq(Nat) /\ queue \in Seq(Nat) /\ shown.frames \in Seq(Nat)
         /\ arrived \in Nat
<1>1. \A s \in Seq(1..MaxFrames) : s \in Seq(Nat)
  BY TerminalAssumption
<1> QED BY <1>1, TerminalAssumption DEF TypeOK

LEMMA FrameStep ==
  ASSUME FrameInv, TypeOK, [Next]_vars
  PROVE  FrameInv'
<1>1. CASE UNCHANGED frameVars
  BY <1>1 DEF frameVars, FrameInv, Rising, Before, UpTo
<1>2. CASE Detach
  BY <1>2 DEF Detach, FrameInv, Rising, Before, UpTo
<1>3. CASE Commit
  <2>1. shown'.frames = queue
    BY <1>3 DEF Commit
  <2> QED BY <1>3, <2>1 DEF Commit, FrameInv
<1>4. CASE RunEffects
  <2>1. /\ written' = written \o shown.frames /\ arrived' = arrived /\ effects /\ ~effects'
        /\ queue' = IF shown.frames = <<>> THEN queue ELSE <<>>
    BY <1>4 DEF RunEffects
  <2>2. Rising(written') /\ UpTo(written', arrived)
    BY <2>1, FramesAreNumbers, ConcatRises DEF FrameInv
  <2>3. CASE shown.frames = <<>>
    <3>1. written' = written
      BY <2>1, <2>3, FramesAreNumbers
    <3> QED BY <2>1, <2>2, <2>3, <3>1 DEF FrameInv
  <2>4. CASE shown.frames # <<>>
    BY <2>1, <2>2, <2>4 DEF FrameInv, Rising, Before, UpTo
  <2> QED BY <2>3, <2>4
<1>5. ASSUME NEW k \in Slots, OnFrame(k)
      PROVE  FrameInv'
  <2>1. /\ arrived' = arrived + 1 /\ queue' = Append(queue, arrived + 1)
        /\ written' = written /\ shown' = shown /\ effects' = effects
    BY <1>5 DEF OnFrame
  <2>2. Rising(queue') /\ UpTo(queue', arrived') /\ Before(written', queue')
    BY <2>1, FramesAreNumbers, AppendRises DEF FrameInv
  <2>3. \A s \in Seq(Nat) : UpTo(s, arrived) => UpTo(s, arrived')
    BY <2>1, FramesAreNumbers DEF UpTo
  <2>4. UpTo(written', arrived') /\ (effects' => UpTo(shown'.frames, arrived'))
    BY <2>1, <2>3, FramesAreNumbers DEF FrameInv
  <2> QED BY <2>1, <2>2, <2>4 DEF FrameInv
<1>6. ASSUME NEW k \in Slots, OnOverflow(k)
      PROVE  FrameInv'
  BY <1>6 DEF OnOverflow, FrameInv
<1>7. CASE UNCHANGED vars
  BY <1>1, <1>7 DEF vars
<1>8. CASE \/ \E t \in Targets \cup {NoTarget} : SwapTarget(t)
           \/ \E t \in Targets : Attach(t)
           \/ Token \/ DropToken \/ ServerChanges
           \/ \E k \in Slots : Socket(k)
  BY <1>1, <1>8 DEF SwapTarget, Attach, Token, TokenArrives, TokenFails, DropToken,
                    ServerChanges, Socket, OnOpen, TimerFires, OnClose
<1> QED BY <1>2, <1>3, <1>4, <1>5, <1>6, <1>7, <1>8 DEF Next, User, Message

(* xterm gets the frames in the order they came in and none of them twice,  *)
(* though a frame may arrive between a commit and its effects, and whatever *)
(* becomes of the lines (TerminalPanel.tsx, frame ingest and drain).        *)
THEOREM WrittenOnceAlways == Spec => []WrittenOnce
<1>1. Init => TypeOK /\ LineInv /\ FrameInv
  BY InitTypes DEF Init, FrameInv, Rising, Before, UpTo
<1>2. TypeOK /\ LineInv /\ FrameInv /\ [Next]_vars => (TypeOK /\ LineInv /\ FrameInv)'
  BY TypeStep, LineStep, FrameStep
<1>3. FrameInv => WrittenOnce
  BY DEF FrameInv, Rising, WrittenOnce
<1> QED BY <1>1, <1>2, <1>3, PTL DEF Spec
=============================================================================
