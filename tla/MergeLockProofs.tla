-------------------------- MODULE MergeLockProofs --------------------------
(***************************************************************************)
(* Proofs about the merge lock.  For any number of finalizing autopilots   *)
(* mutual exclusion does not hold; what does is that it can only be lost   *)
(* by an `rm -f` that hits another file than the one it was meant for, and *)
(* that up to then the lock is the turnstile it is meant to be.            *)
(***************************************************************************)
EXTENDS MergeLock, TLAPS

LEMMA TypeStep ==
  ASSUME TypeOK, [Next]_vars
  PROVE  TypeOK'
<1>a. Jitters \subseteq 2 .. 4 /\ MaxWait \in Nat \ {0} /\ None \notin Procs
  BY LockAssumption
<1>1. ASSUME NEW p \in Procs, Begin(p) PROVE TypeOK'
  BY <1>1, <1>a DEF TypeOK, Begin, Go, Places, Waiting
<1>2. ASSUME NEW p \in Procs, ShlockSucceeds(p) PROVE TypeOK'
  BY <1>2, <1>a DEF TypeOK, ShlockSucceeds, Go, Places, Waiting
<1>3. ASSUME NEW p \in Procs, ShlockFails(p) \/ ReadHolder(p) \/ ProbeHolder(p)
      PROVE  TypeOK'
  BY <1>3, <1>a DEF TypeOK, ShlockFails, ReadHolder, ProbeHolder, Go, Places, Waiting
<1>4. ASSUME NEW p \in Procs, BreakLock(p) \/ Release(p) \/ Terminate(p) PROVE TypeOK'
  BY <1>4, <1>a DEF TypeOK, BreakLock, Release, Terminate, RemoveLock, Go, Places, Waiting
<1>5. ASSUME NEW p \in Procs, NEW j \in Jitters, Sleep(p, j) PROVE TypeOK'
  <2>1. /\ j \in 2 .. 4 /\ waited[p] \in Nat
        /\ waited[p] + j \in 0 .. MaxWait + 3 /\ waited[p] + j >= 2
    BY <1>5, <1>a DEF TypeOK, Sleep, Waiting
  <2>2. /\ waited' = [waited EXCEPT ![p] = waited[p] + j]
        /\ loc' = [loc EXCEPT ![p] = IF waited[p] + j >= MaxWait THEN "timedout" ELSE "shlock"]
        /\ UNCHANGED <<lock, seen, broken>>
    BY <1>5, <2>1 DEF TypeOK, Sleep, Go
  <2> QED BY <2>1, <2>2, <1>a DEF TypeOK, Places, Waiting
<1>6. ASSUME NEW p \in Procs, SkipMerge(p) \/ ClearTrap(p) \/ Exit(p) \/ Kill(p) PROVE TypeOK'
  BY <1>6, <1>a DEF TypeOK, SkipMerge, ClearTrap, Exit, Kill, Dead, Go, Places, Waiting
<1>7. CASE UNCHANGED vars
  BY <1>7 DEF TypeOK, vars
<1> QED
  BY <1>1, <1>2, <1>3, <1>4, <1>5, <1>6, <1>7 DEF Next, ProcStep, WaitStep, Finished

(* The lock file never names a process that has not started, and no wait     *)
(* overruns MERGE_LOCK_MAX_WAIT by a whole sleep.                            *)
THEOREM TypeCorrect == Spec => []TypeOK
<1>1. Init => TypeOK
  <2>1. 0 \in 0 .. MaxWait + 3 /\ 0 < MaxWait
    BY LockAssumption
  <2>2. "new" \in Places
    BY DEF Places
  <2> QED BY <2>1, <2>2 DEF Init, TypeOK
<1> QED BY <1>1, TypeStep, PTL DEF Spec

(* What a waiter is about to remove as stale was read as the lock of a process *)
(* that is gone, and pids are not used again.                                 *)
StaleIsGone ==
  /\ \A p \in Procs : seen[p] # None => loc[seen[p]] # "new"
  /\ \A p \in Procs : loc[p] = "break" => seen[p] \in Procs /\ loc[seen[p]] = "gone"

LEMMA StaleIsGoneStep ==
  ASSUME TypeOK, StaleIsGone, [Next]_vars
  PROVE  StaleIsGone'
<1> USE DEF StaleIsGone
<1>a. None \notin Procs
  BY LockAssumption
<1>1. ASSUME NEW p \in Procs, NEW place \in Places \ {"new", "break"}, Go(p, place),
             loc[p] # "gone", UNCHANGED seen
      PROVE  StaleIsGone'
  BY <1>1, <1>a DEF Go, TypeOK
<1>2. ASSUME NEW p \in Procs,
             \/ Begin(p) \/ ShlockSucceeds(p) \/ ShlockFails(p) \/ BreakLock(p) \/ SkipMerge(p)
             \/ Release(p) \/ ClearTrap(p) \/ Exit(p) \/ Terminate(p) \/ Kill(p)
      PROVE  StaleIsGone'
  BY <1>1, <1>2 DEF Begin, ShlockSucceeds, ShlockFails, BreakLock, SkipMerge, Release, ClearTrap,
     Exit, Terminate, Kill, Dead, Places, Waiting
<1>3. ASSUME NEW p \in Procs, NEW j \in Jitters, Sleep(p, j)
      PROVE  StaleIsGone'
  BY <1>1, <1>3 DEF Sleep, Places, Waiting
<1>4. ASSUME NEW p \in Procs, ReadHolder(p)
      PROVE  StaleIsGone'
  BY <1>4, <1>a DEF ReadHolder, Go, TypeOK
<1>5. ASSUME NEW p \in Procs, ProbeHolder(p)
      PROVE  StaleIsGone'
  BY <1>5, <1>a DEF ProbeHolder, Dead, Go, TypeOK
<1>6. CASE UNCHANGED vars
  BY <1>6 DEF vars
<1> QED
  BY <1>2, <1>3, <1>4, <1>5, <1>6 DEF Next, ProcStep, WaitStep, Finished

(* Somebody merges, and it is not p: then the file is that process's, and p's *)
(* removal, meant for itself or for a process that is gone, breaks the lock.  *)
LEMMA RemovalIsSafe ==
  ASSUME ExclusiveUnlessBroken, NEW p \in Procs, NEW owner, RemoveLock(owner), ~broken',
         owner = p \/ loc[owner] = "gone"
  PROVE  \A q \in Procs \ {p} : loc[q] # "merging"
BY LockAssumption DEF ExclusiveUnlessBroken, RemoveLock

LEMMA ExclusionStep ==
  ASSUME TypeOK, StaleIsGone, ExclusiveUnlessBroken, [Next]_vars
  PROVE  ExclusiveUnlessBroken'
<1>1. ASSUME NEW p \in Procs, ShlockSucceeds(p) PROVE ExclusiveUnlessBroken'
  <2>1. broken \/ \A q \in Procs : loc[q] # "merging"
    BY <1>1, LockAssumption DEF ShlockSucceeds, Dead, ExclusiveUnlessBroken
  <2> QED BY <1>1, <2>1 DEF ShlockSucceeds, Go, TypeOK, ExclusiveUnlessBroken
<1>2. ASSUME NEW p \in Procs, NEW owner, owner = p \/ loc[owner] = "gone",
             NEW place \in Places \ {"merging"}, RemoveLock(owner), Go(p, place)
      PROVE  ExclusiveUnlessBroken'
  <2>1. CASE broken'
    BY <2>1 DEF ExclusiveUnlessBroken
  <2>2. CASE ~broken'
    <3>1. \A q \in Procs \ {p} : loc[q] # "merging"
      BY <1>2, <2>2, RemovalIsSafe
    <3> QED BY <1>2, <3>1 DEF Go, TypeOK, ExclusiveUnlessBroken
  <2> QED BY <2>1, <2>2
<1>3. ASSUME NEW p \in Procs, BreakLock(p) PROVE ExclusiveUnlessBroken'
  <2>1. loc[seen[p]] = "gone"
    BY <1>3 DEF BreakLock, StaleIsGone
  <2> QED BY <1>2, <1>3, <2>1 DEF BreakLock, Places, Waiting
<1>4. ASSUME NEW p \in Procs, Release(p) \/ Terminate(p)
      PROVE  ExclusiveUnlessBroken'
  BY <1>2, <1>4 DEF Release, Terminate, Places, Waiting
<1>5. ASSUME NEW p \in Procs, NEW place \in Places \ {"merging"}, Go(p, place),
             UNCHANGED <<lock, broken>>
      PROVE  ExclusiveUnlessBroken'
  BY <1>5 DEF Go, TypeOK, ExclusiveUnlessBroken
<1>6. ASSUME NEW p \in Procs, NEW j \in Jitters, Sleep(p, j) PROVE ExclusiveUnlessBroken'
  BY <1>5, <1>6 DEF Sleep, Places, Waiting
<1>7. ASSUME NEW p \in Procs,
             Begin(p) \/ ShlockFails(p) \/ ReadHolder(p) \/ ProbeHolder(p)
             \/ SkipMerge(p) \/ ClearTrap(p) \/ Exit(p) \/ Kill(p)
      PROVE  ExclusiveUnlessBroken'
  BY <1>5, <1>7 DEF Begin, ShlockFails, ReadHolder, ProbeHolder, SkipMerge, ClearTrap, Exit, Kill,
     Places, Waiting
<1>8. CASE UNCHANGED vars
  BY <1>8 DEF vars, ExclusiveUnlessBroken
<1> QED
  BY <1>1, <1>3, <1>4, <1>6, <1>7, <1>8 DEF Next, ProcStep, WaitStep, Finished

LEMMA LockInvariant == Spec => [](TypeOK /\ StaleIsGone /\ ExclusiveUnlessBroken)
<1>1. Init => StaleIsGone /\ ExclusiveUnlessBroken
  BY DEF Init, StaleIsGone, ExclusiveUnlessBroken
<1>2. Spec => []TypeOK
  BY TypeCorrect
<1> QED BY <1>1, <1>2, StaleIsGoneStep, ExclusionStep, PTL DEF Spec

(* For any number of autopilots, however many run at once, wherever they are  *)
(* killed or terminated: as long as no removal has hit another file than the  *)
(* one it was meant for, who is at its merge holds the lock, so that one is.  *)
THEOREM ExclusionUnlessBroken == Spec => []ExclusiveUnlessBroken
BY LockInvariant, PTL

-----------------------------------------------------------------------------
(* Where a process is, as the turnstile sees it. *)
Passage ==
  [p \in Procs |-> CASE loc[p] \in Waiting \cup {"new"} -> "out"
                     [] loc[p] = "merging" -> "in"
                     [] OTHER -> "past"]

LEMMA PassageOf ==
  ASSUME NEW p \in Procs
  PROVE  /\ loc[p] \in Waiting \cup {"new"} => Passage[p] = "out"
         /\ loc[p] = "merging" <=> Passage[p] = "in"
         /\ loc[p] \notin Waiting \cup {"new", "merging"} => Passage[p] = "past"
BY DEF Passage, Waiting

LEMMA TurnstileStep ==
  ASSUME TypeOK, ExclusiveUnlessBroken, [Next]_vars
  PROVE  [Abstract!Next]_<<Passage, broken>>
<1>1. ASSUME NEW p \in Procs, NEW place \in Places, Go(p, place)
      PROVE  /\ Passage' \in [Procs -> {"out", "in", "past"}]
             /\ \A q \in Procs \ {p} : Passage'[q] = Passage[q]
             /\ place \in Waiting \cup {"new"} => Passage'[p] = "out"
             /\ place = "merging" => Passage'[p] = "in"
             /\ place \notin Waiting \cup {"new", "merging"} => Passage'[p] = "past"
  <2>1. loc' = [loc EXCEPT ![p] = place] /\ loc \in [Procs -> Places]
    BY <1>1 DEF Go, TypeOK
  <2> QED BY <2>1 DEF Passage, Waiting
<1>2. Passage \in [Procs -> {"out", "in", "past"}]
  BY DEF Passage
<1>3. ASSUME NEW p \in Procs, loc[p] \in Waiting \cup {"new"},
             NEW place \in Waiting, Go(p, place)
      PROVE  UNCHANGED Passage
  BY <1>1, <1>2, <1>3, PassageOf DEF Places
<1>4. ASSUME NEW p \in Procs, NEW place \in Places \ (Waiting \cup {"new", "merging"}),
             Go(p, place), broken' \in {broken, TRUE}
      PROVE  [Abstract!Next]_<<Passage, broken>>
  <2>1. Passage' = [Passage EXCEPT ![p] = "past"]
    BY <1>1, <1>2, <1>4
  <2>2. CASE Passage[p] # "past"
    <3>1. Abstract!Pass(p)
      BY <1>4, <2>1, <2>2 DEF Abstract!Pass, Passage
    <3> QED BY <3>1 DEF Abstract!Next, Passage
  <2>3. CASE Passage[p] = "past" /\ broken' = broken
    BY <1>2, <2>1, <2>3
  <2>4. CASE Passage[p] = "past" /\ broken' = TRUE
    <3>1. UNCHANGED Passage
      BY <1>2, <2>1, <2>4
    <3> QED BY <2>4, <3>1 DEF Abstract!Next, Abstract!Force, Passage
  <2> QED BY <1>4, <2>2, <2>3, <2>4
<1>5. ASSUME NEW p \in Procs, ShlockSucceeds(p)
      PROVE  [Abstract!Next]_<<Passage, broken>>
  <2>1. broken \/ \A q \in Procs : loc[q] # "merging"
    BY <1>5, LockAssumption DEF ShlockSucceeds, Dead, ExclusiveUnlessBroken
  <2>2. Passage[p] = "out" /\ (broken \/ \A q \in Procs : Passage[q] # "in")
    BY <1>5, <2>1, PassageOf DEF ShlockSucceeds, Waiting
  <2>3. Passage' = [Passage EXCEPT ![p] = "in"]
    BY <1>1, <1>2, <1>5 DEF ShlockSucceeds, Places
  <2>4. Abstract!Enter(p)
    BY <1>5, <2>2, <2>3 DEF Abstract!Enter, Passage, ShlockSucceeds
  <2> QED BY <2>4 DEF Abstract!Next, Passage
<1>6. ASSUME NEW p \in Procs,
             Begin(p) \/ ShlockFails(p) \/ ReadHolder(p) \/ ProbeHolder(p)
      PROVE  UNCHANGED <<Passage, broken>>
  BY <1>3, <1>6 DEF Begin, ShlockFails, ReadHolder, ProbeHolder, Waiting
<1>7. ASSUME NEW p \in Procs, BreakLock(p)
      PROVE  [Abstract!Next]_<<Passage, broken>>
  <2>1. UNCHANGED Passage /\ (broken' = broken \/ broken' = TRUE)
    BY <1>3, <1>7 DEF BreakLock, RemoveLock, Waiting, TypeOK
  <2> QED BY <2>1 DEF Abstract!Next, Abstract!Force, Passage
<1>8. ASSUME NEW p \in Procs, NEW j \in Jitters, Sleep(p, j)
      PROVE  [Abstract!Next]_<<Passage, broken>>
  <2>1. CASE Go(p, "shlock")
    BY <1>3, <1>8, <2>1 DEF Sleep, Waiting
  <2>2. CASE Go(p, "timedout")
    BY <1>4, <1>8, <2>2 DEF Sleep, Waiting, Places
  <2> QED BY <1>8, <2>1, <2>2 DEF Sleep
<1>9. ASSUME NEW p \in Procs, Release(p) \/ Terminate(p)
      PROVE  [Abstract!Next]_<<Passage, broken>>
  <2>1. broken' = broken \/ broken' = TRUE
    BY <1>9 DEF Release, Terminate, RemoveLock, TypeOK
  <2> QED BY <1>4, <1>9, <2>1 DEF Release, Terminate, Waiting, Places
<1>10. ASSUME NEW p \in Procs, SkipMerge(p) \/ ClearTrap(p) \/ Exit(p) \/ Kill(p)
       PROVE  [Abstract!Next]_<<Passage, broken>>
  BY <1>4, <1>10 DEF SkipMerge, ClearTrap, Exit, Kill, Waiting, Places
<1>11. CASE UNCHANGED vars
  BY <1>11 DEF vars, Passage
<1> QED
  BY <1>5, <1>6, <1>7, <1>8, <1>9, <1>10, <1>11 DEF Next, ProcStep, WaitStep, Finished

(* The merge lock implements the turnstile, for any number of finalizers:    *)
(* shlock's success is the only way in, it finds nobody inside unless a       *)
(* removal has hit the wrong file, and merging, giving up and being ended are *)
(* ways past it that lead nowhere else.                                       *)
THEOREM PassInTurn == Spec => TurnstileSpec
<1>1. Init => Passage = [p \in Procs |-> "out"] /\ broken = FALSE
  BY DEF Init, Passage
<1>2. TypeOK /\ ExclusiveUnlessBroken /\ [Next]_vars => [Abstract!Next]_<<Passage, broken>>
  BY TurnstileStep
<1> QED
  BY <1>1, <1>2, LockInvariant, PTL DEF Spec, TurnstileSpec, Abstract!Spec, Abstract!Init, Passage
=============================================================================
