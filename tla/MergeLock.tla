----------------------------- MODULE MergeLock -----------------------------
(***************************************************************************)
(* The merge lock of parallel autopilots: acquire_merge_lock and           *)
(* release_merge_lock of lib/merge-lock.sh as the finalize phase of        *)
(* autopilot.sh uses them.                                                 *)
(*                                                                         *)
(* The lock is a file that holds a process id.  It is taken by shlock(1)   *)
(* and released, or broken when its holder is found dead, by `rm -f`; a    *)
(* waiter reads the file, probes the pid and removes the file in three     *)
(* separate steps.  Each element of Procs is one autopilot process that    *)
(* reaches its finalize phase at most once, so a pid is never reused.      *)
(* Slots bounds those that are alive at once, not those there ever are: a   *)
(* task that ends is followed by the next one.                             *)
(***************************************************************************)
EXTENDS Naturals, FiniteSets

CONSTANTS
  Procs,      \* the autopilot processes that finalize, over all time
  Slots,      \* how many of them run at once (--max-parallel)
  None,       \* no lock file, or an empty one
  MaxWait,    \* MERGE_LOCK_MAX_WAIT, in seconds
  Jitters,    \* the seconds one wait may take, 2 + RANDOM % 3
  Deaths      \* how a process may be cut short: "term", "kill"

ASSUME LockAssumption ==
  /\ None \notin Procs
  /\ Slots \in Nat \ {0}
  /\ MaxWait \in Nat \ {0}
  /\ Jitters \subseteq 2 .. 4

VARIABLES
  lock,     \* content of merge.lock: a process, or None
  loc,      \* where a process is, see Places
  seen,     \* holder_pid
  waited,   \* waited
  broken    \* history: a file was removed that was not the one it was meant for

vars == <<lock, loc, seen, waited, broken>>

(* new: not there yet; shlock, read, probe, break, sleep: in               *)
(* acquire_merge_lock; timedout: it returned 2; merging: it returned 0;    *)
(* leaving: past the release, the EXIT trap still set; done: the trap is    *)
(* cleared; gone: no process.                                              *)
Waiting == {"shlock", "read", "probe", "break", "sleep"}
Places == Waiting \cup {"new", "timedout", "merging", "leaving", "done", "gone"}

Dead(p) == loc[p] \in {"new", "gone"}

Init ==
  /\ lock = None
  /\ loc = [p \in Procs |-> "new"]
  /\ seen = [p \in Procs |-> None]
  /\ waited = [p \in Procs |-> 0]
  /\ broken = FALSE

Go(p, place) == loc' = [loc EXCEPT ![p] = place]

(* `rm -f`, whatever the file holds; it was meant for the file of one owner. *)
RemoveLock(owner) ==
  /\ lock' = None
  /\ broken' = (broken \/ lock \notin {None, owner})

-----------------------------------------------------------------------------
(* The EXIT trap is set and acquire_merge_lock called. *)
Begin(p) ==
  /\ loc[p] = "new"
  /\ Cardinality({q \in Procs : ~Dead(q)}) < Slots
  /\ Go(p, "shlock")
  /\ UNCHANGED <<lock, seen, waited, broken>>

(* Fault: the file is overwritten although its holder lives. *)
ShlockSucceedsAnyway(p) ==
  /\ loc[p] = "shlock"
  /\ lock' = p
  /\ Go(p, "merging")
  /\ UNCHANGED <<seen, waited, broken>>

(* shlock creates the file atomically; it may take over one whose holder is *)
(* dead, by itself.                                                         *)
ShlockSucceeds(p) ==
  /\ loc[p] = "shlock"
  /\ lock # None => Dead(lock)
  /\ lock' = p
  /\ Go(p, "merging")
  /\ UNCHANGED <<seen, waited, broken>>

ShlockFails(p) ==
  /\ loc[p] = "shlock" /\ lock # None
  /\ Go(p, "read")
  /\ UNCHANGED <<lock, seen, waited, broken>>

(* holder_pid=$(cat "$lock_file"): empty when the file is gone by now. *)
ReadHolder(p) ==
  /\ loc[p] = "read"
  /\ seen' = [seen EXCEPT ![p] = lock]
  /\ Go(p, "probe")
  /\ UNCHANGED <<lock, waited, broken>>

(* Fault: the probe's negation lost, so that live holders are broken. *)
ProbeHolderInverted(p) ==
  /\ loc[p] = "probe"
  /\ Go(p, IF seen[p] # None /\ ~Dead(seen[p]) THEN "break" ELSE "sleep")
  /\ UNCHANGED <<lock, seen, waited, broken>>

(* kill -0 *)
ProbeHolder(p) ==
  /\ loc[p] = "probe"
  /\ Go(p, IF seen[p] # None /\ Dead(seen[p]) THEN "break" ELSE "sleep")
  /\ UNCHANGED <<lock, seen, waited, broken>>

(* The stale lock is removed and shlock retried at once. *)
BreakLock(p) ==
  /\ loc[p] = "break"
  /\ RemoveLock(seen[p])
  /\ Go(p, "shlock")
  /\ UNCHANGED <<seen, waited>>

(* Faults: the seconds waited not added up; the wait given up only when it   *)
(* hits the limit exactly.                                                   *)
SleepUncounted(p, j) ==
  /\ loc[p] = "sleep"
  /\ waited' = [waited EXCEPT ![p] = j]
  /\ Go(p, IF waited'[p] >= MaxWait THEN "timedout" ELSE "shlock")
  /\ UNCHANGED <<lock, seen, broken>>
SleepToTheSecond(p, j) ==
  /\ loc[p] = "sleep"
  /\ waited' = [waited EXCEPT ![p] = waited[p] + j]
  /\ Go(p, IF waited'[p] > MaxWait THEN "timedout" ELSE "shlock")
  /\ UNCHANGED <<lock, seen, broken>>

(* Sleep, then give up or try again. *)
Sleep(p, j) ==
  /\ loc[p] = "sleep"
  /\ waited' = [waited EXCEPT ![p] = waited[p] + j]
  /\ Go(p, IF waited'[p] >= MaxWait THEN "timedout" ELSE "shlock")
  /\ UNCHANGED <<lock, seen, broken>>

(* Fault: the time-out is a warning and the merge goes on without the lock. *)
MergeAfterTimeout(p) ==
  /\ loc[p] = "timedout"
  /\ Go(p, "merging")
  /\ UNCHANGED <<lock, seen, waited, broken>>

(* LOCK_TIMEOUT: no merge, no release. *)
SkipMerge(p) ==
  /\ loc[p] = "timedout"
  /\ Go(p, "leaving")
  /\ UNCHANGED <<lock, seen, waited, broken>>

(* commit-finalize.sh is over; release_merge_lock. *)
Release(p) ==
  /\ loc[p] = "merging"
  /\ RemoveLock(p)
  /\ Go(p, "leaving")
  /\ UNCHANGED <<seen, waited>>

(* trap - EXIT *)
ClearTrap(p) ==
  /\ loc[p] = "leaving"
  /\ Go(p, "done")
  /\ UNCHANGED <<lock, seen, waited, broken>>

Exit(p) ==
  /\ loc[p] = "done"
  /\ Go(p, "gone")
  /\ UNCHANGED <<lock, seen, waited, broken>>

-----------------------------------------------------------------------------
(* SIGTERM or SIGINT, or commit-finalize.sh failing under `set -e`: the EXIT *)
(* trap finalize_cleanup removes the lock, whoever holds it.                 *)
Terminate(p) ==
  /\ "term" \in Deaths
  /\ loc[p] \in Waiting \cup {"timedout", "merging", "leaving"}
  /\ RemoveLock(p)
  /\ Go(p, "gone")
  /\ UNCHANGED <<seen, waited>>

(* SIGKILL or power loss: the lock file stays. *)
Kill(p) ==
  /\ "kill" \in Deaths
  /\ ~Dead(p)
  /\ Go(p, "gone")
  /\ UNCHANGED <<lock, seen, waited, broken>>

-----------------------------------------------------------------------------
(* What a process does by itself, with a merge that comes to an end or hangs. *)
WaitStep(p) ==
  \/ ShlockSucceeds(p) \/ ShlockFails(p) \/ ReadHolder(p) \/ ProbeHolder(p)
  \/ BreakLock(p)
  \/ \E j \in Jitters : Sleep(p, j)
ProcStep(p) == WaitStep(p) \/ SkipMerge(p) \/ Release(p) \/ ClearTrap(p) \/ Exit(p)

(* All processes are gone: nothing is left to happen. *)
Finished == (\A p \in Procs : loc[p] = "gone") /\ UNCHANGED vars

Next ==
  \/ \E p \in Procs : Begin(p) \/ ProcStep(p) \/ Terminate(p) \/ Kill(p)
  \/ Finished

Spec == Init /\ [][Next]_vars

(* A waiter that is not killed goes on.  Nothing is assumed of the merge: its *)
(* git commands run without a timeout.                                        *)
FairSpec == Spec /\ \A p \in Procs : WF_vars(WaitStep(p))

-----------------------------------------------------------------------------
(* The lock file names a process that has started, and a wait overruns its   *)
(* limit by less than one sleep (MERGE_LOCK_MAX_WAIT is checked after each). *)
TypeOK ==
  /\ lock \in Procs \cup {None}
  /\ loc \in [Procs -> Places]
  /\ seen \in [Procs -> Procs \cup {None}]
  /\ waited \in [Procs -> 0 .. MaxWait + 3]
  /\ broken \in BOOLEAN
  /\ lock # None => loc[lock] # "new"
  /\ \A p \in Procs : loc[p] \in Waiting \cup {"new"} => waited[p] < MaxWait

(* Two finalize phases never run on the main checkout at the same time: what *)
(* merge-lock.sh is for, and what it says its retry loop secures.            *)
MutualExclusion ==
  \A p, q \in Procs : loc[p] = "merging" /\ loc[q] = "merging" => p = q

(* Who merges holds the lock, so that one does at a time, unless a file was   *)
(* removed that was not the one the removal was meant for: the lock changed   *)
(* hands between a waiter's reading of the file and its removal, or the EXIT  *)
(* trap ran in a process that did not hold it.  Stale files, SIGKILL,         *)
(* time-outs and retries by themselves never let two merge.                   *)
ExclusiveUnlessBroken ==
  broken \/ (\A p \in Procs : loc[p] = "merging" => lock = p)

(* Every wait ends: whoever asks for the lock merges, gives up or is killed,  *)
(* though a finalize that holds it may hang for ever, and however many dead   *)
(* holders it meets (there each retry is immediate and not counted).          *)
WaitEnds == \A p \in Procs : (loc[p] = "shlock") ~> (loc[p] \notin Waiting)

(* What parallel finalize phases may rely on: see Turnstile.  One that has    *)
(* given up, merged or died does not merge again, and it is entered while     *)
(* somebody is inside only after a removal of the wrong file.                 *)
Abstract == INSTANCE Turnstile WITH
  state <- [p \in Procs |->
              CASE loc[p] \in Waiting \cup {"new"} -> "out"
                [] loc[p] = "merging" -> "in"
                [] OTHER -> "past"],
  forced <- broken
TurnstileSpec == Abstract!Spec
=============================================================================
