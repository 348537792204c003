------------------------------- MODULE Stepper -------------------------------
(***************************************************************************)
(* PhaseStepper.tsx: the phases of an autopilot session, each with what it *)
(* took, and the totals under them.  A phase is [status, from, upto, secs, *)
(* turns, cost, input, made, cached, output]: its two times, its duration  *)
(* and its tokens, any of which may be missing.                            *)
(***************************************************************************)
EXTENDS Integers, Sequences, FiniteSets, FiniteSetsExt, Selection

Missing == -1
Figure == Nat \cup {Missing}

(* What the server tells of a phase of a status: its end, which is written to *)
(* the stream after its start (run_phase), is not before it.                  *)
PhaseFigures(status) ==
  {p \in [status : {status}, from : Figure, upto : Figure, secs : Figure, turns : Figure,
          cost : Figure, input : Figure, made : Figure, cached : Figure, output : Figure] :
     p.from # Missing /\ p.upto # Missing => p.from <= p.upto}

LOW_CACHE_THRESHOLD == 85   \* percent

(* What is missing counts for nothing, and a total is missing when all of it *)
(* is.                                                                       *)
Sum0(phases, f) ==
  SumOf([i \in 1..Len(phases) |-> IF phases[i][f] = Missing THEN 0 ELSE phases[i][f]])
Total(phases, f) ==
  IF \A i \in 1..Len(phases) : phases[i][f] = Missing THEN Missing ELSE Sum0(phases, f)

HasUsage(p) == {p.input, p.made, p.cached} # {Missing}

(* summarizePhaseTokens, of a phase and, the sums taken, of all of them:    *)
(* what went up, how much of it came from the cache, and what was new.  A   *)
(* phase without usage adds nothing to any of the sums.                     *)
Tokens(phases) ==
  LET used == \E i \in 1..Len(phases) : HasUsage(phases[i])
      cached == Sum0(phases, "cached")
      fresh == Sum0(phases, "input") + Sum0(phases, "made")
  IN  [upstream |-> IF used THEN fresh + cached ELSE Missing,
       cached |-> cached, fresh |-> fresh, output |-> Total(phases, "output")]

(* A cache rate is known of what went up, if anything did. *)
HasRate(u) == u.upstream > 0
IsLowCache(u) == HasRate(u) /\ 100 * u.cached < LOW_CACHE_THRESHOLD * u.upstream

ProgressDot(status) ==
  CASE status = "completed" -> "check" [] status = "running" -> "pulse"
    [] status = "failed" -> "fault" [] OTHER -> "hollow"

CompactStepper(phases) == [i \in 1..Len(phases) |-> ProgressDot(phases[i].status)]

(* A row: its dot, its two times, its figures and its tokens. *)
PhaseRow(p) ==
  [dot |-> ProgressDot(p.status),
   times |-> CASE p.from = Missing -> "none"
               [] p.from # Missing /\ p.status = "running" -> "live"
               [] p.from # Missing /\ p.status # "running" /\ p.upto # Missing -> "ended"
               [] OTHER -> "open",
   elapsed |-> IF p.from = Missing \/ p.upto = Missing THEN Missing ELSE p.upto - p.from,
   tokens |-> Tokens(<<p>>)]

(* FullStepper: the session's times, and the time between its phases. *)
SessionTimes(phases) ==
  LET began == {i \in 1..Len(phases) : phases[i].from # Missing}
      live == \E i \in 1..Len(phases) : phases[i].status = "running"
      ended == began # {} /\ ~live /\ \A i \in began : phases[i].upto # Missing
      start == IF began = {} THEN Missing ELSE Min({phases[i].from : i \in began})
      end == IF ended THEN Max({phases[i].upto : i \in began}) ELSE Missing
      wall == IF ended THEN end - start ELSE Missing
      spent == Sum0(phases, "secs")
  IN  [from |-> start, upto |-> end, live |-> live, wall |-> wall,
       idle |-> IF wall = Missing \/ spent = 0 THEN Missing ELSE wall - spent]

(* The totals; of the estimate, how far over or under it is, in seconds. *)
Footer(phases, estimate) ==
  [times |-> SessionTimes(phases), secs |-> Sum0(phases, "secs"),
   turns |-> Total(phases, "turns"), cost |-> Total(phases, "cost"),
   tokens |-> Tokens(phases),
   delta |-> IF estimate = Missing \/ estimate = 0 \/ Sum0(phases, "secs") = 0 THEN 0
             ELSE Sum0(phases, "secs") - estimate]

FullStepper(phases, estimate) ==
  [rows |-> [i \in 1..Len(phases) |-> PhaseRow(phases[i])], footer |-> Footer(phases, estimate)]
=============================================================================
