---------------------------- MODULE TimerService ----------------------------
(***************************************************************************)
(* What the timers of scheduler.c promise to the rest of the daemon, with  *)
(* neither a wheel nor a clock that wraps: a timer fires only when it is   *)
(* due and not later than is tolerated; it stays set until it fires or its *)
(* owner stops or changes it; a callback may set and stop timers, its own  *)
(* included, and a periodic timer that is left alone is set again.         *)
(***************************************************************************)
EXTENDS Integers

CONSTANTS Handles, Earliest(_), Null

VARIABLES armed,     \* the timers that are set
          left,      \* what is left until each of them is due
          period,    \* of a periodic timer, 0 of others
          tolerance, \* how late a timer may be at this time
          request    \* the last call of an owner, or of a callback

serviceVars == <<armed, left, period, tolerance, request>>

ServiceInit ==
  /\ armed = {} /\ request = [op |-> "none"]
  /\ left = [t \in Handles |-> 0] /\ period = [t \in Handles |-> 0]

(* Timer t is set to go off at the time asked for, or earlier by jitter.   *)
Armed(t, rel, p) == t \in armed' /\ left'[t] \in Earliest(rel) .. rel /\ period'[t] = p

Unchanged(t) == /\ t \in armed <=> t \in armed'
                /\ t \in armed => left'[t] = left[t] /\ period'[t] = period[t]

(* A new timer, a change of one, or, with no time, its end.                *)
SetTimer ==
  /\ request'.op = "set" /\ UNCHANGED tolerance
  /\ LET t == request'.timer
         r == request'.rel
     IN  /\ IF r = 0 THEN t \notin armed' ELSE Armed(t, r, IF request'.periodic THEN r ELSE 0)
         /\ \A u \in Handles \ {t} : Unchanged(u)

(* Time passes, but not beyond what is tolerated for a timer that is set.  *)
Elapse ==
  /\ request'.op = "elapse"
  /\ armed' = armed /\ period' = period
  /\ \A t, u \in armed : left[t] - left'[t] = left[u] - left'[u]
  /\ \A t \in armed : left'[t] \in -tolerance' .. left[t]

(* A timer fires.  Its callback may have stopped a timer, started one, and *)
(* stopped or changed the one that fired.                                  *)
Fire ==
  /\ request'.op = "fire" /\ UNCHANGED tolerance
  /\ LET t == request'.timer
         c == request'.callback
         p == IF c.self > 0 THEN c.self ELSE period[t]
     IN  /\ t \in armed /\ left[t] <= 0
         /\ IF c.self = Null \/ p = 0 THEN t \notin armed' ELSE Armed(t, p, p)
         /\ c.start > 0 => request'.new \notin armed \ {c.stop} /\ Armed(request'.new, c.start, 0)
         /\ c.stop # request'.new => c.stop \notin armed'
         /\ \A u \in Handles \ {t, request'.new, c.stop} : Unchanged(u)

ServiceNext == SetTimer \/ Elapse \/ Fire

ServiceSpec == ServiceInit /\ [][ServiceNext]_serviceVars
==============================================================================
