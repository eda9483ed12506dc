----------------------------- MODULE LinkSensing -----------------------------
(***************************************************************************)
(* Link sensing between two nodes with one interface each (link_set.c, the *)
(* link part of HELLOs in lq_packet.c): the handshake over a lossy radio   *)
(* and the three times of a link, with clocks.  Each side has at most one  *)
(* link entry, that for the other.  A time is the number of ticks left; a  *)
(* HELLO is received at the moment it is sent or not at all.               *)
(***************************************************************************)
EXTENDS Integers, FiniteSetsExt

CONSTANTS
  Vtime,      \* validity time of a HELLO
  HoldTime,   \* NEIGHB_HOLD_TIME
  HelloInt,   \* HELLO interval
  Jitter      \* by how much the jitter may shorten a link timer

Nodes == {1, 2}
Peer(n) == 3 - n

ASSUME LinkSensingAssumption ==
  /\ {Vtime, HoldTime, HelloInt, Jitter} \subseteq Nat
  /\ HelloInt > 0 /\ HoldTime > Jitter /\ HoldTime + 1 >= 2 * Jitter /\ Vtime > HelloInt + Jitter

VARIABLES
  up,              \* the node runs
  link,            \* it has a link entry
  ASYM_time,       \* ticks until the other counts as not heard
  link_sym_timer,  \* ticks until the timer fires; 0: it does not run
  link_timer,      \* ticks until the entry is deleted
  due,             \* ticks until the next HELLO must be sent
  silence,         \* history: ticks since the other last heard the node, capped
  stable           \* from now on no HELLO is lost and no node stops

vars == <<up, link, ASYM_time, link_sym_timer, link_timer, due, silence, stable>>
entry == <<link, ASYM_time, link_sym_timer, link_timer>>

MaxSilence == 2 * Vtime
Shortened(t) == (t - Jitter) .. t
Less(t) == Max({t - 1, 0})

------------------------------------------------------------------------------
(* Mutant: a node that has not been heard for long is listed as heard.     *)
StatusNoTimeout(n) ==
  IF link_sym_timer[n] > 0 THEN "SYM_LINK" ELSE "ASYM_LINK"

(* The state of the link that a HELLO of n lists.                          *)
lookup_link_status(n) ==
  IF link_sym_timer[n] > 0 THEN "SYM_LINK"
  ELSE IF ASYM_time[n] > 0 THEN "ASYM_LINK"
  ELSE "LOST_LINK"

create_lq_hello(n) == IF link[n] THEN lookup_link_status(n) ELSE "UNSPEC_LINK"

(* Mutant: only a HELLO that lists the link as symmetric sets the symmetry *)
(* timer.                                                                  *)
SetTimersSymOnly(n, code, sym, t) ==
  IF code = "SYM_LINK"
  THEN sym = Vtime /\ t \in Shortened(Vtime + HoldTime)
  ELSE /\ sym = IF code = "LOST_LINK" THEN 0 ELSE link_sym_timer[n]
       /\ t \in IF link[n] THEN {link_timer[n]} ELSE Shortened(Vtime)

(* The symmetry timer and the link timer after the state in the HELLO was  *)
(* looked at.  A new entry begins with a link timer of its own; the        *)
(* symmetry timer has no jitter.                                           *)
SetTimers(n, code, sym, t) ==
  IF code \in {"SYM_LINK", "ASYM_LINK"}
  THEN sym = Vtime /\ t \in Shortened(Vtime + HoldTime)
  ELSE /\ sym = IF code = "LOST_LINK" THEN 0 ELSE link_sym_timer[n]
       /\ t \in IF link[n] THEN {link_timer[n]} ELSE Shortened(Vtime)

(* L_time = max(L_time, L_ASYM_time)                                       *)
RaiseLinkTimer(left, asym, t) == t \in IF left < asym THEN Shortened(asym) ELSE {left}

(* Node n receives a HELLO in which its link has the state "code".         *)
update_link_entry(n, code) ==
  \E sym \in 0 .. Vtime, t1, t2 \in 0 .. Vtime + HoldTime :
    /\ SetTimers(n, code, sym, t1)
    /\ RaiseLinkTimer(t1, Vtime, t2)
    /\ link' = [link EXCEPT ![n] = TRUE]
    /\ ASYM_time' = [ASYM_time EXCEPT ![n] = Vtime]
    /\ link_sym_timer' = [link_sym_timer EXCEPT ![n] = sym]
    /\ link_timer' = [link_timer EXCEPT ![n] = t2]

------------------------------------------------------------------------------
Init ==
  /\ up = [n \in Nodes |-> TRUE]
  /\ link = [n \in Nodes |-> FALSE]
  /\ ASYM_time = [n \in Nodes |-> 0]
  /\ link_sym_timer = [n \in Nodes |-> 0]
  /\ link_timer = [n \in Nodes |-> 0]
  /\ due = [n \in Nodes |-> HelloInt]
  /\ silence = [n \in Nodes |-> MaxSilence]
  /\ stable = FALSE

(* Node n sends its HELLO, jittered within the interval, and the other one *)
(* receives it.                                                            *)
HelloReceived(n) ==
  /\ up[n] /\ up[Peer(n)]
  /\ due[n] < HelloInt
  /\ due' = [due EXCEPT ![n] = HelloInt]
  /\ update_link_entry(Peer(n), create_lq_hello(n))
  /\ silence' = [silence EXCEPT ![n] = 0]
  /\ UNCHANGED <<up, stable>>

HelloLost(n) ==
  /\ up[n]
  /\ stable => ~up[Peer(n)]
  /\ due[n] < HelloInt
  /\ due' = [due EXCEPT ![n] = HelloInt]
  /\ UNCHANGED <<up, entry, silence, stable>>

(* Time passes; the timers that run out fire.                              *)
Tick ==
  LET expired == {n \in Nodes : link_timer[n] = 1}
      left(f) == [n \in Nodes |-> IF n \in expired THEN 0 ELSE Less(f[n])]
  IN  /\ \A n \in Nodes : up[n] => due[n] > 0
      /\ link' = [n \in Nodes |-> link[n] /\ n \notin expired]
      /\ ASYM_time' = left(ASYM_time)
      /\ link_sym_timer' = left(link_sym_timer)
      /\ link_timer' = left(link_timer)
      /\ due' = [n \in Nodes |-> Less(due[n])]
      /\ silence' = [n \in Nodes |-> Min({silence[n] + 1, MaxSilence})]
      /\ UNCHANGED <<up, stable>>

(* A node stops or crashes: its tables are gone.                           *)
Stop(n) ==
  /\ ~stable
  /\ up[n]
  /\ up' = [up EXCEPT ![n] = FALSE]
  /\ link' = [link EXCEPT ![n] = FALSE]
  /\ ASYM_time' = [ASYM_time EXCEPT ![n] = 0]
  /\ link_sym_timer' = [link_sym_timer EXCEPT ![n] = 0]
  /\ link_timer' = [link_timer EXCEPT ![n] = 0]
  /\ due' = [due EXCEPT ![n] = HelloInt]
  /\ UNCHANGED <<silence, stable>>

Start(n) ==
  /\ ~up[n]
  /\ up' = [up EXCEPT ![n] = TRUE]
  /\ due' = [due EXCEPT ![n] = HelloInt]
  /\ UNCHANGED <<entry, silence, stable>>

Stabilise ==
  /\ ~stable
  /\ stable' = TRUE
  /\ UNCHANGED <<up, entry, due, silence>>

Next ==
  \/ \E n \in Nodes : HelloReceived(n) \/ HelloLost(n) \/ Stop(n) \/ Start(n)
  \/ Tick
  \/ Stabilise

(* Time goes on, and the periodic HELLO timers fire.                       *)
Fairness ==
  /\ WF_vars(Tick)
  /\ \A n \in Nodes : WF_vars(HelloReceived(n) \/ HelloLost(n))

Spec == Init /\ [][Next]_vars /\ Fairness

------------------------------------------------------------------------------
(* Every value is in its range, and an entry is there as long as its timer *)
(* runs (link_set.c:484-495).                                              *)
TypeOK ==
  /\ up \in [Nodes -> BOOLEAN] /\ link \in [Nodes -> BOOLEAN] /\ stable \in BOOLEAN
  /\ ASYM_time \in [Nodes -> 0 .. Vtime]
  /\ link_sym_timer \in [Nodes -> 0 .. Vtime]
  /\ link_timer \in [Nodes -> 0 .. Vtime + HoldTime]
  /\ due \in [Nodes -> 0 .. HelloInt]
  /\ silence \in [Nodes -> 0 .. MaxSilence]
  /\ \A n \in Nodes : link[n] <=> link_timer[n] > 0

(* The link entry lives at least as long as the link counts as symmetric,  *)
(* and as the other side counts as heard, up to the jitter of its timer    *)
(* (link_set.c:720 "L_time = max(L_time, L_ASYM_time)").                   *)
EntryOutlivesTimes ==
  \A n \in Nodes : /\ link_timer[n] >= link_sym_timer[n]
                   /\ link_timer[n] + Jitter >= ASYM_time[n]

(* A node that takes the link for symmetric has been heard by the other    *)
(* side within two validity times, whatever was lost and whoever has       *)
(* restarted: stale symmetry cannot feed on itself.                        *)
SymmetricMeansHeard ==
  \A n \in Nodes : link_sym_timer[n] > 0 => silence[n] < 2 * Vtime

(* Once HELLOs get through, both sides of a running pair end up with a     *)
(* symmetric link and keep it.                                             *)
BothBecomeSymmetric ==
  stable /\ up = [n \in Nodes |-> TRUE] ~> [](\A n \in Nodes : link_sym_timer[n] > 0)

(* A link to a node that stays away is forgotten.                          *)
DeadLinkForgotten ==
  \A n \in Nodes : ~up[Peer(n)] ~> (up[Peer(n)] \/ ~link[n])

(* Whatever was lost before: HELLOs that get through make the link         *)
(* symmetric on both sides for good, and a link to a node that stays away  *)
(* is forgotten.                                                           *)
LinksConverge == BothBecomeSymmetric /\ DeadLinkForgotten

(* What a node believes of a link at any time: the entry outlives what is  *)
(* remembered in it, and a symmetric link is one on which the other side   *)
(* was heard.                                                              *)
LinkSound == TypeOK /\ EntryOutlivesTimes /\ SymmetricMeansHeard
==============================================================================
