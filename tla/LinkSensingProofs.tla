-------------------------- MODULE LinkSensingProofs --------------------------
(***************************************************************************)
(* Proofs about LinkSensing, for all validity, hold and HELLO times and    *)
(* every jitter the assumption on them allows.                             *)
(***************************************************************************)
EXTENDS LinkSensing, TLAPS

(* What the two sides of a link remember of each other.  The symmetry      *)
(* timer never outlives the time the other side counts as heard, which     *)
(* bounds how long ago the other side was heard: so a HELLO that lists the *)
(* link says that its sender was heard within one validity time, and the   *)
(* symmetry it sets ends within another.                                   *)
Remembered(n) ==
  /\ link_sym_timer[n] <= ASYM_time[n]
  /\ ASYM_time[n] > 0 => silence[Peer(n)] + ASYM_time[n] <= Vtime
  /\ link_sym_timer[n] > 0 => silence[n] + link_sym_timer[n] < 2 * Vtime

(* How far the link timer is ahead of the symmetry timer: as set with it,  *)
(* or, if a HELLO has set it again since, the symmetry timer has run down. *)
Ahead(n) ==
  /\ link_timer[n] >= link_sym_timer[n]
  /\ link_sym_timer[n] > 0 => \/ link_timer[n] >= link_sym_timer[n] + (HoldTime - Jitter)
                              \/ link_sym_timer[n] + (HoldTime - Jitter) < Vtime
  /\ link_timer[n] + Jitter >= ASYM_time[n]
  /\ link_timer[n] = 0 => ASYM_time[n] = 0

IInv == TypeOK /\ \A n \in Nodes : Remembered(n) /\ Ahead(n)

-----------------------------------------------------------------------------
LEMMA Peers ==
  ASSUME NEW n \in Nodes
  PROVE  Peer(n) \in Nodes /\ Peer(Peer(n)) = n /\ Peer(n) # n /\ \A m \in Nodes : m = n \/ m = Peer(n)
BY DEF Nodes, Peer

LEMMA Lessened ==
  ASSUME NEW t \in Nat
  PROVE  Less(t) = IF t > 0 THEN t - 1 ELSE 0
<1> DEFINE S == {t - 1, 0}
           x == IF t > 0 THEN t - 1 ELSE 0
<1>1. x \in S /\ \A y \in S : x >= y
  OBVIOUS
<1>2. \A z \in S : (\A y \in S : z >= y) => z = x
  OBVIOUS
<1> QED BY <1>1, <1>2 DEF Less, Max

LEMMA Capped ==
  ASSUME NEW s \in Nat, NEW k \in Nat
  PROVE  Min({s, k}) = IF s <= k THEN s ELSE k
<1> DEFINE S == {s, k}
           x == IF s <= k THEN s ELSE k
<1>1. x \in S /\ \A y \in S : x =< y
  OBVIOUS
<1>2. \A z \in S : (\A y \in S : z =< y) => z = x
  OBVIOUS
<1> QED BY <1>1, <1>2 DEF Min

LEMMA InitInv == Init => IInv
<1> SUFFICES ASSUME Init PROVE IInv
  OBVIOUS
<1> USE LinkSensingAssumption
<1>1. up \in [Nodes -> BOOLEAN] /\ link \in [Nodes -> BOOLEAN] /\ stable \in BOOLEAN
  BY DEF Init
<1>2. /\ ASYM_time \in [Nodes -> 0 .. Vtime] /\ link_sym_timer \in [Nodes -> 0 .. Vtime]
      /\ link_timer \in [Nodes -> 0 .. Vtime + HoldTime] /\ due \in [Nodes -> 0 .. HelloInt]
      /\ silence \in [Nodes -> 0 .. MaxSilence]
  BY DEF Init, MaxSilence
<1>3. \A n \in Nodes : ~link[n] /\ link_timer[n] = 0 /\ ASYM_time[n] = 0 /\ link_sym_timer[n] = 0
  BY DEF Init
<1> QED BY <1>1, <1>2, <1>3 DEF IInv, TypeOK, Remembered, Ahead

(* Time passes for an entry.                                               *)
LEMMA TickInv == IInv /\ Tick => IInv'
<1> SUFFICES ASSUME IInv, Tick PROVE IInv'
  OBVIOUS
<1> USE LinkSensingAssumption
<1>1. TypeOK /\ Vtime \in Nat /\ HoldTime \in Nat /\ HelloInt \in Nat /\ Jitter \in Nat /\ MaxSilence = 2 * Vtime
  BY DEF IInv, MaxSilence
<1>2. ASSUME NEW n \in Nodes
      PROVE  /\ ASYM_time'[n] = IF link_timer[n] = 1 \/ ASYM_time[n] = 0 THEN 0 ELSE ASYM_time[n] - 1
             /\ link_sym_timer'[n] = IF link_timer[n] = 1 \/ link_sym_timer[n] = 0 THEN 0 ELSE link_sym_timer[n] - 1
             /\ link_timer'[n] = IF link_timer[n] = 0 THEN 0 ELSE link_timer[n] - 1
             /\ due'[n] = IF due[n] = 0 THEN 0 ELSE due[n] - 1
             /\ silence'[n] = IF silence[n] + 1 <= MaxSilence THEN silence[n] + 1 ELSE MaxSilence
  <2>1. /\ ASYM_time[n] \in Nat /\ link_sym_timer[n] \in Nat /\ link_timer[n] \in Nat /\ due[n] \in Nat
        /\ silence[n] \in Nat /\ silence[n] + 1 \in Nat /\ MaxSilence \in Nat
    BY <1>1 DEF TypeOK
  <2>2. Less(ASYM_time[n]) = IF ASYM_time[n] > 0 THEN ASYM_time[n] - 1 ELSE 0
    BY <2>1, Lessened
  <2>3. Less(link_sym_timer[n]) = IF link_sym_timer[n] > 0 THEN link_sym_timer[n] - 1 ELSE 0
    BY <2>1, Lessened
  <2>4. Less(link_timer[n]) = IF link_timer[n] > 0 THEN link_timer[n] - 1 ELSE 0
    BY <2>1, Lessened
  <2>5. Less(due[n]) = IF due[n] > 0 THEN due[n] - 1 ELSE 0
    BY <2>1, Lessened
  <2>6. Min({silence[n] + 1, MaxSilence}) = IF silence[n] + 1 <= MaxSilence THEN silence[n] + 1 ELSE MaxSilence
    BY <2>1, Capped
  <2> QED BY <2>1, <2>2, <2>3, <2>4, <2>5, <2>6 DEF Tick
<1>3. \A n \in Nodes : link'[n] <=> link[n] /\ link_timer[n] # 1
  BY DEF Tick
<1>4. TypeOK'
  <2>1. up' = up /\ stable' = stable
    BY DEF Tick
  <2>2. /\ DOMAIN link' = Nodes /\ DOMAIN ASYM_time' = Nodes /\ DOMAIN link_sym_timer' = Nodes
        /\ DOMAIN link_timer' = Nodes /\ DOMAIN due' = Nodes /\ DOMAIN silence' = Nodes
    BY DEF Tick
  <2>3. link' \in [Nodes -> BOOLEAN]
    BY DEF Tick
  <2>4. /\ ASYM_time' \in [Nodes -> 0 .. Vtime]
        /\ link_sym_timer' \in [Nodes -> 0 .. Vtime]
        /\ link_timer' \in [Nodes -> 0 .. Vtime + HoldTime]
    <3>1. \A n \in Nodes : ASYM_time'[n] \in 0 .. Vtime /\ link_sym_timer'[n] \in 0 .. Vtime
                           /\ link_timer'[n] \in 0 .. Vtime + HoldTime
      BY <1>1, <1>2 DEF TypeOK
    <3> QED BY <3>1, <2>2 DEF Tick
  <2>5. due' \in [Nodes -> 0 .. HelloInt] /\ silence' \in [Nodes -> 0 .. MaxSilence]
    <3>1. \A n \in Nodes : due'[n] \in 0 .. HelloInt /\ silence'[n] \in 0 .. MaxSilence
      BY <1>1, <1>2 DEF TypeOK
    <3> QED BY <3>1, <2>2 DEF Tick
  <2>6. \A n \in Nodes : link'[n] <=> link_timer'[n] > 0
    BY <1>1, <1>2, <1>3 DEF TypeOK
  <2> QED BY <1>1, <2>1, <2>3, <2>4, <2>5, <2>6 DEF TypeOK
<1>5. ASSUME NEW n \in Nodes PROVE Remembered(n)' /\ Ahead(n)'
  <2>1. Peer(n) \in Nodes /\ Remembered(n) /\ Ahead(n)
    BY Peers DEF IInv
  <2>2. /\ ASYM_time[n] \in Nat /\ link_sym_timer[n] \in Nat /\ link_timer[n] \in Nat
        /\ silence[n] \in 0 .. MaxSilence /\ silence[Peer(n)] \in 0 .. MaxSilence
    BY <1>1, <2>1 DEF TypeOK
  <2>3. Remembered(n)'
    BY <1>1, <1>2, <2>1, <2>2 DEF Remembered, Ahead
  <2>4. Ahead(n)'
    BY <1>1, <1>2, <2>1, <2>2 DEF Ahead, Remembered
  <2> QED BY <2>3, <2>4
<1> QED BY <1>4, <1>5 DEF IInv

(* A HELLO of n arrives at its peer.                                       *)
LEMMA HelloInv == ASSUME NEW n \in Nodes PROVE IInv /\ HelloReceived(n) => IInv'
<1> SUFFICES ASSUME IInv, HelloReceived(n) PROVE IInv'
  OBVIOUS
<1> USE LinkSensingAssumption
<1> DEFINE p == Peer(n)
           code == create_lq_hello(n)
<1>1. TypeOK /\ Vtime \in Nat /\ HoldTime \in Nat /\ HelloInt \in Nat /\ Jitter \in Nat /\ MaxSilence = 2 * Vtime
  BY DEF IInv, MaxSilence
<1>2. p \in Nodes /\ Peer(p) = n /\ p # n /\ \A m \in Nodes : m = n \/ m = p
  BY Peers
<1>3. Remembered(n) /\ Remembered(p) /\ Ahead(n) /\ Ahead(p)
  BY <1>2 DEF IInv
<1>4. PICK sym \in 0 .. Vtime, t1 \in 0 .. Vtime + HoldTime, t2 \in 0 .. Vtime + HoldTime :
        /\ SetTimers(p, code, sym, t1)
        /\ RaiseLinkTimer(t1, Vtime, t2)
        /\ link' = [link EXCEPT ![p] = TRUE]
        /\ ASYM_time' = [ASYM_time EXCEPT ![p] = Vtime]
        /\ link_sym_timer' = [link_sym_timer EXCEPT ![p] = sym]
        /\ link_timer' = [link_timer EXCEPT ![p] = t2]
  BY DEF HelloReceived, update_link_entry
<1>5. /\ due' = [due EXCEPT ![n] = HelloInt] /\ silence' = [silence EXCEPT ![n] = 0]
      /\ up' = up /\ stable' = stable
  BY DEF HelloReceived
<1>6. /\ ASYM_time[n] \in 0 .. Vtime /\ link_sym_timer[n] \in 0 .. Vtime /\ link_timer[n] \in 0 .. Vtime + HoldTime
      /\ ASYM_time[p] \in 0 .. Vtime /\ link_sym_timer[p] \in 0 .. Vtime /\ link_timer[p] \in 0 .. Vtime + HoldTime
      /\ silence[n] \in 0 .. MaxSilence /\ silence[p] \in 0 .. MaxSilence
  BY <1>1, <1>2 DEF TypeOK
<1>7. /\ ASYM_time'[p] = Vtime /\ link_sym_timer'[p] = sym /\ link_timer'[p] = t2
      /\ ASYM_time'[n] = ASYM_time[n] /\ link_sym_timer'[n] = link_sym_timer[n] /\ link_timer'[n] = link_timer[n]
      /\ silence'[n] = 0 /\ silence'[p] = silence[p]
  BY <1>1, <1>2, <1>4, <1>5 DEF TypeOK
<1>8. t2 >= Vtime - Jitter /\ (t1 >= Vtime => t2 = t1)
  BY <1>4 DEF RaiseLinkTimer, Shortened
<1>9. t2 >= sym /\ (sym > 0 => t2 >= sym + (HoldTime - Jitter) \/ sym + (HoldTime - Jitter) < Vtime)
  <2>1. CASE code \in {"SYM_LINK", "ASYM_LINK"}
    <3>1. sym = Vtime /\ t1 \in Shortened(Vtime + HoldTime)
      BY <1>4, <2>1 DEF SetTimers
    <3> QED BY <3>1, <1>8 DEF Shortened
  <2>2. CASE code \notin {"SYM_LINK", "ASYM_LINK"} /\ link[p]
    <3>1. sym \in {0, link_sym_timer[p]} /\ t1 = link_timer[p]
      BY <1>4, <2>2 DEF SetTimers
    <3> QED BY <3>1, <1>3, <1>4, <1>6, <1>8 DEF Ahead, RaiseLinkTimer, Shortened
  <2>3. CASE code \notin {"SYM_LINK", "ASYM_LINK"} /\ ~link[p]
    <3>1. sym \in {0, link_sym_timer[p]}
      BY <1>4, <2>3 DEF SetTimers
    <3>2. link_timer[p] = 0
      BY <2>3, <1>1, <1>2, <1>6 DEF TypeOK
    <3>3. sym = 0
      BY <3>1, <3>2, <1>3, <1>6 DEF Ahead, Remembered
    <3> QED BY <3>3
  <2> QED BY <2>1, <2>2, <2>3
<1>10. Ahead(p)'
  BY <1>7, <1>8, <1>9 DEF Ahead
<1>11. Ahead(n)'
  BY <1>3, <1>7 DEF Ahead
(* A HELLO that lists the link says that its sender has heard p lately.    *)
<1>12. sym > 0 => silence[p] + sym < 2 * Vtime
  <2>1. CASE code \in {"SYM_LINK", "ASYM_LINK"}
    <3>1. ASYM_time[n] > 0
      BY <2>1, <1>3, <1>6 DEF create_lq_hello, lookup_link_status, Remembered
    <3>2. silence[p] + ASYM_time[n] <= Vtime
      BY <3>1, <1>3 DEF Remembered
    <3> QED BY <3>1, <3>2, <1>6
  <2>2. CASE code \notin {"SYM_LINK", "ASYM_LINK"}
    <3>1. sym \in {0, link_sym_timer[p]}
      BY <1>4, <2>2 DEF SetTimers
    <3> QED BY <3>1, <1>3 DEF Remembered
  <2> QED BY <2>1, <2>2
<1>13. Remembered(p)'
  BY <1>2, <1>7, <1>12 DEF Remembered
<1>14. Remembered(n)'
  BY <1>3, <1>6, <1>7 DEF Remembered
<1>15. TypeOK'
  <2>1. up' \in [Nodes -> BOOLEAN] /\ link' \in [Nodes -> BOOLEAN] /\ stable' \in BOOLEAN
    BY <1>1, <1>4, <1>5 DEF TypeOK
  <2>2. /\ ASYM_time' \in [Nodes -> 0 .. Vtime] /\ link_sym_timer' \in [Nodes -> 0 .. Vtime]
        /\ link_timer' \in [Nodes -> 0 .. Vtime + HoldTime] /\ due' \in [Nodes -> 0 .. HelloInt]
        /\ silence' \in [Nodes -> 0 .. MaxSilence]
    <3>1. Vtime \in 0 .. Vtime /\ HelloInt \in 0 .. HelloInt /\ 0 \in 0 .. MaxSilence
      BY <1>1
    <3>2. ASYM_time' \in [Nodes -> 0 .. Vtime] /\ link_sym_timer' \in [Nodes -> 0 .. Vtime]
      BY <3>1, <1>1, <1>4 DEF TypeOK
    <3>3. link_timer' \in [Nodes -> 0 .. Vtime + HoldTime]
      BY <1>1, <1>4 DEF TypeOK
    <3>4. due' \in [Nodes -> 0 .. HelloInt] /\ silence' \in [Nodes -> 0 .. MaxSilence]
      BY <3>1, <1>1, <1>5 DEF TypeOK
    <3> QED BY <3>2, <3>3, <3>4
  <2>3. link'[p] /\ t2 > 0
    BY <1>1, <1>2, <1>4, <1>8 DEF TypeOK
  <2>4. link'[n] <=> link[n]
    BY <1>1, <1>2, <1>4 DEF TypeOK
  <2>5. \A m \in Nodes : link'[m] <=> link_timer'[m] > 0
    BY <2>3, <2>4, <1>1, <1>2, <1>7 DEF TypeOK
  <2> QED BY <2>1, <2>2, <2>5, <1>1 DEF TypeOK
<1> QED BY <1>2, <1>10, <1>11, <1>13, <1>14, <1>15 DEF IInv

(* A node stops.                                                           *)
LEMMA StopInv == ASSUME NEW n \in Nodes PROVE IInv /\ Stop(n) => IInv'
<1> SUFFICES ASSUME IInv, Stop(n) PROVE IInv'
  OBVIOUS
<1> USE LinkSensingAssumption
<1>1. TypeOK /\ Vtime \in Nat /\ HoldTime \in Nat /\ HelloInt \in Nat /\ Jitter \in Nat /\ MaxSilence = 2 * Vtime
  BY DEF IInv, MaxSilence
<1>2. /\ up' = [up EXCEPT ![n] = FALSE] /\ link' = [link EXCEPT ![n] = FALSE]
      /\ ASYM_time' = [ASYM_time EXCEPT ![n] = 0] /\ link_sym_timer' = [link_sym_timer EXCEPT ![n] = 0]
      /\ link_timer' = [link_timer EXCEPT ![n] = 0] /\ due' = [due EXCEPT ![n] = HelloInt]
      /\ silence' = silence /\ stable' = stable
  BY DEF Stop
<1>3. TypeOK'
  <2>1. up' \in [Nodes -> BOOLEAN] /\ link' \in [Nodes -> BOOLEAN] /\ stable' \in BOOLEAN
    BY <1>1, <1>2 DEF TypeOK
  <2>2. HelloInt \in 0 .. HelloInt /\ 0 \in 0 .. Vtime /\ 0 \in 0 .. Vtime + HoldTime
    BY <1>1
  <2>3. /\ ASYM_time' \in [Nodes -> 0 .. Vtime] /\ link_sym_timer' \in [Nodes -> 0 .. Vtime]
        /\ silence' \in [Nodes -> 0 .. MaxSilence]
    BY <2>2, <1>1, <1>2 DEF TypeOK
  <2>4. link_timer' \in [Nodes -> 0 .. Vtime + HoldTime] /\ due' \in [Nodes -> 0 .. HelloInt]
    BY <2>2, <1>1, <1>2 DEF TypeOK
  <2>5. ~link'[n] /\ link_timer'[n] = 0 /\ \A m \in Nodes \ {n} : (link'[m] <=> link[m]) /\ link_timer'[m] = link_timer[m]
    BY <1>1, <1>2 DEF TypeOK
  <2>6. \A m \in Nodes : link'[m] <=> link_timer'[m] > 0
    BY <2>5, <1>1 DEF TypeOK
  <2> QED BY <2>1, <2>3, <2>4, <2>6, <1>1 DEF TypeOK
<1>4. ASSUME NEW m \in Nodes PROVE Remembered(m)' /\ Ahead(m)'
  <2>1. Remembered(m) /\ Ahead(m)
    BY DEF IInv
  <2> QED BY <2>1, <1>1, <1>2 DEF Remembered, Ahead, TypeOK
<1> QED BY <1>3, <1>4 DEF IInv

(* Steps that leave the entries alone.                                     *)
LEMMA QuietInv ==
  ASSUME IInv, UNCHANGED <<entry, silence>>, up' \in [Nodes -> BOOLEAN], stable' \in BOOLEAN, due' \in [Nodes -> 0 .. HelloInt]
  PROVE  IInv'
<1>1. TypeOK'
  BY DEF IInv, TypeOK, entry, MaxSilence
<1>2. ASSUME NEW m \in Nodes PROVE Remembered(m)' /\ Ahead(m)'
  BY DEF IInv, Remembered, Ahead, entry
<1> QED BY <1>1, <1>2 DEF IInv

LEMMA NextInv == IInv /\ [Next]_vars => IInv'
<1> SUFFICES ASSUME IInv, [Next]_vars PROVE IInv'
  OBVIOUS
<1> USE LinkSensingAssumption
<1>1. HelloInt \in 0 .. HelloInt /\ up \in [Nodes -> BOOLEAN] /\ stable \in BOOLEAN /\ due \in [Nodes -> 0 .. HelloInt]
  BY DEF IInv, TypeOK
<1>2. ASSUME NEW n \in Nodes, HelloReceived(n) PROVE IInv'
  BY <1>2, HelloInv
<1>3. ASSUME NEW n \in Nodes, HelloLost(n) PROVE IInv'
  BY <1>1, <1>3, QuietInv DEF HelloLost
<1>4. ASSUME NEW n \in Nodes, Stop(n) PROVE IInv'
  BY <1>4, StopInv
<1>5. ASSUME NEW n \in Nodes, Start(n) PROVE IInv'
  BY <1>1, <1>5, QuietInv DEF Start
<1>6. CASE Tick
  BY <1>6, TickInv
<1>7. CASE Stabilise
  BY <1>1, <1>7, QuietInv DEF Stabilise
<1>8. CASE UNCHANGED vars
  BY <1>1, <1>8, QuietInv DEF vars, entry
<1> QED BY <1>2, <1>3, <1>4, <1>5, <1>6, <1>7, <1>8 DEF Next

LEMMA Sound == IInv => LinkSound
<1> SUFFICES ASSUME IInv PROVE LinkSound
  OBVIOUS
<1> USE LinkSensingAssumption
<1>1. EntryOutlivesTimes
  BY DEF IInv, Ahead, EntryOutlivesTimes
<1>2. SymmetricMeansHeard
  <2> SUFFICES ASSUME NEW n \in Nodes, link_sym_timer[n] > 0 PROVE silence[n] < 2 * Vtime
    BY DEF SymmetricMeansHeard
  <2>1. silence[n] + link_sym_timer[n] < 2 * Vtime /\ silence[n] \in 0 .. MaxSilence /\ link_sym_timer[n] \in 0 .. Vtime
    BY DEF IInv, Remembered, TypeOK
  <2> QED BY <2>1
<1> QED BY <1>1, <1>2 DEF LinkSound, IInv

-----------------------------------------------------------------------------
(* Whatever HELLOs are lost and whichever node restarts, for all times: an *)
(* entry outlives what is remembered in it, and a link that counts as      *)
(* symmetric is one on which the other side has heard this one within two  *)
(* validity times (update_link_entry, link_set.c:688).                 *)
THEOREM LinksSound == Spec => []LinkSound
BY InitInv, NextInv, Sound, PTL DEF Spec
=============================================================================
