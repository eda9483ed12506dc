---------------------------- MODULE RoutesProofs ----------------------------
(***************************************************************************)
(* Proofs about Routes, for every set of originators, prefixes, topologies *)
(* and kernels.                                                            *)
(***************************************************************************)
EXTENDS Routes, WellFoundedInduction, TLAPS

(* Most obligations are first-order: Zenon proves them, SMT the others.     *)
USE ZenonT(60)

(* The entries that wait for a change, and the ones that wait for their    *)
(* deletion.                                                               *)
Queued  == chg_head \cup chg_tail
Dropped == del_head \cup del_tail

(* The RIB: linked paths are up to date and hang off an entry; the best    *)
(* path of an entry is linked unless it was freed.                         *)
RibInv ==
  /\ setup \in Setups
  /\ TypeOK /\ InetgwAlive
  /\ rtp_rt \subseteq rtp_version
  /\ \A p \in rtp_version : rtp[p] \in Results
  /\ \A p \in rtp_rt : p[2] \in routingtree
  /\ \A d \in routingtree : rt_best[d] # Freed => rt_best[d] \in Originators /\ <<rt_best[d], d>> \in rtp_rt
  /\ stopped => routingtree = {}

(* The queues: next hop routes wait at their head, but for entries to be   *)
(* deleted whose best path was freed; and an entry that is neither in the  *)
(* RIB nor waits to be deleted has no route.                               *)
QueueInv ==
  /\ Queued \subseteq routingtree
  /\ Dropped \subseteq Dsts \ routingtree
  /\ \A d \in Queued : rt_best[d] # Freed
  /\ \A d \in chg_head : rtp[<<rt_best[d], d>>].nexthop.gateway = d
  /\ \A d \in chg_tail : rtp[<<rt_best[d], d>>].nexthop.gateway # d
  /\ \A d \in del_head : rt_best[d] # Freed => IsHostRoute(d)
  /\ \A d \in del_tail : rt_best[d] # Freed => ~IsHostRoute(d)
  /\ \A d \in Dsts \ (routingtree \cup Dropped) : rt_nexthop[d] = Fresh

(* The elected path is the cheapest, up to the threshold.                  *)
CostInv ==
  \A d \in routingtree : rt_best[d] # Freed =>
    \A o \in Linked(d) :
      rtp[<<rt_best[d], d>>].cost * (IF d = DefaultDst THEN NatNum ELSE NatDen) < (rtp[<<o, d>>].cost + 1) * NatDen

(* An entry that does not wait for a change has the next hop of its path.  *)
NextHopInv ==
  ReliableKernel => \A d \in routingtree \ (LinkLocal \cup Queued) :
    rt_best[d] # Freed => rtp[<<rt_best[d], d>>].nexthop = rt_nexthop[d]

(* A route in the kernel is that of an entry, one that waits to be deleted *)
(* included.                                                               *)
StaleInv ==
  ObedientKernel => \A r \in fib \ auto : r.dst \notin LinkLocal =>
    r.dst \in routingtree \cup Dropped /\ r = Installed(r.dst) /\ rt_nexthop[r.dst] # Fresh

(* The route that an entry remembers is in the kernel, and an entry that   *)
(* does not wait for a change remembers one.                               *)
HasInv ==
  /\ RemembersNoLostRoute
  /\ ReliableKernel /\ RemovableIfs = {} =>
       \A d \in routingtree \ (LinkLocal \cup Queued) : rt_nexthop[d] # Fresh

(* No route is generated for a gateway in a subnet.                        *)
AutoInv == \A r \in auto : r.dst \notin OnLink

IInv == RibInv /\ QueueInv /\ CostInv /\ NextHopInv /\ StaleInv /\ HasInv /\ AutoInv

-----------------------------------------------------------------------------
(* The election of the best path.                                          *)

(* A set of numbers that is not empty has a least one.                     *)
LEMMA LeastNumber ==
  ASSUME NEW S \in SUBSET Nat, S # {}
  PROVE  \E x \in S : \A y \in S : x <= y
<1>1. PICK x \in S : \A y \in S : ~(<<y, x>> \in OpToRel(<, Nat))
  BY NatLessThanWellFounded, WFMin
<1>2. \A y \in S : ~(y < x)
  BY <1>1 DEF OpToRel
<1> QED BY <1>2, SMTT(30)

(* Among paths there is one that no other beats: costs, then hops, then    *)
(* originators decide, and no two originators are the same.                *)
LEMMA BestExists ==
  ASSUME NEW S \in SUBSET Nat, S # {}, NEW e \in [S -> Nat], NEW h \in [S -> Nat]
  PROVE  \E o \in S : \A q \in S \ {o} :
           \/ e[o] < e[q]
           \/ e[o] = e[q] /\ h[o] < h[q]
           \/ e[o] = e[q] /\ h[o] = h[q] /\ o < q
<1> DEFINE E == {e[o] : o \in S}
<1>1. PICK x \in E : \A y \in E : x <= y
  <2>1. E \in SUBSET Nat /\ E # {}
    OBVIOUS
  <2> QED BY <2>1, LeastNumber
<1> DEFINE S1 == {o \in S : e[o] = x}
           H == {h[o] : o \in S1}
<1>2. PICK y \in H : \A z \in H : y <= z
  <2>1. H \in SUBSET Nat /\ H # {}
    BY <1>1
  <2> QED BY <2>1, LeastNumber
<1> DEFINE S2 == {o \in S1 : h[o] = y}
<1>3. PICK o \in S2 : \A q \in S2 : o <= q
  <2>1. S2 \in SUBSET Nat /\ S2 # {}
    BY <1>2
  <2> QED BY <2>1, LeastNumber
<1>4. o \in S /\ e[o] = x /\ h[o] = y /\ o \in Nat
  BY <1>3
<1>5. ASSUME NEW q \in S \ {o}
      PROVE  \/ e[o] < e[q]
             \/ e[o] = e[q] /\ h[o] < h[q]
             \/ e[o] = e[q] /\ h[o] = h[q] /\ o < q
  <2>1. q \in Nat /\ e[q] \in Nat /\ h[q] \in Nat /\ x <= e[q] /\ x \in Nat
    BY <1>1
  <2>2. CASE e[q] = x /\ h[q] = y
    <3>1. o <= q /\ o # q
      BY <1>3, <2>2
    <3> QED BY <3>1, <2>1, <2>2, <1>4, SMTT(30)
  <2>3. CASE e[q] = x /\ h[q] # y
    <3>1. y <= h[q] /\ y \in Nat
      BY <1>2, <2>3
    <3> QED BY <3>1, <2>1, <2>3, <1>4, SMTT(30)
  <2>4. CASE e[q] # x
    BY <2>1, <2>4, <1>4, SMTT(30)
  <2> QED BY <2>2, <2>3, <2>4
<1> QED BY <1>4, <1>5

(* The weighted cost of the current Internet gateway.                      *)
LEMMA Weighted ==
  ASSUME NEW c \in Nat
  PROVE  /\ (c * NatNum) \div NatDen \in Nat
         /\ (c * NatNum) \div NatDen <= c
         /\ c * NatNum < ((c * NatNum) \div NatDen + 1) * NatDen
<1>1. NatNum \in Nat /\ NatDen \in Nat /\ 0 < NatNum /\ NatNum <= NatDen
  BY RoutesAssumption
<1>2. c * NatNum \in Nat /\ c * NatNum <= c * NatDen
  BY <1>1, SMTT(30)
<1> DEFINE q == (c * NatNum) \div NatDen
<1>3. q \in Int /\ q * NatDen <= c * NatNum /\ c * NatNum < (q + 1) * NatDen
  BY <1>1, <1>2, SMTT(30)
<1>4. q \in Nat
  BY <1>1, <1>2, <1>3, SMTT(30)
<1>5. q <= c
  BY <1>1, <1>2, <1>3, SMTT(30)
<1> QED BY <1>3, <1>4, <1>5

(* A path is identified by its originator and its prefix.                  *)
LEMMA PathIsPair ==
  ASSUME NEW p \in Advertised
  PROVE  p = <<p[1], p[2]>> /\ p[1] \in Originators /\ p[2] \in Dsts
<1>1. p \in Originators \X Dsts
  BY RoutesAssumption
<1> QED BY <1>1, SMTT(30)

(* What a walk over the entries leaves.  Walk(...) is what the proofs below *)
(* use of it.                                                              *)
Walk(T, linked) ==
  /\ rtp_rt' = linked \cap rtp_version'
  /\ routingtree' \subseteq T
  /\ \A p \in rtp_rt' : p[2] \in routingtree'
  /\ \A d \in routingtree' : rt_best'[d] \in Originators /\ <<rt_best'[d], d>> \in rtp_rt'
  /\ \A d \in routingtree' : \A o \in Originators \ {rt_best'[d]} :
       <<o, d>> \in rtp_rt' => olsr_cmp_rtp(d, rt_best'[d], o)
  /\ rt_best' \in [Dsts -> Originators \cup {Null, Freed}]
  /\ current_inetgw' = IF DefaultDst \in routingtree' THEN rt_best'[DefaultDst] ELSE current_inetgw
  /\ del_head' \cup del_tail' = T \ routingtree'
  /\ chg_head' \cup chg_tail' \subseteq routingtree'
  /\ \A d \in chg_head' : rtp'[<<rt_best'[d], d>>].nexthop.gateway = d
  /\ \A d \in chg_tail' : rtp'[<<rt_best'[d], d>>].nexthop.gateway # d
  /\ \A d \in del_head' : rt_best'[d] # Freed => IsHostRoute(d)
  /\ \A d \in del_tail' : rt_best'[d] # Freed => ~IsHostRoute(d)
  /\ \A d \in routingtree' \ (chg_head' \cup chg_tail') :
       /\ rtp'[<<rt_best'[d], d>>].nexthop = rt_nexthop[d]
       /\ FlatMetric \/ rtp'[<<rt_best'[d], d>>].hops = rt_hops[d]

LEMMA Elected ==
  ASSUME NEW d, NEW S \in SUBSET Originators, S # {},
         current_inetgw \in Originators \cup {Null},
         \A o \in S : rtp'[<<o, d>>] \in Results
  PROVE  /\ olsr_rt_best(d, S) \in S
         /\ \A q \in S \ {olsr_rt_best(d, S)} : olsr_cmp_rtp(d, olsr_rt_best(d, S), q)
<1> DEFINE etx(o) == IF d = DefaultDst /\ o = current_inetgw
                     THEN (rtp'[<<o, d>>].cost * NatNum) \div NatDen ELSE rtp'[<<o, d>>].cost
           e == [o \in S |-> etx(o)]
           h == [o \in S |-> rtp'[<<o, d>>].hops]
<1>1. S \in SUBSET Nat
  BY RoutesAssumption
<1>2. ASSUME NEW o \in S PROVE etx(o) \in Nat /\ rtp'[<<o, d>>].hops \in Nat
  <2>1. rtp'[<<o, d>>].cost \in Nat /\ rtp'[<<o, d>>].hops \in Nat
    BY RoutesAssumption
  <2> QED BY <2>1, Weighted
<1>3. e \in [S -> Nat] /\ h \in [S -> Nat]
  BY <1>2
<1>4. PICK o \in S : \A q \in S \ {o} :
           \/ e[o] < e[q]
           \/ e[o] = e[q] /\ h[o] < h[q]
           \/ e[o] = e[q] /\ h[o] = h[q] /\ o < q
  <2> HIDE DEF e, h
  <2> QED BY <1>1, <1>3, BestExists, SMTT(30)
<1>5. \A q \in S \ {o} : olsr_cmp_rtp(d, o, q)
  BY <1>4 DEF olsr_cmp_rtp
<1> QED BY <1>5 DEF olsr_rt_best

LEMMA Update ==
  ASSUME NEW T \in SUBSET Dsts, NEW linked \in SUBSET Advertised, NEW best, NEW garbage,
         \A p \in linked \cap rtp_version' : p[2] \in T,
         \A p \in rtp_version' : rtp'[p] \in Results,
         current_inetgw \in Originators \cup {Null},
         olsr_update_rib_routes(T, linked, best, garbage)
  PROVE  Walk(T, linked)
<1> DEFINE kept == linked \cap rtp_version'
           owners(d) == {o \in Originators : <<o, d>> \in kept}
           gone == {d \in T : owners(d) = {}}
           elected == [d \in T \ gone |-> olsr_rt_best(d, owners(d))]
           change == {d \in T \ gone :
                   \/ olsr_nh_change(d, elected[d])
                   \/ ~FlatMetric /\ olsr_hopcount_change(d, elected[d])}
           direct == {d \in change : rtp'[<<elected[d], d>>].nexthop.gateway = d}
           direct_gone == {d \in gone : IF best[d] = Freed THEN d \in garbage ELSE IsHostRoute(d)}
<1>1. /\ rtp_rt' = kept
      /\ routingtree' = T \ gone
      /\ rt_best' = [d \in Dsts |-> IF d \in T \ gone THEN elected[d]
                                   ELSE IF d \in gone /\ best[d] = Freed THEN Freed ELSE Null]
      /\ current_inetgw' = IF DefaultDst \in T \ gone THEN elected[DefaultDst] ELSE current_inetgw
      /\ del_head' = direct_gone
      /\ del_tail' = gone \ direct_gone
      /\ chg_head' = direct
      /\ chg_tail' = change \ direct
  BY DEF olsr_update_rib_routes, olsr_delete_outdated_routes
<1>2. ASSUME NEW d \in T \ gone
      PROVE  /\ elected[d] \in owners(d)
             /\ \A q \in owners(d) \ {elected[d]} : olsr_cmp_rtp(d, elected[d], q)
             /\ rt_best'[d] = elected[d]
  <2>1. owners(d) \in SUBSET Originators /\ owners(d) # {}
    OBVIOUS
  <2>2. \A o \in owners(d) : rtp'[<<o, d>>] \in Results
    OBVIOUS
  <2>3. elected[d] = olsr_rt_best(d, owners(d))
    OBVIOUS
  <2>4. rt_best'[d] = elected[d]
    BY <1>1
  <2> HIDE DEF owners, elected
  <2> QED BY <2>1, <2>2, <2>3, <2>4, Elected, SMTT(30)
<1>3. \A p \in kept : p[2] \in T \ gone
  <2> SUFFICES ASSUME NEW p \in kept PROVE p[2] \in T \ gone
    OBVIOUS
  <2>1. p = <<p[1], p[2]>> /\ p[1] \in Originators /\ p[2] \in T
    BY PathIsPair
  <2>2. p[1] \in owners(p[2])
    BY <2>1
  <2> QED BY <2>1, <2>2
<1>4. rt_best' \in [Dsts -> Originators \cup {Null, Freed}]
  BY <1>1, <1>2
<1>5. change \subseteq T \ gone /\ direct \subseteq change
  OBVIOUS
<1>6. \A d \in change \ direct : rtp'[<<elected[d], d>>].nexthop.gateway # d
  OBVIOUS
<1>7. \A d \in direct : rtp'[<<elected[d], d>>].nexthop.gateway = d
  OBVIOUS
<1>8. \A d \in (T \ gone) \ change : /\ rtp'[<<elected[d], d>>].nexthop = rt_nexthop[d]
                                     /\ FlatMetric \/ rtp'[<<elected[d], d>>].hops = rt_hops[d]
  BY DEF olsr_nh_change, olsr_hopcount_change
<1>9. \A d \in T \ gone : rt_best'[d] \in Originators /\ <<rt_best'[d], d>> \in kept
  BY <1>2
<1>10. \A d \in T \ gone : \A o \in Originators \ {rt_best'[d]} :
         <<o, d>> \in kept => olsr_cmp_rtp(d, rt_best'[d], o)
  BY <1>2
<1>11. direct_gone \cup (gone \ direct_gone) = T \ (T \ gone)
  OBVIOUS
<1>12. current_inetgw' = IF DefaultDst \in T \ gone THEN rt_best'[DefaultDst] ELSE current_inetgw
  BY <1>1, <1>2
<1>13. \A d \in T \ gone : rt_best'[d] = elected[d]
  BY <1>2
<1>14. /\ \A d \in direct_gone : rt_best'[d] # Freed => IsHostRoute(d)
       /\ \A d \in gone \ direct_gone : rt_best'[d] # Freed => ~IsHostRoute(d)
  <2>1. \A d \in gone : best[d] = Freed => rt_best'[d] = Freed
    BY <1>1
  <2> QED BY <2>1
<1> HIDE DEF gone, elected, change, direct, direct_gone, owners
<1> QED
  BY <1>1, <1>3, <1>4, <1>5, <1>6, <1>7, <1>8, <1>9, <1>10, <1>11, <1>12, <1>13, <1>14 DEF Walk

(* The elected path is the cheapest, up to the threshold.                  *)
LEMMA WalkCost ==
  ASSUME NEW T, NEW linked, Walk(T, linked),
         \A p \in rtp_version' : rtp'[p] \in Results,
         current_inetgw \in Originators \cup {Null}
  PROVE  CostInv'
<1> DEFINE cost(o, d) == rtp'[<<o, d>>].cost
           etx(o, d) == IF d = DefaultDst /\ o = current_inetgw
                        THEN (cost(o, d) * NatNum) \div NatDen ELSE cost(o, d)
           b(d) == rt_best'[d]
<1>1. SUFFICES ASSUME NEW d \in routingtree', NEW o \in Linked(d)'
               PROVE  cost(b(d), d) * (IF d = DefaultDst THEN NatNum ELSE NatDen) < (cost(o, d) + 1) * NatDen
  BY DEF CostInv
<1>2. NatNum \in Nat /\ NatDen \in Nat /\ 0 < NatNum /\ NatNum <= NatDen
  BY RoutesAssumption
<1>3. /\ o \in Originators /\ <<o, d>> \in rtp_rt'
      /\ b(d) \in Originators /\ <<b(d), d>> \in rtp_rt'
      /\ o # b(d) => olsr_cmp_rtp(d, b(d), o)
      /\ rtp_rt' \subseteq rtp_version'
  BY DEF Walk, Linked
<1>4. cost(o, d) \in Nat /\ cost(b(d), d) \in Nat
  <2>1. rtp'[<<o, d>>] \in Results /\ rtp'[<<b(d), d>>] \in Results
    BY <1>3
  <2> QED BY <2>1, RoutesAssumption
<1>5. ASSUME NEW c \in Nat, NEW x \in Nat, c < x PROVE c * NatDen < x * NatDen
  BY <1>2, <1>5, SMTT(30)
<1>6. etx(o, d) \in Nat /\ etx(b(d), d) \in Nat /\ etx(o, d) <= cost(o, d)
  <2> HIDE DEF cost
  <2> QED BY <1>4, Weighted, SMTT(30)
<1>7. etx(b(d), d) <= etx(o, d)
  <2>1. CASE o = b(d)
    BY <2>1, <1>6, SMTT(30)
  <2>2. CASE o # b(d)
    <3>1. etx(b(d), d) < etx(o, d) \/ etx(b(d), d) = etx(o, d)
      BY <2>2, <1>3 DEF olsr_cmp_rtp
    <3> HIDE DEF etx
    <3> QED BY <3>1, <1>6, SMTT(30)
  <2> QED BY <2>1, <2>2
<1>8. CASE d # DefaultDst
  <2>1. cost(b(d), d) <= cost(o, d)
    BY <1>7, <1>8
  <2> HIDE DEF cost
  <2> QED BY <2>1, <1>5, <1>4, <1>8, SMTT(30)
<1>9. CASE d = DefaultDst
  <2>1. cost(b(d), d) * NatNum < (etx(b(d), d) + 1) * NatDen
    <3>1. CASE b(d) = current_inetgw
      <4> HIDE DEF cost
      <4> QED BY <3>1, <1>9, <1>4, Weighted
    <3>2. CASE b(d) # current_inetgw
      <4>1. etx(b(d), d) = cost(b(d), d)
        BY <3>2
      <4> HIDE DEF cost, etx
      <4>2. cost(b(d), d) * NatDen < (cost(b(d), d) + 1) * NatDen
        BY <1>4, <1>5, SMTT(30)
      <4>3. cost(b(d), d) * NatNum <= cost(b(d), d) * NatDen
        BY <1>2, <1>4, SMTT(30)
      <4>4. cost(b(d), d) * NatNum \in Nat /\ cost(b(d), d) * NatDen \in Nat /\ (cost(b(d), d) + 1) * NatDen \in Nat
        BY <1>2, <1>4, SMTT(30)
      <4> QED BY <4>1, <4>2, <4>3, <4>4, SMTT(30)
    <3> QED BY <3>1, <3>2
  <2> HIDE DEF etx, cost
  <2>2. etx(b(d), d) + 1 <= cost(o, d) + 1
    BY <1>4, <1>6, <1>7, SMTT(30)
  <2>3. (etx(b(d), d) + 1) * NatDen <= (cost(o, d) + 1) * NatDen
    BY <2>2, <1>2, <1>4, <1>6, SMTT(30)
  <2>4. cost(b(d), d) * NatNum \in Nat /\ (etx(b(d), d) + 1) * NatDen \in Nat /\ (cost(o, d) + 1) * NatDen \in Nat
    BY <1>2, <1>4, <1>6, SMTT(30)
  <2> QED BY <2>1, <2>3, <2>4, <1>9, SMTT(30)
<1> QED BY <1>8, <1>9

-----------------------------------------------------------------------------
(* The configuration and the kernel's behaviour do not change.             *)
LEMMA SetupKept ==
  ASSUME setup' = setup
  PROVE  /\ FlatMetric' = FlatMetric /\ DeleteFirst' = DeleteFirst /\ OnLink' = OnLink
         /\ KernelAnswers' = KernelAnswers /\ KernelDeletes' = KernelDeletes /\ LinkLocal' = LinkLocal
         /\ RemovableIfs' = RemovableIfs /\ KernelFlushes' = KernelFlushes
         /\ (ObedientKernel' <=> ObedientKernel) /\ (ReliableKernel' <=> ReliableKernel)
BY DEF FlatMetric, DeleteFirst, OnLink, KernelAnswers, KernelDeletes, LinkLocal, RemovableIfs, KernelFlushes,
       ObedientKernel, ReliableKernel

(* Nothing else happens while changes are exported.                        *)
LEMMA RunningIsIdle ==
  ASSUME Running
  PROVE  Queued = {} /\ Dropped = {} /\ del_head = {} /\ del_tail = {} /\ chg_head = {} /\ chg_tail = {}
BY DEF Running, Idle, Queued, Dropped

(* An expired or revoked announcement.                                     *)
LEMMA DeleteStep ==
  ASSUME IInv, setup' = setup, NEW o, NEW d, <<o, d>> \in Advertised, olsr_delete_routing_table(o, d)
  PROVE  IInv'
<1> DEFINE x == <<o, d>>
<1>1. Queued = {} /\ Dropped = {} /\ Queued' = {} /\ Dropped' = {}
  BY RunningIsIdle DEF olsr_delete_routing_table, queues, Queued, Dropped
<1>2. x \in Advertised /\ o \in Originators /\ d \in Dsts
  BY PathIsPair
<1>3. /\ prefix_tree' = prefix_tree \ {x} /\ rtp_rt' = rtp_rt \ {x} /\ rtp_version' = rtp_version \ {x}
      /\ rtp' = [rtp EXCEPT ![x] = NoRoute]
      /\ rt_best' = [rt_best EXCEPT ![d] = IF @ = o THEN Freed ELSE @]
      /\ current_inetgw' = IF d = DefaultDst /\ current_inetgw = o THEN Null ELSE current_inetgw
      /\ changes' = TRUE
      /\ UNCHANGED <<topo, spf_backoff_timer, routingtree, rt_nexthop, rt_hops, del_head, del_tail, chg_head, chg_tail,
                 fib, auto, stopped>>
  BY DEF olsr_delete_routing_table, head, queues, kernel
<1>4. RibInv'
  <2>1. TypeOK'
    BY <1>2, <1>3 DEF IInv, RibInv, TypeOK
  <2>2. InetgwAlive'
    BY <1>3 DEF IInv, RibInv, InetgwAlive
  <2>3. rtp_rt' \subseteq rtp_version'
    BY <1>3 DEF IInv, RibInv
  <2>4. \A p \in rtp_version' : rtp'[p] \in Results
    BY <1>3 DEF IInv, RibInv, TypeOK
  <2>5. \A p \in rtp_rt' : p[2] \in routingtree'
    BY <1>3 DEF IInv, RibInv
  <2>6. \A c \in routingtree' : rt_best'[c] # Freed => rt_best'[c] \in Originators /\ <<rt_best'[c], c>> \in rtp_rt'
    <3> SUFFICES ASSUME NEW c \in routingtree, rt_best'[c] # Freed
                 PROVE  rt_best'[c] \in Originators /\ <<rt_best'[c], c>> \in rtp_rt'
      BY <1>3
    <3>1. rt_best'[c] = rt_best[c] /\ <<rt_best[c], c>> # x
      BY <1>2, <1>3 DEF IInv, RibInv, TypeOK
    <3> QED BY <3>1, <1>3, SMTT(30) DEF IInv, RibInv
  <2> QED BY <2>1, <2>2, <2>3, <2>4, <2>5, <2>6, <1>3 DEF IInv, RibInv
<1>5. \A c \in routingtree' : rt_best'[c] # Freed => rt_best'[c] = rt_best[c] /\ rtp'[<<rt_best[c], c>>] = rtp[<<rt_best[c], c>>]
  <2> SUFFICES ASSUME NEW c \in routingtree, rt_best'[c] # Freed
               PROVE  rt_best'[c] = rt_best[c] /\ rtp'[<<rt_best[c], c>>] = rtp[<<rt_best[c], c>>]
    BY <1>3
  <2>1. rt_best'[c] = rt_best[c] /\ <<rt_best[c], c>> # x
    BY <1>2, <1>3 DEF IInv, RibInv, TypeOK
  <2>2. <<rt_best[c], c>> \in Advertised
    BY <2>1 DEF IInv, RibInv, TypeOK
  <2> QED BY <2>1, <2>2, <1>2, <1>3 DEF IInv, RibInv, TypeOK
<1>6. QueueInv'
  BY <1>1, <1>3 DEF IInv, QueueInv, Queued, Dropped
<1>7. CostInv'
  <2>1. \A c \in routingtree' : \A q \in Linked(c)' : q \in Linked(c) /\ rtp'[<<q, c>>] = rtp[<<q, c>>]
    BY <1>2, <1>3 DEF IInv, RibInv, TypeOK, Linked
  <2> QED BY <2>1, <1>5, <1>3, SMTT(30) DEF IInv, CostInv
<1>8. NextHopInv'
  BY <1>1, <1>3, <1>5, SetupKept, SMTT(30) DEF IInv, NextHopInv
<1>9. StaleInv'
  BY <1>1, <1>3, SetupKept, SMTT(30) DEF IInv, StaleInv, Installed, Metric
<1>10. HasInv'
  BY <1>1, <1>3, SetupKept, SMTT(30) DEF IInv, HasInv, RemembersNoLostRoute, HasRoute, Installed, Metric
<1>11. AutoInv'
  BY <1>3, SetupKept DEF IInv, AutoInv
<1> QED BY <1>4, <1>6, <1>7, <1>8, <1>9, <1>10, <1>11 DEF IInv

(* A change of the topology or a new announcement only sets the flag, and  *)
(* a backoff defers what it stands for.                                    *)
LEMMA QuietStep ==
  ASSUME IInv, setup' = setup, topo' \in Topologies, changes' \in BOOLEAN, spf_backoff_timer' \in BOOLEAN,
         prefix_tree \subseteq prefix_tree', prefix_tree' \subseteq Advertised,
         UNCHANGED <<rtp, rtp_version, tree, head, queues, kernel, stopped>>
  PROVE  IInv'
<1>1. UNCHANGED <<rtp, rtp_version, rtp_rt, routingtree, rt_best, current_inetgw, rt_nexthop, rt_hops,
                  del_head, del_tail, chg_head, chg_tail, fib, auto, stopped, Queued, Dropped>>
  BY DEF tree, head, queues, kernel, Queued, Dropped
<1>2. RibInv'
  <2>1. TypeOK' /\ InetgwAlive'
    BY <1>1 DEF IInv, RibInv, TypeOK, InetgwAlive
  <2> QED BY <1>1, <2>1, SMTT(30) DEF IInv, RibInv
<1>3. QueueInv'
  BY <1>1 DEF IInv, QueueInv, IsHostRoute
<1>4. CostInv'
  BY <1>1 DEF IInv, CostInv, Linked
<1>5. NextHopInv'
  BY <1>1, SetupKept DEF IInv, NextHopInv
<1>6. StaleInv'
  BY <1>1, SetupKept, SMTT(30) DEF IInv, StaleInv, Installed, Metric
<1>7. HasInv'
  BY <1>1, SetupKept, SMTT(30) DEF IInv, HasInv, RemembersNoLostRoute, HasRoute, Installed, Metric
<1>8. AutoInv'
  BY <1>1, SetupKept DEF IInv, AutoInv
<1> QED BY <1>2, <1>3, <1>4, <1>5, <1>6, <1>7, <1>8 DEF IInv

(* An election moves the default route only past the threshold.            *)
LEMMA WalkHysteresis ==
  ASSUME NEW T, NEW linked, Walk(T, linked), \A p \in rtp_version' : rtp'[p] \in Results
  PROVE  GatewayHysteresis
<1> SUFFICES ASSUME current_inetgw \in Originators, current_inetgw # current_inetgw',
                    <<current_inetgw, DefaultDst>> \in rtp_rt'
             PROVE  rtp'[<<current_inetgw', DefaultDst>>].cost
                      <= (rtp'[<<current_inetgw, DefaultDst>>].cost * NatNum) \div NatDen
  BY DEF GatewayHysteresis
<1> DEFINE c == rtp'[<<current_inetgw', DefaultDst>>].cost
           w == (rtp'[<<current_inetgw, DefaultDst>>].cost * NatNum) \div NatDen
<1>1. DefaultDst \in routingtree' /\ current_inetgw' = rt_best'[DefaultDst]
      /\ <<current_inetgw', DefaultDst>> \in rtp_rt' /\ rtp_rt' \subseteq rtp_version'
  BY DEF Walk
<1>2. olsr_cmp_rtp(DefaultDst, current_inetgw', current_inetgw)
  BY <1>1, SMTT(30) DEF Walk
<1>3. c < w \/ c = w
  BY <1>2 DEF olsr_cmp_rtp
<1>4. rtp'[<<current_inetgw', DefaultDst>>] \in Results /\ rtp'[<<current_inetgw, DefaultDst>>] \in Results
  BY <1>1
<1>5. c \in Nat /\ rtp'[<<current_inetgw, DefaultDst>>].cost \in Nat
  BY <1>4, RoutesAssumption
<1>6. w \in Nat
  BY <1>5, Weighted
<1> HIDE DEF c, w
<1>7. c <= w
  BY <1>3, <1>5, <1>6, SMTT(30)
<1> QED BY <1>7 DEF c, w

(* What every walk over the entries preserves.                             *)
LEMMA WalkKeeps ==
  ASSUME IInv, setup' = setup, NEW T \in SUBSET Dsts, NEW linked \in SUBSET Advertised, Walk(T, linked),
         prefix_tree' = prefix_tree, rtp_version' \subseteq prefix_tree,
         rtp' \in [Advertised -> Results \cup {NoRoute}], \A p \in rtp_version' : rtp'[p] \in Results,
         topo' \in Topologies, changes' \in BOOLEAN, spf_backoff_timer' \in BOOLEAN,
         stopped' \in BOOLEAN, stopped' => routingtree' = {},
         rt_nexthop' \in [Dsts -> Nexthops \cup {Fresh}], rt_hops' \in [Dsts -> Nat],
         \A d \in T : rt_nexthop'[d] = rt_nexthop[d],
         \A d \in Dsts \ T : rt_nexthop'[d] = Fresh,
         auto' = auto
  PROVE  RibInv' /\ QueueInv' /\ CostInv' /\ NextHopInv' /\ AutoInv'
<1>1. rtp_rt' \subseteq rtp_version' /\ current_inetgw \in Originators \cup {Null}
  BY DEF Walk, IInv, RibInv, TypeOK
<1>2. routingtree' \subseteq T /\ routingtree' \cup Dropped' = T /\ Dropped' = T \ routingtree'
  BY DEF Walk, Dropped
<1>3. RibInv'
  <2>1. TypeOK'
    <3>1. prefix_tree \subseteq Advertised
      BY DEF IInv, RibInv, TypeOK
    <3>2. current_inetgw' \in Originators \cup {Null}
      BY <1>1 DEF Walk
    <3> QED BY <1>1, <1>2, <3>1, <3>2 DEF Walk, TypeOK
  <2>2. InetgwAlive'
    <3>1. CASE DefaultDst \in routingtree'
      BY <3>1, <1>1 DEF Walk, InetgwAlive
    <3>2. CASE DefaultDst \notin routingtree'
      BY <3>2 DEF Walk, InetgwAlive, IInv, RibInv
    <3> QED BY <3>1, <3>2
  <2> QED BY <1>1, <2>1, <2>2 DEF Walk, RibInv, IInv
<1>4. QueueInv'
  <2>1. \A d \in routingtree' : rt_best'[d] # Freed
    <3>1. Freed \notin Originators
      BY RoutesAssumption, SMTT(30) DEF Freed
    <3>2. \A d \in routingtree' : rt_best'[d] \in Originators
      BY DEF Walk
    <3> QED BY <3>1, <3>2
  <2>2. \A d \in Dropped' : d \in T /\ rt_nexthop'[d] = rt_nexthop[d]
    BY <1>2
  <2> QED BY <2>1, <2>2, <1>2 DEF Walk, QueueInv, Queued, Dropped, IsHostRoute
<1>5. CostInv'
  BY WalkCost, <1>1
<1>6. NextHopInv'
  BY <1>2 DEF Walk, NextHopInv, Queued
<1>7. AutoInv'
  BY SetupKept DEF IInv, AutoInv
<1> QED BY <1>3, <1>4, <1>5, <1>6, <1>7

(* The calculation of the routing table.                                   *)
LEMMA ProcessStep ==
  ASSUME IInv, setup' = setup, NEW garbage, olsr_process_changes(garbage)
  PROVE  IInv' /\ GatewayHysteresis
<1> DEFINE reached == {p \in prefix_tree : topo[p[1]] # NoRoute}
           T == routingtree \cup {p[2] : p \in reached}
           linked == rtp_rt \cup reached
<1>1. Queued = {} /\ Dropped = {}
  BY RunningIsIdle DEF olsr_process_changes
<1>2. /\ rtp' = [p \in Advertised |-> IF p \in reached THEN topo[p[1]] ELSE NoRoute]
      /\ rtp_version' = reached
      /\ olsr_update_rib_routes(T, linked, rt_best, garbage)
      /\ changes' = FALSE /\ spf_backoff_timer' = TRUE /\ stopped = FALSE
      /\ UNCHANGED <<topo, prefix_tree, rt_nexthop, rt_hops, fib, auto, stopped>>
  BY DEF olsr_process_changes, olsr_calculate_routing_table, head, kernel, Running, IInv, RibInv, TypeOK
<1>3. /\ reached \subseteq prefix_tree /\ reached \subseteq Advertised
      /\ \A p \in reached : p[1] \in Originators /\ p[2] \in Dsts /\ topo[p[1]] \in Results
  <2>1. reached \subseteq prefix_tree /\ reached \subseteq Advertised
    BY DEF IInv, RibInv, TypeOK
  <2>2. ASSUME NEW p \in reached PROVE p[1] \in Originators /\ p[2] \in Dsts /\ topo[p[1]] \in Results
    <3>1. p[1] \in Originators /\ p[2] \in Dsts
      BY <2>1, PathIsPair
    <3>2. topo \in [Originators -> Results \cup {NoRoute}]
      BY RoutesAssumption DEF IInv, RibInv, TypeOK
    <3> QED BY <3>1, <3>2
  <2> QED BY <2>1, <2>2
<1>4. /\ rtp' \in [Advertised -> Results \cup {NoRoute}]
      /\ \A p \in rtp_version' : rtp'[p] \in Results
  BY <1>2, <1>3
<1>5. T \in SUBSET Dsts /\ linked \in SUBSET Advertised /\ current_inetgw \in Originators \cup {Null}
      /\ routingtree \subseteq T
  BY <1>3, SMTT(30) DEF IInv, RibInv, TypeOK
<1>6. \A p \in linked \cap rtp_version' : p[2] \in T
  BY <1>2
<1> HIDE DEF reached, T, linked
<1>7. Walk(T, linked)
  BY <1>2, <1>4, <1>5, <1>6, Update
<1>8. \A d \in Dsts \ T : rt_nexthop'[d] = Fresh
  BY <1>1, <1>2, <1>5 DEF IInv, QueueInv
<1>9. RibInv' /\ QueueInv' /\ CostInv' /\ NextHopInv' /\ AutoInv'
  <2>1. /\ topo' \in Topologies /\ changes' \in BOOLEAN /\ spf_backoff_timer' \in BOOLEAN /\ stopped' \in BOOLEAN
        /\ rt_nexthop' \in [Dsts -> Nexthops \cup {Fresh}] /\ rt_hops' \in [Dsts -> Nat]
    BY <1>2 DEF IInv, RibInv, TypeOK
  <2> QED BY <2>1, <1>2, <1>3, <1>4, <1>5, <1>7, <1>8, WalkKeeps
<1>10. routingtree' \cup Dropped' = T /\ routingtree' \subseteq Dsts
  BY <1>5, <1>7 DEF Walk, Dropped
<1>11. StaleInv'
  BY <1>1, <1>2, <1>5, <1>10, SetupKept, SMTT(30) DEF IInv, StaleInv, Installed, Metric
<1>12. HasInv'
  <2>1. ASSUME NEW d \in routingtree' \ Queued' PROVE rt_nexthop'[d] # Fresh
    <3>1. rtp'[<<rt_best'[d], d>>].nexthop = rt_nexthop[d] /\ <<rt_best'[d], d>> \in rtp_version'
      BY <1>7 DEF Walk, Queued
    <3> QED BY <3>1, <1>2, <1>4, RoutesAssumption
  <2>2. ASSUME ObedientKernel, RemovableIfs = {}, DeleteFirst => ReliableKernel,
               NEW d \in routingtree' \ LinkLocal, rt_nexthop[d] # Fresh
        PROVE  HasRoute(d)'
    <3>1. d \in routingtree \ LinkLocal
      BY <2>2, <1>1, <1>10 DEF IInv, QueueInv
    <3>2. HasRoute(d)
      BY <2>2, <3>1 DEF IInv, HasInv, RemembersNoLostRoute
    <3> QED BY <3>2, <1>2, SetupKept, SMTT(30) DEF HasRoute, Installed, Metric
  <2>3. RemembersNoLostRoute'
    BY <2>2, <1>2, SetupKept DEF RemembersNoLostRoute
  <2> QED BY <2>1, <2>3 DEF HasInv
<1>13. GatewayHysteresis
  BY <1>4, <1>7, WalkHysteresis
<1> QED BY <1>9, <1>11, <1>12, <1>13 DEF IInv

(* The exit.                                                               *)
LEMMA ExitStep ==
  ASSUME IInv, setup' = setup, NEW garbage, olsr_delete_all_kernel_routes(garbage)
  PROVE  IInv' /\ GatewayHysteresis
<1>1. Queued = {} /\ Dropped = {}
  BY RunningIsIdle DEF olsr_delete_all_kernel_routes
<1>2. /\ olsr_update_rib_routes(routingtree, rtp_rt, rt_best, garbage)
      /\ stopped' = TRUE /\ rtp_version' = {}
      /\ UNCHANGED <<topo, changes, spf_backoff_timer, prefix_tree, rtp, rt_nexthop, rt_hops, fib, auto>>
  BY DEF olsr_delete_all_kernel_routes, head, kernel
<1>3. routingtree \in SUBSET Dsts /\ rtp_rt \in SUBSET Advertised /\ current_inetgw \in Originators \cup {Null}
  BY DEF IInv, RibInv, TypeOK
<1>4. Walk(routingtree, rtp_rt)
  BY <1>2, <1>3, Update
<1>5. routingtree' = {} /\ Dropped' = routingtree
  <2>1. rtp_rt' = {}
    BY <1>2, <1>4 DEF Walk
  <2>2. routingtree' = {}
    BY <2>1, <1>4 DEF Walk
  <2> QED BY <2>2, <1>4 DEF Walk, Dropped
<1>6. \A d \in Dsts \ routingtree : rt_nexthop'[d] = Fresh
  BY <1>1, <1>2 DEF IInv, QueueInv
<1>7. RibInv' /\ QueueInv' /\ CostInv' /\ NextHopInv' /\ AutoInv'
  <2>1. /\ topo' \in Topologies /\ changes' \in BOOLEAN /\ spf_backoff_timer' \in BOOLEAN /\ stopped' \in BOOLEAN
        /\ rt_nexthop' \in [Dsts -> Nexthops \cup {Fresh}] /\ rt_hops' \in [Dsts -> Nat]
        /\ rtp' \in [Advertised -> Results \cup {NoRoute}]
    BY <1>2 DEF IInv, RibInv, TypeOK
  <2> QED BY <2>1, <1>2, <1>3, <1>4, <1>5, <1>6, WalkKeeps
<1>8. StaleInv'
  BY <1>1, <1>2, <1>5, SetupKept, SMTT(30) DEF IInv, StaleInv, Installed, Metric
<1>9. HasInv'
  BY <1>5 DEF HasInv, RemembersNoLostRoute
<1>10. GatewayHysteresis
  BY <1>2, <1>4, WalkHysteresis
<1> QED BY <1>7, <1>8, <1>9, <1>10 DEF IInv

(* The removal of an interface.                                            *)
LEMMA InterfaceStep ==
  ASSUME IInv, setup' = setup, NEW i \in RemovableIfs, NEW t \in setup.topologies, NEW garbage,
         olsr_delete_interface_routes(i, t, garbage)
  PROVE  IInv' /\ GatewayHysteresis
<1> DEFINE lost    == {p \in rtp_rt : rtp[p].nexthop.iif = i}
           linked  == rtp_rt \ lost
           trigger == {d \in routingtree : <<rt_best[d], d>> \in lost}
           flushed == {d \in trigger : \A o \in Originators : <<o, d>> \notin linked}
           best    == [d \in Dsts |-> IF d \in trigger THEN Null ELSE rt_best[d]]
           T == routingtree \ flushed
<1>1. Queued = {} /\ Dropped = {} /\ stopped = FALSE
  BY RunningIsIdle DEF olsr_delete_interface_routes, Running, IInv, RibInv, TypeOK
<1>2. /\ topo' = t
      /\ changes' = (changes \/ Uses(topo, i))
      /\ fib' = IF KernelFlushes THEN {r \in fib : r.nexthop.iif # i} ELSE fib
      /\ rt_nexthop' = [d \in Dsts |-> IF d \in flushed THEN Fresh ELSE rt_nexthop[d]]
      /\ rt_hops' = [d \in Dsts |-> IF d \in flushed THEN 0 ELSE rt_hops[d]]
      /\ UNCHANGED <<prefix_tree, rtp, rtp_version, spf_backoff_timer, auto, stopped>>
  BY DEF olsr_delete_interface_routes, paths
<1>3. /\ rtp_rt \subseteq rtp_version /\ rtp_rt \subseteq Advertised /\ rtp_version \subseteq prefix_tree
      /\ \A p \in rtp_version : rtp[p] \in Results
      /\ rtp \in [Advertised -> Results \cup {NoRoute}] /\ current_inetgw \in Originators \cup {Null}
      /\ routingtree \subseteq Dsts /\ setup \in Setups
      /\ \A p \in rtp_rt : p[2] \in routingtree
  BY DEF IInv, RibInv, TypeOK
<1>4. /\ topo' \in Topologies /\ changes' \in BOOLEAN /\ spf_backoff_timer' \in BOOLEAN /\ stopped' \in BOOLEAN
      /\ rt_nexthop' \in [Dsts -> Nexthops \cup {Fresh}] /\ rt_hops' \in [Dsts -> Nat]
      /\ rtp' \in [Advertised -> Results \cup {NoRoute}]
  BY <1>2, <1>3, RoutesAssumption DEF IInv, RibInv, TypeOK, Uses
<1>5. flushed \subseteq trigger /\ trigger \subseteq routingtree /\ linked \subseteq rtp_rt
  OBVIOUS
<1>6. \A d \in T : rt_nexthop'[d] = rt_nexthop[d] /\ rt_hops'[d] = rt_hops[d]
  BY <1>2, <1>3
<1>7. \A d \in Dsts \ T : rt_nexthop'[d] = Fresh
  BY <1>1, <1>2 DEF IInv, QueueInv
<1>8. ObedientKernel' => \A r \in fib' \ auto' :
         r.dst \notin LinkLocal => r.dst \in T /\ r = Installed(r.dst)' /\ rt_nexthop'[r.dst] # Fresh
  <2> SUFFICES ASSUME ObedientKernel, NEW r \in fib' \ auto, r.dst \notin LinkLocal
               PROVE  r.dst \in T /\ r = Installed(r.dst)' /\ rt_nexthop'[r.dst] # Fresh
    BY <1>2, SetupKept
  <2>1. ReliableKernel /\ KernelFlushes
    BY DEF ReliableKernel, ObedientKernel
  <2>2. r \in fib \ auto /\ r.nexthop.iif # i
    BY <2>1, <1>2
  <2>3. r.dst \in routingtree /\ r = Installed(r.dst) /\ rt_nexthop[r.dst] # Fresh
    BY <2>2, <1>1 DEF IInv, StaleInv
  <2>4. r.nexthop = rt_nexthop[r.dst]
    BY <2>3, SMTT(30) DEF Installed
  <2>5. r.dst \notin trigger
    <3> SUFFICES ASSUME r.dst \in trigger PROVE FALSE
      OBVIOUS
    <3> DEFINE p == <<rt_best[r.dst], r.dst>>
    <3>1. p \in rtp_rt /\ rtp[p].nexthop.iif = i
      OBVIOUS
    <3>2. p[1] \in Originators /\ p[1] # Freed
      BY <3>1, <1>3, PathIsPair, RoutesAssumption, SMTT(30) DEF Freed
    <3>3. rt_best[r.dst] # Freed
      BY <3>2
    <3>4. rtp[p].nexthop = rt_nexthop[r.dst]
      BY <3>3, <2>1, <2>3, <1>1 DEF IInv, NextHopInv
    <3> QED BY <3>1, <3>4, <2>2, <2>4
  <2>6. r.dst \in T
    BY <2>3, <2>5
  <2> QED BY <2>3, <2>6, <1>6, SetupKept, SMTT(30) DEF Installed, Metric
<1>9. HasInv'
  BY SetupKept DEF HasInv, RemembersNoLostRoute
<1>10. CASE trigger # {}
  <2>1. olsr_update_rib_routes(T, linked, best, garbage)
    BY <1>10 DEF olsr_delete_interface_routes
  <2>2. \A p \in linked \cap rtp_version' : p[2] \in T
    <3> SUFFICES ASSUME NEW p \in linked PROVE p[2] \in T
      OBVIOUS
    <3>1. p = <<p[1], p[2]>> /\ p[1] \in Originators /\ p[2] \in routingtree
      BY <1>3, PathIsPair
    <3> QED BY <3>1
  <2>3. T \in SUBSET Dsts /\ linked \in SUBSET Advertised
    BY <1>3
  <2> HIDE DEF T, linked, best, trigger, flushed, lost
  <2>4. Walk(T, linked)
    BY <2>1, <2>2, <2>3, <1>2, <1>3, Update
  <2>5. RibInv' /\ QueueInv' /\ CostInv' /\ NextHopInv' /\ AutoInv'
    BY <2>3, <2>4, <1>1, <1>2, <1>3, <1>4, <1>6, <1>7, WalkKeeps
  <2>6. routingtree' \cup Dropped' = T
    BY <2>4 DEF Walk, Dropped
  <2>7. StaleInv'
    BY <2>6, <1>8, SetupKept DEF StaleInv
  <2>8. GatewayHysteresis
    BY <2>4, <1>2, <1>3, WalkHysteresis
  <2> QED BY <2>5, <2>7, <2>8, <1>9 DEF IInv
<1>11. CASE trigger = {}
  <2>1. /\ rtp_rt' = linked /\ UNCHANGED <<routingtree, rt_best, current_inetgw, del_head, del_tail, chg_head, chg_tail>>
        /\ Queued' = {} /\ Dropped' = {} /\ T = routingtree
    BY <1>11, <1>1 DEF olsr_delete_interface_routes, queues, Queued, Dropped
  <2>2. \A d \in routingtree : rt_best[d] # Freed => rt_best[d] \in Originators /\ <<rt_best[d], d>> \in linked
    BY <1>11 DEF IInv, RibInv
  <2> HIDE DEF T, linked, best, trigger, flushed, lost
  <2>3. RibInv'
    <3>1. TypeOK' /\ InetgwAlive'
      BY <1>2, <1>3, <1>4, <1>5, <2>1 DEF IInv, RibInv, TypeOK, InetgwAlive
    <3> QED BY <3>1, <2>1, <2>2, <1>1, <1>2, <1>3, <1>5 DEF IInv, RibInv
  <2>4. QueueInv'
    BY <2>1, <1>7 DEF QueueInv, Queued, Dropped
  <2>5. CostInv'
    BY <2>1, <1>2, <1>5 DEF IInv, CostInv, Linked
  <2>6. NextHopInv'
    BY <2>1, <1>1, <1>2, <1>6, SetupKept DEF IInv, NextHopInv
  <2>7. StaleInv'
    BY <2>1, <1>8, SetupKept DEF StaleInv
  <2>8. AutoInv'
    BY <1>2, SetupKept DEF IInv, AutoInv
  <2>9. GatewayHysteresis
    BY <2>1 DEF GatewayHysteresis
  <2> QED BY <2>3, <2>4, <2>5, <2>6, <2>7, <2>8, <2>9, <1>9 DEF IInv
<1> QED BY <1>10, <1>11

-----------------------------------------------------------------------------
(* The export.                                                             *)

(* The deletion of a route.                                                *)
LEMMA DelStep ==
  ASSUME IInv, setup' = setup, NEW d \in Dropped, NEW answer \in KernelDeletes, olsr_del_kernel_routes(d, answer)
  PROVE  IInv'
<1>1. /\ fib' = IF rt_nexthop[d] = Fresh THEN fib ELSE olsr_delete_kernel_route(fib, d, answer)
      /\ rt_best' = [rt_best EXCEPT ![d] = Null]
      /\ rt_nexthop' = [rt_nexthop EXCEPT ![d] = Fresh]
      /\ rt_hops' = [rt_hops EXCEPT ![d] = 0]
      /\ UNCHANGED <<topo, changes, spf_backoff_timer, prefix_tree, rtp, rtp_version, rtp_rt, routingtree,
                     current_inetgw, chg_head, chg_tail, auto, stopped, Queued>>
      /\ del_head' = del_head \ {d} /\ del_tail' = del_tail \ {d}
      /\ Dropped' = Dropped \ {d}
  BY DEF olsr_del_kernel_routes, paths, Queued, Dropped
<1>2. d \in Dsts \ routingtree
  BY DEF IInv, QueueInv
<1>3. /\ rt_nexthop'[d] = Fresh
      /\ \A c \in Dsts \ {d} : rt_nexthop'[c] = rt_nexthop[c] /\ rt_hops'[c] = rt_hops[c] /\ rt_best'[c] = rt_best[c]
  BY <1>1, <1>2 DEF IInv, RibInv, TypeOK
<1>4. routingtree \subseteq Dsts \ {d} /\ Dropped \subseteq Dsts
  BY <1>2 DEF IInv, RibInv, TypeOK, QueueInv
<1>5. RibInv'
  <2>1. TypeOK' /\ InetgwAlive'
    BY <1>1, <1>2 DEF IInv, RibInv, TypeOK, InetgwAlive
  <2>2. \A c \in routingtree : rt_best'[c] = rt_best[c]
    BY <1>3, <1>4
  <2> QED BY <1>1, <2>1, <2>2, SMTT(30) DEF IInv, RibInv
<1>6. QueueInv'
  <2>1. Queued \subseteq Dsts \ {d} /\ chg_head \subseteq Queued /\ chg_tail \subseteq Queued
    BY <1>4 DEF IInv, QueueInv, Queued
  <2>2. Dropped' \subseteq Dsts \ {d} /\ del_head' \subseteq Dropped' /\ del_tail' \subseteq Dropped'
    BY <1>1, <1>4 DEF Dropped
  <2>3. /\ \A c \in Queued : rt_best'[c] = rt_best[c]
        /\ \A c \in Dropped' : rt_best'[c] = rt_best[c] /\ rt_nexthop'[c] = rt_nexthop[c]
    BY <2>1, <2>2, <1>3
  <2>4. /\ \A c \in del_head' : rt_best'[c] # Freed => IsHostRoute(c)'
        /\ \A c \in del_tail' : rt_best'[c] # Freed => ~IsHostRoute(c)'
    BY <2>2, <2>3, <1>1 DEF IInv, QueueInv, IsHostRoute
  <2>5. \A c \in Dsts \ (routingtree' \cup Dropped') : rt_nexthop'[c] = Fresh
    BY <1>1, <1>3 DEF IInv, QueueInv
  <2>6. \A c \in Queued : rt_best'[c] # Freed
    BY <2>3 DEF IInv, QueueInv
  <2>7. /\ \A c \in chg_head : rtp[<<rt_best'[c], c>>].nexthop.gateway = c
        /\ \A c \in chg_tail : rtp[<<rt_best'[c], c>>].nexthop.gateway # c
    BY <2>1, <2>3 DEF IInv, QueueInv
  <2>8. Queued \subseteq routingtree /\ Dropped' \subseteq Dsts \ routingtree
    BY <1>1 DEF IInv, QueueInv
  <2> QED BY <2>4, <2>5, <2>6, <2>7, <2>8, <1>1 DEF QueueInv
<1>7. CostInv'
  BY <1>1, <1>3, <1>4 DEF IInv, CostInv, Linked
<1>8. NextHopInv'
  BY <1>1, <1>3, <1>4, SetupKept DEF IInv, NextHopInv
<1>9. StaleInv'
  <2> SUFFICES ASSUME ObedientKernel, NEW r \in fib' \ auto, r.dst \notin LinkLocal
               PROVE  /\ r.dst \in routingtree \cup (Dropped \ {d})
                      /\ r = Installed(r.dst)' /\ rt_nexthop'[r.dst] # Fresh
    BY <1>1, SetupKept DEF StaleInv
  <2>1. r \in fib \ auto
    BY <1>1 DEF olsr_delete_kernel_route
  <2>2. r.dst \in routingtree \cup Dropped /\ r = Installed(r.dst) /\ rt_nexthop[r.dst] # Fresh
    BY <2>1 DEF IInv, StaleInv
  <2>3. r.dst # d
    BY <2>2, <1>1 DEF olsr_delete_kernel_route, ObedientKernel
  <2> QED BY <2>2, <2>3, <1>3, <1>4, SetupKept, SMTT(30) DEF Installed, Metric
<1>10. HasInv'
  <2> SUFFICES ASSUME ObedientKernel, RemovableIfs = {}, DeleteFirst => ReliableKernel,
                      NEW c \in routingtree \ LinkLocal, rt_nexthop[c] # Fresh
               PROVE  HasRoute(c)'
    BY <1>1, <1>3, <1>4, SetupKept DEF HasInv, RemembersNoLostRoute, IInv
  <2>1. HasRoute(c)
    BY DEF IInv, HasInv, RemembersNoLostRoute
  <2>2. c \in Dsts \ {d}
    BY <1>4
  <2>3. \A r \in fib : r.dst = c => r \in fib'
    BY <2>2, <1>1, SMTT(30) DEF olsr_delete_kernel_route, Installed
  <2>4. Installed(c)' = Installed(c) /\ Installed(c).dst = c
    BY <2>2, <1>3, SetupKept, SMTT(30) DEF Installed, Metric
  <2>5. rt_nexthop'[c] = rt_nexthop[c]
    BY <2>2, <1>3
  <2> QED BY <2>1, <2>3, <2>4, <2>5, <1>1, SetupKept DEF HasRoute
<1>11. AutoInv'
  BY <1>1, SetupKept DEF IInv, AutoInv
<1> QED BY <1>5, <1>6, <1>7, <1>8, <1>9, <1>10, <1>11 DEF IInv

(* What the request for an entry does to the kernel's routes: new is the   *)
(* route of the elected path, Left what an IPv6 kernel has left of the old *)
(* one, Err what the last request came to.                                 *)
NewRoute(d) == [dst |-> d, nexthop |-> rtp[<<rt_best[d], d>>].nexthop, metric |-> Metric(rtp[<<rt_best[d], d>>].hops)]
Left(d, deleted) == IF DeleteFirst /\ rt_nexthop[d] # Fresh THEN olsr_delete_kernel_route(fib, d, deleted) ELSE fib
Skipped(d) == rtp[<<rt_best[d], d>>].hops > 1 /\ d \in LinkLocal
Err(d, deleted, host, answer) ==
  IF Autogenerates(Left(d, deleted), NewRoute(d)) /\ host # "ok" THEN host ELSE answer

(* Which routes are in the kernel after a request for new, that leads over *)
(* the gateway g; gr is the route that may be generated for g.             *)
After(d, new, g, gr, F, err) ==
  /\ F \subseteq fib /\ \A r \in fib : r.dst # d => r \in F
  /\ \A r \in fib' : r \in F \/ (r = new /\ ~Skipped(d) /\ Executed(err)) \/ (r = gr /\ r \in auto')
  /\ auto \subseteq auto' /\ \A r \in auto' \ auto : r.dst = g /\ r.dst \notin OnLink
  /\ \A r \in F : r \notin fib' => (r.dst = d /\ new \in fib' /\ Executed(err)) \/ (r.dst = g /\ gr \in fib' \cap auto')
  /\ ~Skipped(d) /\ err = "ok" => new \in fib' \/ (~FlatMetric /\ g \notin OnLink \cup {d})
  /\ ~Skipped(d) /\ err = "ok" /\ ~DeleteFirst /\ FlatMetric => \A r \in fib' : r.dst = d /\ r.metric = 2 => r = new
  /\ err = "ok" /\ (\E r \in fib' : r \notin F) =>
        new \in fib' /\ (g \in OnLink \cup {d} \/ gr \in fib' \/ \E q \in fib' : q.dst = g /\ q.nexthop = new.nexthop)

LEMMA Requested ==
  ASSUME NEW d, NEW deleted, NEW host, NEW answer, olsr_chg_kernel_routes(d, deleted, host, answer)
  PROVE  After(d, NewRoute(d), NewRoute(d).nexthop.gateway, GatewayRoute(NewRoute(d)),
               Left(d, deleted), Err(d, deleted, host, answer))
<1> DEFINE new == NewRoute(d)
           g == new.nexthop.gateway
           gr == GatewayRoute(new)
           F == Left(d, deleted)
           err == Err(d, deleted, host, answer)
           generate == Autogenerates(F, new)
           generated == ~Skipped(d) /\ generate /\ Executed(host)
           G == IF generated THEN KernelAdd(F, gr) ELSE F
           add == ~Skipped(d) /\ (generate => host = "ok") /\ Executed(answer) /\ GatewayReachable(G, new)
<1>1. /\ fib' = IF add THEN KernelAdd(G, new) ELSE G
      /\ auto' = IF generated THEN auto \cup {gr} ELSE auto
      /\ err = IF generate /\ host # "ok" THEN host ELSE answer
  BY DEF olsr_chg_kernel_routes, NewRoute, Left, Skipped, Err
<1>2. F \subseteq fib /\ \A r \in fib : r.dst # d => r \in F
  BY SMTT(30) DEF Left, olsr_delete_kernel_route, Installed
<1>3. new.dst = d /\ gr.dst = g /\ gr.nexthop = new.nexthop /\ gr.metric = new.metric
      /\ (FlatMetric => new.metric = 2)
  BY DEF NewRoute, GatewayRoute, Metric
<1>4. ASSUME NEW E, NEW r
      PROVE  /\ r \in KernelAdd(E, r)
             /\ KernelAdd(E, r) \subseteq E \cup {r}
             /\ \A q \in E : q \notin KernelAdd(E, r) => q.dst = r.dst
             /\ ~DeleteFirst => \A q \in KernelAdd(E, r) : q.dst = r.dst /\ q.metric = r.metric => q = r
  BY DEF KernelAdd
<1>5. generate <=> FlatMetric /\ ~GatewayReachable(F, new)
  BY DEF Autogenerates
<1>6. ASSUME NEW E
      PROVE  GatewayReachable(E, new) <=> \/ g = d \/ g \in OnLink
                                          \/ \E q \in E : q.dst = g /\ q.nexthop = new.nexthop
  BY <1>3 DEF GatewayReachable
<1> HIDE DEF new, g, gr, F, err, generate
<1>7. /\ ~generated => G = F /\ auto' = auto
      /\ generated => /\ gr \in G /\ G \subseteq F \cup {gr} /\ \A q \in F : q \notin G => q.dst = g
                      /\ auto' = auto \cup {gr} /\ g # d /\ g \notin OnLink /\ GatewayReachable(G, new)
  <2>1. ASSUME generated PROVE g # d /\ g \notin OnLink
    BY <2>1, <1>5, <1>6
  <2>2. generated => G = KernelAdd(F, gr) /\ auto' = auto \cup {gr}
    BY <1>1
  <2>3. ~generated => G = F /\ auto' = auto
    BY <1>1
  <2> HIDE DEF G, generated
  <2>4. generated => gr \in G /\ G \subseteq F \cup {gr} /\ \A q \in F : q \notin G => q.dst = g
    <3>1. /\ gr \in KernelAdd(F, gr) /\ KernelAdd(F, gr) \subseteq F \cup {gr}
          /\ \A q \in F : q \notin KernelAdd(F, gr) => q.dst = gr.dst
      BY <1>4
    <3> QED BY <3>1, <2>2, <1>3
  <2>5. generated => GatewayReachable(G, new)
    BY <2>4, <1>3, <1>6
  <2> QED BY <2>1, <2>2, <2>3, <2>4, <2>5
<1>8. Executed("ok") /\ (add => Executed(err)) /\ (err = "ok" => answer = "ok" /\ (generate => host = "ok"))
  BY <1>1 DEF Executed
<1>9. err = "ok" /\ ~Skipped(d) /\ ~add => ~FlatMetric /\ G = F /\ ~generated /\ g \notin OnLink \cup {d}
  BY <1>5, <1>6, <1>7, <1>8
<1> HIDE DEF new, g, gr, F, err, generate, generated, G, add
<1>10. fib' \subseteq G \cup {new} /\ (new \in fib' \/ fib' = G) /\ \A r \in G : r \notin fib' => r.dst = d /\ add
  BY <1>1, <1>3, <1>4
<1>11. add => /\ new \in fib' /\ ~Skipped(d) /\ Executed(err) /\ GatewayReachable(G, new)
              /\ ~DeleteFirst => \A r \in fib' : r.dst = d /\ r.metric = new.metric => r = new
  BY <1>1, <1>3, <1>4, <1>8 DEF add
<1>12. ~add => fib' = G
  BY <1>1
<1>13. \A r \in fib' : r \in F \/ (r = new /\ ~Skipped(d) /\ Executed(err)) \/ (r = gr /\ r \in auto')
  <2>1. \A r \in G : r \in F \/ (r = gr /\ r \in auto')
    BY <1>7
  <2> QED BY <2>1, <1>10, <1>11, <1>12
<1>14. auto \subseteq auto' /\ \A r \in auto' \ auto : r.dst = g /\ r.dst \notin OnLink
  BY <1>3, <1>7
<1>15. generated => gr \in fib' \cap auto'
  BY <1>3, <1>7, <1>10
<1>16. \A r \in F : r \notin fib' => (r.dst = d /\ new \in fib' /\ Executed(err)) \/ (r.dst = g /\ gr \in fib' \cap auto')
  BY <1>7, <1>10, <1>11, <1>15
<1>17. ~Skipped(d) /\ err = "ok" => new \in fib' \/ (~FlatMetric /\ g \notin OnLink \cup {d})
  BY <1>9, <1>11
<1>18. ~Skipped(d) /\ err = "ok" /\ ~DeleteFirst /\ FlatMetric => \A r \in fib' : r.dst = d /\ r.metric = 2 => r = new
  BY <1>3, <1>9, <1>11
<1>19. err = "ok" /\ (\E r \in fib' : r \notin F) =>
         new \in fib' /\ (g \in OnLink \cup {d} \/ gr \in fib' \/ \E q \in fib' : q.dst = g /\ q.nexthop = new.nexthop)
  <2>1. CASE add
    <3>1. g \in OnLink \cup {d} \/ \E q \in G : q.dst = g /\ q.nexthop = new.nexthop
      BY <2>1, <1>6, <1>11
    <3> QED BY <2>1, <3>1, <1>10, <1>11
  <2>2. CASE ~add
    BY <2>2, <1>7, <1>9, <1>12 DEF generated
  <2> QED BY <2>1, <2>2
<1>20. After(d, new, g, gr, F, err)
  BY <1>2, <1>13, <1>14, <1>16, <1>17, <1>18, <1>19 DEF After
<1> QED BY <1>20 DEF new, g, gr, F, err

(* The addition or replacement of a route.                                 *)
LEMMA ChgStep ==
  ASSUME IInv, setup' = setup, NEW d \in Queued, NEW deleted \in KernelDeletes, NEW host \in KernelAnswers,
         NEW answer \in KernelAnswers, olsr_chg_kernel_routes(d, deleted, host, answer)
  PROVE  IInv'
<1> DEFINE best == rtp[<<rt_best[d], d>>]
           new == NewRoute(d)
           g == new.nexthop.gateway
           F == Left(d, deleted)
           err == Err(d, deleted, host, answer)
           lost == Skipped(d) \/ Failed(err)
<1>1. /\ rt_nexthop' = [rt_nexthop EXCEPT ![d] = IF lost THEN @ ELSE best.nexthop]
      /\ rt_hops' = [rt_hops EXCEPT ![d] = IF lost THEN @ ELSE best.hops]
      /\ UNCHANGED <<topo, changes, spf_backoff_timer, prefix_tree, rtp, rtp_version, rtp_rt, routingtree, rt_best,
                     current_inetgw, del_head, del_tail, Dropped, stopped>>
      /\ chg_head' = chg_head \ {d} /\ chg_tail' = chg_tail \ {d}
      /\ Queued' = Queued \ {d}
  BY DEF olsr_chg_kernel_routes, paths, tree, Queued, Dropped, Skipped, Err, Left, NewRoute
<1>2. /\ d \in routingtree /\ d \in Dsts /\ rt_best[d] # Freed
      /\ best \in Results /\ best.nexthop \in Nexthops /\ best.nexthop # Fresh /\ best.hops \in Nat
  <2>1. d \in routingtree /\ d \in Dsts /\ rt_best[d] # Freed
    BY DEF IInv, RibInv, TypeOK, QueueInv
  <2>2. best \in Results
    BY <2>1 DEF IInv, RibInv
  <2> QED BY <2>1, <2>2, RoutesAssumption DEF Nexthops
<1>3. /\ ObedientKernel => (err = "lost" \/ err = "ok") /\ deleted = "ok"
      /\ ReliableKernel => err = "ok"
  BY DEF ObedientKernel, ReliableKernel, Err
<1>4. /\ lost => rt_nexthop'[d] = rt_nexthop[d] /\ rt_hops'[d] = rt_hops[d]
      /\ ~lost => rt_nexthop'[d] = best.nexthop /\ rt_hops'[d] = best.hops
      /\ \A c \in Dsts \ {d} : rt_nexthop'[c] = rt_nexthop[c] /\ rt_hops'[c] = rt_hops[c]
  BY <1>1, <1>2 DEF IInv, RibInv, TypeOK
<1>5. ~lost => Installed(d)' = new /\ new.nexthop = rt_nexthop'[d]
  BY <1>4, SetupKept, SMTT(30) DEF Installed, NewRoute, Metric
<1>6. lost => Installed(d)' = Installed(d)
  BY <1>4, SetupKept, SMTT(30) DEF Installed, Metric
<1>7. \A c \in Dsts \ {d} : Installed(c)' = Installed(c)
  BY <1>4, SetupKept, SMTT(30) DEF Installed, Metric
<1>8. routingtree \subseteq Dsts /\ Dropped \subseteq Dsts \ routingtree
  BY DEF IInv, RibInv, TypeOK, QueueInv
<1>9. new.dst = d /\ GatewayRoute(new).dst = g /\ GatewayRoute(new).nexthop = new.nexthop
  BY DEF NewRoute, GatewayRoute
<1>10. RibInv'
  <2>1. rt_nexthop' \in [Dsts -> Nexthops \cup {Fresh}] /\ rt_hops' \in [Dsts -> Nat]
    BY <1>1, <1>2 DEF IInv, RibInv, TypeOK
  <2>2. TypeOK' /\ InetgwAlive'
    BY <1>1, <2>1 DEF IInv, RibInv, TypeOK, InetgwAlive
  <2> QED BY <1>1, <2>2 DEF IInv, RibInv
<1>11. Failed("lost") /\ ~Failed("ok") /\ ~Executed("lost") /\ Executed("ok")
  BY DEF Failed, Executed
<1>12. /\ F \subseteq fib /\ \A r \in fib : r.dst # d => r \in F
       /\ \A r \in fib' : r \in F \/ (r = new /\ ~Skipped(d) /\ Executed(err)) \/ (r = GatewayRoute(new) /\ r \in auto')
       /\ auto \subseteq auto' /\ \A r \in auto' \ auto : r.dst = g /\ r.dst \notin OnLink
       /\ \A r \in F : r \notin fib' => (r.dst = d /\ new \in fib' /\ Executed(err))
                                      \/ (r.dst = g /\ GatewayRoute(new) \in fib' \cap auto')
       /\ ~Skipped(d) /\ err = "ok" => new \in fib' \/ (~FlatMetric /\ g \notin OnLink \cup {d})
       /\ ~Skipped(d) /\ err = "ok" /\ ~DeleteFirst /\ FlatMetric => \A r \in fib' : r.dst = d /\ r.metric = 2 => r = new
  <2>1. After(d, new, g, GatewayRoute(new), F, err)
    BY Requested
  <2> HIDE DEF new, g, F, err
  <2> QED BY <2>1 DEF After
<1> HIDE DEF best, new, g, F, err, lost
<1>13. QueueInv'
  <2>1. Dropped \subseteq Dsts \ {d}
    BY <1>2, <1>8
  <2>2. /\ \A c \in del_head : rt_best[c] # Freed => rt_nexthop'[c].gateway = c
        /\ \A c \in del_tail : rt_best[c] # Freed => rt_nexthop'[c].gateway # c
    BY <2>1, <1>4 DEF IInv, QueueInv, Dropped, IsHostRoute
  <2>3. \A c \in Dsts \ (routingtree \cup Dropped) : rt_nexthop'[c] = Fresh
    BY <1>2, <1>4 DEF IInv, QueueInv
  <2> QED BY <2>2, <2>3, <1>1 DEF IInv, QueueInv, IsHostRoute
<1>14. CostInv'
  BY <1>1 DEF IInv, CostInv, Linked
<1>15. NextHopInv'
  <2> SUFFICES ASSUME ReliableKernel, NEW c \in routingtree \ (LinkLocal \cup (Queued \ {d})), rt_best[c] # Freed
               PROVE  rtp[<<rt_best[c], c>>].nexthop = rt_nexthop'[c]
    BY <1>1, SetupKept DEF NextHopInv
  <2>1. CASE c = d
    <3>1. ~lost
      BY <2>1, <1>3, <1>11 DEF lost, Skipped
    <3> QED BY <3>1, <2>1, <1>4 DEF best
  <2>2. CASE c # d
    BY <2>2, <1>4, <1>8 DEF IInv, NextHopInv
  <2> QED BY <2>1, <2>2
<1>16. StaleInv'
  <2> SUFFICES ASSUME ObedientKernel, NEW r \in fib' \ auto', r.dst \notin LinkLocal
               PROVE  /\ r.dst \in routingtree \cup Dropped
                      /\ r = Installed(r.dst)' /\ rt_nexthop'[r.dst] # Fresh
    BY <1>1, SetupKept DEF StaleInv
  <2>1. FlatMetric \/ DeleteFirst
    BY DEF ObedientKernel
  <2>2. CASE r \in F
    <3>1. r \in fib \ auto
      BY <2>2, <1>12
    <3>2. r.dst \in routingtree \cup Dropped /\ r = Installed(r.dst) /\ rt_nexthop[r.dst] # Fresh
      BY <3>1 DEF IInv, StaleInv
    <3>3. CASE r.dst # d
      BY <3>2, <3>3, <1>4, <1>7, <1>8
    <3>4. CASE r.dst = d /\ err = "lost"
      BY <3>2, <3>4, <1>4, <1>6, <1>11 DEF lost
    <3>5. CASE r.dst = d /\ err = "ok"
      <4>1. ~Skipped(d) /\ ~lost
        BY <3>5, <1>11 DEF Skipped, lost
      <4>2. ~DeleteFirst /\ FlatMetric
        BY <2>1, <2>2, <3>2, <3>5, <1>3 DEF F, Left, olsr_delete_kernel_route
      <4>3. r.metric = 2
        BY <4>2, <3>2, SMTT(30) DEF Installed, Metric
      <4>4. r = new
        BY <4>1, <4>2, <4>3, <3>5, <1>12
      <4> QED BY <4>1, <4>4, <3>2, <3>5, <1>2, <1>4, <1>5
    <3> QED BY <3>3, <3>4, <3>5, <1>3
  <2>3. CASE r \notin F
    <3>1. r = new /\ ~Skipped(d) /\ err = "ok"
      BY <2>3, <1>3, <1>11, <1>12
    <3>2. r.dst = d /\ ~lost
      BY <3>1, <1>9, <1>11 DEF lost
    <3> QED BY <3>1, <3>2, <1>2, <1>4, <1>5
  <2> QED BY <2>2, <2>3
<1>17. HasInv'
  <2>1. ASSUME ReliableKernel, NEW c \in routingtree \ (LinkLocal \cup (Queued \ {d})), RemovableIfs = {}
        PROVE  rt_nexthop'[c] # Fresh
    <3>1. CASE c = d
      BY <2>1, <3>1, <1>2, <1>3, <1>4, <1>11 DEF lost, Skipped
    <3>2. CASE c # d
      BY <2>1, <3>2, <1>4, <1>8 DEF IInv, HasInv
    <3> QED BY <3>1, <3>2
  <2>2. ASSUME ObedientKernel, RemovableIfs = {}, DeleteFirst => ReliableKernel,
               NEW c \in routingtree \ LinkLocal, rt_nexthop'[c] # Fresh
        PROVE  HasRoute(c)'
    <3>1. ~Skipped(d) \/ c # d
      BY DEF Skipped
    <3>2. CASE c = d /\ err = "ok"
      <4>1. ~lost
        BY <3>1, <3>2, <1>11 DEF lost
      <4>2. new \in fib' \/ (~FlatMetric /\ g \notin OnLink \cup {d})
        BY <3>1, <3>2, <1>12
      <4>3. Installed(d)' = new /\ rt_nexthop'[d].gateway = g
        BY <4>1, <1>5 DEF g
      <4> QED BY <4>2, <4>3, <3>2, SetupKept DEF HasRoute
    <3>3. CASE c # d \/ err = "lost"
      <4>1. Installed(c)' = Installed(c) /\ Installed(c).dst = c /\ rt_nexthop'[c] = rt_nexthop[c] /\ c \in Dsts
        BY <3>1, <3>3, <1>4, <1>6, <1>7, <1>8, <1>11 DEF Installed, lost
      <4>2. HasRoute(c)
        BY <4>1, <2>2 DEF IInv, HasInv, RemembersNoLostRoute
      <4>3. ASSUME NEW r \in fib, r.dst = c
            PROVE  r \in fib' \/ \E q \in fib' \cap auto' : q.dst = c
        <5>1. r \in F
          <6>1. CASE c # d
            BY <4>3, <6>1, <1>12
          <6>2. CASE err = "lost"
            BY <4>3, <6>2, <2>2, <1>3 DEF F, Left
          <6> QED BY <3>3, <6>1, <6>2
        <5>2. ~(r.dst = d /\ Executed(err))
          BY <3>3, <4>3, <1>11
        <5> QED BY <5>1, <5>2, <4>3, <1>9, <1>12
      <4>4. CASE Installed(c) \in fib
        BY <4>1, <4>3, <4>4 DEF HasRoute
      <4>5. CASE \E r \in fib \cap auto : r.dst = c
        BY <4>3, <4>5, <1>12 DEF HasRoute
      <4>6. CASE ~FlatMetric /\ rt_nexthop[c].gateway \notin OnLink \cup {c}
        BY <4>1, <4>6, SetupKept DEF HasRoute
      <4> QED BY <4>2, <4>4, <4>5, <4>6 DEF HasRoute
    <3> QED BY <3>2, <3>3, <2>2, <1>3
  <2>3. RemembersNoLostRoute'
    BY <2>2, <1>1, SetupKept DEF RemembersNoLostRoute
  <2> QED BY <2>1, <2>3, <1>1, SetupKept DEF HasInv
<1>18. AutoInv'
  BY <1>12, SetupKept DEF IInv, AutoInv
<1> QED BY <1>10, <1>13, <1>14, <1>15, <1>16, <1>17, <1>18 DEF IInv

-----------------------------------------------------------------------------
LEMMA InitInv ==
  ASSUME Init
  PROVE  IInv
<1>1. Queued = {} /\ Dropped = {}
  BY DEF Init, Queued, Dropped
<1>2. RibInv
  <2>1. TypeOK
    <3>1. topo \in Topologies
      BY RoutesAssumption DEF Init
    <3> QED BY <3>1 DEF Init, TypeOK
  <2> QED BY <2>1 DEF Init, RibInv, InetgwAlive
<1>3. QueueInv /\ CostInv /\ NextHopInv /\ StaleInv /\ HasInv /\ AutoInv
  BY <1>1 DEF Init, QueueInv, CostInv, NextHopInv, StaleInv, HasInv, RemembersNoLostRoute, AutoInv
<1> QED BY <1>2, <1>3 DEF IInv

LEMMA NextInv ==
  ASSUME IInv, [Next]_vars
  PROVE  IInv'
<1>1. CASE UNCHANGED vars
  <2>1. topo' \in Topologies /\ changes' \in BOOLEAN /\ spf_backoff_timer' \in BOOLEAN
        /\ prefix_tree' = prefix_tree /\ prefix_tree \subseteq Advertised /\ setup' = setup
        /\ UNCHANGED <<rtp, rtp_version, tree, head, queues, kernel, stopped>>
    BY <1>1 DEF vars, paths, IInv, RibInv, TypeOK
  <2> QED BY <2>1, QuietStep
<1>2. CASE Next
  <2>1. setup' = setup /\ Step
    BY <1>2 DEF Next
  <2>2. /\ topo \in Topologies /\ changes \in BOOLEAN /\ spf_backoff_timer \in BOOLEAN
        /\ prefix_tree \subseteq Advertised /\ setup.topologies \subseteq Topologies
    BY RoutesAssumption DEF IInv, RibInv, TypeOK
  <2>3. ASSUME NEW t \in setup.topologies, TopologyChange(t) PROVE IInv'
    <3>1. topo' = t /\ changes' = TRUE /\ spf_backoff_timer' = spf_backoff_timer /\ prefix_tree' = prefix_tree
          /\ UNCHANGED <<rtp, rtp_version, tree, head, queues, kernel, stopped>>
      BY <2>3 DEF TopologyChange, paths
    <3> QED BY <3>1, <2>1, <2>2, QuietStep
  <2>4. ASSUME NEW p \in Advertised, olsr_insert_routing_table(p[1], p[2]) PROVE IInv'
    <3>1. topo' = topo /\ changes' = TRUE /\ spf_backoff_timer' = spf_backoff_timer
          /\ prefix_tree' = prefix_tree \cup {<<p[1], p[2]>>} /\ <<p[1], p[2]>> \in Advertised
          /\ UNCHANGED <<rtp, rtp_version, tree, head, queues, kernel, stopped>>
      BY <2>4 DEF olsr_insert_routing_table
    <3> QED BY <3>1, <2>1, <2>2, QuietStep
  <2>5. ASSUME NEW p \in Advertised, olsr_delete_routing_table(p[1], p[2]) PROVE IInv'
    <3>1. <<p[1], p[2]>> \in Advertised
      BY PathIsPair
    <3> QED BY <3>1, <2>1, <2>5, DeleteStep
  <2>6. ASSUME NEW garbage, olsr_process_changes(garbage) PROVE IInv'
    BY <2>1, <2>6, ProcessStep
  <2>7. ASSUME NEW garbage, olsr_delete_all_kernel_routes(garbage) PROVE IInv'
    BY <2>1, <2>7, ExitStep
  <2>8. ASSUME NEW garbage, NEW i \in RemovableIfs, NEW t \in setup.topologies,
               olsr_delete_interface_routes(i, t, garbage)
        PROVE  IInv'
    BY <2>1, <2>8, InterfaceStep
  <2>9. CASE olsr_process_changes_backoff \/ olsr_expire_spf_backoff
    <3>1. topo' = topo /\ changes' \in BOOLEAN /\ spf_backoff_timer' \in BOOLEAN /\ prefix_tree' = prefix_tree
          /\ UNCHANGED <<rtp, rtp_version, tree, head, queues, kernel, stopped>>
      BY <2>2, <2>9 DEF olsr_process_changes_backoff, olsr_expire_spf_backoff, paths
    <3> QED BY <3>1, <2>1, <2>2, QuietStep
  <2>10. ASSUME NEW d \in Dropped, NEW answer \in KernelDeletes, olsr_del_kernel_routes(d, answer) PROVE IInv'
    BY <2>1, <2>10, DelStep
  <2>11. ASSUME NEW d \in Queued, NEW deleted \in KernelDeletes, NEW host \in KernelAnswers,
                NEW answer \in KernelAnswers, olsr_chg_kernel_routes(d, deleted, host, answer)
         PROVE  IInv'
    BY <2>1, <2>11, ChgStep
  <2> QED BY <2>1, <2>3, <2>4, <2>5, <2>6, <2>7, <2>8, <2>9, <2>10, <2>11 DEF Step, Queued, Dropped
<1> QED BY <1>1, <1>2

(* The inductive invariant of the RIB, the queues and the kernel.          *)
THEOREM Invariance == Spec => []IInv
<1>1. Init => IInv
  BY InitInv
<1>2. IInv /\ [Next]_vars => IInv'
  BY NextInv
<1> QED BY <1>1, <1>2, PTL DEF Spec

(* Between two runs of the export the kernel has the routes of the RIB     *)
(* over the best paths, and none is left behind                            *)
(* (olsr_update_rib_routes, olsr_update_kernel_routes).                    *)
THEOREM KernelIsRib == Spec => []KernelHasBest
<1>1. IInv => KernelHasBest
  <2> SUFFICES ASSUME IInv PROVE FibHasRoutes /\ RemembersNoLostRoute /\ BestInstalled /\ FibHasNoStaleRoute
    BY DEF KernelHasBest
  <2>1. Idle => Queued = {} /\ Dropped = {}
    BY DEF Idle, Queued, Dropped
  <2>2. FibHasRoutes /\ RemembersNoLostRoute
    BY <2>1 DEF IInv, HasInv, FibHasRoutes, RemembersNoLostRoute, ReliableKernel
  <2>3. BestInstalled
    BY <2>1 DEF IInv, RibInv, CostInv, NextHopInv, BestInstalled, Linked
  <2>4. FibHasNoStaleRoute
    BY <2>1 DEF IInv, StaleInv, FibHasNoStaleRoute
  <2> QED BY <2>2, <2>3, <2>4
<1> QED BY <1>1, Invariance, PTL

(* The daemon exits with no route left (olsr_delete_all_kernel_routes),    *)
(* and its tables are well formed until then.                              *)
THEOREM ExitIsClean == Spec => []CleanExit
<1>1. IInv => CleanExit
  BY DEF IInv, RibInv, StaleInv, CleanExit, Idle, Dropped
<1> QED BY <1>1, Invariance, PTL

-----------------------------------------------------------------------------
(* How routes move.                                                        *)

(* A destination in the RIB keeps its route during the export.             *)
LEMMA StepNoGap ==
  ASSUME IInv, Next
  PROVE  NoGap
<1> SUFFICES ASSUME ~DeleteFirst, ~Idle, NEW d \in routingtree', NEW r \in fib, r.dst = d
             PROVE  \E q \in fib' : q.dst = d
  BY DEF NoGap
<1>1. ~Running
  BY DEF Running
<1>2. ASSUME NEW c \in Dropped, NEW answer, olsr_del_kernel_routes(c, answer) PROVE \E q \in fib' : q.dst = d
  <2>1. c # d
    BY <1>2 DEF IInv, QueueInv, olsr_del_kernel_routes
  <2>2. r \in fib'
    BY <2>1, <1>2, SMTT(30) DEF olsr_del_kernel_routes, olsr_delete_kernel_route, Installed
  <2> QED BY <2>2
<1>3. ASSUME NEW c \in Queued, NEW deleted, NEW host, NEW answer, olsr_chg_kernel_routes(c, deleted, host, answer)
      PROVE  \E q \in fib' : q.dst = d
  <2>1. r \in Left(c, deleted)
    BY DEF Left
  <2>2. CASE r \in fib'
    BY <2>2
  <2>3. CASE r \notin fib'
    <3>1. \/ r.dst = c /\ NewRoute(c) \in fib'
          \/ r.dst = NewRoute(c).nexthop.gateway /\ GatewayRoute(NewRoute(c)) \in fib'
      <4>1. After(c, NewRoute(c), NewRoute(c).nexthop.gateway, GatewayRoute(NewRoute(c)),
                  Left(c, deleted), Err(c, deleted, host, answer))
        BY <1>3, Requested
      <4> QED BY <4>1, <2>1, <2>3 DEF After
    <3>2. NewRoute(c).dst = c /\ GatewayRoute(NewRoute(c)).dst = NewRoute(c).nexthop.gateway
      BY DEF NewRoute, GatewayRoute
    <3> QED BY <3>1, <3>2
  <2> QED BY <2>2, <2>3
<1> QED BY <1>1, <1>2, <1>3 DEF Next, Step, TopologyChange, olsr_insert_routing_table, olsr_delete_routing_table,
           olsr_process_changes, olsr_delete_all_kernel_routes, olsr_delete_interface_routes,
           olsr_process_changes_backoff, olsr_expire_spf_backoff, Queued, Dropped

(* A route over a gateway comes after the route to the gateway.            *)
LEMMA StepGatewayFirst ==
  ASSUME IInv, Next
  PROVE  GatewayFirst
<1> SUFFICES ASSUME ReliableKernel, RemovableIfs = {}, ~Idle, NEW r \in fib' \ fib,
                    NEW g, g = r.nexthop.gateway, g \in routingtree \ LinkLocal, rt_best[g] # Freed,
                    rtp[<<rt_best[g], g>>].nexthop = r.nexthop
             PROVE  \E q \in fib' : q.dst = g /\ q.nexthop = r.nexthop
  BY DEF GatewayFirst
<1>1. ~Running
  BY DEF Running
<1>2. ASSUME NEW c \in Dropped, NEW answer, olsr_del_kernel_routes(c, answer) PROVE FALSE
  BY <1>2 DEF olsr_del_kernel_routes, olsr_delete_kernel_route
<1>3. ASSUME NEW d \in Queued, NEW deleted, NEW host \in KernelAnswers, NEW answer \in KernelAnswers,
             olsr_chg_kernel_routes(d, deleted, host, answer)
      PROVE \E q \in fib' : q.dst = g /\ q.nexthop = r.nexthop
  <2> DEFINE new == NewRoute(d)
             F == Left(d, deleted)
  <2>0. /\ F \subseteq fib /\ \A q \in fib : q.dst # d => q \in F
        /\ \A q \in fib' : q \in F \/ q = new \/ q = GatewayRoute(new)
        /\ \A q \in F : q \notin fib' => q.dst = d \/ GatewayRoute(new) \in fib'
        /\ (\E q \in fib' : q \notin F) =>
               /\ new \in fib'
               /\ \/ new.nexthop.gateway \in OnLink \cup {d}
                  \/ GatewayRoute(new) \in fib'
                  \/ \E q \in fib' : q.dst = new.nexthop.gateway /\ q.nexthop = new.nexthop
    <3>1. Err(d, deleted, host, answer) = "ok"
      BY DEF Err, ReliableKernel, ObedientKernel
    <3>2. After(d, new, new.nexthop.gateway, GatewayRoute(new), F, "ok")
      BY <3>1, <1>3, Requested
    <3> HIDE DEF new, F
    <3> QED BY <3>2 DEF After
  <2>1. new.dst = d /\ new.nexthop = rtp[<<rt_best[d], d>>].nexthop
    BY DEF NewRoute
  <2>2. GatewayRoute(new).nexthop = new.nexthop /\ GatewayRoute(new).dst = new.nexthop.gateway
    BY DEF GatewayRoute
  <2> HIDE DEF new, F
  <2>3. r \notin F
    BY <2>0
  <2>4. r.nexthop = new.nexthop /\ g = new.nexthop.gateway
    BY <2>0, <2>2, <2>3
  <2>5. /\ new \in fib'
        /\ \/ g \in OnLink \cup {d}
           \/ GatewayRoute(new) \in fib'
           \/ \E q \in fib' : q.dst = g /\ q.nexthop = new.nexthop
    BY <2>0, <2>3, <2>4
  <2>6. CASE g = d
    BY <2>1, <2>4, <2>5, <2>6
  <2>7. CASE g # d /\ g \in OnLink
    <3>1. d \in chg_tail /\ chg_head = {}
      <4>1. d \notin chg_head
        BY <2>1, <2>4, <2>7 DEF IInv, QueueInv
      <4> QED BY <4>1, <1>3 DEF olsr_chg_kernel_routes, NextChange, Queued
    <3>2. g \notin Queued
      BY <3>1, <2>4 DEF IInv, QueueInv, Queued
    <3>3. rt_nexthop[g] = r.nexthop
      BY <3>2 DEF IInv, NextHopInv
    <3>4. HasRoute(g)
      BY <3>2 DEF IInv, HasInv, RemembersNoLostRoute, ReliableKernel
    <3>5. Installed(g) \in fib
      BY <3>3, <3>4, <2>7 DEF HasRoute, IInv, AutoInv
    <3>6. Installed(g).dst = g /\ Installed(g).nexthop = r.nexthop
      BY <3>3 DEF Installed
    <3>7. Installed(g) \in F
      BY <3>5, <3>6, <2>0, <2>7
    <3>8. CASE Installed(g) \in fib'
      BY <3>6, <3>8
    <3>9. CASE Installed(g) \notin fib'
      <4>1. GatewayRoute(new) \in fib'
        BY <3>6, <3>7, <3>9, <2>0, <2>7
      <4> QED BY <4>1, <2>2, <2>4
    <3> QED BY <3>8, <3>9
  <2>8. CASE GatewayRoute(new) \in fib'
    BY <2>2, <2>4, <2>8
  <2> QED BY <2>4, <2>5, <2>6, <2>7, <2>8
<1> QED BY <1>1, <1>2, <1>3 DEF Next, Step, TopologyChange, olsr_insert_routing_table, olsr_delete_routing_table,
           olsr_process_changes, olsr_delete_all_kernel_routes, olsr_delete_interface_routes,
           olsr_process_changes_backoff, olsr_expire_spf_backoff, Queued, Dropped

(* Of the routes deleted together, the one to a gateway goes last.         *)
LEMMA StepGatewayLast ==
  ASSUME IInv, Next
  PROVE  GatewayLast
<1> SUFFICES ASSUME NEW q \in fib \ fib', q.dst \in Dropped, q.nexthop.gateway = q.dst, rt_best[q.dst] # Freed,
                    NEW c \in Dropped', rt_best[c] # Freed, rt_nexthop[c] = q.nexthop
             PROVE  FALSE
  BY DEF GatewayLast, Dropped
<1>1. ~Running /\ del_head \cup del_tail # {}
  BY DEF Running, Idle, Dropped
<1>2. ASSUME NEW d \in Dropped, NEW answer, olsr_del_kernel_routes(d, answer) PROVE FALSE
  <2>1. q = Installed(d)
    BY <1>2 DEF olsr_del_kernel_routes, olsr_delete_kernel_route
  <2>2. q.dst = d /\ q.nexthop = rt_nexthop[d]
    BY <2>1 DEF Installed
  <2>3. d \in del_head /\ del_tail = {}
    <3>1. d \notin del_tail
      BY <2>2 DEF IInv, QueueInv, IsHostRoute
    <3> QED BY <3>1, <1>2 DEF olsr_del_kernel_routes, NextDelete, Dropped
  <2>4. c \in del_head /\ c # d
    BY <2>3, <1>2 DEF olsr_del_kernel_routes, Dropped
  <2>5. rt_nexthop[c].gateway = c
    BY <2>4 DEF IInv, QueueInv, IsHostRoute
  <2> QED BY <2>2, <2>4, <2>5
<1>3. ASSUME NEW d, NEW deleted, NEW host, NEW answer, olsr_chg_kernel_routes(d, deleted, host, answer) PROVE FALSE
  BY <1>1, <1>3 DEF olsr_chg_kernel_routes
<1> QED BY <1>1, <1>2, <1>3 DEF Next, Step, TopologyChange, olsr_insert_routing_table, olsr_delete_routing_table,
           olsr_process_changes, olsr_delete_all_kernel_routes, olsr_delete_interface_routes,
           olsr_process_changes_backoff, olsr_expire_spf_backoff, Dropped

LEMMA StepHysteresis ==
  ASSUME IInv, Next
  PROVE  GatewayHysteresis
<1>1. setup' = setup /\ Step
  BY DEF Next
<1>2. CASE current_inetgw' = current_inetgw
  BY <1>2 DEF GatewayHysteresis
<1>3. CASE current_inetgw' = Null
  <2>1. Null \notin Originators
    BY RoutesAssumption
  <2> QED BY <2>1, <1>3 DEF GatewayHysteresis
<1>4. ASSUME NEW garbage,
             \/ olsr_process_changes(garbage)
             \/ olsr_delete_all_kernel_routes(garbage)
             \/ \E i \in RemovableIfs, t \in setup.topologies : olsr_delete_interface_routes(i, t, garbage)
      PROVE  GatewayHysteresis
  BY <1>1, <1>4, ProcessStep, ExitStep, InterfaceStep
<1>5. CASE \E t \in setup.topologies : TopologyChange(t)
  BY <1>2, <1>5 DEF TopologyChange, tree
<1>6. CASE \E p \in Advertised : olsr_insert_routing_table(p[1], p[2])
  BY <1>2, <1>6 DEF olsr_insert_routing_table, tree
<1>7. CASE \E p \in Advertised : olsr_delete_routing_table(p[1], p[2])
  BY <1>2, <1>3, <1>7 DEF olsr_delete_routing_table
<1>8. CASE olsr_process_changes_backoff \/ olsr_expire_spf_backoff
  BY <1>2, <1>8 DEF olsr_process_changes_backoff, olsr_expire_spf_backoff, tree
<1>9. CASE \E d \in del_head \cup del_tail, answer \in KernelDeletes : olsr_del_kernel_routes(d, answer)
  BY <1>2, <1>9 DEF olsr_del_kernel_routes
<1>10. CASE \E d \in chg_head \cup chg_tail, deleted \in KernelDeletes, host, answer \in KernelAnswers :
              olsr_chg_kernel_routes(d, deleted, host, answer)
  <2>1. ASSUME NEW d, NEW deleted, NEW host, NEW answer, olsr_chg_kernel_routes(d, deleted, host, answer)
        PROVE  current_inetgw' = current_inetgw
    BY <2>1 DEF olsr_chg_kernel_routes, tree
  <2> QED BY <2>1, <1>2, <1>10
<1> QED BY <1>1, <1>4, <1>5, <1>6, <1>7, <1>8, <1>9, <1>10 DEF Step

(* While changes are exported a destination that stays has a route         *)
(* throughout, a gateway's route comes first and goes last, and the        *)
(* default route moves only past lq_nat_thresh (olsr_update_kernel_routes, *)
(* olsr_cmp_rtp).                                                          *)
THEOREM MovesSafely == Spec => RoutesMoveSafely
<1>1. IInv /\ [Next]_vars => [NoGap /\ GatewayFirst /\ GatewayLast /\ GatewayHysteresis]_vars
  BY StepNoGap, StepGatewayFirst, StepGatewayLast, StepHysteresis
<1> QED BY <1>1, Invariance, PTL DEF Spec, RoutesMoveSafely
=============================================================================
