------------------------------ MODULE Routes ------------------------------
(***************************************************************************)
(* From the change flags to the kernel: olsr_process_changes (olsr.c), the *)
(* part of olsr_calculate_routing_table that follows the shortest paths    *)
(* (olsr_spf.c), the RIB (routing_table.c) and its export                  *)
(* (process_routes.c, linux/kernel_routes_nl.c).                           *)
(*                                                                         *)
(* Everything runs in one thread.  A run of the calculation updates the    *)
(* RIB and fills two queues in one step; each kernel request of the queues *)
(* is a step of its own, because the kernel forwards packets meanwhile.    *)
(* The result of the shortest path search is an input here (topo).  A      *)
(* queue is modelled by its two parts, the next hop routes at its head and *)
(* the others at its tail; the order within a part, which follows from the *)
(* addresses, is left open.                                                *)
(***************************************************************************)
EXTENDS Integers, FiniteSets

CONSTANTS
  Originators,    \* tc entries; numbers, the order of the addresses
  Dsts,           \* prefixes
  Advertised,     \* the pairs <<originator, prefix>> that may be announced
  DefaultDst,     \* the prefix of length zero
  Results,        \* outcomes of the shortest path search for one originator
  Topologies,     \* outcomes for all of them
  NoRoute,        \* an originator that is not reached
  NatNum, NatDen, \* lq_nat_thresh as a fraction
  Setups          \* configurations and kernels the daemon may run with

Null   == 0
Freed  == -1         \* a pointer to a path that has been freed
Fresh  == [gateway |-> DefaultDst, iif |-> -1]  \* a next hop that was never installed

Nexthops == {r.nexthop : r \in Results}

ASSUME RoutesAssumption ==
  /\ Originators \subseteq Nat \ {Null}
  /\ Advertised \subseteq Originators \X Dsts
  /\ \A r \in Results : r.cost \in Nat /\ r.hops \in Nat /\ r.nexthop # Fresh
  /\ Topologies \subseteq [Originators -> Results \cup {NoRoute}] /\ NoRoute \notin Results
  /\ NatNum \in Nat /\ NatDen \in Nat /\ 0 < NatNum /\ NatNum <= NatDen
  /\ \A s \in Setups : /\ {s.flat, s.delfirst, s.flushes} \subseteq BOOLEAN
                       /\ s.answers \subseteq {"ok", "refused", "lost", "unheard"}
                       /\ s.deletes \subseteq {"ok", "lost"}
                       /\ s.topologies \subseteq Topologies

VARIABLES
  setup,                \* the one it runs with; never changes
  topo,                 \* what the shortest path search would yield now
  changes,              \* changes_neighborhood, changes_topology or changes_hna
  spf_backoff_timer,    \* the timer runs
  prefix_tree,          \* the paths that exist, by originator and prefix
  rtp_rt,               \* the paths that hang off a route entry
  rtp,                  \* next hop and metric of a path
  rtp_version,          \* the paths whose version is routingtree_version
  routingtree,          \* the prefixes that have a route entry
  rt_best,              \* originator of the best path, Null or Freed; also of queued entries
  rt_nexthop, rt_hops,  \* next hop and hops of the FIB route
  current_inetgw,       \* originator of the best path to DefaultDst, or Null
  del_head, del_tail,   \* del_kernel_list
  chg_head, chg_tail,   \* chg_kernel_list
  fib,                  \* the routes in the kernel
  auto,                 \* history: the host routes generated for a gateway
  stopped               \* the daemon has flushed its routes to exit

paths  == <<prefix_tree, rtp, rtp_version>>
tree   == <<rtp_rt, routingtree, rt_best, current_inetgw>>
head   == <<rt_nexthop, rt_hops>>
queues == <<del_head, del_tail, chg_head, chg_tail>>
kernel == <<fib, auto>>
vars   == <<setup, topo, changes, spf_backoff_timer, paths, tree, head, queues, kernel, stopped>>

FlatMetric    == setup.flat      \* FIBM_FLAT (else FIBM_CORRECT)
DeleteFirst   == setup.delfirst  \* the kernel has no NLM_F_REPLACE (IPv6)
OnLink        == setup.onlink    \* gateways in a subnet of their interface
KernelAnswers == setup.answers   \* what may become of the addition of a route
KernelDeletes == setup.deletes   \* and of a deletion
LinkLocal     == setup.linklocal \* link-local prefixes
RemovableIfs  == setup.ifs       \* the interfaces that may be removed
KernelFlushes == setup.flushes   \* it drops the routes of a removed interface

Idle    == del_head \cup del_tail \cup chg_head \cup chg_tail = {}
Running == Idle /\ ~stopped

------------------------------------------------------------------------------
(* Mutant: the threshold is not applied.                                   *)
CmpUnweighted(d, o1, o2) ==
  \/ rtp'[<<o1, d>>].cost < rtp'[<<o2, d>>].cost
  \/ rtp'[<<o1, d>>].cost = rtp'[<<o2, d>>].cost /\ o1 < o2

(* Mutant: the first path wins, whatever its cost.                         *)
CmpOriginator(d, o1, o2) == o1 < o2

(* Path o1 of d is better than path o2: cost (that of the current Internet *)
(* gateway weighted), then hops, then originator.                          *)
olsr_cmp_rtp(d, o1, o2) ==
  LET p(o)   == rtp'[<<o, d>>]
      etx(o) == IF d = DefaultDst /\ o = current_inetgw
                THEN (p(o).cost * NatNum) \div NatDen ELSE p(o).cost
  IN  \/ etx(o1) < etx(o2)
      \/ etx(o1) = etx(o2) /\ p(o1).hops < p(o2).hops
      \/ etx(o1) = etx(o2) /\ p(o1).hops = p(o2).hops /\ o1 < o2

(* The best of the paths of d among owners.                                *)
olsr_rt_best(d, owners) ==
  CHOOSE o \in owners : \A q \in owners \ {o} : olsr_cmp_rtp(d, o, q)

olsr_nh_change(d, o) == rtp'[<<o, d>>].nexthop # rt_nexthop[d]
olsr_hopcount_change(d, o) == rtp'[<<o, d>>].hops # rt_hops[d]

(* The FIB route of d leads to d itself.                                   *)
IsHostRoute(d) == rt_nexthop[d].gateway = d

(* Mutant: the path tree is not cleared of outdated paths.                 *)
KeepOutdated(linked) == linked

(* The paths that were refreshed by the last calculation.                  *)
olsr_delete_outdated_routes(linked) == linked \cap rtp_version'

(* Walk the route entries of T, whose linked paths are "linked" and whose  *)
(* best paths are "best": drop outdated paths, drop entries without paths, *)
(* elect the best path, and queue what must change in the kernel.  The     *)
(* next hop that decides where a dropped entry is queued is read from its  *)
(* best path, even if that was freed: "garbage" are those read as host     *)
(* routes.                                                                 *)
olsr_update_rib_routes(T, linked, best, garbage) ==
  LET kept   == olsr_delete_outdated_routes(linked)
      owners(d) == {o \in Originators : <<o, d>> \in kept}
      gone   == {d \in T : owners(d) = {}}
      elected == [d \in T \ gone |-> olsr_rt_best(d, owners(d))]
      change == {d \in T \ gone :
                   \/ olsr_nh_change(d, elected[d])
                   \/ ~FlatMetric /\ olsr_hopcount_change(d, elected[d])}
      direct == {d \in change : rtp'[<<elected[d], d>>].nexthop.gateway = d}
      direct_gone == {d \in gone : IF best[d] = Freed THEN d \in garbage ELSE IsHostRoute(d)}
  IN  /\ rtp_rt' = kept
      /\ routingtree' = T \ gone
      /\ rt_best' = [d \in Dsts |-> IF d \in T \ gone THEN elected[d]
                                   ELSE IF d \in gone /\ best[d] = Freed THEN Freed ELSE Null]
      /\ current_inetgw' = IF DefaultDst \in T \ gone THEN elected[DefaultDst] ELSE current_inetgw
      /\ del_head' = direct_gone
      /\ del_tail' = gone \ direct_gone
      /\ chg_head' = direct
      /\ chg_tail' = change \ direct

------------------------------------------------------------------------------
Init ==
  /\ setup \in Setups
  /\ topo \in setup.topologies
  /\ changes = TRUE
  /\ spf_backoff_timer = FALSE
  /\ prefix_tree = {}
  /\ rtp_rt = {}
  /\ rtp = [p \in Advertised |-> NoRoute]
  /\ rtp_version = {}
  /\ routingtree = {}
  /\ rt_best = [d \in Dsts |-> Null]
  /\ rt_nexthop = [d \in Dsts |-> Fresh]
  /\ rt_hops = [d \in Dsts |-> 0]
  /\ current_inetgw = Null
  /\ del_head = {} /\ del_tail = {} /\ chg_head = {} /\ chg_tail = {}
  /\ fib = {}
  /\ auto = {}
  /\ stopped = FALSE

(* The link set or the topology change: the next search yields t.          *)
TopologyChange(t) ==
  /\ Running
  /\ t # topo
  /\ topo' = t
  /\ changes' = TRUE
  /\ UNCHANGED <<spf_backoff_timer, paths, tree, head, queues, kernel, stopped>>

(* A TC, MID or HNA message announces prefix d of originator o.            *)
olsr_insert_routing_table(o, d) ==
  /\ Running
  /\ <<o, d>> \in Advertised \ prefix_tree
  /\ prefix_tree' = prefix_tree \cup {<<o, d>>}
  /\ changes' = TRUE
  /\ UNCHANGED <<topo, spf_backoff_timer, rtp, rtp_version, tree, head, queues, kernel, stopped>>

(* The announcement times out or is revoked: the path is unlinked and      *)
(* freed.  The route entry keeps its pointer to it as its best path.       *)
olsr_delete_routing_table(o, d) ==
  /\ Running
  /\ <<o, d>> \in prefix_tree
  /\ prefix_tree' = prefix_tree \ {<<o, d>>}
  /\ rtp_rt' = rtp_rt \ {<<o, d>>}
  /\ rtp' = [rtp EXCEPT ![<<o, d>>] = NoRoute]
  /\ rtp_version' = rtp_version \ {<<o, d>>}
  /\ rt_best' = [rt_best EXCEPT ![d] = IF @ = o THEN Freed ELSE @]
  /\ current_inetgw' = IF d = DefaultDst /\ current_inetgw = o THEN Null ELSE current_inetgw
  /\ changes' = TRUE
  /\ UNCHANGED <<topo, spf_backoff_timer, routingtree, head, queues,
                 kernel, stopped>>

------------------------------------------------------------------------------
(* The calculation of the routing table, after the search: the prefixes of *)
(* every reached originator are refreshed or inserted into the RIB.  The   *)
(* data of the other paths is not read again before they are reached.      *)
olsr_calculate_routing_table(garbage) ==
  LET reached == {p \in prefix_tree : topo[p[1]] # NoRoute}
  IN  /\ rtp' = [p \in Advertised |-> IF p \in reached THEN topo[p[1]] ELSE NoRoute]
      /\ rtp_version' = reached
      /\ olsr_update_rib_routes(routingtree \cup {p[2] : p \in reached},
                                rtp_rt \cup reached, rt_best, garbage)

(* Changes are processed: a new calculation, and its backoff begins.       *)
olsr_process_changes(garbage) ==
  /\ Running
  /\ changes
  /\ changes' = FALSE
  /\ ~spf_backoff_timer
  /\ spf_backoff_timer' = TRUE
  /\ olsr_calculate_routing_table(garbage)
  /\ UNCHANGED <<topo, prefix_tree, head, kernel, stopped>>

(* Changes are processed during the backoff: the calculation returns early *)
(* and the flags are cleared.                                              *)
olsr_process_changes_backoff ==
  /\ Running
  /\ changes
  /\ changes' = FALSE
  /\ spf_backoff_timer
  /\ UNCHANGED <<topo, spf_backoff_timer, paths, tree, head, queues, kernel, stopped>>

olsr_expire_spf_backoff ==
  /\ Running
  /\ spf_backoff_timer
  /\ spf_backoff_timer' = FALSE
  /\ UNCHANGED <<topo, changes, paths, tree, head, queues, kernel, stopped>>

(* On exit every path becomes outdated.                                    *)
olsr_delete_all_kernel_routes(garbage) ==
  /\ Running
  /\ stopped' = TRUE
  /\ rtp_version' = {}
  /\ UNCHANGED rtp
  /\ olsr_update_rib_routes(routingtree, rtp_rt, rt_best, garbage)
  /\ UNCHANGED <<topo, changes, spf_backoff_timer, prefix_tree, head, kernel>>

Uses(t, i) == \E o \in Originators : t[o] # NoRoute /\ t[o].nexthop.iif = i

(* Interface i is removed.  Its links are gone, the kernel has dropped its *)
(* routes, and the paths over it are unlinked; an entry that loses its     *)
(* best and last path is dropped without a kernel request.                 *)
olsr_delete_interface_routes(i, t, garbage) ==
  LET lost    == {p \in rtp_rt : rtp[p].nexthop.iif = i}
      linked  == rtp_rt \ lost
      trigger == {d \in routingtree : <<rt_best[d], d>> \in lost}
      flushed == {d \in trigger : \A o \in Originators : <<o, d>> \notin linked}
      best    == [d \in Dsts |-> IF d \in trigger THEN Null ELSE rt_best[d]]
  IN  /\ Running
      /\ IF Uses(topo, i) THEN ~Uses(t, i) ELSE t = topo
      /\ topo' = t
      /\ changes' = (changes \/ Uses(topo, i))
      /\ fib' = IF KernelFlushes THEN {r \in fib : r.nexthop.iif # i} ELSE fib
      /\ rt_nexthop' = [d \in Dsts |-> IF d \in flushed THEN Fresh ELSE rt_nexthop[d]]
      /\ rt_hops' = [d \in Dsts |-> IF d \in flushed THEN 0 ELSE rt_hops[d]]
      /\ UNCHANGED paths
      /\ IF trigger # {}
         THEN olsr_update_rib_routes(routingtree \ flushed, linked, best, garbage)
         ELSE /\ rtp_rt' = linked
              /\ UNCHANGED <<routingtree, rt_best, current_inetgw, queues>>
      /\ UNCHANGED <<spf_backoff_timer, auto, stopped>>

------------------------------------------------------------------------------
(* The kernel, and the requests to it.                                     *)

Metric(hops) == IF FlatMetric THEN 2 ELSE hops

(* The route a route entry stands for.                                     *)
Installed(d) == [dst |-> d, nexthop |-> rt_nexthop[d], metric |-> Metric(rt_hops[d])]

(* A deletion matches next hop and metric; a route that is not there is no *)
(* error, and a request that fails is not repeated.  Multi-hop routes to   *)
(* link-local addresses are never touched.                                 *)
olsr_delete_kernel_route(F, d, answer) ==
  IF (rt_hops[d] > 1 /\ d \in LinkLocal) \/ answer = "lost" THEN F ELSE F \ {Installed(d)}

(* Mutant: the similar route is deleted and the new one not created.       *)
KernelReplaceOnly(F, r) ==
  IF \E q \in F : q.dst = r.dst THEN {q \in F : q.dst # r.dst} ELSE F \cup {r}

(* An addition replaces the route of the same destination and metric.      *)
(* Without NLM_F_REPLACE it is another route, except that an identical one *)
(* is an error, resolved by deleting the similar routes and trying again.  *)
KernelAdd(F, r) ==
  LET replaced == IF ~DeleteFirst THEN {q \in F : q.dst = r.dst /\ q.metric = r.metric}
                  ELSE IF r \in F THEN {q \in F : q.dst = r.dst}
                  ELSE {}
  IN  (F \ replaced) \cup {r}

(* The kernel accepts a gateway that it has a direct route to.             *)
GatewayReachable(F, r) ==
  \/ r.nexthop.gateway = r.dst
  \/ r.nexthop.gateway \in OnLink
  \/ \E q \in F : q.dst = r.nexthop.gateway /\ q.nexthop = r.nexthop

(* With the flat metric a missing route to the gateway is generated.       *)
Autogenerates(F, r) == FlatMetric /\ ~GatewayReachable(F, r)

GatewayRoute(r) == [dst |-> r.nexthop.gateway, nexthop |-> r.nexthop, metric |-> r.metric]

(* Mutant: the queue is processed from its tail, the gateways last.        *)
ChangeTailFirst == IF chg_tail # {} THEN chg_tail ELSE chg_head

(* The next entries of the change queue: it is traversed from its head.    *)
NextChange == IF chg_head # {} THEN chg_head ELSE chg_tail

(* The next entries of the deletion queue: it is traversed from its tail.  *)
NextDelete == IF del_tail # {} THEN del_tail ELSE del_head

(* One entry of the deletion queue, which is freed.                        *)
olsr_del_kernel_routes(d, answer) ==
  /\ d \in NextDelete
  /\ fib' = IF rt_nexthop[d] = Fresh THEN fib ELSE olsr_delete_kernel_route(fib, d, answer)
  /\ rt_best' = [rt_best EXCEPT ![d] = Null]
  /\ rt_nexthop' = [rt_nexthop EXCEPT ![d] = Fresh]
  /\ rt_hops' = [rt_hops EXCEPT ![d] = 0]
  /\ del_head' = del_head \ {d}
  /\ del_tail' = del_tail \ {d}
  /\ UNCHANGED <<topo, changes, spf_backoff_timer, paths, rtp_rt, routingtree, current_inetgw,
                 chg_head, chg_tail, auto, stopped>>

(* What becomes of the request for a route: the kernel accepts it ("ok"),  *)
(* refuses it (a positive error number, which the caller takes for         *)
(* success), the request is lost (-1), or it is executed and its answer is *)
(* lost (-1, "unheard").                                                   *)
Executed(answer) == answer \in {"ok", "unheard"}
Failed(answer)   == answer \in {"lost", "unheard"}

(* One entry of the change queue.  "deleted" becomes of the deletion of    *)
(* the old route, "host" of the first request and of the generation of the *)
(* route to the gateway that follows it, "answer" of the route itself.     *)
olsr_chg_kernel_routes(d, deleted, host, answer) ==
  LET best == rtp[<<rt_best[d], d>>]
      new  == [dst |-> d, nexthop |-> best.nexthop, metric |-> Metric(best.hops)]
      F    == IF DeleteFirst /\ rt_nexthop[d] # Fresh THEN olsr_delete_kernel_route(fib, d, deleted) ELSE fib
      skip == best.hops > 1 /\ d \in LinkLocal
      generate == Autogenerates(F, new)
      generated == ~skip /\ generate /\ Executed(host)
      G    == IF generated THEN KernelAdd(F, GatewayRoute(new)) ELSE F
      err  == IF generate /\ host # "ok" THEN host ELSE answer
      kept == skip \/ Failed(err)
  IN  /\ del_head \cup del_tail = {}
      /\ d \in NextChange
      /\ fib' = IF ~skip /\ (generate => host = "ok") /\ Executed(answer) /\ GatewayReachable(G, new)
                THEN KernelAdd(G, new) ELSE G
      /\ auto' = IF generated THEN auto \cup {GatewayRoute(new)} ELSE auto
      /\ rt_nexthop' = [rt_nexthop EXCEPT ![d] = IF kept THEN @ ELSE best.nexthop]
      /\ rt_hops' = [rt_hops EXCEPT ![d] = IF kept THEN @ ELSE best.hops]
      /\ chg_head' = chg_head \ {d}
      /\ chg_tail' = chg_tail \ {d}
      /\ UNCHANGED <<topo, changes, spf_backoff_timer, paths, tree, del_head, del_tail, stopped>>

------------------------------------------------------------------------------
Step ==
  \/ \E t \in setup.topologies : TopologyChange(t)
  \/ \E p \in Advertised : olsr_insert_routing_table(p[1], p[2])
  \/ \E p \in Advertised : olsr_delete_routing_table(p[1], p[2])
  \/ \E garbage \in SUBSET {d \in routingtree : rt_best[d] = Freed} :
       \/ olsr_process_changes(garbage)
       \/ olsr_delete_all_kernel_routes(garbage)
       \/ \E i \in RemovableIfs, t \in setup.topologies : olsr_delete_interface_routes(i, t, garbage)
  \/ olsr_process_changes_backoff
  \/ olsr_expire_spf_backoff
  \/ \E d \in del_head \cup del_tail, answer \in KernelDeletes : olsr_del_kernel_routes(d, answer)
  \/ \E d \in chg_head \cup chg_tail, deleted \in KernelDeletes, host, answer \in KernelAnswers :
       olsr_chg_kernel_routes(d, deleted, host, answer)

Next == Step /\ UNCHANGED setup

Spec == Init /\ [][Next]_vars

------------------------------------------------------------------------------
TypeOK ==
  /\ topo \in Topologies
  /\ changes \in BOOLEAN /\ spf_backoff_timer \in BOOLEAN /\ stopped \in BOOLEAN
  /\ prefix_tree \subseteq Advertised
  /\ rtp_rt \subseteq prefix_tree
  /\ rtp \in [Advertised -> Results \cup {NoRoute}]
  /\ rtp_version \subseteq prefix_tree
  /\ routingtree \subseteq Dsts
  /\ rt_best \in [Dsts -> Originators \cup {Null, Freed}]
  /\ rt_nexthop \in [Dsts -> Nexthops \cup {Fresh}] /\ rt_hops \in [Dsts -> Nat]
  /\ current_inetgw \in Originators \cup {Null}

Linked(d) == {o \in Originators : <<o, d>> \in rtp_rt}

(* What the caller assumes of the kernel: it refuses nothing and deletes   *)
(* what it is asked to, an answer gets back if the request got through, an *)
(* addition takes the place of the route of another metric, the routes of  *)
(* an interface go with it, and additions are not lost where interfaces    *)
(* are removed: an entry that loses its last path with its interface is    *)
(* dropped unseen, and the route of a request before may go over another.  *)
ObedientKernel ==
  /\ KernelAnswers \subseteq {"ok", "lost"} /\ KernelDeletes = {"ok"}
  /\ (FlatMetric \/ DeleteFirst) /\ KernelFlushes
  /\ "lost" \in KernelAnswers => RemovableIfs = {}

(* And no request to it is lost.                                           *)
ReliableKernel == ObedientKernel /\ "lost" \notin KernelAnswers

(* The kernel has the route of d as the entry remembers it, or one that it *)
(* generated for d as the gateway of another; or, with hop counts, it did  *)
(* not accept the gateway.                                                 *)
HasRoute(d) ==
  \/ Installed(d) \in fib
  \/ \E r \in fib \cap auto : r.dst = d
  \/ ~FlatMetric /\ rt_nexthop[d].gateway \notin OnLink \cup {d}

(* An entry remembers no route that is not in the kernel, even if requests *)
(* are lost; only a kernel without NLM_F_REPLACE, where the old route is   *)
(* deleted first, may have lost it.  Link-local prefixes, which are left   *)
(* alone over more than one hop, are not looked at.                        *)
RemembersNoLostRoute ==
  ObedientKernel /\ RemovableIfs = {} /\ (DeleteFirst => ReliableKernel) =>
    \A d \in routingtree \ LinkLocal : rt_nexthop[d] # Fresh => HasRoute(d)

(* Between two runs of the export no sequence of recalculations and        *)
(* expirations has lost a route of the RIB.                                *)
FibHasRoutes ==
  ReliableKernel /\ RemovableIfs = {} /\ Idle => \A d \in routingtree \ LinkLocal : HasRoute(d)

(* With interfaces that are removed or requests that are lost a route may  *)
(* be missing, but none is left behind: each is the one that a route entry *)
(* remembers, or was generated for a gateway.                              *)
FibHasNoStaleRoute ==
  ObedientKernel /\ Idle => \A r \in fib \ auto :
    r.dst \notin LinkLocal => r.dst \in routingtree /\ r = Installed(r.dst)

(* The route in the kernel goes over the path that olsr_rt_best elected,   *)
(* and that path is the cheapest one that is left, up to the threshold for *)
(* the default route.                                                      *)
BestInstalled ==
  ReliableKernel /\ Idle => \A d \in routingtree :
            rt_best[d] # Freed =>
              /\ rt_best[d] \in Linked(d)
              /\ d \notin LinkLocal => rtp[<<rt_best[d], d>>].nexthop = rt_nexthop[d]
              /\ \A o \in Linked(d) :
                   rtp[<<rt_best[d], d>>].cost * (IF d = DefaultDst THEN NatNum ELSE NatDen)
                     < (rtp[<<o, d>>].cost + 1) * NatDen

(* Between two runs of the export, when nothing is lost, the kernel has    *)
(* exactly the routes of the RIB, and each over the best path there is     *)
(* (olsr_update_rib_routes and olsr_update_kernel_routes); and whatever    *)
(* additions are lost, no route is left behind or taken for installed.     *)
KernelHasBest == FibHasRoutes /\ RemembersNoLostRoute /\ BestInstalled /\ FibHasNoStaleRoute

(* While the queues are exported, a destination that stays in the RIB and  *)
(* has a route in the kernel keeps one, whatever the kernel answers:       *)
(* routes are replaced, never first deleted.                               *)
NoGap ==
  ~DeleteFirst /\ ~Idle => \A d \in routingtree' :
    (\E r \in fib : r.dst = d) => (\E r \in fib' : r.dst = d)

(* A route over a gateway is added only when the route to the gateway is   *)
(* there, if the RIB has one (to a gateway that is not link-local).        *)
GatewayFirst ==
  ReliableKernel /\ RemovableIfs = {} /\ ~Idle => \A r \in fib' \ fib :
    LET g == r.nexthop.gateway
    IN  (g \in routingtree \ LinkLocal /\ rt_best[g] # Freed /\ rtp[<<rt_best[g], g>>].nexthop = r.nexthop)
          => \E q \in fib' : q.dst = g /\ q.nexthop = r.nexthop

(* Of the entries that are deleted in one run, a route to a gateway goes   *)
(* after those over it: when it goes, no entry over it is left to delete.  *)
(* An entry whose best path was freed is queued by what its memory holds,  *)
(* and may be on the wrong side.                                           *)
GatewayLast ==
  \A q \in fib \ fib' :
    (q.dst \in del_head \cup del_tail /\ q.nexthop.gateway = q.dst /\ rt_best[q.dst] # Freed)
      => \A d \in del_head' \cup del_tail' : rt_best[d] # Freed => rt_nexthop[d] # q.nexthop

(* The default route moves from a gateway that is still reached to another *)
(* one only when that is better by the factor lq_nat_thresh.               *)
GatewayHysteresis ==
  (/\ {current_inetgw, current_inetgw'} \subseteq Originators
   /\ current_inetgw # current_inetgw'
   /\ <<current_inetgw, DefaultDst>> \in rtp_rt')
  => rtp'[<<current_inetgw', DefaultDst>>].cost
       <= (rtp'[<<current_inetgw, DefaultDst>>].cost * NatNum) \div NatDen

(* How the routes of the kernel move while changes are exported: without a *)
(* gap, gateways in first (olsr_chg_kernel_routes) and, of what is deleted *)
(* together, out last (olsr_del_kernel_routes), and the default route only *)
(* past the threshold.                                                     *)
RoutesMoveSafely == [][NoGap /\ GatewayFirst /\ GatewayLast /\ GatewayHysteresis]_vars

(* The pointer to the current Internet gateway never outlives its path.    *)
InetgwAlive == current_inetgw # Null => <<current_inetgw, DefaultDst>> \in prefix_tree

(* The daemon exits with none of its routes left in the kernel, except     *)
(* those generated for gateways and link-local ones; up to then its tables *)
(* are well formed and the current Internet gateway is one whose path      *)
(* exists.                                                                 *)
CleanExit == /\ TypeOK /\ InetgwAlive
             /\ ObedientKernel /\ stopped /\ Idle =>
                  routingtree = {} /\ \A r \in fib \ auto : r.dst \in LinkLocal

(* When no change is pending and no backoff timer runs, the RIB has every  *)
(* reachable prefix at its current cost.                                   *)
SettledIsCurrent ==
  ~changes /\ ~spf_backoff_timer /\ Running =>
    rtp_rt = {p \in prefix_tree : topo[p[1]] # NoRoute}
    /\ \A p \in rtp_rt : rtp[p] = topo[p[1]]
==============================================================================
