--------------------------------- MODULE Spf ---------------------------------
(***************************************************************************)
(* The shortest path search of olsr_calculate_routing_table (olsr_spf.c):  *)
(* the edges of this node are brought up to date from the links to its     *)
(* neighbors (link_set.c), then Dijkstra's algorithm runs on the edges of  *)
(* the link state database, and each reached node gets its next hop.       *)
(*                                                                         *)
(* An edge from a to b is usable if its inverse exists and its cost is not *)
(* LINK_COST_BROKEN.  One pass of the search is one step.  Of candidates   *)
(* with the same cost any may come first: the order in which the tree      *)
(* keeps equal keys is left open.                                          *)
(***************************************************************************)
EXTENDS Integers, Sequences, FiniteSets, SequencesExt

CONSTANTS
  Nodes,      \* tc entries
  tc_myself,  \* the entry of this node
  MaxCost,    \* costs of usable edges and links are at most this
  RouteBroken,  \* ROUTE_COST_BROKEN, above the cost of any path
  EdgeSets,   \* the edges, with their costs, the search may begin with
  NbrSets     \* the neighbors, with their links, it may begin with

NoEdge     == -1
LinkBroken == -2           \* LINK_COST_BROKEN
EdgeCosts  == (0 .. MaxCost) \cup {NoEdge, LinkBroken}
Others     == Nodes \ {tc_myself}
Statuses   == {"SYM_LINK", "ASYM_LINK", "LOST_LINK"}

(* A link to a neighbor, and the set of all links.                         *)
Link(n, i, c, st) == [to |-> n, id |-> i, cost |-> c, status |-> st]
AllLinks == [to : Others, id : Nat, cost : (0 .. MaxCost) \cup {LinkBroken}, status : Statuses]
Null     == Link(tc_myself, 0, LinkBroken, "LOST_LINK")    \* no link

ASSUME SpfAssumption ==
  /\ tc_myself \in Nodes /\ IsFiniteSet(Nodes)
  /\ MaxCost \in Nat /\ RouteBroken \in Nat
  /\ MaxCost * Cardinality(Nodes) < RouteBroken
  /\ \A c \in EdgeSets : c \in [Nodes -> [Nodes -> EdgeCosts]]
  /\ \A t \in NbrSets : t \in [Others -> [status : {"none", "NOT_SYM", "SYM"}, links : Seq(AllLinks)]]

VARIABLES
  cost,       \* the edges: their cost, LinkBroken, or NoEdge
  nbr,        \* the neighbor table: status and links, in the order of the list
  path_cost, next_hop, hops,    \* of each node
  cand_tree,  \* the candidates
  path_list,  \* the nodes whose path is final, in this order
  phase       \* "start", "search" or "done"

vars == <<cost, nbr, path_cost, next_hop, hops, cand_tree, path_list, phase>>

Usable(u, v) == cost[v][u] # NoEdge /\ cost[u][v] \in 0 .. MaxCost

------------------------------------------------------------------------------
(* The links that are cheaper than all before them, by their positions.    *)
(* Without link quality (lq_level 0) interface metrics are compared in     *)
(* this way; the tie-breaker compares a local address with a remote one    *)
(* and never decides.                                                      *)
Cheaper(links) ==
  {i \in DOMAIN links :
     /\ links[i].cost # LinkBroken
     /\ \A j \in 1 .. i - 1 : links[j].cost = LinkBroken \/ links[i].cost < links[j].cost}

(* The last symmetric one of these, or the last one.                       *)
get_best_link_to_neighbor(links) ==
  LET good == {i \in Cheaper(links) : links[i].status = "SYM_LINK"}
  IN  IF good # {} THEN links[Max(good)]
      ELSE IF Cheaper(links) # {} THEN links[Max(Cheaper(links))] ELSE Null

(* The link that makes node n an adjacent vertex, if there is one.         *)
SpfLink(n) ==
  LET best == get_best_link_to_neighbor(nbr[n].links)
  IN  IF nbr[n].status # "SYM" \/ best = Null THEN Null
      ELSE IF best.status = "LOST_LINK" THEN Null ELSE best

(* Mutant: an edge without a link is not flushed.                          *)
EdgeKept(n) ==
  IF SpfLink(n) = Null \/ cost[tc_myself][n] = NoEdge THEN cost[tc_myself][n] ELSE SpfLink(n).cost

(* An edge of this node after the neighbors were looked at: a new one has  *)
(* no quality yet and is broken; one without a link is deleted.            *)
SelfEdge(n) ==
  IF SpfLink(n) = Null THEN IF nbr[n].status = "none" THEN cost[tc_myself][n] ELSE NoEdge
  ELSE IF cost[tc_myself][n] = NoEdge THEN LinkBroken ELSE SpfLink(n).cost

(* At the start an edge of this node goes to one of its neighbors; this is *)
(* SelfEdgesAreNeighbors of TcSet.                                         *)
Init ==
  /\ cost \in EdgeSets
  /\ nbr \in NbrSets
  /\ \A n \in Others : nbr[n].status = "none" => cost[tc_myself][n] = NoEdge
  /\ path_cost = [n \in Nodes |-> RouteBroken]
  /\ next_hop = [n \in Nodes |-> Null]
  /\ hops = [n \in Nodes |-> 0]
  /\ cand_tree = {}
  /\ path_list = <<>>
  /\ phase = "start"

(* The vertices are initialised, and the neighbors get their next hops if  *)
(* they have an edge to this node.                                         *)
Prepare ==
  /\ phase = "start"
  /\ phase' = "search"
  /\ cost' = [cost EXCEPT ![tc_myself] =
                [n \in Nodes |-> IF n = tc_myself THEN @[n] ELSE SelfEdge(n)]]
  /\ path_cost' = [n \in Nodes |-> IF n = tc_myself THEN 0 ELSE RouteBroken]
  /\ next_hop' = [n \in Nodes |->
                    IF n # tc_myself /\ cost[n][tc_myself] # NoEdge THEN SpfLink(n) ELSE Null]
  /\ hops' = [n \in Nodes |-> 0]
  /\ cand_tree' = {tc_myself}
  /\ path_list' = <<>>
  /\ UNCHANGED nbr

(* The candidates of minimal cost.                                         *)
olsr_spf_extract_best ==
  {n \in cand_tree : \A m \in cand_tree : path_cost[n] <= path_cost[m]}

(* The cost of the path over tc to v, an unsigned 32 bit number: the       *)
(* largest one is ROUTE_COST_BROKEN.                                       *)
NewCost(tc, v) == (path_cost[tc] + cost[tc][v]) % (RouteBroken + 1)

(* Mutant: edges are followed without their inverse.                       *)
ImprovedOneWay(tc) ==
  {v \in Nodes : cost[tc][v] \in 0 .. MaxCost /\ NewCost(tc, v) < path_cost[v]}

(* Mutant: an equal path is taken for a better one.                        *)
ImprovedOrEqual(tc) == {v \in Nodes : Usable(tc, v) /\ NewCost(tc, v) <= path_cost[v]}

(* The nodes to which the path over tc is better.                          *)
Improved(tc) == {v \in Nodes : Usable(tc, v) /\ NewCost(tc, v) < path_cost[v]}

(* Mutant: the next hop is set once.                                       *)
NextHopOnce(tc, v) == IF next_hop[v] = Null THEN next_hop[tc] ELSE next_hop[v]

(* The next hop of the node that tc is a better way to.                    *)
PulledNextHop(tc, v) == IF next_hop[tc] # Null THEN next_hop[tc] ELSE next_hop[v]

(* Better paths are recorded, and their nodes become candidates; tc itself *)
(* moves from the candidates to the results.                               *)
olsr_spf_relax(tc) ==
  LET S == Improved(tc)
  IN  /\ path_cost' = [v \in Nodes |-> IF v \in S THEN NewCost(tc, v) ELSE path_cost[v]]
      /\ next_hop' = [v \in Nodes |-> IF v \in S THEN PulledNextHop(tc, v) ELSE next_hop[v]]
      /\ hops' = [v \in Nodes |-> IF v \in S THEN (hops[tc] + 1) % 256 ELSE hops[v]]
      /\ cand_tree' = (cand_tree \cup S) \ {tc}

olsr_spf_run_full(tc) ==
  /\ phase = "search"
  /\ tc \in olsr_spf_extract_best
  /\ olsr_spf_relax(tc)
  /\ path_list' = Append(path_list, tc)
  /\ UNCHANGED <<cost, nbr, phase>>

Done ==
  /\ phase = "search"
  /\ cand_tree = {}
  /\ phase' = "done"
  /\ UNCHANGED <<cost, nbr, path_cost, next_hop, hops, cand_tree, path_list>>

Next == Prepare \/ (\E tc \in cand_tree : olsr_spf_run_full(tc)) \/ Done

Spec == Init /\ [][Next]_vars

------------------------------------------------------------------------------
Final == ToSet(path_list)

TypeOK ==
  /\ cost \in [Nodes -> [Nodes -> EdgeCosts]]
  /\ nbr \in [Others -> [status : {"none", "NOT_SYM", "SYM"}, links : Seq(AllLinks)]]
  /\ path_cost \in [Nodes -> 0 .. RouteBroken]
  /\ next_hop \in [Nodes -> {SpfLink(n) : n \in Others} \cup {Null}]
  /\ hops \in [Nodes -> 0 .. 255]
  /\ cand_tree \subseteq Nodes
  /\ path_list \in Seq(Nodes)
  /\ phase \in {"start", "search", "done"}

(* A node whose cost is below ROUTE_COST_BROKEN is either a candidate or   *)
(* in the path list, where it is once: olsr_spf_relax, which takes the     *)
(* cost for a sign that the node is in the tree, deletes nothing that is   *)
(* not in it, and the list has no more entries than there are nodes.       *)
CandidateExact ==
  phase # "start" =>
    /\ cand_tree \cap Final = {}
    /\ cand_tree \cup Final = {n \in Nodes : path_cost[n] < RouteBroken}
    /\ \A i, j \in DOMAIN path_list : path_list[i] = path_list[j] => i = j

(* What is in the path list is final: its cost, next hop and hop count are *)
(* never changed by a later pass.                                          *)
FinalStaysFinal ==
  [][phase = "search" =>
       \A n \in Final : /\ path_cost'[n] = path_cost[n]
                        /\ next_hop'[n] = next_hop[n]
                        /\ hops'[n] = hops[n]]_vars

(* The cost of the cheapest path of at most k usable edges to each node.   *)
NoEdges == [n \in Nodes |-> IF n = tc_myself THEN 0 ELSE RouteBroken]

OneMoreEdge(d) ==
  [n \in Nodes |->
     Min({d[n]} \cup {d[u] + cost[u][n] : u \in {w \in Nodes : Usable(w, n) /\ d[w] < RouteBroken}})]

Distances[k \in 0 .. Cardinality(Nodes)] == IF k = 0 THEN NoEdges ELSE OneMoreEdge(Distances[k - 1])

Distance == Distances[Cardinality(Nodes)]

(* The search ends with the cost of a cheapest path, over edges usable in  *)
(* both directions, for every node that has one, and no cost for others.   *)
ShortestPaths == phase = "done" => path_cost = Distance

(* The search leaves no edge that would improve a path, and every path     *)
(* found is a path: it extends the path to another node by a usable edge,  *)
(* with the next hop of that path, or with the link to the neighbor itself *)
(* at the first edge, and one more hop.                                    *)
SpfTree ==
  phase = "done" =>
    /\ \A u, v \in Nodes : path_cost[u] < RouteBroken /\ Usable(u, v)
                               => path_cost[v] <= path_cost[u] + cost[u][v]
    /\ \A v \in Others : path_cost[v] < RouteBroken =>
         \E u \in Nodes :
            /\ path_cost[u] < RouteBroken /\ Usable(u, v)
            /\ path_cost[v] = path_cost[u] + cost[u][v]
            /\ hops[v] = (hops[u] + 1) % 256
            /\ next_hop[v] = IF u = tc_myself THEN SpfLink(v) ELSE next_hop[u]

(* The strengthening that is preserved by every step of the search.        *)
SearchInv ==
  /\ path_cost[tc_myself] = 0 /\ next_hop[tc_myself] = Null
  /\ \A n \in Others : Usable(tc_myself, n) => SpfLink(n) # Null
  /\ path_list = <<>> =>
       /\ cand_tree = {tc_myself}
       /\ \A n \in Others : cost[n][tc_myself] # NoEdge => next_hop[n] = SpfLink(n)
  /\ path_list # <<>> => tc_myself \in Final
  /\ \A n \in Nodes : path_cost[n] < RouteBroken => path_cost[n] <= MaxCost * Cardinality(Final)
  /\ \A f \in Final, c \in cand_tree : path_cost[f] <= path_cost[c]
  /\ \A f \in Final, v \in Nodes : Usable(f, v) => path_cost[v] <= path_cost[f] + cost[f][v]
  /\ \A v \in Others : path_cost[v] < RouteBroken =>
       /\ next_hop[v] # Null
       /\ \E u \in Final :
            /\ Usable(u, v)
            /\ path_cost[v] = path_cost[u] + cost[u][v]
            /\ hops[v] = (hops[u] + 1) % 256
            /\ next_hop[v] = IF u = tc_myself THEN SpfLink(v) ELSE next_hop[u]

(* A node follows, in the path list, the one that its path comes from.     *)
PathsOrdered ==
  \A i \in DOMAIN path_list : path_list[i] # tc_myself =>
    \E j \in 1 .. i - 1 :
      /\ Usable(path_list[j], path_list[i])
      /\ path_cost[path_list[i]] = path_cost[path_list[j]] + cost[path_list[j]][path_list[i]]

IInv ==
  /\ TypeOK
  /\ CandidateExact
  /\ phase = "start" =>
       /\ path_list = <<>>
       /\ \A n \in Others : nbr[n].status = "none" => cost[tc_myself][n] = NoEdge
  /\ phase # "start" => SearchInv
  /\ phase = "done" => cand_tree = {}

(* Every node the search reaches has a next hop, which is the best link to *)
(* a symmetric neighbor and not a lost one: no node of the path list is    *)
(* passed over when the routes are made.                                   *)
ReachedHasNextHop ==
  \A n \in Others \cap Final :
    /\ next_hop[n] # Null
    /\ next_hop[n].status # "LOST_LINK"
    /\ \E m \in Others : nbr[m].status = "SYM" /\ next_hop[n] = get_best_link_to_neighbor(nbr[m].links)

==============================================================================
