------------------------------- MODULE MCPaths -------------------------------
(***************************************************************************)
(* Two ways through the network side by side in one run: the paths of      *)
(* unicast packets from the link state database, and the copies of a       *)
(* multicast packet that the multicast forwarding plugin makes.  The       *)
(* variable part says which of them moves.                                 *)
(***************************************************************************)
EXTENDS Spf, BmfFlood

VARIABLE part

pathsVars == <<vars, bmfVars, part>>

(* Unicast: this node, two nodes that may be neighbors and one that is     *)
(* not.                                                                    *)

(* Costs there and back between the other nodes.                           *)
PairCosts == {<<NoEdge, NoEdge>>, <<1, NoEdge>>, <<1, 1>>, <<0, 0>>, <<3, LinkBroken>>, <<3, 1>>}

(* Between the two that may be neighbors.                                  *)
AcrossCosts == {<<NoEdge, NoEdge>>, <<1, 1>>, <<0, 0>>, <<3, 1>>}

(* Edges of this node and of its neighbors to it.                          *)
SelfCosts == {<<NoEdge, NoEdge>>, <<1, NoEdge>>, <<NoEdge, 1>>, <<2, 1>>}

EdgesOf(p) ==
  [u \in Nodes |-> [v \in Nodes |->
     IF <<u, v>> \in DOMAIN p THEN p[<<u, v>>][1]
     ELSE IF <<v, u>> \in DOMAIN p THEN p[<<v, u>>][2] ELSE NoEdge]]

MCEdgeSets ==
  {EdgesOf((<<1, 2>> :> s2) @@ (<<1, 3>> :> s3) @@ (<<2, 3>> :> a) @@ (<<2, 4>> :> b) @@ (<<3, 4>> :> c)) :
     s2, s3 \in SelfCosts, a \in AcrossCosts, b, c \in PairCosts}

(* The links of neighbor n: none, one, and several in different orders.    *)
LinkLists(n) ==
  LET sym(i, c) == Link(n, i, c, "SYM_LINK")
      asym(i, c) == Link(n, i, c, "ASYM_LINK")
  IN  {<<>>, <<sym(1, 1)>>, <<asym(1, 2), sym(2, 3)>>, <<sym(1, 2), asym(2, 1), sym(3, LinkBroken)>>,
       <<sym(1, 3), asym(2, 2), sym(3, 2)>>, <<Link(n, 1, 0, "LOST_LINK"), asym(2, LinkBroken)>>}

MCNbrSets ==
  {(2 :> a) @@ (3 :> b) @@ (4 :> [status |-> "none", links |-> <<>>]) :
     a \in {[status |-> "SYM", links |-> l] : l \in LinkLists(2)},
     b \in {[status |-> st, links |-> <<Link(3, 1, 2, "SYM_LINK")>>] : st \in {"NOT_SYM", "SYM"}}
             \cup {[status |-> "none", links |-> <<>>]}}

------------------------------------------------------------------------------
(* Multicast                                                               *)

Parameters(mechanism, fanout, lq_level, capture, lossy) ==
  [mechanism |-> mechanism, fanout |-> fanout, lq_level |-> lq_level, capture |-> capture, lossy |-> lossy]

(* Node 4 is two hops from 1 by way of 3, and three by way of 2 and 5; 2   *)
(* and 3 hear each other, and 2 chose 5, not 3, to reach 4.                *)
Detour ==
  [etx |-> <<<<0, 2, 2, 0, 0>>, <<2, 0, 2, 0, 2>>, <<2, 2, 0, 2, 0>>, <<0, 0, 2, 0, 3>>, <<0, 2, 0, 3, 0>>>>,
   selected |-> <<{}, {1, 3, 5}, {1, 4}, {}, {2}>>, attached |-> <<>>]

(* Each node hears only the ones next to it.                               *)
Chain ==
  [etx |-> <<<<0, 2, 0, 0>>, <<2, 0, 2, 0>>, <<0, 2, 0, 2>>, <<0, 0, 2, 0>>>>,
   selected |-> <<{}, {1, 3}, {2, 4}, {}>>, attached |-> <<>>]

(* Nodes 1 and 3 share a network, and are two hops from each other.        *)
Loop ==
  [etx |-> <<<<0, 2, 0>>, <<2, 0, 2>>, <<0, 2, 0>>>>, selected |-> <<{}, {1, 3}, {}>>, attached |-> [a |-> {1, 3}]]

MCBmfSetups ==
  {Parameters("broadcast", f, l, TRUE, FALSE) @@ net : f \in {1, 3}, l \in {0, 2}, net \in {Detour, Chain}}
  \cup {Parameters("promiscuous", 1, l, FALSE, FALSE) @@ Detour : l \in {0, 2}}
  \cup {Parameters(m, 1, l, TRUE, TRUE) @@ Loop : m \in {"broadcast", "promiscuous"}, l \in {0, 2}}

MCBmfPackets == {[id |-> 1, from |-> 1, on |-> Tun, dst |-> Multicast],
                 [id |-> 2, from |-> Unknown, on |-> "a", dst |-> "a"],
                 [id |-> 3, from |-> 1, on |-> OlsrNet, dst |-> Multicast]}

(* A part that does not move is in one of its initial states.              *)
PathsInit ==
  /\ \/ part = "unicast" /\ bmf_mode = CHOOSE m \in BmfSetups : TRUE
     \/ part = "multicast" /\ cost = (CHOOSE c \in EdgeSets : TRUE) /\ nbr = CHOOSE b \in NbrSets : TRUE
  /\ Init
  /\ BmfInit

PathsNext ==
  \/ part = "unicast" /\ Next /\ UNCHANGED <<bmfVars, part>>
  \/ part = "multicast" /\ BmfNext /\ UNCHANGED <<vars, part>>

(* Packets in transit arrive.                                              *)
PathsSpec == PathsInit /\ [][PathsNext]_pathsVars /\ WF_bmfVars(part = "multicast" /\ BmfNext)
==============================================================================
