----------------------------- MODULE MCRoutes -----------------------------
(***************************************************************************)
(* Two neighbours 1 and 2, each on an interface of its own, that announce  *)
(* their own addresses and, both, the default route.                       *)
(***************************************************************************)
EXTENDS Routes

CONSTANTS a1, a2, net, none

MCDsts == {a1, a2, net}
MCAdvertised == {<<1, a1>>, <<2, a2>>, <<1, net>>, <<2, net>>}

via1 == [gateway |-> a1, iif |-> 1]
via2 == [gateway |-> a2, iif |-> 2]
Direct(nh, c) == [nexthop |-> nh, hops |-> 1, cost |-> c]
Behind(nh, c) == [nexthop |-> nh, hops |-> 2, cost |-> c]

MCResults == {Direct(via1, 1), Direct(via1, 3), Direct(via1, 6), Direct(via2, 2), Behind(via1, 4)}

Topology(r1, r2) == [o \in {1, 2} |-> IF o = 1 THEN r1 ELSE r2]

(* An originator behind a neighbour needs the neighbour to be direct.      *)
OneTopology   == {Topology(Direct(via1, 1), Behind(via1, 4))}
TwoTopologies == OneTopology \cup {Topology(none, Direct(via2, 2))}

MCTopologies ==
  TwoTopologies \cup
  {Topology(Direct(via1, 3), Direct(via2, 2)), Topology(Direct(via1, 6), Direct(via2, 2))}

(* IPv4 with the flat metric, and with interfaces that come and go; IPv6   *)
(* with hop counts; gateways outside of the subnets; kernels that keep the *)
(* routes of an interface without carrier, that do not get requests to add *)
(* or to delete, that do not answer, and that refuse routes; IPv4 with hop counts; IPv6 with the flat metric; an      *)
(* address that is link-local.                                             *)
IPv4 == [flat |-> TRUE, delfirst |-> FALSE, onlink |-> {a1, a2}, answers |-> {"ok"}, deletes |-> {"ok"},
         ifs |-> {}, flushes |-> TRUE, linklocal |-> {}, topologies |-> MCTopologies]
Small == [IPv4 EXCEPT !.topologies = TwoTopologies]
Still == [IPv4 EXCEPT !.topologies = OneTopology]

MCSetups ==
  {IPv4, [Small EXCEPT !.ifs = {1}], [IPv4 EXCEPT !.flat = FALSE, !.delfirst = TRUE],
   [Still EXCEPT !.onlink = {}], [Small EXCEPT !.ifs = {1}, !.flushes = FALSE],
   [Still EXCEPT !.answers = {"ok", "lost"}], [Small EXCEPT !.flat = FALSE],
   [Still EXCEPT !.answers = {"ok", "refused"}], [Still EXCEPT !.deletes = {"ok", "lost"}],
   [Still EXCEPT !.answers = {"ok", "unheard"}, !.onlink = {}],
   [Small EXCEPT !.delfirst = TRUE, !.onlink = {a2}],
   [Still EXCEPT !.linklocal = {a2}, !.ifs = {1}]}
==============================================================================
