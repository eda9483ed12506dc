---------------------------- MODULE MCConvergence ----------------------------
(***************************************************************************)
(* Three systems that must get somewhere, side by side in one run: two     *)
(* nodes that sense their link, the flooding of a message, and the uplinks *)
(* of dyn_gw.  The variable part says which of them moves.                 *)
(***************************************************************************)
EXTENDS LinkSensing, Flooding, DynGw

VARIABLE part

convergenceVars == <<vars, floodVars, dynVars, part>>

(* Networks of five nodes: a ring, a diamond with a tail, also with a link *)
(* that is heard in one direction only, a line whose middle is Ethernet, a *)
(* segment with three nodes, and two nodes that reach two others over      *)
(* wireless links and Ethernet crosswise.                                  *)
Symmetric(G) == {<<n, m>> \in Routers \X Routers : {n, m} \in G}

Ring    == Symmetric({{1, 2}, {2, 3}, {3, 4}, {4, 5}, {5, 1}})
Diamond == Symmetric({{1, 2}, {1, 3}, {2, 4}, {3, 4}, {4, 5}})
Ends    == Symmetric({{1, 2}, {3, 4}, {4, 5}})
Around  == Symmetric({{1, 2}, {2, 3}, {4, 5}})
Cross   == Symmetric({{1, 2}, {2, 4}, {3, 5}, {4, 5}})

Setup(w, S, t, r) == [wlan |-> w, segments |-> S, ttl |-> t, hops |-> 0, redundant |-> r]

MCSetups ==
  {Setup(w, {}, 8, r) : w \in {Ring, Diamond, Diamond \cup {<<1, 4>>}}, r \in BOOLEAN}
    \cup {Setup(Ends, {{2, 3}}, t, FALSE) : t \in {1, 2, 8}}
    \cup {Setup(Around, {{1, 3, 4}}, 8, r) : r \in BOOLEAN}
    \cup {[Setup(Ends, {{2, 3}}, MAX_TTL, FALSE) EXCEPT !.hops = 1]}
    \cup {Setup(Cross, {{1, 4}, {2, 3}}, 8, FALSE)}

(* One group of two networks, with hosts to ping.                          *)
MCHnaGroups == <<<<1, 2>>>>

(* A part that does not move is in one of its initial states; of the       *)
(* flooding that is a network in which the message goes no further.        *)
ConvergenceInit ==
  /\ part \in {"links", "flooding", "uplinks"}
  /\ Init
  /\ FloodInit /\ (part # "flooding" => net.ttl = 1 /\ kind = "TC")
  /\ DynInit /\ (part # "uplinks" => route = {})

LinksStep(A) == part = "links" /\ A /\ UNCHANGED <<floodVars, dynVars, part>>
FloodStep(A) == part = "flooding" /\ A /\ UNCHANGED <<vars, dynVars, part>>
UplinkStep(A) == part = "uplinks" /\ A /\ UNCHANGED <<vars, floodVars, part>>

ConvergenceNext == LinksStep(Next) \/ FloodStep(FloodNext) \/ UplinkStep(DynNext)

(* The fairness of each part when it is the one that moves.                *)
ConvergenceFairness ==
  /\ WF_vars(part = "links" /\ Tick)
  /\ \A n \in Nodes : WF_vars(part = "links" /\ (HelloReceived(n) \/ HelloLost(n)))
  /\ WF_floodVars(part = "flooding" /\ FloodNext)
  /\ SF_dynVars(part = "uplinks" /\ update_routing(TRUE))
  /\ WF_dynVars(part = "uplinks" /\ (CopyChecked \/ olsr_event_doing_hna))
  /\ WF_dynVars(part = "uplinks" /\ (looped_checks \/ ProbeEnds))

ConvergenceSpec == ConvergenceInit /\ [][ConvergenceNext]_convergenceVars /\ ConvergenceFairness
==============================================================================
