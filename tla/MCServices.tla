----------------------------- MODULE MCServices -----------------------------
(***************************************************************************)
(* The parts of one node that do not share state, side by side in one      *)
(* run: the variable part says which of them moves, the others stay in     *)
(* their initial states.                                                   *)
(***************************************************************************)
EXTENDS Neighborhood, MCMessageOutput, DuplicateSet, AvlTree, Secure

CONSTANTS addrA, addrB, addrC

VARIABLE part

servicesVars == <<neighborhoodVars, outVars, vars, avlVars, secureVars, part>>

(* A neighbor with the addresses addrA and addrB, addrA the main address,  *)
(* and one with the address addrC that is heard on two interfaces; or a    *)
(* neighbor with the addresses addrA and addrB that has addrB for its main *)
(* address some of the time.                                               *)
MCLinks == {<<addrA, 1>>, <<addrB, 1>>, <<addrC, 1>>, <<addrC, 2>>}
MCSteady == {<<<<addrA, 1>>, addrA>>, <<<<addrB, 1>>, addrA>>,
             <<<<addrC, 1>>, addrC>>, <<<<addrC, 2>>, addrC>>}
MCChanging == {<<<<addrA, 1>>, addrA>>, <<<<addrB, 1>>, addrA>>, <<<<addrB, 1>>, addrB>>}
MCSurroundings == {MCSteady, MCChanging}
MCMids   == {<<addrA, {addrB}>>, <<addrA, {}>>}

(* Eight keys and three nodes with an equal one.                           *)
MCAvlKey == <<1, 2, 3, 4, 5, 6, 7, 3, 3>>

Parts == {"neighbors", "output", "duplicates", "trees", "stamps"}

(* A part that does not move has one of its configurations.                *)
ServicesInit ==
  /\ part \in Parts
  /\ NeighborhoodInit /\ (part # "neighbors" => may_claim = MCSteady)
  /\ Init /\ AvlInit /\ secure_plugin_init
  /\ OutInit /\ (part # "output" => out_config = <<"v4", FALSE, 0>> /\ ~immediate_send_tc)

(* What all parts but p keep.                                              *)
OthersKeep(p) ==
  /\ part = p /\ UNCHANGED part
  /\ p # "neighbors" => UNCHANGED neighborhoodVars
  /\ p # "output" => UNCHANGED outVars
  /\ p # "duplicates" => UNCHANGED vars
  /\ p # "trees" => UNCHANGED avlVars
  /\ p # "stamps" => UNCHANGED secureVars

ServicesNext ==
  \/ OthersKeep("neighbors") /\ NeighborhoodNext
  \/ OthersKeep("output") /\ OutNext
  \/ OthersKeep("duplicates") /\ Next
  \/ OthersKeep("trees") /\ AvlNext
  \/ OthersKeep("stamps") /\ SecureNext

ServicesSpec == ServicesInit /\ [][ServicesNext]_servicesVars
==============================================================================
