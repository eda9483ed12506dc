------------------------------ MODULE MCReceived ------------------------------
(***************************************************************************)
(* What a node makes of the messages it receives, in one run: the two-hop  *)
(* neighbors and relays it takes from HELLO messages, and the advertised   *)
(* neighbors it takes from TC messages that come in parts.  The variable   *)
(* part says which of them moves.                                          *)
(***************************************************************************)
EXTENDS TwoHop, TcFlow, TLC

VARIABLE part

(* Neighbors "a", "b" and "c", of which "c" may be a two-hop neighbor,     *)
(* and the two-hop neighbor "x".                                           *)
MCNbrOrder == <<"a", "b", "c">>
MCTwoHops  == {"c", "x"}

MCHellos ==
  {("c" :> {1}) @@ ("x" :> {})} \cup {("c" :> {}) @@ ("x" :> v) : v \in {{}, {1}, {2, 3}}}

MCWills == ("a" :> {3, 7}) @@ ("b" :> {0}) @@ ("c" :> {3})

(* Originator 6 with up to four neighbors whose addresses differ in        *)
(* different bits, and this node, 1, with neighbor 6.                      *)
MCIfAddr == [n \in Adjacent |-> n]
PartSets == {{}, {2, 3}, {1, 2, 4, 5}}

receivedVars == <<twoHopVars, flowVars, part>>

(* The variables of the flow, when it is not there.                        *)
PartsAbsent ==
  /\ tc_tree = 0 /\ refcount = 0 /\ msg_seq = 0 /\ ansn = 0 /\ ignored = 0
  /\ err_seq = 0 /\ validity_timer = 0 /\ edge_gc_timer = 0 /\ edge_tree = 0
  /\ edge_ansn = 0 /\ linkquality = 0 /\ cost = 0 /\ edge_inv = 0
  /\ prefix_tree = 0 /\ hna_set = 0 /\ nbr = 0 /\ changes = 0 /\ adv = 0
  /\ local_ansn = 0 /\ seqno = 0 /\ prev_empty = 0 /\ empty_tc_timer = 0
  /\ flight = 0 /\ got = 0 /\ changed = 0 /\ restarted = 0 /\ sent = 0
  /\ lost = 0

ReceivedInit ==
  /\ part \in {"relays", "parts"}
  /\ Init /\ (part # "relays" => lq_level = 0)
  /\ IF part = "parts" THEN FlowInit ELSE PartsAbsent

ReceivedNext ==
  /\ UNCHANGED part
  /\ \/ part = "relays" /\ Next /\ UNCHANGED flowVars
     \/ part = "parts" /\ FlowNext /\ UNCHANGED twoHopVars

ReceivedSpec == ReceivedInit /\ [][ReceivedNext]_receivedVars

(* A set of neighbors that came in parts is in the database as a whole.    *)
PartsMakeWhole == part = "parts" => WholeSetExact

(* A late message does not bring back an older ANSN of the originator.     *)
AnsnNeverBack == [][part = "parts" => AnsnKept]_receivedVars
==============================================================================
