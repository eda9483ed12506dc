------------------------------- MODULE MCTcSet -------------------------------
(***************************************************************************)
(* The database under any TC messages of a small set, from this node's     *)
(* neighbors and beyond, in any order.                                     *)
(***************************************************************************)
EXTENDS TcSet

CONSTANTS Numbers,   \* pairs of sequence number and ANSN in the messages
          Borders,   \* pairs of border flags
          Lists      \* the addresses of a message

ASSUME MessagesAssumption == Numbers \subseteq Seqnos \X Seqnos /\ Lists \subseteq SUBSET (Nodes \cup Denied)

PlainIfAddr == [n \in Adjacent |-> n]

ClosedOrOpen == {<<NoBorder, NoBorder>>, <<OpenBorder, OpenBorder>>}
TwoNumbers   == {<<0, 0>>, <<1, 1>>}
SomeLists    == {{}, {2}, {3}, {1, 2}, {1, 3}, {0, 2}}

AnyMessage ==
  {[orig |-> o, seq |-> s[1], ansn |-> s[2], dests |-> D, first |-> x, last |-> y,
    lower |-> b[1], upper |-> b[2], q |-> q] :
     o \in Others, s \in Numbers, D \in Lists, x \in Nodes \cup Denied, y \in Nodes \cup Denied,
     b \in Borders, q \in Qualities}

(* The addresses are read in their order, up to a denied one: its quality  *)
(* is not skipped (tc_set.c:645) and is read as the next address.          *)
AsRead(m) ==
  IF m.dests = {} THEN m.first = Self /\ m.last = Self
  ELSE IF m.dests \cap Denied = {} THEN m.first = Min(m.dests) /\ m.last = Max(m.dests)
  ELSE {m.first, m.last} \subseteq m.dests

Messages == {m \in AnyMessage : m.orig \notin m.dests /\ AsRead(m)}

InputTc == \E m \in Messages : olsr_input_tc(m)

Next == InputTc \/ Environment

Spec == olsr_init_tc /\ [][Next]_vars
==============================================================================
