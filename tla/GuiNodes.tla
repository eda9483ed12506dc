------------------------------ MODULE GuiNodes ------------------------------
(***************************************************************************)
(* What the graphical front end holds and shows (gui/linux-gtk): the nodes *)
(* that the OLSR messages it is sent name, with their aliases, networks    *)
(* and multipoint relays and the time they are held (nodes.c), the list of *)
(* nodes in the window (interface.c), and the last packets (packet.c).     *)
(* Time is in seconds, the validity time of a message in half seconds.     *)
(***************************************************************************)
EXTENDS Naturals, Sequences, SequencesExt, FiniteSets

CONSTANTS
  GuiAddresses,  \* addresses (numbers)
  GuiMain,       \* the daemon's main address, shown as "local"
  GuiMessages,   \* messages: type, from, vtime and a sequence of items
  MAXPACKS,      \* packets kept
  SweepDelay,    \* calls of time_out_nodes that do nothing
  MaxGuiTime     \* bound on the time

VARIABLES
  gui_nodes,      \* nodes: a sequence, the newest first
  node_list,      \* the rows of the window: address, what they say of aliases and networks
  timeouts,
  gui_now,
  freeze_packets,
  gui_packets,    \* the buffer of packets, the newest first
  packet_list     \* the rows of the packet list, the newest first

guiVars == <<gui_nodes, node_list, timeouts, gui_now, freeze_packets, gui_packets, packet_list>>

GuiInit ==
  /\ gui_nodes = <<>> /\ node_list = <<>> /\ timeouts = SweepDelay /\ gui_now = 0
  /\ freeze_packets = TRUE /\ gui_packets = <<>> /\ packet_list = <<>>

----------------------------------------------------------------------------
(* The window's list of nodes.                                             *)

RowText(a) == IF a = GuiMain THEN "local" ELSE "address"
RowOf(rows, a) == {i \in DOMAIN rows : rows[i].addr = a}

\* The row of the node is written, or a row is appended.
update_nodes_list(rows, n, mid, hna) ==
  LET row == [addr |-> n, mid |-> mid, hna |-> hna]
  IN  IF RowOf(rows, n) = {} THEN Append(rows, row)
      ELSE [rows EXCEPT ![CHOOSE i \in RowOf(rows, n) : TRUE] = row]

\* The row is looked for by the text of the address: the one that says "local" is never found.
remove_nodes_list(rows, a) ==
  IF RowText(a) = "local" THEN rows ELSE SelectSeq(rows, LAMBDA r : r.addr # a)

----------------------------------------------------------------------------
(* The nodes.  G is the front end's state while a message is processed.    *)

G0 == [nodes |-> gui_nodes, rows |-> node_list]
GuiBecomes(G) == gui_nodes' = G.nodes /\ node_list' = G.rows

NodeAt(G, a) == {i \in DOMAIN G.nodes : G.nodes[i].addr = a}
The(is) == CHOOSE i \in is : \A j \in is : i <= j

\* The validity time, cut to whole seconds.
HoldUntil(vtime) == gui_now + vtime \div 2

Shown(G, i) ==
  LET n == G.nodes[i] IN [G EXCEPT !.rows = update_nodes_list(@, n.addr, n.mid # {}, n.hna # {})]

update_timer_node(G, a, vtime) ==
  IF NodeAt(G, a) = {} THEN G
  ELSE LET i == The(NodeAt(G, a))
           H == [G EXCEPT !.nodes[i].timer = HoldUntil(vtime)]
       IN  IF H.nodes[i].display THEN Shown(H, i) ELSE H

\* The entry is the newest, with empty lists; its time is set by the search for it.
insert_node(G, a, display, vtime) ==
  LET new == [addr |-> a, timer |-> 0, mid |-> {}, hna |-> {}, mpr |-> <<>>, display |-> display]
  IN  update_timer_node([G EXCEPT !.nodes = <<new>> \o @], a, vtime)

\* The first node that has the address, or has it as an alias, lives longer; else there is a new
\* node.  Its row is written from the local copy, whose lists are not set up: they read as not empty.
add_node(G, a, vtime) ==
  LET at == {i \in DOMAIN G.nodes : G.nodes[i].addr = a \/ a \in G.nodes[i].mid}
      H == insert_node(G, a, TRUE, vtime)
  IN  IF at # {} THEN [G EXCEPT !.nodes[The(at)].timer = HoldUntil(vtime)]
      ELSE [H EXCEPT !.rows = update_nodes_list(@, a, TRUE, TRUE)]

\* update_timer_mpr and add_mpr: a relay of a node that is known, with its own time.
update_timer_mpr(G, a, mpr, vtime) ==
  LET i == The(NodeAt(G, a))
      rest == SelectSeq(G.nodes[i].mpr, LAMBDA r : r[1] # mpr)
      H == [G EXCEPT !.nodes[i].mpr = Append(rest, <<mpr, HoldUntil(vtime)>>)]
  IN  CASE NodeAt(G, a) = {} -> G
        [] NodeAt(G, a) # {} /\ Len(rest) # Len(G.nodes[i].mpr) -> H
        [] OTHER -> Shown(H, i)

remove_node(G, i) ==
  [nodes |-> RemoveAt(G.nodes, i), rows |-> remove_nodes_list(G.rows, G.nodes[i].addr)]
\* A mutant: the node goes, its row stays.
remove_node_addr_only(G, a) ==
  IF NodeAt(G, a) = {} THEN G ELSE [G EXCEPT !.nodes = RemoveAt(@, The(NodeAt(G, a)))]
remove_node_addr(G, a) == IF NodeAt(G, a) = {} THEN G ELSE remove_node(G, The(NodeAt(G, a)))

\* An alias that is a node is a node no more, if the node whose alias it is was known already.
add_mid_node(G, a, alias, vtime) ==
  LET i == The(NodeAt(G, a))
      H == remove_node_addr([G EXCEPT !.nodes[i].mid = @ \cup {alias}], alias)
      N == insert_node(G, a, FALSE, vtime)
      M == [N EXCEPT !.nodes[1].mid = {alias}]
  IN  CASE NodeAt(G, a) = {} -> Shown(M, 1)
        [] NodeAt(G, a) # {} /\ alias \in G.nodes[i].mid -> G
        [] OTHER -> Shown(H, The(NodeAt(H, a)))

add_hna_node(G, a, net, vtime) ==
  LET T == update_timer_node(G, a, vtime)
      i == The(NodeAt(T, a))
      N == insert_node(T, a, FALSE, vtime)
      M == [N EXCEPT !.nodes[1].hna = {net}]
  IN  CASE NodeAt(T, a) = {} -> Shown(M, 1)
        [] NodeAt(T, a) # {} /\ net \in T.nodes[i].hna -> T
        [] OTHER -> Shown([T EXCEPT !.nodes[i].hna = @ \cup {net}], i)

----------------------------------------------------------------------------
(* The messages.                                                           *)

Heard(G, m) ==
  IF NodeAt(G, m.from) # {} THEN update_timer_node(G, m.from, m.vtime) ELSE add_node(G, m.from, m.vtime)

\* Items: neighbors, those that are the sender's relays marked.
process_hello(G, m) ==
  LET item(H, x) == add_node(IF x.mpr THEN update_timer_mpr(H, x.addr, m.from, m.vtime) ELSE H, x.addr, m.vtime)
  IN  FoldLeft(item, Heard(G, m), m.items)
process_tc(G, m) ==
  LET item(H, x) == update_timer_mpr(add_node(H, x.addr, m.vtime), x.addr, m.from, m.vtime)
  IN  FoldLeft(item, Heard(G, m), m.items)
process_mid(G, m) ==
  LET item(H, x) == add_mid_node(H, m.from, x.addr, m.vtime) IN FoldLeft(item, G, m.items)
process_hna(G, m) ==
  LET item(H, x) == add_hna_node(H, m.from, x.addr, m.vtime) IN FoldLeft(item, G, m.items)

\* The newest first, the oldest dropped once there are MAXPACKS.
add_packet_to_buffer(ps, m) ==
  IF Len(ps) < MAXPACKS THEN <<m>> \o ps ELSE <<m>> \o Front(ps)
packet_list_add(rows, m) ==
  <<m.type>> \o (IF Len(rows) >= MAXPACKS THEN RemoveAt(rows, MAXPACKS) ELSE rows)

ipc_evaluate_message(m) ==
  /\ GuiBecomes(CASE m.type = "HELLO" -> process_hello(G0, m)
                  [] m.type = "TC" -> process_tc(G0, m)
                  [] m.type = "MID" -> process_mid(G0, m)
                  [] m.type = "HNA" -> process_hna(G0, m))
  /\ gui_packets' = IF freeze_packets THEN gui_packets ELSE add_packet_to_buffer(gui_packets, m)
  /\ packet_list' = IF freeze_packets THEN packet_list ELSE packet_list_add(packet_list, m)
  /\ UNCHANGED <<timeouts, gui_now, freeze_packets>>

packet_callback ==
  /\ freeze_packets' = ~freeze_packets
  /\ UNCHANGED <<gui_nodes, node_list, timeouts, gui_now, gui_packets, packet_list>>

----------------------------------------------------------------------------
(* Time.                                                                   *)

\* Nodes that were not heard of go, one after the other from the newest.
time_out_nodes ==
  LET RECURSIVE sweep(_, _)
      sweep(G, i) == IF i > Len(G.nodes) THEN G
                     ELSE IF G.nodes[i].timer < gui_now THEN sweep(remove_node(G, i), i)
                     ELSE sweep(G, i + 1)
  IN
  /\ timeouts' = IF timeouts > 0 THEN timeouts - 1 ELSE 0
  /\ GuiBecomes(IF timeouts > 0 THEN G0 ELSE sweep(G0, 1))
  /\ UNCHANGED <<gui_now, freeze_packets, gui_packets, packet_list>>

\* The user selects a row: the relays of its node that were not heard of go.
node_selection(a) ==
  /\ RowOf(node_list, a) # {} /\ NodeAt(G0, a) # {}
  /\ gui_nodes' = [gui_nodes EXCEPT ![The(NodeAt(G0, a))].mpr = SelectSeq(@, LAMBDA r : r[2] >= gui_now)]
  /\ UNCHANGED <<node_list, timeouts, gui_now, freeze_packets, gui_packets, packet_list>>

GuiTick ==
  /\ gui_now < MaxGuiTime /\ gui_now' = gui_now + 1
  /\ UNCHANGED <<gui_nodes, node_list, timeouts, freeze_packets, gui_packets, packet_list>>

GuiNext ==
  \/ \E m \in GuiMessages : ipc_evaluate_message(m)
  \/ \E a \in GuiAddresses : node_selection(a)
  \/ packet_callback \/ time_out_nodes \/ GuiTick

----------------------------------------------------------------------------
(* The window shows every node that is held once, and no other (but the    *)
(* row of the daemon itself, which stays when its node times out); it      *)
(* never says that a node has no alias or no network when it has one; and  *)
(* the row of a packet that is selected has that packet's place in the     *)
(* buffer.                                                                 *)
GuiShowsNodes ==
  LET held == {gui_nodes[i].addr : i \in DOMAIN gui_nodes}
      rows == {node_list[i].addr : i \in DOMAIN node_list}
  IN  /\ Cardinality(held) = Len(gui_nodes) /\ Cardinality(rows) = Len(node_list)
      /\ held \subseteq rows /\ rows \subseteq held \cup {GuiMain}
      /\ \A n \in ToSet(gui_nodes), r \in ToSet(node_list) :
           n.addr = r.addr => /\ n.mid # {} => r.mid
                              /\ n.hna # {} => r.hna
      /\ packet_list = [i \in DOMAIN gui_packets |-> gui_packets[i].type]
=============================================================================
