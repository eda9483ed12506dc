---------------------------- MODULE GraphPlugins ----------------------------
(***************************************************************************)
(* The plugins dot_draw and pgraph: a viewer connects and is sent the      *)
(* graph of the network, at once and again at every change.  dot_draw has  *)
(* one viewer at a time and sends from a buffer, by a timer; pgraph opens  *)
(* its socket at the first change, takes the viewer that came last, and    *)
(* sends from the handler of the change, each line by itself.  A line of   *)
(* the graph stands for the lines of one table.                            *)
(***************************************************************************)
EXTENDS Naturals, Sequences, SequencesExt

CONSTANTS
  Viewers,          \* programs that connect (numbers above 0)
  ForeignViewers,   \* those that dot_draw's accept_ip keeps out
  GraphTables,      \* the tables, as they may be
  MaxGraphChanges   \* bound on the changes of the tables

NoViewer == 0

VARIABLES
  graph_plugin,      \* "dot_draw" or "pgraph"
  graph_tables,      \* neighbors, edges and networks, known and our own
  changes_graph,     \* which of neighborhood, topology, hna were flagged
  graph_changes,     \* how often they changed, bounded
  graph_socket,      \* the listening socket: "none", "listens", "broken"
  graph_connection,  \* outbuffer_socket, ipc_connection
  graph_buffer,      \* dot_draw's outbuffer
  graph_timer,       \* dot_draw's writetimer_entry
  viewer,            \* what each program does: "idle", "waits", "views", "gone"
  viewed,            \* history: the lines that reached it since it connected
  drawn              \* history: the tables printed for it since then

graphVars == <<graph_plugin, graph_tables, changes_graph, graph_changes, graph_socket, graph_connection,
               graph_buffer, graph_timer, viewer, viewed, drawn>>

GraphKinds == {"neighborhood", "topology", "hna"}

GraphInit ==
  /\ graph_plugin \in {"dot_draw", "pgraph"} /\ graph_tables \in GraphTables
  /\ changes_graph = {} /\ graph_changes = 0
  /\ graph_socket = IF graph_plugin = "dot_draw" THEN "listens" ELSE "none"
  /\ graph_connection = NoViewer /\ graph_buffer = <<>> /\ graph_timer = FALSE
  /\ viewer = [v \in Viewers |-> "idle"]
  /\ viewed = [v \in Viewers |-> <<>>] /\ drawn = [v \in Viewers |-> <<>>]

----------------------------------------------------------------------------
(* The lines of a graph.                                                   *)

\* To a neighbor: solid with the cost of the best link if it is symmetric.  The box is drawn
\* around our own node, once for every neighbor that is an MPR.
ipc_print_neigh_link(t) ==
  {[from |-> t.main, to |-> n.addr, cost |-> IF n.sym THEN n.cost ELSE 0, solid |-> n.sym, box |-> n.mpr]
     : n \in t.neighbors}
ipc_print_tc_link(t, edges) == {<<e.last, e.dest, e.cost>> : e \in edges}
ipc_print_net(t) == {<<h.gateway, h.net>> : h \in t.hna} \cup {<<t.main, n>> : n \in t.own_nets}

DotGraph(t) == <<"digraph", ipc_print_neigh_link(t), ipc_print_tc_link(t, {e \in t.edges : e.inv}),
                 ipc_print_net(t), "}">>
PGraph(t) == <<{<<t.main, n.addr>> : n \in t.neighbors}, {<<e.last, e.dest>> : e \in t.edges}, "end">>

Lines(t) == IF graph_plugin = "dot_draw" THEN DotGraph(t) ELSE PGraph(t)
Greeting == IF graph_plugin = "dot_draw" THEN <<>> ELSE <<"add node">>

----------------------------------------------------------------------------
(* dot_draw                                                                *)

\* A viewer is taken unless there is one, or it is foreign; the first graph goes to the buffer.
DotAccept(v) ==
  /\ graph_plugin = "dot_draw" /\ viewer[v] = "waits"
  /\ IF graph_connection # NoViewer \/ v \in ForeignViewers
     THEN /\ viewer' = [viewer EXCEPT ![v] = "idle"]
          /\ UNCHANGED <<graph_connection, graph_buffer, graph_timer, drawn, viewed>>
     ELSE /\ viewer' = [viewer EXCEPT ![v] = "views"]
          /\ graph_connection' = v /\ graph_buffer' = Lines(graph_tables) /\ graph_timer' = TRUE
          /\ drawn' = [drawn EXCEPT ![v] = <<graph_tables>>] /\ viewed' = [viewed EXCEPT ![v] = <<>>]
  /\ UNCHANGED <<graph_plugin, graph_tables, changes_graph, graph_changes, graph_socket>>

\* A mutant: what was sent stays in the buffer.
PullNothing(n) == graph_buffer
\* abuf_pull
Pulled(n) == SubSeq(graph_buffer, n + 1, Len(graph_buffer))

\* The timer: the socket takes a part of the buffer, or the viewer has gone.
dotdraw_write_data ==
  LET v == graph_connection IN
  /\ graph_plugin = "dot_draw" /\ graph_timer
  /\ \/ /\ viewer[v] = "views"
        /\ \E n \in 1..Len(graph_buffer) :
             /\ viewed' = [viewed EXCEPT ![v] = @ \o SubSeq(graph_buffer, 1, n)]
             /\ graph_buffer' = Pulled(n)
        /\ UNCHANGED <<graph_connection, graph_timer, viewer, drawn>>
     \/ /\ viewer[v] = "gone" /\ graph_buffer # <<>>
        /\ graph_connection' = NoViewer /\ graph_buffer' = <<>> /\ graph_timer' = FALSE
        /\ viewer' = [viewer EXCEPT ![v] = "idle"]
        /\ viewed' = [viewed EXCEPT ![v] = <<>>] /\ drawn' = [drawn EXCEPT ![v] = <<>>]
  /\ UNCHANGED <<graph_plugin, graph_tables, changes_graph, graph_changes, graph_socket>>

----------------------------------------------------------------------------
(* pgraph                                                                  *)

\* ipc_send, line after line: the first that fails ends the connection, the others go nowhere.
Sent(v, lines) ==
  IF v # NoViewer /\ viewer[v] = "views"
  THEN /\ viewed' = [viewed EXCEPT ![v] = @ \o lines] /\ UNCHANGED <<graph_connection, viewer>>
  ELSE /\ graph_connection' = NoViewer /\ UNCHANGED viewed
       /\ viewer' = IF v = NoViewer THEN viewer ELSE [viewer EXCEPT ![v] = "idle"]

\* The viewer that comes last is the viewer; the one before keeps an open, silent connection.
PGraphAccept(v) ==
  /\ graph_plugin = "pgraph" /\ graph_socket = "listens" /\ viewer[v] = "waits"
  /\ graph_connection' = v
  /\ viewer' = [w \in Viewers |-> IF w = v THEN "views" ELSE IF w = graph_connection THEN "forgotten" ELSE viewer[w]]
  /\ viewed' = [viewed EXCEPT ![v] = Greeting \o Lines(graph_tables)]
  /\ drawn' = [drawn EXCEPT ![v] = <<graph_tables>>]
  /\ UNCHANGED <<graph_plugin, graph_tables, changes_graph, graph_changes, graph_socket, graph_buffer, graph_timer>>

----------------------------------------------------------------------------
\* The daemon tells of changes (olsr_process_changes calls the registered functions).
pcf_event ==
  LET v == graph_connection
      draws == changes_graph \cap (IF graph_plugin = "dot_draw" THEN GraphKinds ELSE {"neighborhood", "topology"}) # {}
      printed == draws /\ v # NoViewer
  IN
  /\ changes_graph # {} /\ changes_graph' = {}
  /\ drawn' = IF printed /\ (graph_plugin = "pgraph" => viewer[v] = "views")
              THEN [drawn EXCEPT ![v] = Append(@, graph_tables)] ELSE drawn
  /\ IF graph_plugin = "dot_draw"
     THEN /\ graph_buffer' = IF printed THEN graph_buffer \o Lines(graph_tables) ELSE graph_buffer
          /\ UNCHANGED <<graph_connection, viewer, viewed, graph_socket>>
     ELSE /\ IF printed THEN Sent(v, Lines(graph_tables)) ELSE UNCHANGED <<graph_connection, viewer, viewed>>
          /\ graph_socket' \in IF graph_socket = "none" THEN {"none", "listens", "broken"} ELSE {graph_socket}
          /\ UNCHANGED graph_buffer
  /\ UNCHANGED <<graph_plugin, graph_tables, graph_changes, graph_timer>>

TablesMove(t) ==
  /\ graph_changes < MaxGraphChanges /\ t # graph_tables
  /\ graph_tables' = t /\ graph_changes' = graph_changes + 1
  /\ changes_graph' = changes_graph \cup
       {k \in GraphKinds : \/ k = "neighborhood" /\ t.neighbors # graph_tables.neighbors
                           \/ k = "topology" /\ t.edges # graph_tables.edges
                           \/ k = "hna" /\ t.hna # graph_tables.hna}
  /\ UNCHANGED <<graph_plugin, graph_socket, graph_connection, graph_buffer, graph_timer, viewer, viewed, drawn>>

\* The programs connect and go away.
ViewerDoes(v) ==
  /\ \/ viewer[v] = "idle" /\ graph_socket = "listens" /\ viewer' = [viewer EXCEPT ![v] = "waits"]
     \/ viewer[v] = "views" /\ viewer' = [viewer EXCEPT ![v] = "gone"]
  /\ UNCHANGED <<graph_plugin, graph_tables, changes_graph, graph_changes, graph_socket, graph_connection,
                 graph_buffer, graph_timer, viewed, drawn>>

GraphNext ==
  \/ \E v \in Viewers : DotAccept(v) \/ PGraphAccept(v) \/ ViewerDoes(v)
  \/ dotdraw_write_data \/ pcf_event
  \/ \E t \in GraphTables : TablesMove(t)

----------------------------------------------------------------------------
(* What reaches a viewer, with what is still buffered for it, are whole    *)
(* graphs, each of the tables as they were at one time; once the changes   *)
(* are told, the last of them shows the tables as they are, for dot_draw's *)
(* viewer all of them and for pgraph's the two it draws.                   *)
GraphsWhole ==
  LET v == graph_connection
      whole(ts) == Greeting \o FlattenSeq([i \in DOMAIN ts |-> Lines(ts[i])])
  IN  /\ graph_plugin = "dot_draw" => (graph_timer <=> v # NoViewer)
      /\ v # NoViewer /\ viewer[v] = "views" =>
           /\ viewed[v] \o graph_buffer = whole(drawn[v])
           /\ changes_graph = {} => Lines(Last(drawn[v])) = Lines(graph_tables)
=============================================================================
