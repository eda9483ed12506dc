------------------------------ MODULE FrontEnd ------------------------------
(***************************************************************************)
(* The daemon's connection to the graphical front end (ipc_frontend.c) and *)
(* the front end's side of it (gui/linux-gtk, ipc.c and its route list).   *)
(* The daemon sends whole messages: what the network is, its routes, every *)
(* OLSR message it parses, and, where the kernel's routes are set by       *)
(* win32/kernel_routes.c, every change of a route; kernel_routes_nl.c, the *)
(* one compiled on Linux, does not tell of changes.  The front end polls   *)
(* its socket and cuts what it reads into messages again.  A word stands   *)
(* for four bytes: every message is a number of them.                      *)
(***************************************************************************)
EXTENDS Naturals, Sequences, SequencesExt, FiniteSets

CONSTANTS
  FrontEnds,        \* front ends that connect (numbers above 0)
  ForeignFrontEnds, \* those whose address ipc_check_allowed_ip refuses
  FeDests,          \* destinations (numbers)
  FeGateways,       \* next hops (numbers above 0)
  BuffWords,        \* BUFFSIZE, in words
  RouteWords,       \* length of a route message
  NetWords,         \* length of the network message
  OlsrWords,        \* lengths of the OLSR messages that are forwarded
  MaxFeMessages     \* bound on the messages sent to one front end

\* Every message fits the buffer of the front end.
ASSUME MessagesFit == \A n \in OlsrWords \cup {RouteWords, NetWords} : n \in 1..BuffWords

NoFrontEnd == 0
NoRoute == 0

VARIABLES
  ipc_conn,      \* the connection, NoFrontEnd if closed
  ipc_active,
  fe_tells,      \* does the build tell of changes of routes?
  fe_rt,         \* rt_best: the best gateway to each destination or NoRoute
  fe_nexthop,    \* rt_nexthop: the gateway the kernel took last
  fe_kernel,     \* the routes in the kernel
  fe_state,      \* of each front end: "idle", "waits", "connected", "torn", "gone"
  fe_sent,       \* history: the messages sent to it
  fe_stream,     \* words on their way to it: <<message number, position>>
  fe_done,       \* history: the messages it evaluated
  route_list,    \* its rows: <<destination, gateway>>
  fe_listed,     \* history: the rows the table gave at the last connection
  fe_early       \* history: those of them that the kernel did not have

routeVars == <<fe_tells, fe_rt, fe_nexthop, fe_kernel>>
viewVars == <<fe_sent, fe_stream, fe_done, route_list>>
listVars == <<fe_listed, fe_early>>
feVars == <<ipc_conn, ipc_active, routeVars, fe_state, viewVars, listVars>>

FrontEndInit ==
  /\ ipc_conn = NoFrontEnd /\ ipc_active = FALSE
  /\ fe_tells \in BOOLEAN
  /\ fe_rt = [d \in FeDests |-> NoRoute] /\ fe_nexthop = fe_rt /\ fe_kernel = fe_rt
  /\ fe_state = [c \in FrontEnds |-> "idle"]
  /\ fe_sent = [c \in FrontEnds |-> <<>>] /\ fe_stream = fe_sent /\ fe_done = fe_sent /\ route_list = fe_sent
  /\ fe_listed = <<>> /\ fe_early = {}

----------------------------------------------------------------------------
(* The daemon's side.  W is the connection while a handler sends.          *)

W0 == [conn |-> ipc_conn, active |-> ipc_active, out |-> <<>>]

\* send(): it fails on a closed connection and when the front end has gone.
Send(W, m) ==
  CASE ~W.active -> W
    [] W.active /\ W.conn # NoFrontEnd /\ fe_state[W.conn] \in {"connected", "waits", "torn"} -> [W EXCEPT !.out = Append(@, m)]
    [] OTHER -> [W EXCEPT !.conn = NoFrontEnd, !.active = FALSE]

ipc_route_send_rtentry(W, d, g, add) == Send(W, [type |-> "route", add |-> add, dst |-> d, gw |-> g, words |-> RouteWords])
ipc_send_net_info(W) == Send(W, [type |-> "net", words |-> NetWords])
\* The entries of the routing table, with the gateways the kernel took last, if it took any.
Listed ==
  LET ds == SetToSortSeq({d \in FeDests : fe_rt[d] # NoRoute}, <)
  IN  [i \in DOMAIN ds |-> <<ds[i], fe_nexthop[ds[i]]>>]
ipc_send_all_routes(W) ==
  FoldLeft(LAMBDA V, r : ipc_route_send_rtentry(V, r[1], r[2], TRUE), W, Listed)

Words(from, ms) == FlattenSeq([k \in DOMAIN ms |-> [i \in 1..ms[k].words |-> <<from + k, i>>]])

Sends(W) ==
  LET c == W.conn IN
  /\ ipc_conn' = W.conn /\ ipc_active' = W.active
  /\ IF W.out = <<>> \/ c = NoFrontEnd \/ fe_state[c] = "torn" THEN UNCHANGED <<fe_sent, fe_stream>>
     ELSE /\ Len(fe_sent[c]) + Len(W.out) <= MaxFeMessages
          /\ fe_sent' = [fe_sent EXCEPT ![c] = @ \o W.out]
          /\ fe_stream' = [fe_stream EXCEPT ![c] = @ \o Words(Len(fe_sent[c]), W.out)]

\* A front end is accepted: it is the connection from now on, whoever was it before.  A foreign
\* one is closed, and the connection with it, but ipc_active stays.
ipc_accept(c) ==
  LET W == ipc_send_all_routes(ipc_send_net_info([conn |-> c, active |-> TRUE, out |-> <<>>])) IN
  /\ fe_state[c] = "waits"
  /\ IF c \in ForeignFrontEnds
     THEN /\ ipc_conn' = NoFrontEnd /\ fe_state' = [fe_state EXCEPT ![c] = "gone"]
          /\ UNCHANGED <<ipc_active, fe_sent, fe_stream, listVars>>
     ELSE /\ Sends(W) /\ fe_state' = [fe_state EXCEPT ![c] = "connected"]
          /\ fe_listed' = Listed
          /\ fe_early' = {d \in FeDests : fe_rt[d] # NoRoute /\ fe_kernel[d] = NoRoute}
  /\ UNCHANGED <<routeVars, fe_done, route_list>>

\* The promiscuous parser: every message parsed goes to the front end.
frontend_msgparser(n) ==
  /\ Sends(Send(W0, [type |-> "olsr", words |-> n]))
  /\ UNCHANGED <<routeVars, fe_state, fe_done, route_list, listVars>>

\* Only what the kernel did is told of: it has no route to delete, or refuses to add one.
olsr_ioctl_del_route(W, d) ==
  IF fe_kernel[d] = NoRoute THEN W ELSE ipc_route_send_rtentry(W, d, NoRoute, FALSE)
olsr_ioctl_add_route(W, d, g, taken) ==
  IF g = NoRoute \/ ~taken THEN W ELSE ipc_route_send_rtentry(W, d, g, TRUE)

\* The best gateway to d changes to g, and back to the one the kernel has: nothing is done then.
\* Otherwise win32 deletes the old route and adds the new one, netlink replaces it.
RouteChanges(d, g, taken) ==
  /\ g # fe_rt[d] \/ g # fe_nexthop[d]
  /\ fe_rt' = [fe_rt EXCEPT ![d] = g]
  /\ IF g = fe_nexthop[d] /\ g # NoRoute THEN UNCHANGED <<fe_nexthop, fe_kernel, ipc_conn, ipc_active, fe_sent, fe_stream>>
     ELSE /\ fe_nexthop' = [fe_nexthop EXCEPT ![d] = IF taken \/ g = NoRoute THEN g ELSE @]
          /\ fe_kernel' = [fe_kernel EXCEPT ![d] = IF taken \/ g = NoRoute THEN g ELSE IF fe_tells THEN NoRoute ELSE @]
          /\ Sends(IF fe_tells THEN olsr_ioctl_add_route(olsr_ioctl_del_route(W0, d), d, g, taken) ELSE W0)
  /\ UNCHANGED <<fe_tells, fe_state, fe_done, route_list, listVars>>

----------------------------------------------------------------------------
(* The front end's side.                                                   *)

\* The first row of the destination.
route_list_del(rows, d) ==
  LET at == {i \in DOMAIN rows : rows[i][1] = d}
  IN  IF at = {} THEN rows ELSE RemoveAt(rows, CHOOSE i \in at : \A j \in at : i <= j)
route_list_add(rows, d, g) == Append(rows, <<d, g>>)

ipc_eval_route_packet(rows, m) ==
  IF m.add THEN route_list_add(rows, m.dst, m.gw) ELSE route_list_del(rows, m.dst)

Evaluated(rows, ms) ==
  FoldLeft(LAMBDA r, m : IF m.type = "route" THEN ipc_eval_route_packet(r, m) ELSE r, rows, ms)

\* Whether the buffer begins with the whole of the message whose header it begins with.
WholeAt(buf, n) == n <= Len(buf) /\ \A i \in 1..n : buf[i] = <<buf[1][1], i>>

\* The messages in the buffer, one after the other.  If the last is cut its rest is fetched by a
\* second recv, which gets k of the words in rest, or what it asks for.  The result: the numbers of
\* the messages (0 for one that is not whole), and what is left to read.
RECURSIVE Chomp(_, _, _, _)
Chomp(c, buf, rest, k) ==
  LET n == fe_sent[c][buf[1][1]].words
      me == IF WholeAt(buf, n) THEN buf[1][1] ELSE 0
  IN  IF n >= Len(buf) THEN [msgs |-> <<me>>, rest |-> rest]
      ELSE LET tail == SubSeq(buf, n + 1, Len(buf))
               m == fe_sent[c][tail[1][1]].words
               more == m - Len(tail)
               got == IF more <= k THEN more ELSE k
           IN  IF m > Len(tail)
               THEN [msgs |-> <<me, IF WholeAt(tail \o SubSeq(rest, 1, got), m) THEN tail[1][1] ELSE 0>>,
                     rest |-> SubSeq(rest, got + 1, Len(rest))]
               ELSE LET R == Chomp(c, tail, rest, k) IN [R EXCEPT !.msgs = <<me>> \o @]

\* The timer of the front end: recv gets n words, as many as there are or fewer.  A message that is
\* cut short is evaluated with what the buffer held before, and its rest taken for the next one:
\* from then on the front end is torn, and what it shows is anything.
ipc_read(c, n, k) ==
  LET s == fe_stream[c]
      R == Chomp(c, SubSeq(s, 1, n), SubSeq(s, n + 1, Len(s)), k)
      torn == Contains(R.msgs, 0)
      ms == [i \in DOMAIN R.msgs |-> fe_sent[c][R.msgs[i]]]
  IN
  /\ fe_state[c] = "connected" /\ n \in 1..Len(s) /\ k \in 0..Len(s) - n
  /\ fe_state' = IF torn THEN [fe_state EXCEPT ![c] = "torn"] ELSE fe_state
  /\ fe_sent' = IF torn THEN [fe_sent EXCEPT ![c] = <<>>] ELSE fe_sent
  /\ fe_stream' = [fe_stream EXCEPT ![c] = IF torn THEN <<>> ELSE R.rest]
  /\ fe_done' = [fe_done EXCEPT ![c] = IF torn THEN <<>> ELSE @ \o R.msgs]
  /\ route_list' = [route_list EXCEPT ![c] = IF torn THEN <<>> ELSE Evaluated(@, ms)]
  /\ UNCHANGED <<ipc_conn, ipc_active, routeVars, listVars>>

\* It starts, is shut down, and may be started again, with empty lists.
ipc_connect(c) ==
  /\ fe_state[c] = "idle" /\ fe_state' = [fe_state EXCEPT ![c] = "waits"]
  /\ UNCHANGED <<ipc_conn, ipc_active, routeVars, viewVars, listVars>>
gui_shutdown(c) ==
  /\ fe_state[c] \in {"connected", "torn"} /\ fe_state' = [fe_state EXCEPT ![c] = "gone"]
  /\ fe_sent' = [fe_sent EXCEPT ![c] = <<>>] /\ fe_stream' = [fe_stream EXCEPT ![c] = <<>>]
  /\ fe_done' = [fe_done EXCEPT ![c] = <<>>] /\ route_list' = [route_list EXCEPT ![c] = <<>>]
  /\ UNCHANGED <<ipc_conn, ipc_active, routeVars, listVars>>

FrontEndNext ==
  \/ \E c \in FrontEnds : ipc_connect(c) \/ ipc_accept(c) \/ gui_shutdown(c)
  \/ \E c \in FrontEnds, n \in 1..BuffWords, k \in 0..BuffWords : ipc_read(c, n, k)
  \/ \E n \in OlsrWords : frontend_msgparser(n)
  \/ \E d \in FeDests, g \in FeGateways \cup {NoRoute}, t \in BOOLEAN : RouteChanges(d, g, t)

----------------------------------------------------------------------------
(* The front end that is connected evaluates the messages that were sent   *)
(* to it, whole and in order, those cut by the end of its buffer included, *)
(* as long as no recv returns the first part of a message whose rest is    *)
(* not fetched with it; TCP does not promise that (ipc.c:124, 180), and    *)
(* after it nothing is claimed.  Once it has read what is on its way, a    *)
(* front end that is told of changes shows one row for every route in the  *)
(* kernel, with its gateway, and no other, but for a row more for the      *)
(* destinations listed at the connection that the kernel did not have.     *)
(* One that is not told shows the table as it was at the connection.       *)
FrontEndFollows ==
  LET c == ipc_conn IN
  ipc_active /\ c # NoFrontEnd /\ fe_state[c] = "connected" =>
    LET n == Len(fe_done[c])
        rows == Evaluated(route_list[c], SubSeq(fe_sent[c], n + 1, Len(fe_sent[c])))
        of(d) == SelectSeq(rows, LAMBDA r : r[1] = d)
    IN  /\ fe_done[c] = [i \in 1..n |-> i]
        /\ fe_stream[c] = Words(n, SubSeq(fe_sent[c], n + 1, Len(fe_sent[c])))
        /\ ~fe_tells => rows = fe_listed
        /\ fe_tells => \A d \in FeDests \ fe_early :
             of(d) = IF fe_kernel[d] = NoRoute THEN <<>> ELSE <<<<d, fe_kernel[d]>>>>
=============================================================================
