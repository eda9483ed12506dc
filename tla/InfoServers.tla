------------------------------ MODULE InfoServers ------------------------------
(***************************************************************************)
(* The plugins txtinfo, txtinfo_PLC and httpinfo: a client connects, asks  *)
(* for some of the daemon's tables, and gets them as text or as a page.    *)
(* The reply is made when the client is accepted and sent bit by bit from  *)
(* a timer, out of four parallel arrays that close up when a client is     *)
(* done.  The two txtinfo plugins read the request from a blocking socket  *)
(* and wait for it; httpinfo gives up after a moment, and accepts nobody   *)
(* while its arrays are full.  The txtinfo plugins do not look whether a   *)
(* place is free (olsrd_txtinfo.c:727): with one client too many they      *)
(* write past their arrays, and nothing is modelled after that.  A section *)
(* of a reply stands for its text.                                         *)
(***************************************************************************)
EXTENDS Naturals, Sequences, FiniteSets, SequencesExt

CONSTANTS
  TxtClients,     \* programs that connect (numbers above 0)
  TxtTables,      \* the tables of the daemon, as they may be
  TxtSetups       \* [plugin; max: MAX_CLIENTS; foreign: clients that are kept out by their
                  \* address; requests: what the others ask for, sets of words]

VARIABLES
  txt_setup,
  txt_tables,
  txt_client, txt_request,   \* what each program did, and what it asked for
  outbuffer, outbuffer_size, outbuffer_written, outbuffer_socket,
  writetimer,        \* the timer runs
  txt_reading,           \* the client that ipc_action waits for
  txt_overrun,           \* a reply was written past the arrays
  txt_reply, txt_received  \* history: the reply made for a client, what it received

txtVars == <<txt_setup, txt_tables, txt_client, txt_request, outbuffer, outbuffer_size,
             outbuffer_written, outbuffer_socket, writetimer, txt_reading, txt_overrun, txt_reply,
             txt_received>>

NoClient == 0
ClientIdle == "idle"         \* not connected
ClientSilent == "silent"     \* connected, nothing sent
ClientAsked == "asked"       \* connected, its request sent
ClientHungup == "hungup"     \* connected and closed
ClientServed == "served"     \* accepted
ClientEnded == "ended"       \* its connection was closed by the plugin
ClientLost == "lost"         \* it broke off while it was served

TxtInit ==
  /\ txt_setup \in TxtSetups /\ txt_tables \in TxtTables
  /\ txt_client = [c \in TxtClients |-> ClientIdle] /\ txt_request = [c \in TxtClients |-> {}]
  /\ outbuffer = <<>> /\ outbuffer_size = <<>> /\ outbuffer_written = <<>> /\ outbuffer_socket = <<>>
  /\ writetimer = FALSE /\ txt_reading = NoClient /\ txt_overrun = FALSE
  /\ txt_reply = [c \in TxtClients |-> <<>>] /\ txt_received = [c \in TxtClients |-> <<>>]

----------------------------------------------------------------------------
(* The sections of a reply.                                                *)

ipc_print_neigh(t) == {[addr |-> n.addr, sym |-> n.sym, mpr |-> n.mpr, mprs |-> n.addr \in t.mprs,
                        two_hop |-> Cardinality(n.two_hop)] : n \in t.neighbors}
ipc_print_link(t) == {<<l.local, l.remote, l.cost>> : l \in t.links}
ipc_print_routes(t) == {<<r.dst, r.best.gateway, r.best.hops, r.best.cost>> : r \in t.routes}
ipc_print_topology(t) == {<<e.dest, e.last, e.cost>> : e \in {e \in t.edges : e.inv}}
ipc_print_hna(t) == {<<n, t.main>> : n \in t.own_nets} \cup {<<h.net, h.gateway>> : h \in t.hna}
ipc_print_mid(t) == {<<m.main, m.aliases>> : m \in t.mid}
ipc_print_plc(t) == {<<p.addr, p.tx, p.rx>> : p \in t.plc}
ipc_print_interface(t) == {<<i.name, i.up>> : i \in t.interfaces}
ipc_print_config(t) == t.config

\* The mark of a gateway for a family: selected, usable, or neither.
GatewayMark(t, g, f) ==
  IF t.current[f] = g.addr THEN "selected"
  ELSE IF f = "v4" /\ g.v4 /\ (t.ipv4 \/ t.niit) /\ (t.allow_nat \/ ~g.nat) THEN "usable"
  ELSE IF f = "v6" /\ g.v6 /\ ~t.ipv4 THEN "usable"
  ELSE "-"

\* A gateway without an entry in the topology is not shown.
ipc_print_gateway(t) ==
  {<<GatewayMark(t, g, "v4"), GatewayMark(t, g, "v6"), g.addr>> : g \in {g \in t.gateways : g.addr \in t.tc}}

SectionText(t, section) ==
  CASE section = "link" -> ipc_print_link(t)
    [] section = "neigh" -> ipc_print_neigh(t)
    [] section = "topo" -> ipc_print_topology(t)
    [] section = "hna" -> ipc_print_hna(t)
    [] section = "mid" -> ipc_print_mid(t)
    [] section = "plc" -> ipc_print_plc(t)
    [] section = "route" -> ipc_print_routes(t)
    [] section = "gateway" -> ipc_print_gateway(t)
    [] section = "config" -> ipc_print_config(t)
    [] section = "interface" -> ipc_print_interface(t)

SIW_ALL(p) == {"link", "neigh", "route", "hna", "mid", "topo"} \cup (IF p = "txtinfo" THEN {} ELSE {"plc"})
SIW_TEST == {"link", "route", "plc"}

\* What a request asks for; one that has /all or /neighbours has no need of the others.
SendWhat(p, req) ==
  LET one == [nei |-> "neigh", lin |-> "link", rou |-> "route", hna |-> "hna", mid |-> "mid", top |-> "topo"]
      plc == p = "txtinfo_PLC"
      more == (IF "gat" \in req THEN {"gateway"} ELSE {})
              \cup (IF "con" \in req THEN {"config"} ELSE {}) \cup (IF "int" \in req THEN {"interface"} ELSE {})
              \cup (IF plc /\ "tes" \in req THEN SIW_TEST ELSE {})
  IN  IF "neighbours" \in req THEN {"neigh", "link"}
      ELSE IF "all" \in req THEN SIW_ALL(p) \cup more
      ELSE {one[w] : w \in req \cap DOMAIN one} \cup (IF plc /\ "plc" \in req THEN {"plc"} ELSE {}) \cup more

SectionOrder == <<"link", "neigh", "topo", "hna", "mid", "route", "gateway", "config", "interface", "plc">>

\* The text, its header included.
Reply(t, what) ==
  <<"header">> \o [i \in 1..Cardinality(what) |->
     LET s == SelectSeq(SectionOrder, LAMBDA x : x \in what)[i] IN <<s, SectionText(t, s)>>]

----------------------------------------------------------------------------
(* The pages of httpinfo.                                                  *)

build_config_body(t) == <<t.main, t.config, ipc_print_interface(t), t.own_nets>>
build_routes_body(t) == ipc_print_routes(t)
build_neigh_body(t) == <<ipc_print_link(t), ipc_print_neigh(t)>>
build_topo_body(t) == ipc_print_topology(t)
build_mid_body(t) == ipc_print_mid(t)
build_nodes_body(t) == <<build_neigh_body(t), build_topo_body(t), build_mid_body(t)>>
build_all_body(t) == <<build_config_body(t), build_routes_body(t)>> \o build_nodes_body(t)
build_cfgfile_body(t) == <<t.config>>
build_about_body == <<"about">>

TabNames == {"config", "routes", "nodes", "all", "about", "cfgfile"}
StaticFiles == {"favicon.ico", "logo.gif", "grayline.gif", "httpinfo.css"}

\* "/" is the first tab.
TabBody(t, tab) ==
  CASE tab \in {"/", "config"} -> build_config_body(t)
    [] tab = "routes" -> <<build_routes_body(t)>>
    [] tab = "nodes" -> build_nodes_body(t)
    [] tab = "all" -> build_all_body(t)
    [] tab = "about" -> build_about_body
    [] tab = "cfgfile" -> build_cfgfile_body(t)

build_http_header(status, body) == <<status, Len(body)>>

\* The answer to a request: a method other than GET, a file, a page, or what does not exist.
HttpPage(t, req) ==
  LET what == CHOOSE w \in req : TRUE
      status == IF what \in {"POST", "PUT"} THEN "400" ELSE IF what \in {"/"} \cup TabNames \cup StaticFiles THEN "200" ELSE "404"
      body == IF what \in {"/"} \cup TabNames THEN TabBody(t, what) ELSE <<what>>
  IN  <<build_http_header(status, body)>> \o body

----------------------------------------------------------------------------
(* The replies are queued and written.                                     *)

UnchangedQueue == UNCHANGED <<outbuffer, outbuffer_size, outbuffer_written, outbuffer_socket,
                              writetimer, txt_overrun, txt_reply, txt_received>>

\* A reply is queued; the first one starts the timer.
QueueReply(c, text) ==
  /\ txt_overrun' = (Len(outbuffer) = txt_setup.max)
  /\ outbuffer' = Append(outbuffer, text)
  /\ outbuffer_size' = Append(outbuffer_size, Len(text))
  /\ outbuffer_written' = Append(outbuffer_written, 0)
  /\ outbuffer_socket' = Append(outbuffer_socket, c)
  /\ writetimer' = IF Len(outbuffer') = 1 THEN TRUE ELSE writetimer
  /\ txt_client' = [txt_client EXCEPT ![c] = ClientServed]
  /\ txt_reply' = [txt_reply EXCEPT ![c] = text] /\ UNCHANGED txt_received

\* The sections are printed in a fixed order.
send_info(c, what) == QueueReply(c, Reply(txt_tables, what))

\* What was read of the request; the end of the file counts as one for everything.
Requested(c) == IF txt_client[c] = ClientHungup THEN SIW_ALL(txt_setup.plugin) ELSE SendWhat(txt_setup.plugin, txt_request[c])

\* A client is accepted: closed if it is foreign, read if it has sent something, else waited for.
AcceptTxt(c) ==
  /\ txt_reading = NoClient /\ txt_client[c] \in {ClientSilent, ClientAsked, ClientHungup}
  /\ \/ /\ c \in txt_setup.foreign
        /\ txt_client' = [txt_client EXCEPT ![c] = ClientEnded] /\ UNCHANGED txt_reading /\ UnchangedQueue
     \/ /\ c \notin txt_setup.foreign /\ txt_client[c] = ClientSilent /\ txt_reading' = c
        /\ UNCHANGED txt_client /\ UnchangedQueue
     \/ /\ c \notin txt_setup.foreign /\ txt_client[c] # ClientSilent
        /\ send_info(c, Requested(c)) /\ UNCHANGED txt_reading
  /\ UNCHANGED <<txt_setup, txt_tables, txt_request>>

ipc_action(c) == txt_setup.plugin = "txtinfo" /\ AcceptTxt(c)
plc_ipc_action(c) == txt_setup.plugin = "txtinfo_PLC" /\ AcceptTxt(c)

\* recv returns.
RequestRead ==
  /\ txt_reading # NoClient /\ txt_client[txt_reading] # ClientSilent /\ txt_reading' = NoClient
  /\ send_info(txt_reading, Requested(txt_reading))
  /\ UNCHANGED <<txt_setup, txt_tables, txt_request>>

\* A client is accepted if a place is free; it is closed if it is foreign or nothing came from it.
parse_http_request(c) ==
  /\ txt_setup.plugin = "httpinfo" /\ txt_client[c] \in {ClientSilent, ClientAsked, ClientHungup}
  /\ Len(outbuffer_socket) < txt_setup.max
  /\ IF c \in txt_setup.foreign \/ txt_client[c] # ClientAsked
     THEN txt_client' = [txt_client EXCEPT ![c] = ClientEnded] /\ UnchangedQueue
     ELSE QueueReply(c, HttpPage(txt_tables, txt_request[c]))
  /\ UNCHANGED <<txt_setup, txt_tables, txt_request, txt_reading>>

OutArrays == [buf |-> outbuffer, size |-> outbuffer_size, written |-> outbuffer_written,
           socket |-> outbuffer_socket, got |-> txt_received, client |-> txt_client]

\* A mutant: outbuffer_written is not moved.
CloseUpWithoutWritten(A, i) ==
  [A EXCEPT !.buf = RemoveAt(@, i), !.size = RemoveAt(@, i),
            !.written = Front(@), !.socket = RemoveAt(@, i)]

\* A client is done: its socket is closed, and the arrays close up.
CloseUp(A, i) ==
  [A EXCEPT !.buf = RemoveAt(@, i), !.size = RemoveAt(@, i),
            !.written = RemoveAt(@, i), !.socket = RemoveAt(@, i)]

BytesWritten(A, i, n) ==
  LET c == A.socket[i]
      from == A.written[i]
      to == from + n
      B == [A EXCEPT !.written[i] = to, !.got[c] = @ \o SubSeq(A.buf[i], from + 1, to)]
  IN  IF n = 0 THEN [CloseUp(A, i) EXCEPT !.client[c] = ClientLost]
      ELSE IF to = A.size[i] THEN [CloseUp(B, i) EXCEPT !.client[c] = ClientEnded]
      ELSE B

RECURSIVE WriteFrom(_, _, _)
\* The walk over the clients; the one behind a client that is done is passed over this time.
WriteFrom(i, A, sent) ==
  IF i > Len(A.socket) THEN A
  ELSE LET c == A.socket[i]
           left == A.size[i] - A.written[i]
       IN  IF c \notin DOMAIN sent THEN WriteFrom(i + 1, A, sent)
           ELSE WriteFrom(i + 1, BytesWritten(A, i, IF sent[c] > left THEN left ELSE sent[c]), sent)

\* The timer: some sockets are writable, each takes a part of its text, or fails (0).
WriteData ==
  /\ txt_reading = NoClient /\ writetimer
  /\ \E W \in SUBSET {outbuffer_socket[i] : i \in DOMAIN outbuffer_socket} :
     \E sent \in [W -> {0, 1, 3}] :
       /\ W # {} /\ \A c \in W : sent[c] = 0 <=> txt_client[c] = ClientLost
       /\ \E A \in {WriteFrom(1, OutArrays, sent)} :
            /\ outbuffer' = A.buf /\ outbuffer_size' = A.size /\ outbuffer_written' = A.written
            /\ outbuffer_socket' = A.socket /\ txt_received' = A.got /\ txt_client' = A.client
            /\ writetimer' = (A.socket # <<>>)
  /\ UNCHANGED <<txt_setup, txt_tables, txt_request, txt_reading, txt_overrun, txt_reply>>

txtinfo_write_data == txt_setup.plugin = "txtinfo" /\ WriteData
plc_write_data == txt_setup.plugin = "txtinfo_PLC" /\ WriteData
httpinfo_write_data == txt_setup.plugin = "httpinfo" /\ WriteData

\* The programs: they connect, with or without a request, ask later, hang up, or come again.
ClientDoes(c, what, req) ==
  /\ \/ txt_client[c] \in {ClientIdle, ClientEnded} /\ what \in {ClientAsked, ClientSilent}
     \/ txt_client[c] = ClientSilent /\ what \in {ClientAsked, ClientHungup}
     \/ txt_client[c] = ClientServed /\ what = ClientLost
     \/ txt_client[c] = ClientLost /\ what = ClientIdle /\ \A i \in DOMAIN outbuffer_socket : outbuffer_socket[i] # c
  /\ txt_client' = [txt_client EXCEPT ![c] = what]
  /\ txt_request' = [txt_request EXCEPT ![c] = IF what = ClientAsked THEN req ELSE {}]
  /\ txt_reply' = [txt_reply EXCEPT ![c] = IF what \in {ClientAsked, ClientSilent} THEN <<>> ELSE @]
  /\ txt_received' = [txt_received EXCEPT ![c] = IF what \in {ClientAsked, ClientSilent} THEN <<>> ELSE @]
  /\ UNCHANGED <<txt_setup, txt_tables, outbuffer, outbuffer_size, outbuffer_written, outbuffer_socket,
                 writetimer, txt_reading, txt_overrun>>

TablesChange(t) ==
  /\ txt_reading = NoClient /\ t # txt_tables /\ txt_tables' = t
  /\ UNCHANGED <<txt_setup, txt_client, txt_request, outbuffer, outbuffer_size, outbuffer_written, outbuffer_socket,
                 writetimer, txt_reading, txt_overrun, txt_reply, txt_received>>

\* After an overrun the behaviour is undefined.
TxtNext ==
  /\ ~txt_overrun
  /\ \/ \E c \in TxtClients : ipc_action(c) \/ plc_ipc_action(c) \/ parse_http_request(c)
     \/ RequestRead \/ txtinfo_write_data \/ plc_write_data \/ httpinfo_write_data
     \/ \E c \in TxtClients, req \in txt_setup.requests : ClientDoes(c, ClientAsked, req)
     \/ \E c \in TxtClients, what \in {ClientSilent, ClientHungup, ClientLost, ClientIdle} : ClientDoes(c, what, {})
     \/ \E t \in TxtTables : TablesChange(t)

----------------------------------------------------------------------------
(* What a client has received is the beginning of the reply made for it    *)
(* when it was accepted, in spite of later changes of the tables and of    *)
(* other clients that come and go; a connection that the plugin closed     *)
(* without an error has carried all of it; every reply that is not done is *)
(* queued once, with its rest to be sent, and the timer runs for it.       *)
(* httpinfo never queues more replies than its arrays have places; of the  *)
(* txtinfo plugins, which do not look, nothing is claimed once they did.   *)
InfoAnswers ==
  /\ txt_setup.plugin = "httpinfo" => ~txt_overrun
  /\ ~txt_overrun => (writetimer <=> outbuffer_socket # <<>>)
  /\ ~txt_overrun => \A c \in TxtClients :
       /\ IsPrefix(txt_received[c], txt_reply[c])
       /\ txt_client[c] = ClientEnded => txt_received[c] = txt_reply[c]
       /\ txt_client[c] = ClientServed =>
            \E i \in DOMAIN outbuffer_socket :
              /\ outbuffer_socket[i] = c /\ outbuffer[i] = txt_reply[c]
              /\ outbuffer_written[i] = Len(txt_received[c]) /\ outbuffer_size[i] = Len(outbuffer[i])
              /\ \A j \in DOMAIN outbuffer_socket : outbuffer_socket[j] = c => j = i
=============================================================================
