---------------------------- MODULE MessageOutput ----------------------------
(***************************************************************************)
(* From the tables of the node to the packets of one interface: what goes  *)
(* into HELLO, TC, MID and HNA messages (packet.c, lq_packet.c), how they  *)
(* are cut to fit the output buffer (build_msg.c, lq_packet.c), and the    *)
(* buffer itself, which they share with messages that are forwarded        *)
(* (net_olsr.c, olsr.c).  Sizes are those of the packet format.            *)
(***************************************************************************)
EXTENDS Integers, Sequences, SequencesExt, FiniteSets

CONSTANTS OutConfigs,    \* <<family, LQ in use, tc_redundancy>>
          OutMax,        \* netbuf.maxsize for each family
          OutTables,     \* contents of the tables
          ForwardSizes   \* sizes of messages to forward

(* A message of each kind with one entry fits into an empty buffer.        *)
ASSUME OutMaxAssumption == OutMax["v4"] >= 28 /\ OutMax["v6"] >= 56

VARIABLES out_config, immediate_send_tc,
          pending,       \* netbuf.pending
          sending_tc,    \* the last TC was not empty; prev_empty in lq_packet.c
          send_empty_tc, \* the timer of empty TCs runs
          last_call,     \* the last message: its kind and the tables then,
          said, packets, \* what was put into the buffer and what was sent
          exited         \* a check of the space has ended the program

outVars == <<out_config, immediate_send_tc, pending, sending_tc, send_empty_tc,
             last_call, said, packets, exited>>

Family == out_config[1]
LqLevel == out_config[2]
TcRedundancy == out_config[3]
IpSize == IF Family = "v4" THEN 4 ELSE 16
CommonSize == IF Family = "v4" THEN 12 ELSE 24
LqData == 4

UNSPEC_LINK == 0
HIDE_LINK == 4
NeighborTypes == <<0, 1, 2>>              \* NOT_NEIGH, SYM_NEIGH, MPR_NEIGH
LqLinkOrder == <<2, 0, 1, 3>>             \* LINK_ORDER

------------------------------------------------------------------------------
(* The output buffer.                                                      *)

Buffer == [pending |-> pending, said |-> <<>>, packets |-> <<>>, exited |-> FALSE]

net_outbuffer_bytes_left(B) == OutMax[Family] - B.pending

net_outbuffer_push(B, m) ==
  IF m.size > net_outbuffer_bytes_left(B) THEN B
  ELSE [B EXCEPT !.pending = @ + m.size, !.said = Append(@, m)]

net_output(B) ==
  IF B.pending = 0 THEN B ELSE [B EXCEPT !.pending = 0, !.packets = Append(@, B.pending)]

check_buffspace(B, size) == [B EXCEPT !.exited = @ \/ size > net_outbuffer_bytes_left(B)]

(* Pending messages go out first if the new one has no room behind them.   *)
MakeRoom(B, size) == IF size > net_outbuffer_bytes_left(B) THEN net_output(B) ELSE B

------------------------------------------------------------------------------
(* TC, MID and HNA messages: a list of entries of one size each.           *)

Message(kind, size, entries) == [kind |-> kind, size |-> size, entries |-> entries]

(* The list cut into messages; the last one is not buffered yet.  A TC with *)
(* link qualities that has no room for its first entry would read an       *)
(* address before it, for the border flag.                                 *)
Chop(B, kind, list, header, entry, least) ==
  LET message(now) == Message(kind, header + entry * Len(now), now)
      lq == LqLevel /\ kind = "TC"
      add(a, x) ==
        LET sent == IF a.now = <<>> THEN [a.buf EXCEPT !.exited = @ \/ lq]
                    ELSE net_outbuffer_push(a.buf, message(a.now))
            B1   == IF lq THEN net_output(sent) ELSE check_buffspace(net_output(sent), least)
        IN  IF header + entry * (Len(a.now) + 1) <= a.room THEN [a EXCEPT !.now = Append(@, x)]
            ELSE [buf |-> B1, room |-> net_outbuffer_bytes_left(B1), now |-> <<x>>]
      start == [buf |-> B, room |-> net_outbuffer_bytes_left(B), now |-> <<>>]
      last  == FoldLeft(add, start, list)
  IN  [buf |-> last.buf, rest |-> message(last.now)]

serialize_tc4(B, list, empty) ==
  LET header == CommonSize + 4
      C == Chop(check_buffspace(MakeRoom(B, header), header), "TC", list, header, IpSize, header + IpSize)
  IN  IF list # <<>> \/ empty THEN net_outbuffer_push(C.buf, C.rest) ELSE C.buf

serialize_tc6(B, list, empty) == serialize_tc4(B, list, empty)

(* The room that is made first is for two addresses of each interface.     *)
SerializeMid(B, interfaces, list, least) ==
  LET B0 == check_buffspace(MakeRoom(B, CommonSize + 2 * IpSize * interfaces), CommonSize)
      C  == Chop(B0, "MID", list, CommonSize, IpSize, least)
  IN  IF list = <<>> THEN B ELSE net_outbuffer_push(C.buf, C.rest)

serialize_mid4(B, interfaces, list) == SerializeMid(B, interfaces, list, CommonSize)
serialize_mid6(B, interfaces, list) == SerializeMid(B, interfaces, list, CommonSize + IpSize)

serialize_hna4(B, list) ==
  LET entry == 2 * IpSize
      B0 == check_buffspace(MakeRoom(B, CommonSize + entry * Len(list)), CommonSize)
      C  == Chop(B0, "HNA", list, CommonSize, entry, CommonSize + entry)
  IN  IF list = <<>> THEN B ELSE net_outbuffer_push(C.buf, C.rest)

serialize_hna6(B, list) == serialize_hna4(B, list)

(* With link qualities the whole list is to be in one message if it can;   *)
(* that is only asked if something is pending.                             *)
serialize_lq_tc(B, list) ==
  LET header == CommonSize + 4
      entry  == IpSize + LqData
      whole  == header + (IF B.pending = 0 THEN 0 ELSE entry * Len(list))
      C      == Chop(MakeRoom(B, whole), "TC", list, header, entry, 0)
  IN  net_outbuffer_push(C.buf, C.rest)

------------------------------------------------------------------------------
(* HELLO messages: groups of neighbors with the same types of neighbor and *)
(* link, each behind a header of four bytes.                               *)

(* #define CREATE_LINK_CODE: the neighbor type above two bits of link type *)
CREATE_LINK_CODE(status, link) ==
  IF link < 4 THEN 4 * status + link ELSE IF status = 2 THEN 12 ELSE 4
Decoded(code) == <<code \div 4, code % 4>>        \* EXTRACT_STATUS, EXTRACT_LINK

(* The neighbors in the order of the loops over neighbor and link types.   *)
Grouped(nbs, links) ==
  FoldLeft(LAMBDA s, i : FoldLeft(LAMBDA t, j : t \o SelectSeq(nbs, LAMBDA n : n.status = i /\ n.link = j),
                                  s, links), <<>>, NeighborTypes)

(* Mutant: no room is asked for the header of a group.                     *)
AddressOnly(entry, first) == entry

RoomFor(entry, first) == entry + (IF first THEN 4 ELSE 0)

(* A HELLO that cannot take the next neighbor goes out as it is.  One with *)
(* link qualities does so even if it is empty, for which the code would    *)
(* complete a group header that is not there.                              *)
ChopHello(B, nbs, header, entry, lq) ==
  LET message(a) == Message("HELLO", a.size, a.groups)
      first(a, n) == a.groups = <<>> \/ <<n.status, n.link>> # a.group
      restart(a) ==
        LET sent == IF a.groups = <<>> THEN [a.buf EXCEPT !.exited = @ \/ lq]
                    ELSE net_outbuffer_push(a.buf, message(a))
            B1 == IF lq THEN net_output(sent) ELSE check_buffspace(net_output(sent), header + entry + 4)
        IN  [a EXCEPT !.buf = B1, !.room = net_outbuffer_bytes_left(B1), !.size = header, !.groups = <<>>]
      put(a, n) ==
        LET new == [code |-> CREATE_LINK_CODE(n.status, n.link), addrs |-> <<n.addr>>]
        IN  [a EXCEPT !.size = @ + entry + (IF first(a, n) THEN 4 ELSE 0),
                      !.group = <<n.status, n.link>>,
                      !.groups = IF first(a, n) THEN Append(@, new)
                                 ELSE [@ EXCEPT ![Len(@)].addrs = Append(@, n.addr)]]
      add(a, n) == IF a.size + RoomFor(entry, first(a, n)) > a.room THEN put(restart(a), n) ELSE put(a, n)
      start == [buf |-> B, room |-> net_outbuffer_bytes_left(B), size |-> header,
                group |-> <<>>, groups |-> <<>>]
      last  == FoldLeft(add, start, nbs)
  IN  net_outbuffer_push(last.buf, message(last))

(* Hidden links, those that hysteresis holds back, are left out...         *)
serialize_hello4(B, nbs) ==
  LET header == CommonSize + 4
      B0 == check_buffspace(MakeRoom(B, header), header)
  IN  ChopHello(B0, Grouped(nbs, <<0, 1, 2, 3>>), header, IpSize, FALSE)

(* ...but not with IPv6, where the check of the space also asks for that   *)
(* of a neighbor, which the room made before it need not have.             *)
serialize_hello6(B, nbs) ==
  LET header == CommonSize + 4
      B0 == check_buffspace(MakeRoom(B, header), header + IpSize + 4)
  IN  ChopHello(B0, Grouped(nbs, <<0, 1, 2, 3, 4>>), header, IpSize, FALSE)

(* The room for the whole HELLO, asked if something is pending, has that   *)
(* of the addresses of hidden links, but not of a group for them.          *)
serialize_lq_hello(B, nbs) ==
  LET header == CommonSize + 4
      entry  == IpSize + LqData
      groups == {<<n.status, n.link>> : n \in {n \in Range(nbs) : n.link \in Range(LqLinkOrder)}}
      whole  == header + (IF B.pending = 0 THEN 0 ELSE entry * Len(nbs) + 4 * Cardinality(groups))
  IN  ChopHello(MakeRoom(B, whole), Grouped(nbs, LqLinkOrder), header, entry, TRUE)

------------------------------------------------------------------------------
(* What the messages say.  A table t has the links of the node, whether    *)
(* they are of this interface, its neighbors with their states, its other  *)
(* interfaces and its networks.                                            *)

NeighborType(t, main) == IF main \in t.mpr THEN 2 ELSE IF main \in t.sym THEN 1 ELSE 0

HelloNeighbor(t, addr, main, link) == [addr |-> addr, status |-> NeighborType(t, main), link |-> link]

(* The links of this interface, and the neighbors without one.             *)
olsr_build_hello_packet(t) ==
  LET here == SelectSeq(t.links, LAMBDA l : l.here)
      rest == SelectSeq(t.neighbors, LAMBDA m : \A i \in DOMAIN here : here[i].main # m)
      onLink == [i \in DOMAIN here |-> HelloNeighbor(t, here[i].addr, here[i].main, here[i].link)]
      others == [i \in DOMAIN rest |-> HelloNeighbor(t, rest[i], rest[i], UNSPEC_LINK)]
  IN  Reverse(onLink \o (IF t.others = <<>> THEN <<>> ELSE others))

(* All links, those of other interfaces as unspecified ones.               *)
create_lq_hello(t) ==
  Reverse([i \in DOMAIN t.links |->
             HelloNeighbor(t, t.links[i].addr, t.links[i].main,
                           IF t.links[i].here THEN t.links[i].link ELSE UNSPEC_LINK)])

Advertised(t, m) ==
  /\ m \in t.sym
  /\ \/ TcRedundancy = 2
     \/ TcRedundancy = 1 /\ m \in t.mpr
     \/ m \in t.selectors

olsr_build_tc_packet(t) == Reverse(SelectSeq(t.neighbors, LAMBDA m : Advertised(t, m)))

create_lq_tc(t) ==
  SortSeq(SelectSeq(t.neighbors, LAMBDA m : Advertised(t, m) /\ m \notin t.broken), <)

------------------------------------------------------------------------------
OutBecome(kind, t, B) ==
  /\ ~exited
  /\ pending' = B.pending /\ said' = B.said /\ packets' = B.packets /\ exited' = B.exited
  /\ last_call' = <<kind, t>>
  /\ UNCHANGED <<out_config, immediate_send_tc>>

generate_hello(t) ==
  LET nbs == olsr_build_hello_packet(t)
      B   == IF Family = "v4" THEN serialize_hello4(Buffer, nbs) ELSE serialize_hello6(Buffer, nbs)
  IN  ~LqLevel /\ OutBecome("HELLO", t, net_output(B)) /\ UNCHANGED <<sending_tc, send_empty_tc>>

(* After the last TC with entries empty ones are sent for a while.         *)
generate_tc(t) ==
  LET list  == olsr_build_tc_packet(t)
      empty == send_empty_tc \/ (list = <<>> /\ sending_tc)
  IN  /\ ~LqLevel
      /\ sending_tc' = (list # <<>>)
      /\ send_empty_tc' = empty
      /\ OutBecome("TC", t, IF Family = "v4" THEN serialize_tc4(Buffer, list, empty)
                            ELSE serialize_tc6(Buffer, list, empty))

generate_mid(t) ==
  /\ OutBecome("MID", t, IF Family = "v4" THEN serialize_mid4(Buffer, 1 + Len(t.others), t.others)
                         ELSE serialize_mid6(Buffer, 1 + Len(t.others), t.others))
  /\ UNCHANGED <<sending_tc, send_empty_tc>>

generate_hna(t) ==
  /\ OutBecome("HNA", t, IF Family = "v4" THEN serialize_hna4(Buffer, t.hna)
                         ELSE serialize_hna6(Buffer, t.hna))
  /\ UNCHANGED <<sending_tc, send_empty_tc>>

olsr_output_lq_hello(t) ==
  LET B == serialize_lq_hello(Buffer, create_lq_hello(t))
  IN  /\ LqLevel /\ OutBecome("HELLO", t, IF immediate_send_tc THEN B ELSE net_output(B))
      /\ UNCHANGED <<sending_tc, send_empty_tc>>

olsr_output_lq_tc(t) ==
  LET list  == create_lq_tc(t)
      empty == send_empty_tc \/ (list = <<>> /\ sending_tc)
      B     == IF list # <<>> \/ empty THEN serialize_lq_tc(Buffer, list) ELSE Buffer
  IN  /\ LqLevel
      /\ sending_tc' = (list # <<>>)
      /\ send_empty_tc' = empty
      /\ OutBecome("TC", t, IF immediate_send_tc THEN net_output(B) ELSE B)

EmptyTcTimeout ==
  /\ ~exited /\ send_empty_tc /\ send_empty_tc' = FALSE
  /\ UNCHANGED <<out_config, immediate_send_tc, pending, sending_tc, last_call, said, packets, exited>>

(* A message that does not fit behind the pending ones goes after them.    *)
olsr_forward_message(size) ==
  LET m == Message("forwarded", size, <<>>)
      B == net_outbuffer_push(Buffer, m)
      after == net_outbuffer_push(net_output(Buffer), m)
  IN  /\ OutBecome("forwarded", size, IF pending > 0 /\ B = Buffer THEN after ELSE B)
      /\ UNCHANGED <<sending_tc, send_empty_tc>>

------------------------------------------------------------------------------
OutInit ==
  /\ out_config \in OutConfigs /\ immediate_send_tc \in BOOLEAN
  /\ pending = 0 /\ sending_tc = FALSE /\ send_empty_tc = FALSE
  /\ last_call = <<"none", 0>> /\ said = <<>> /\ packets = <<>> /\ exited = FALSE

OutNext ==
  \/ \E t \in OutTables :
       \/ generate_hello(t) \/ generate_tc(t) \/ generate_mid(t) \/ generate_hna(t)
       \/ olsr_output_lq_hello(t) \/ olsr_output_lq_tc(t)
  \/ EmptyTcTimeout
  \/ \E size \in ForwardSizes : olsr_forward_message(size)

OutSpec == OutInit /\ [][OutNext]_outVars

------------------------------------------------------------------------------
(* What has been said in all messages of the last call, in order.          *)
SaidEntries == FoldLeft(LAMBDA s, m : s \o m.entries, <<>>, said)

SaidNeighbors ==
  LET group(s, g) == s \o [i \in DOMAIN g.addrs |-> <<g.addrs[i], Decoded(g.code)>>]
  IN  FoldLeft(group, <<>>, SaidEntries)

(* The neighbors to be announced on this interface.                        *)
HelloDue(t) ==
  LET here(m) == \E i \in DOMAIN t.links : t.links[i].here /\ t.links[i].main = m
      link(l) == IF l.here THEN l.link ELSE UNSPEC_LINK
      linked == {l \in Range(t.links) : l.here \/ LqLevel}
      unlinked == {m \in Range(t.neighbors) : ~here(m) /\ t.others # <<>> /\ ~LqLevel}
  IN  {<<l.addr, <<NeighborType(t, l.main), link(l)>>>> : l \in {k \in linked : link(k) # HIDE_LINK}}
      \cup {<<m, <<NeighborType(t, m), UNSPEC_LINK>>>> : m \in unlinked}

(* However the buffer is filled, every call says all that the tables hold, *)
(* each neighbor once and with its types, each address and network once,   *)
(* although the results of net_outbuffer_push are not looked at, and no    *)
(* packet is longer than the interface allows.  With IPv6 this leaves out  *)
(* the links that hysteresis hides, which build_msg.c:463 announces with a *)
(* code that reads as an unspecified link, and the exit at build_msg.c:437.*)
OutputComplete ==
  LET kind == last_call[1]
      t    == last_call[2]
      rfc6 == Family = "v6" /\ ~LqLevel
  IN  /\ exited => rfc6 /\ kind = "HELLO"
      /\ pending <= OutMax[Family] /\ \A i \in DOMAIN packets : packets[i] <= OutMax[Family]
      /\ kind = "HELLO" /\ ~exited =>
           /\ said # <<>> /\ IsInjective(SaidNeighbors)
           /\ HelloDue(t) \subseteq Range(SaidNeighbors)
           /\ ~rfc6 => Range(SaidNeighbors) = HelloDue(t)
      /\ kind = "TC" =>
           /\ Range(SaidEntries) = {m \in Range(t.neighbors) : Advertised(t, m)} \ (IF LqLevel THEN t.broken ELSE {})
           /\ send_empty_tc => said # <<>>
      /\ kind = "MID" => SaidEntries = t.others
      /\ kind = "HNA" => SaidEntries = t.hna
      /\ kind \in {"TC", "MID", "HNA"} => IsInjective(SaidEntries)
      /\ kind = "forwarded" => said # <<>>

(* A message that does not fit behind the pending ones is sent after them, *)
(* as the comment of queue_hello says: the check of the space that is left *)
(* never ends the program while a message with one entry fits the buffer.  *)
HelloNeverExits == ~exited
==============================================================================
