------------------------------- MODULE Flooding -------------------------------
(***************************************************************************)
(* How the messages of one node spread through a network whose links and   *)
(* relays (MPRs) do not change: parse_packet (parser.c),                   *)
(* olsr_forward_message (olsr.c), the output buffers (net_olsr.c) and what *)
(* olsr_input_tc and olsr_input_mid let through.                           *)
(*                                                                         *)
(* A node has a wireless interface, heard by some nodes, and an Ethernet   *)
(* one, heard by all nodes of its segment.  The originator sends a message *)
(* of its own over each interface, of the same content and with the next   *)
(* sequence number.  Any relays that cover the two-hop neighbors may have  *)
(* been selected: that they do is shown for TwoHop.                        *)
(***************************************************************************)
EXTENDS Integers, Sequences, FiniteSets, SequencesExt

CONSTANTS
  Routers, Orig,   \* the nodes and the originator
  Setups,        \* networks: links heard, Ethernet segments, coverage, TTL and hop count
  BufferSize     \* messages that fit into an output buffer

Ifs    == {"wlan", "eth"}
Kinds  == {"TC", "MID"}
Seqnos == 1 .. 2
MAX_TTL == 255

ASSUME FloodingAssumption == Orig \in Routers /\ BufferSize \in Nat \ {0}

VARIABLES
  net,      \* the network, one of Setups
  relays,   \* the relays each node has selected
  kind,     \* what the originator sends
  netbuf,   \* of each interface: messages pending in the output buffer
  air,      \* packets sent and not read yet, in the order of sending
  tc_seq,   \* sequence number of the originator's TC entry; 0: no entry
  dup,      \* duplicate set: newest sequence number and the marked ones
  got,      \* history: the messages a node has processed
  forwards, \* history: how often a node has forwarded each message
  sent      \* the interfaces the originator has sent its message on

floodVars == <<net, relays, kind, netbuf, air, tc_seq, dup, got, forwards, sent>>

------------------------------------------------------------------------------
(* The network                                                             *)

Hearing(n, i) ==
  IF i = "wlan" THEN {m \in Routers : <<n, m>> \in net.wlan}
  ELSE UNION {S \in net.segments : n \in S} \ {n}

SymLink(n, m, i) == m \in Hearing(n, i) /\ n \in Hearing(m, i)
SymNeighbors(n)  == {m \in Routers \ {n} : \E i \in Ifs : SymLink(n, m, i)}

(* A node has the interfaces on which it is heard.                         *)
Interfaces(n) == {i \in Ifs : Hearing(n, i) # {}}

TwoHop(n) == UNION {SymNeighbors(m) : m \in SymNeighbors(n)} \ (SymNeighbors(n) \cup {n})

Covers(n, R) == \A x \in TwoHop(n) : \E m \in R : x \in SymNeighbors(m)

(* Relays without each of which some two-hop neighbor is not covered, or,  *)
(* if the coverage asked for is that large, all that lead to one.          *)
CoveringSets(n) ==
  IF net.redundant THEN {{m \in SymNeighbors(n) : SymNeighbors(m) \cap TwoHop(n) # {}}}
  ELSE {R \in SUBSET SymNeighbors(n) : Covers(n, R) /\ \A m \in R : ~Covers(n, R \ {m})}

(* All ways in which the nodes can select their relays.                    *)
Selections ==
  FoldSet(LAMBDA n, F : {[f EXCEPT ![n] = R] : f \in F, R \in CoveringSets(n)},
          {[n \in Routers |-> {}]}, Routers)

FloodInit ==
  /\ net \in Setups
  /\ kind \in Kinds
  /\ relays \in Selections
  /\ netbuf = [n \in Routers |-> [i \in Ifs |-> <<>>]]
  /\ air = <<>>
  /\ tc_seq = [n \in Routers |-> 0]
  /\ dup = [n \in Routers |-> [seqnr |-> 0, marked |-> {}]]
  /\ got = [n \in Routers |-> {}]
  /\ forwards = [n \in Routers |-> [s \in Seqnos |-> 0]]
  /\ sent = {}

------------------------------------------------------------------------------
(* Output.  A step changes a record of the variables it may touch.         *)

Net == [netbuf |-> netbuf, air |-> air, tc_seq |-> tc_seq, dup |-> dup, got |-> got, forwards |-> forwards]

(* The pending messages become a packet.                                   *)
net_output(N, n, i) ==
  IF N.netbuf[n][i] = <<>> THEN N
  ELSE [N EXCEPT !.netbuf[n][i] = <<>>,
                 !.air = Append(@, [from |-> n, on |-> i, msgs |-> N.netbuf[n][i]])]

(* A message joins the pending ones; if it does not fit, they go first.    *)
(* The field "radio", the wireless hops so far, is for the properties.     *)
net_outbuffer_push(N, n, i, m) ==
  LET M == IF Len(N.netbuf[n][i]) < BufferSize THEN N ELSE net_output(N, n, i)
  IN  [M EXCEPT !.netbuf[n][i] = Append(@, IF i = "wlan" THEN [m EXCEPT !.radio = @ + 1] ELSE m)]

------------------------------------------------------------------------------
(* Input                                                                   *)

(* olsr_input_tc lets a TC through that is newer than the entry of its     *)
(* originator, olsr_input_mid every MID, if the link is symmetric.         *)
Accepted(N, n, p, m) ==
  /\ SymLink(n, p.from, p.on)
  /\ kind = "TC" => m.seq > N.tc_seq[n]

(* The first message of an originator makes an entry and is not marked.    *)
olsr_message_is_duplicate(N, n, m) ==
  N.dup[n].seqnr # 0 /\ m.seq \in N.dup[n].marked

(* Mutant: only newer messages are marked.                                 *)
MarkedNewer(d, s) ==
  IF s > d.seqnr THEN [seqnr |-> s, marked |-> IF d.seqnr = 0 THEN {} ELSE d.marked \cup {s}] ELSE d

Marked(d, s) ==
  IF d.seqnr = 0 THEN [seqnr |-> s, marked |-> {}]
  ELSE [seqnr |-> IF s > d.seqnr THEN s ELSE d.seqnr, marked |-> d.marked \cup {s}]

(* The TTL is used up, or the hop count shows that it was not counted down *)
(* on the way, as by older versions.                                       *)
is_ttl_1(m) == m.ttl < 2 \/ m.hopcnt + m.ttl > MAX_TTL

(* Mutant: whatever its mode, the interface it came from is left out.      *)
OutgoingOthers(n, i, m) ==
  {j \in Interfaces(n) : j # i /\ (is_ttl_1(m) => j = "eth")}

(* A message is passed on over all interfaces but the Ethernet it came     *)
(* from, and, when its TTL is used up, over Ethernet only.                 *)
Outgoing(n, i, m) ==
  {j \in Interfaces(n) : ~(j = i /\ j = "eth") /\ (is_ttl_1(m) => j = "eth")}

(* A message that this node is a relay for is passed on once.              *)
olsr_forward_message(N, n, p, m) ==
  IF ~(p.from \in SymNeighbors(n) /\ n \in relays[p.from]) \/ olsr_message_is_duplicate(N, n, m) THEN N
  ELSE LET f == IF is_ttl_1(m) THEN m ELSE [m EXCEPT !.ttl = @ - 1, !.hopcnt = @ + 1]
           M == [N EXCEPT !.dup[n] = Marked(@, m.seq), !.forwards[n][m.seq] = @ + 1]
       IN  FoldSet(LAMBDA j, K : net_outbuffer_push(K, n, j, f), M, Outgoing(n, p.on, m))

(* A message of a packet: those of this node itself are dropped, the rest  *)
(* processed and, unless the processing says no, forwarded.                *)
ParseMessage(N, n, p, m) ==
  IF n = Orig \/ ~Accepted(N, n, p, m) THEN N
  ELSE olsr_forward_message([N EXCEPT !.got[n] = @ \cup {m.seq},
                                      !.tc_seq[n] = IF kind = "TC" THEN m.seq ELSE @], n, p, m)

parse_packet(N, n, p) == FoldLeft(LAMBDA K, m : ParseMessage(K, n, p, m), N, p.msgs)

------------------------------------------------------------------------------
Update(N) ==
  /\ netbuf' = N.netbuf /\ air' = N.air /\ tc_seq' = N.tc_seq /\ dup' = N.dup
  /\ got' = N.got /\ forwards' = N.forwards
  /\ UNCHANGED <<net, relays, kind>>

(* The originator queues its message on an interface.                      *)
Generate(i) ==
  /\ air = <<>>
  /\ i \in Interfaces(Orig) \ sent
  /\ sent' = sent \cup {i}
  /\ Update(net_outbuffer_push(Net, Orig, i, [seq |-> Cardinality(sent) + 1, ttl |-> net.ttl, hopcnt |-> net.hops, radio |-> 0]))

(* The next HELLO takes the pending messages with it.                      *)
olsr_output_lq_hello(n, i) ==
  /\ air = <<>>
  /\ netbuf[n][i] # <<>>
  /\ Update(net_output(Net, n, i))
  /\ UNCHANGED sent

(* A packet is read by all who hear it, long before the next HELLO.        *)
olsr_input ==
  /\ air # <<>>
  /\ LET p == Head(air)
     IN  Update(FoldSet(LAMBDA n, N : parse_packet(N, n, p), [Net EXCEPT !.air = Tail(@)],
                        Hearing(p.from, p.on)))
  /\ UNCHANGED sent

FloodNext ==
  \/ \E i \in Ifs : Generate(i)
  \/ \E n \in Routers, i \in Ifs : olsr_output_lq_hello(n, i)
  \/ olsr_input

(* HELLO messages are sent periodically and packets are read; what is left *)
(* to do only shrinks, so that it is enough that something is done.        *)
FloodSpec == FloodInit /\ [][FloodNext]_floodVars /\ WF_floodVars(FloodNext)

------------------------------------------------------------------------------
FloodTypeOK ==
  /\ kind \in Kinds /\ sent \subseteq Ifs
  /\ \A n \in Routers : /\ tc_seq[n] \in {0} \cup Seqnos /\ got[n] \subseteq Seqnos
                      /\ dup[n].seqnr \in {0} \cup Seqnos /\ dup[n].marked \subseteq Seqnos
                      /\ \A i \in Ifs : Len(netbuf[n][i]) <= BufferSize

(* In a connected network every node gets the content of the message in    *)
(* the end, although no node but the relays passes it on, and although a   *)
(* node that has a TC from a sender it is no relay of does not look at it  *)
(* again when it comes from one that it is a relay of (tc_set.c:853).      *)
AllInformed ==
  net.ttl > Cardinality(Routers) /\ net.hops + net.ttl <= MAX_TTL ~> \A n \in Routers \ {Orig} : got[n] # {}

(* No message makes more wireless hops than its TTL allows, and one whose  *)
(* TTL was not counted down only the first.                                *)
TtlRespected ==
  LET limit == IF net.hops + net.ttl > MAX_TTL THEN 1 ELSE net.ttl
  IN  \A k \in DOMAIN air : \A l \in DOMAIN air[k].msgs : air[k].msgs[l].radio <= limit

(* A node passes a TC on at most once, and of the MIDs only the first one  *)
(* that it forwards twice, as that is not marked; its own come never back. *)
ForwardedOnce ==
  /\ \A n \in Routers, s \in Seqnos :
       forwards[n][s] <= IF n = Orig THEN 0 ELSE IF kind = "TC" THEN 1 ELSE 2
  /\ \A n \in Routers : Cardinality({s \in Seqnos : forwards[n][s] = 2}) <= 1

(* The flood is bounded: messages are not passed on again, none is sent    *)
(* farther over the radio than its TTL allows, and no buffer holds more    *)
(* than fits.                                                              *)
FloodBounded == FloodTypeOK /\ ForwardedOnce /\ TtlRespected
===============================================================================
