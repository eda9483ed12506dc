------------------------------ MODULE BmfFlood ------------------------------
(***************************************************************************)
(* The multicast forwarding plugin (lib/bmf): how multicast and local      *)
(* broadcast packets of the attached networks are carried through the OLSR *)
(* network in encapsulation packets (Bmf.c, PacketHistory.c) and to which  *)
(* neighbors (FindNeighbors of NetworkInterfaces.c).  Each node has one    *)
(* OLSR interface, the tuntap interface, and a non-OLSR interface in each  *)
(* of its networks.                                                        *)
(***************************************************************************)
EXTENDS Integers, FiniteSets

CONSTANTS BmfSetups,        \* networks and configurations
          BmfPackets,       \* packets [id, from, on, dst]: from a node or a host, on an interface or network
          MaxOffered,       \* bound on the packets
          HistoryHold, MaxDelay  \* in the same unit of time; HISTORY_HOLD_TIME

(* A setup has the costs of the OLSR links, 0 if there is none; the        *)
(* neighbors that chose each node as MPR; the nodes with a non-OLSR        *)
(* interface in each network; the parameters of the plugin; and whether    *)
(* packets are lost.                                                       *)
ASSUME DelayAssumption == HistoryHold \in Nat /\ MaxDelay \in Nat

VARIABLES bmf_mode,      \* the setup: etx, selected, attached, mechanism, fanout, lq_level, capture, lossy
          history,       \* PacketHistory: the time left for each crc32
          encapsulated,  \* encapsulation packets in transit
          frames,        \* packets on networks, not yet captured by one of their nodes
          offered,       \* packets that their hosts have sent
          reached,       \* history: the packets each node has seen
          again          \* history: those written into the tuntap interface of a node that had seen them

bmfVars == <<bmf_mode, history, encapsulated, frames, offered, reached, again>>

Multicast == "mc"
Tun       == "tun"
OlsrNet   == "olsr"
Unknown   == 0             \* a node that is not given (NULL), or a host
BmfNodes  == DOMAIN bmf_mode.etx
LinkEtx   == bmf_mode.etx
TcEtx     == bmf_mode.etx      \* the edges of the topology set
Selected  == bmf_mode.selected
Attached  == bmf_mode.attached
Nets      == DOMAIN Attached
NetsOf(n) == {net \in Nets : n \in Attached[net]}
Linked(n, m) == LinkEtx[n][m] > 0
Neighbors(n) == {m \in BmfNodes : Linked(n, m)}

(* The checksum is over the packet with its destination, but not its TTL.  *)
PacketCrc32(id, dst) == <<id, dst>>

(* Local broadcasts get the destination of the network they are sent to.   *)
CheckAndUpdateLocalBroadcast(dst, net) == IF dst = Multicast THEN dst ELSE net

------------------------------------------------------------------------------
(* Marks a packet as seen; entries count until they are pruned.            *)
CheckAndMarkRecentPacket(n, crc) ==
  /\ reached' = reached \cup {<<n, crc>>}
  /\ history' = [history EXCEPT ![n] = [c \in DOMAIN @ \cup {crc} |-> IF c = crc THEN HistoryHold ELSE @[c]]]

(* Mutant: asks whether the source chose this node, not the forwarder.     *)
IAmMprOfSource(n, c) == c.src \in Selected[n]

(* Whether the node that forwarded a packet chose this one as MPR.         *)
IAmMpr(n, c) == c.by \in Selected[n]

(* The neighbors that may need a packet that came from node by (sent to    *)
(* node to, if it was overheard) and whose source is src.  With link       *)
(* qualities those are left out that by reaches at a lower cost.           *)
FindNeighbors(n, src, by, to) ==
  LET direct(m) == /\ by # Unknown /\ TcEtx[by][m] > 0
                   /\ LinkEtx[n][by] + LinkEtx[n][m] > TcEtx[by][m]
  IN  {m \in Neighbors(n) \ {src, by, to} : bmf_mode.lq_level = 0 \/ ~direct(m)}

(* The copies of packet c for the neighbors: unicast to the best one, and  *)
(* the others overhear it; or unicast to a few; or broadcast, if there are *)
(* more than FanOutLimit.                                                  *)
EncapsulateAndForwardPacket(n, c, src, by, to) ==
  LET possible == FindNeighbors(n, src, by, to)
      copy(m, other) == [at |-> m, by |-> n, other |-> other, crc |-> c.crc, src |-> c.src, age |-> 0]
      best == {m \in possible : bmf_mode.lq_level = 0 \/ \A k \in possible : LinkEtx[n][m] <= LinkEtx[n][k]}
  IN  IF possible = {} THEN {{}}
      ELSE IF bmf_mode.mechanism = "promiscuous"
      THEN {{copy(m, IF m = b THEN Unknown ELSE b) : m \in Neighbors(n)} : b \in best}
      ELSE IF Cardinality(possible) <= bmf_mode.fanout
      THEN {{copy(m, Unknown) : m \in possible}}
      ELSE {{copy(m, Unknown) : m \in Neighbors(n)}}

(* A packet goes out on networks; each other node there captures it.       *)
ForwardPacket(n, c, nets) ==
  {[at |-> m, by |-> n, net |-> net, crc |-> PacketCrc32(c.crc[1], CheckAndUpdateLocalBroadcast(c.crc[2], net)),
    src |-> c.src, age |-> 0] : <<net, m>> \in {x \in nets \X BmfNodes : x[2] \in Attached[x[1]] \ {n}}}

------------------------------------------------------------------------------
(* A host, or a node itself, sends a packet on a network; all nodes there  *)
(* capture it, the sender as an outgoing one.                              *)
HostSends(p) ==
  LET heard == IF p.on = OlsrNet THEN Neighbors(p.from) \cup {p.from} ELSE Attached[p.on]
  IN  /\ p.on \in Nets \cup {OlsrNet} /\ Cardinality(offered) < MaxOffered /\ p \notin offered /\ (p.on = OlsrNet => bmf_mode.capture)
      /\ offered' = offered \cup {p}
      /\ frames' = frames \cup {[at |-> m, by |-> p.from, net |-> p.on, crc |-> PacketCrc32(p.id, p.dst),
                                  src |-> p.from, age |-> 0] : m \in heard}
      /\ UNCHANGED <<bmf_mode, history, encapsulated, reached, again>>

(* A packet is captured.  One of an OLSR neighbor goes to OLSR interfaces  *)
(* only if the neighbor chose this node as MPR.                            *)
BmfPacketCaptured(f) ==
  LET n == f.at
      toOlsr == f.net = OlsrNet => f.by # n /\ (f.by \in Neighbors(n) => IAmMpr(n, f))
  IN  /\ f \in frames
      /\ CheckAndMarkRecentPacket(n, f.crc)
      /\ IF f.crc \in DOMAIN history[n] THEN UNCHANGED encapsulated /\ frames' = frames \ {f}
         ELSE /\ frames' = (frames \ {f}) \cup ForwardPacket(n, f, NetsOf(n) \ {f.net})
              /\ \E copies \in IF toOlsr THEN EncapsulateAndForwardPacket(n, f, Unknown, Unknown, Unknown) ELSE {{}} :
                   encapsulated' = encapsulated \cup copies
      /\ UNCHANGED <<bmf_mode, offered, again>>

(* Mutant: a packet of the own node is not marked.                         *)
TunUnmarked(p) ==
  LET c == [crc |-> PacketCrc32(p.id, p.dst), src |-> p.from]
  IN  /\ p.on = Tun /\ Cardinality(offered) < MaxOffered /\ p \notin offered
      /\ offered' = offered \cup {p}
      /\ frames' = frames \cup ForwardPacket(p.from, c, NetsOf(p.from))
      /\ \E copies \in EncapsulateAndForwardPacket(p.from, c, Unknown, Unknown, Unknown) :
           encapsulated' = encapsulated \cup copies
      /\ reached' = reached \cup {<<p.from, c.crc>>}
      /\ UNCHANGED <<bmf_mode, history, again>>

(* The own node sends a packet through the tuntap interface.               *)
BmfTunPacketCaptured(p) ==
  LET n == p.from
      c == [crc |-> PacketCrc32(p.id, p.dst), src |-> n]
  IN  /\ p.on = Tun /\ Cardinality(offered) < MaxOffered /\ p \notin offered
      /\ offered' = offered \cup {p}
      /\ CheckAndMarkRecentPacket(n, c.crc)
      /\ IF c.crc \in DOMAIN history[n] THEN UNCHANGED <<encapsulated, frames>>
         ELSE /\ frames' = frames \cup ForwardPacket(n, c, NetsOf(n))
              /\ \E copies \in EncapsulateAndForwardPacket(n, c, Unknown, Unknown, Unknown) :
                   encapsulated' = encapsulated \cup copies
      /\ UNCHANGED <<bmf_mode, again>>

(* An encapsulation packet came, directed to this node or overheard: it is *)
(* delivered to the own node and the networks, and goes on if the node     *)
(* that forwarded it chose this one as MPR.                                *)
BmfEncapsulationPacketReceived(c) ==
  LET n == c.at
  IN  /\ c \in encapsulated
      /\ CheckAndMarkRecentPacket(n, c.crc)
      /\ IF c.crc \in DOMAIN history[n] THEN encapsulated' = encapsulated \ {c} /\ UNCHANGED <<frames, again>>
         ELSE /\ again' = again \cup ({<<n, c.crc>>} \cap reached)
              /\ frames' = frames \cup ForwardPacket(n, c, NetsOf(n))
              /\ \E copies \in IF IAmMpr(n, c)
                                THEN EncapsulateAndForwardPacket(n, c, c.src, c.by, c.other) ELSE {{}} :
                   encapsulated' = (encapsulated \ {c}) \cup copies
      /\ UNCHANGED <<bmf_mode, offered>>

(* A packet is lost, also if its interface is not ready in time.           *)
PacketLost ==
  /\ bmf_mode.lossy
  /\ \/ \E c \in encapsulated : encapsulated' = encapsulated \ {c} /\ UNCHANGED frames
     \/ \E f \in frames : frames' = frames \ {f} /\ UNCHANGED encapsulated
  /\ UNCHANGED <<bmf_mode, history, offered, reached, again>>

(* Time passes; no packet takes longer than MaxDelay for a hop.            *)
TimePasses ==
  /\ \A c \in encapsulated \cup frames : c.age < MaxDelay
  /\ encapsulated' = {[c EXCEPT !.age = @ + 1] : c \in encapsulated}
  /\ frames' = {[f EXCEPT !.age = @ + 1] : f \in frames}
  /\ \E n \in BmfNodes : \E c \in DOMAIN history[n] : history[n][c] > 0
  /\ history' = [n \in BmfNodes |-> [c \in DOMAIN history[n] |-> IF history[n][c] > 0 THEN history[n][c] - 1 ELSE 0]]
  /\ UNCHANGED <<bmf_mode, offered, reached, again>>

(* Entries whose time is over are removed.                                 *)
PrunePacketHistory(n) ==
  /\ \E c \in DOMAIN history[n] : history[n][c] = 0
  /\ history' = [history EXCEPT ![n] = [c \in {x \in DOMAIN @ : @[x] > 0} |-> @[c]]]
  /\ UNCHANGED <<bmf_mode, encapsulated, frames, offered, reached, again>>

------------------------------------------------------------------------------
BmfInit ==
  /\ bmf_mode \in BmfSetups
  /\ history = [n \in BmfNodes |-> [c \in {} |-> 0]]          \* InitPacketHistory
  /\ encapsulated = {} /\ frames = {} /\ offered = {}
  /\ reached = {} /\ again = {}

BmfNext ==
  \/ \E p \in BmfPackets : HostSends(p) \/ BmfTunPacketCaptured(p)
  \/ \E f \in frames : BmfPacketCaptured(f)
  \/ \E c \in encapsulated : BmfEncapsulationPacketReceived(c)
  \/ PacketLost \/ TimePasses
  \/ \E n \in BmfNodes : PrunePacketHistory(n)

BmfSpec == BmfInit /\ [][BmfNext]_bmfVars

------------------------------------------------------------------------------
(* BMF never writes a packet into the tuntap interface of a node that has  *)
(* seen it before, be it that it was written there already, captured on an *)
(* interface of the node, or sent by the node through the tuntap interface *)
(* itself: whatever way copies take over the OLSR links and the networks,  *)
(* in whatever order they come, and though the history forgets packets     *)
(* (PacketHistory.c:274).  The reverse is not promised: a packet sent on   *)
(* an OLSR interface may come to a node, its sender included, through the  *)
(* tuntap interface first and directly after that (README_BMF.txt:295-328, *)
(* CapturePacketsOnOlsrInterfaces).  A local broadcast is another packet   *)
(* for each network whose address it was given on the way.                 *)
DeliveredOnce == again = {}

(* A multicast packet reaches every node, if none is lost: though a node   *)
(* forwards only the first copy it gets, and only if that came from one    *)
(* that chose it as MPR (Bmf.c:744), and leaves out neighbors that others  *)
(* reach at less cost (NetworkInterfaces.c:857), copies may overtake each  *)
(* other on the way.                                                       *)
PacketReaches ==
  \A p \in BmfPackets :
    p \in offered /\ ~bmf_mode.lossy
      ~> \A n \in BmfNodes : \E x \in reached : x[1] = n /\ x[2][1] = p.id
=============================================================================
