---------------------------- MODULE BmfInterfaces ----------------------------
(***************************************************************************)
(* The sockets of the multicast forwarding plugin (lib/bmf): the plugin    *)
(* closes and opens everything again whenever an OLSR interface comes or   *)
(* goes, and each of the steps of opening can fail on its own.             *)
(*                                                                         *)
(* A socket is the pair of its interface and its use; the tunnel device is *)
(* the socket Tun.  An address is the name of the interface it belongs to. *)
(* The device is persistent (TUNSETPERSIST, NetworkInterfaces.c:1301): its *)
(* route and setting outlive the socket.                                   *)
(***************************************************************************)
EXTENDS Naturals, Sequences, SequencesExt, FiniteSets

CONSTANTS
  BmfSetups,    \* configurations, see MCPlugins
  MaxRestarts   \* bound on the restarts

VARIABLES
  bmf_cnf,          \* the configuration
  bmf_phase,        \* load, run, exit
  olsr_ifs,         \* the OLSR interfaces of the daemon (ifnet)
  BmfInterfaceList, \* BmfInterfaces: records of name, is it OLSR, sockets
  EtherTunTapFd,    \* EtherTunTapFd >= 0
  EtherTunTapIp,
  EthTapSpoofState, \* the saved rp_filter setting of the tunnel device
  listeners,        \* sockets with a handler in the scheduler
  open_fds,         \* open sockets of the plugin
  rp_filter,        \* kernel: the setting of the tunnel device
  mcast_route,      \* kernel: the multicast route over the tunnel device
  own_hna,          \* addresses of the tunnel device that are announced
  failed,           \* history: the calls that failed when last tried, and
                    \* those on the setting that ever failed
  skipped,          \* history: the interfaces the last restart left out
  restarts          \* history: restarts

bmfIfVars == <<bmf_cnf, bmf_phase, olsr_ifs, BmfInterfaceList, EtherTunTapFd, EtherTunTapIp,
               EthTapSpoofState, listeners, open_fds, rp_filter, mcast_route, own_hna, failed,
               skipped, restarts>>

Tun == <<"bmf0", "tun">>
NotSet == "not set"
DefaultIp == "default"
ConfiguredIp == "configured"

(* The plugin and what it has changed in the kernel, as one record.        *)
Bmf == [list |-> BmfInterfaceList, fd |-> EtherTunTapFd, ip |-> EtherTunTapIp,
        spoof |-> EthTapSpoofState, heard |-> listeners, open |-> open_fds, rp |-> rp_filter,
        route |-> mcast_route, hna |-> own_hna, failed |-> failed,
        skipped |-> skipped]

BmfBecomes(B) ==
  /\ BmfInterfaceList' = B.list /\ EtherTunTapFd' = B.fd /\ EtherTunTapIp' = B.ip
  /\ EthTapSpoofState' = B.spoof /\ listeners' = B.heard /\ open_fds' = B.open
  /\ rp_filter' = B.rp /\ mcast_route' = B.route /\ own_hna' = B.hna
  /\ failed' = B.failed /\ skipped' = B.skipped

------------------------------------------------------------------------------
(* Opening and closing.  fail is the one call that fails while opening, or *)
(* while closing: <<i, use>> for a socket of interface i, <<i, "mac">> for *)
(* its MAC address, or one of the calls that concern no interface.         *)
NoFailure    == <<"none", "none">>
ListFails    == <<"all", "list">>     \* the list of the interfaces
TunFails     == <<"all", "tun">>      \* the tunnel device
UpFails      == <<"all", "up">>       \* bringing the device up
ReadFails    == <<"all", "read">>     \* opening its setting to read it
WriteFails   == <<"all", "write">>    \* opening it to clear it
RestoreFails == <<"all", "restore">>  \* opening it to restore it
AddFails     == <<"all", "add">>      \* adding the route
DeleteFails  == <<"all", "delete">>   \* deleting the route

Tried(B, call, fail) ==
  [B EXCEPT !.failed = IF fail = call THEN @ \cup {call} ELSE @ \ {call}]

EverFailed(B, call, fail) ==
  [B EXCEPT !.failed = IF fail = call THEN @ \cup {call} ELSE @]

(* The sockets of interface i, in the order they are opened.               *)
Uses(i, olsr) ==
  (IF olsr THEN <<"encapsulate">> ELSE <<>>)
  \o (IF ~olsr \/ bmf_cnf.capture_olsr THEN <<"capture">> ELSE <<>>)
  \o (IF bmf_cnf.promiscuous THEN <<"listen">> ELSE <<>>)

Sockets(i, olsr) == {<<i, u>> : u \in ToSet(Uses(i, olsr))}

(* What a failure leaves open: without a listening socket the capturing    *)
(* one, without MAC address the listening one.                             *)
LeftOpen(i, olsr, fail) ==
  \/ fail[2] = "listen" /\ <<i, "capture">> \in Sockets(i, olsr)
  \/ fail[2] = "mac" /\ <<i, "listen">> \in Sockets(i, olsr)

CreateInterface(B, i, olsr, fail) ==
  IF fail \in Sockets(i, olsr) \cup {<<i, "mac">>}
  THEN [B EXCEPT !.open = IF LeftOpen(i, olsr, fail) THEN @ \cup {<<i, "lost">>} ELSE @,
                 !.skipped = @ \cup {i}]
  ELSE LET new == [name |-> i, olsr |-> olsr, sockets |-> Sockets(i, olsr)]
       IN  [B EXCEPT !.list = IF olsr THEN <<new>> \o @ ELSE @ \o <<new>>,
                     !.open = @ \cup new.sockets,
                     !.heard = @ \cup new.sockets]

(* The address of the last OLSR interface in the list.                     *)
CreateLocalEtherTunTap(B, fail) ==
  LET olsr == SelectSeq(B.list, LAMBDA b : b.olsr)
      ip == IF B.ip # NotSet THEN B.ip
            ELSE IF olsr # <<>> THEN Last(olsr).name ELSE DefaultIp
  IN  IF fail = TunFails THEN [B EXCEPT !.fd = FALSE]
      ELSE IF fail = UpFails THEN [B EXCEPT !.fd = FALSE, !.ip = ip]
      ELSE [B EXCEPT !.fd = TRUE, !.ip = ip,
                     !.open = @ \cup {Tun}, !.heard = @ \cup {Tun},
                     !.hna = IF bmf_cnf.ip # NotSet THEN @ \cup {ip} ELSE @]

(* Mutant: an interface that is about to be removed is opened again.       *)
CreateAllInterfaces(B, ifs, skip, fail) ==
  LET wanted == SelectSeq(bmf_cnf.devices, LAMBDA i : i \in ifs \cup bmf_cnf.non_olsr)
  IN  CreateLocalEtherTunTap(
        FoldLeft(LAMBDA C, i : CreateInterface(C, i, i \in ifs, fail), B, wanted), fail)

(* The devices of the kernel in its order; skip is an interface that is    *)
(* about to be removed but still an OLSR interface of the daemon.          *)
CreateBmfNetworkInterfaces(B, ifs, skip, fail) ==
  IF fail = ListFails THEN Tried(B, ListFails, fail)
  ELSE LET wanted == SelectSeq(bmf_cnf.devices,
                       LAMBDA i : i # skip /\ (i \in ifs \/ i \in bmf_cnf.non_olsr))
       IN  CreateLocalEtherTunTap(
             FoldLeft(LAMBDA C, i : CreateInterface(C, i, i \in ifs, fail),
                      Tried(B, ListFails, fail), wanted), fail)

(* The setting is saved and cleared; without a file to read nothing is     *)
(* saved, without a file to write the setting stays as it is.              *)
DeactivateSpoofFilter(B, fail) ==
  LET C == EverFailed(B, ReadFails, fail)
  IN  IF fail = ReadFails THEN C
      ELSE [C EXCEPT !.spoof = B.rp, !.rp = IF fail = WriteFails THEN @ ELSE 0]

(* A failure, also that of a route that exists, is reported and ignored.   *)
AddMulticastRoute(B, fail) ==
  LET C == Tried(B, AddFails, fail)
  IN  IF fail = AddFails THEN C ELSE [C EXCEPT !.route = TRUE]

InitBmf(B, ifs, skip, fail) ==
  LET C == CreateBmfNetworkInterfaces([B EXCEPT !.skipped = {skip}], ifs, skip, fail)
      D == DeactivateSpoofFilter(C, fail)
  IN  IF ~C.fd THEN C
      ELSE IF D.ip # DefaultIp THEN AddMulticastRoute(D, fail) ELSE D

------------------------------------------------------------------------------
(* Closing.                                                                *)

DeleteMulticastRoute(B, fail) ==
  LET C == Tried(B, DeleteFails, fail)
  IN  IF B.ip = DefaultIp THEN B
      ELSE IF fail = DeleteFails THEN C ELSE [C EXCEPT !.route = FALSE]

RestoreSpoofFilter(B, fail) ==
  LET C == EverFailed(B, RestoreFails, fail)
  IN  IF fail = RestoreFails THEN C ELSE [C EXCEPT !.rp = B.spoof]

(* The sockets of the list and of the tunnel; the descriptor of the tunnel *)
(* keeps its number.                                                       *)
CloseBmfNetworkInterfaces(B) ==
  LET closed == UNION {b.sockets : b \in ToSet(B.list)} \cup (IF B.fd THEN {Tun} ELSE {})
  IN  [B EXCEPT !.list = <<>>, !.ip = NotSet, !.open = @ \ closed, !.heard = @ \ closed]

CloseBmf(B, fail) ==
  CloseBmfNetworkInterfaces(
    IF B.fd THEN RestoreSpoofFilter(DeleteMulticastRoute(B, fail), fail) ELSE B)

------------------------------------------------------------------------------
ClosingFailures == {NoFailure, DeleteFails, RestoreFails}

Failures ==
  {NoFailure, ListFails, TunFails, UpFails, ReadFails, WriteFails, AddFails}
    \cup (ToSet(bmf_cnf.devices) \X {"encapsulate", "capture", "listen", "mac"})

olsrd_plugin_init(fail) ==
  /\ bmf_phase = "load" /\ bmf_phase' = "run"
  /\ \E B \in {InitBmf(Bmf, olsr_ifs, "none", fail)} : BmfBecomes(B)
  /\ UNCHANGED <<bmf_cnf, olsr_ifs, restarts>>

(* InterfaceChange for an interface that was added or is to be removed.    *)
InterfaceAdded(i, closing, fail) ==
  /\ bmf_phase = "run" /\ i \notin olsr_ifs /\ restarts < MaxRestarts
  /\ olsr_ifs' = olsr_ifs \cup {i}
  /\ \E B \in {InitBmf(CloseBmf(Bmf, closing), olsr_ifs \cup {i}, "none", fail)} : BmfBecomes(B)
  /\ restarts' = restarts + 1 /\ UNCHANGED <<bmf_cnf, bmf_phase>>

InterfaceRemoved(i, closing, fail) ==
  /\ bmf_phase = "run" /\ i \in olsr_ifs /\ restarts < MaxRestarts
  /\ olsr_ifs' = olsr_ifs \ {i}
  /\ \E B \in {InitBmf(CloseBmf(Bmf, closing), olsr_ifs, i, fail)} : BmfBecomes(B)
  /\ restarts' = restarts + 1 /\ UNCHANGED <<bmf_cnf, bmf_phase>>

olsrd_plugin_fini(closing) ==
  /\ bmf_phase = "run" /\ bmf_phase' = "exit"
  /\ BmfBecomes(CloseBmf(Bmf, closing))
  /\ UNCHANGED <<bmf_cnf, olsr_ifs, restarts>>

BmfIfInit ==
  /\ bmf_cnf \in BmfSetups
  /\ bmf_phase = "load"
  /\ olsr_ifs \in SUBSET bmf_cnf.olsr
  /\ BmfInterfaceList = <<>> /\ EtherTunTapFd = FALSE
  /\ EtherTunTapIp = bmf_cnf.ip
  /\ EthTapSpoofState = 1 /\ rp_filter = bmf_cnf.rp_filter
  /\ listeners = {} /\ open_fds = {} /\ mcast_route = FALSE /\ own_hna = {}
  /\ failed = {} /\ skipped = {} /\ restarts = 0

BmfIfNext ==
  \/ \E fail \in Failures :
       \/ olsrd_plugin_init(fail)
       \/ \E i \in bmf_cnf.olsr, closing \in ClosingFailures :
            InterfaceAdded(i, closing, fail) \/ InterfaceRemoved(i, closing, fail)
  \/ \E closing \in ClosingFailures : olsrd_plugin_fini(closing)

BmfIfSpec == BmfIfInit /\ [][BmfIfNext]_bmfIfVars

------------------------------------------------------------------------------
(* The handlers in the scheduler, which are called with a pointer to the   *)
(* plugin's interface, are those of the sockets of the list and of the     *)
(* tunnel, through all restarts and failures, and no interface of the list *)
(* points to an OLSR interface that is gone.  Every interface the plugin   *)
(* should use and that did not fail has its sockets, OLSR interfaces come  *)
(* first (Bmf.c:1145, NetworkInterfaces.c:1339).  If the interfaces could  *)
(* be listed, multicast traffic is routed over the tunnel when that is     *)
(* open and has an address of its own, unless the route was just refused,  *)
(* and only then, unless its last deletion failed.  The exit leaves no     *)
(* handler, no route that could be deleted and, unless it listens          *)
(* promiscuously, no socket.  The setting of the device is then as it was, *)
(* unless a call that reads or restores it has failed: after a failed      *)
(* restoration the next start saves the cleared setting as the original.   *)
BmfRestartsCleanly ==
  LET Listed == ToSet(BmfInterfaceList)
  IN  /\ listeners \ {Tun} = UNION {b.sockets : b \in Listed}
      /\ listeners \subseteq open_fds
      /\ \A b \in Listed : b.olsr => b.name \in olsr_ifs
      /\ \A j, k \in 1..Len(BmfInterfaceList) :
           j < k /\ BmfInterfaceList[k].olsr => BmfInterfaceList[j].olsr
      /\ bmf_phase = "run" /\ ListFails \notin failed =>
           /\ olsr_ifs \cup bmf_cnf.non_olsr \subseteq {b.name : b \in Listed} \cup skipped
           /\ Tun \in listeners <=> EtherTunTapFd
           /\ EtherTunTapFd /\ EtherTunTapIp # DefaultIp => mcast_route \/ AddFails \in failed
           /\ mcast_route => \/ EtherTunTapFd /\ EtherTunTapIp # DefaultIp
                             \/ DeleteFails \in failed
      /\ bmf_phase = "exit" =>
           /\ listeners = {}
           /\ bmf_cnf.promiscuous \/ open_fds = {}
           /\ mcast_route => DeleteFails \in failed
           /\ rp_filter = bmf_cnf.rp_filter \/ {ReadFails, RestoreFails} \cap failed # {}
==============================================================================
