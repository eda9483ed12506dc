----------------------------- MODULE Interfaces -----------------------------
(***************************************************************************)
(* The interface database: which of the configured interfaces the daemon   *)
(* runs on (interfaces.c, unix/ifnet.c, linux/net.c), kept up to date by a *)
(* periodic poll of the kernel and by the kernel's link messages           *)
(* (linux/kernel_routes_nl.c), and what hangs on it: sockets, timers,      *)
(* output buffers, links, the plugins' view and the kernel's settings.     *)
(*                                                                         *)
(* A struct interface is a number; a number is used again once no live     *)
(* interface and no link refers to it.  The kernel's two settings of a     *)
(* device (send_redirects and rp_filter) are treated alike and are one     *)
(* value here, as are the global ones.                                     *)
(***************************************************************************)
EXTENDS Integers, Sequences, FiniteSets, SequencesExt

CONSTANT
  IfSetups       \* the configurations, each with its bound on the kernel's steps

VARIABLES
  if_cnf,        \* the configuration and what may happen in it
  kernel,        \* device -> [index, flags, mtu]; index 0: no such device
  address,       \* interface name -> its address in the kernel, 0: none
  proc,          \* device -> its setting under /proc/sys/net
  global,        \* the global settings under /proc/sys/net
  orig_global,   \* what they were at the start
  rtnl,          \* link messages in the monitor socket
  reading,       \* rtnetlink_read is between two messages
  phase,         \* off, run, shutdown (olsr_shutdown has run), killed
  interf,        \* olsr_if -> its struct interface, 0: not configured
  ifnet,         \* the list of struct interface
  ifstruct,      \* the fields of the live ones
  socket_list,   \* those whose two sockets are open and registered
  gen_timers,    \* those whose four generation timers run
  if_links,      \* links: [if_name, local, inter]
  plugin_view,   \* the interfaces the plugins know of
  others_view,   \* the indexes of other devices they were told of
  main_addr,
  sock_failures, \* calls of getsocket and SIOCGIFMTU that may still fail
  kernel_steps,
  left,          \* history: addresses that a live interface was moved away from
  forgotten      \* history: devices whose saved setting was dropped

daemonVars == <<proc, global, phase, interf, ifnet, ifstruct, socket_list,
                gen_timers, if_links, plugin_view, others_view, main_addr, sock_failures, left,
                forgotten>>
interfaceVars == <<daemonVars, if_cnf, kernel, address, orig_global, rtnl, reading,
                   kernel_steps>>

Names == Range(if_cnf.names)
Devices == {if_cnf.base[n] : n \in Names} \cup if_cnf.others
DefaultMtu == 1    \* OLSR_DEFAULT_MTU
if_basename(n) == if_cnf.base[n]

Daemon == [proc |-> proc, global |-> global, phase |-> phase, interf |-> interf,
           ifnet |-> ifnet, ifstruct |-> ifstruct, sockets |-> socket_list,
           timers |-> gen_timers, links |-> if_links, plugins |-> plugin_view,
           others |-> others_view, main_addr |-> main_addr, left |-> left, forgotten |-> forgotten,
           failures |-> sock_failures]

DaemonBecomes(D) ==
  /\ proc' = D.proc /\ global' = D.global /\ phase' = D.phase
  /\ interf' = D.interf /\ ifnet' = D.ifnet /\ ifstruct' = D.ifstruct
  /\ socket_list' = D.sockets /\ gen_timers' = D.timers /\ if_links' = D.links
  /\ plugin_view' = D.plugins /\ others_view' = D.others /\ main_addr' = D.main_addr
  /\ left' = D.left /\ forgotten' = D.forgotten
  /\ sock_failures' = D.failures

-----------------------------------------------------------------------------
(* The searches of the list: the first interface that fits, 0 for none.    *)
FirstWith(D, Fits(_)) ==
  LET found == SelectSeq(D.ifnet, Fits) IN IF found = <<>> THEN 0 ELSE found[1]

if_ifwithindex(D, index) == FirstWith(D, LAMBDA i : D.ifstruct[i].if_index = index)
if_ifwithname(D, name) ==
  FirstWith(D, LAMBDA i : if_basename(D.ifstruct[i].name) = name)

(* A mutant: the list is walked from its other end.                        *)
RestoredOldestFirst(D) ==
  [D EXCEPT !.global = orig_global,
            !.proc = IF if_cnf.ip6 THEN @
                     ELSE FoldRight(LAMBDA i, p :
                            LET d == if_basename(D.ifstruct[i].name)
                            IN IF kernel[d].index = 0 THEN p
                               ELSE [p EXCEPT ![d] = D.ifstruct[i].saved],
                            D.ifnet, @)]

(* Every value of a setting is written back in the order of the list: of   *)
(* two interfaces on one device the one configured first comes last.       *)
net_os_restore_ifoptions(D) ==
  [D EXCEPT !.global = orig_global,
            !.proc = IF if_cnf.ip6 THEN @
                     ELSE FoldLeft(LAMBDA p, i :
                            LET d == if_basename(D.ifstruct[i].name)
                            IN IF kernel[d].index = 0 THEN p
                               ELSE [p EXCEPT ![d] = D.ifstruct[i].saved],
                            @, D.ifnet)]

RunShutdown(D) ==
  [net_os_restore_ifoptions(D) EXCEPT !.phase = "shutdown", !.sockets = {}]

(* Links go by the address the struct holds now; with the last interface   *)
(* the daemon exits unless it is allowed to run without.                   *)
olsr_remove_interface(D, n) ==
  LET id == D.interf[n]
      R == [D EXCEPT !.links = {l \in @ : l.local # D.ifstruct[id].ip_addr},
                     !.plugins = @ \ {id},
                     !.ifnet = SelectSeq(@, LAMBDA i : i # id),
                     !.ifstruct = [i \in DOMAIN @ \ {id} |-> @[i]],
                     !.timers = @ \ {id},
                     !.interf[n] = 0, !.sockets = @ \ {id},
                     !.forgotten = @ \cup {if_basename(n)}]
  IN IF R.ifnet = <<>> /\ ~if_cnf.allow_no_interfaces THEN RunShutdown(R) ELSE R

(* What the ioctls must find for an interface to be used.                  *)
UpAndFit(n) ==
  /\ kernel[if_basename(n)].index # 0
  /\ kernel[if_basename(n)].flags = "running"
  /\ address[n] # 0

Fresh(D) ==
  CHOOSE i \in 1 .. Len(D.ifnet) + Cardinality(D.links) + 1 :
    /\ i \notin DOMAIN D.ifstruct /\ \A l \in D.links : l.inter # i
    /\ \A j \in 1 .. i - 1 : j \in DOMAIN D.ifstruct \/ \E l \in D.links : l.inter = j

net_os_set_ifoptions(D, n) ==
  IF if_cnf.ip6 THEN D ELSE [D EXCEPT !.proc[if_basename(n)] = 0]

(* The struct goes to the front of the list; sockets are registered,       *)
(* timers started, plugins told.  The first address becomes the main one.  *)
NewInterface(D, n, id, mtu) ==
  LET dev == kernel[if_basename(n)]
      addr == IF if_cnf.src # 0 THEN if_cnf.src ELSE address[n]
      ifs == [name |-> n, ip_addr |-> addr, if_index |-> dev.index, bound |-> dev.index,
              int_mtu |-> mtu, bufsize |-> mtu, saved |-> D.proc[if_basename(n)]]
  IN [net_os_set_ifoptions(D, n) EXCEPT
        !.interf[n] = id, !.ifnet = <<id>> \o @,
        !.ifstruct = [i \in DOMAIN @ \cup {id} |-> IF i = id THEN ifs ELSE @[i]],
        !.sockets = @ \cup {id}, !.timers = @ \cup {id}, !.plugins = @ \cup {id},
        !.main_addr = IF @ = 0 THEN addr ELSE @]

(* The outcomes of a visit to an interface that is not configured.  If the *)
(* receiving socket cannot be had the daemon ends, by a signal that kills  *)
(* it before main has installed its handlers; without the sending one the  *)
(* interface is left for a later poll.  An MTU that cannot be read is      *)
(* taken for the default.                                                  *)
chk_if_up(D, n) ==
  LET without == {[net_os_set_ifoptions(D, n) EXCEPT !.forgotten = @ \cup {if_basename(n)},
                                                     !.failures = @ - 1] :
                    i \in 1 .. D.failures}
  IN IF ~UpAndFit(n) THEN {D}
     ELSE {NewInterface(D, n, Fresh(D), kernel[if_basename(n)].mtu)} \cup without
          \cup {NewInterface([D EXCEPT !.failures = @ - 1], n, Fresh(D), DefaultMtu) : i \in 1 .. D.failures}
          \cup {IF D.phase = "off" THEN [F EXCEPT !.phase = "killed"] ELSE RunShutdown(F) :
                  F \in without}

(* A change of the MTU makes a new buffer, and an MTU that cannot be read  *)
(* is 0, with the buffer there was; a change of the address writes  *)
(* it into the struct, removes the interface and creates it again.         *)
chk_if_changed(D, n) ==
  LET id == D.interf[n]
      dev == kernel[if_basename(n)]
      I == [D EXCEPT !.ifstruct[id].if_index = dev.index]
      measured == {[I EXCEPT !.ifstruct[id].int_mtu = dev.mtu, !.ifstruct[id].bufsize = dev.mtu]}
                  \cup {[I EXCEPT !.ifstruct[id].int_mtu = 0, !.failures = @ - 1] : i \in 1 .. D.failures}
      readdress(U) == [U EXCEPT !.ifstruct[id].ip_addr = address[n],
                                !.left = @ \cup {D.ifstruct[id].ip_addr}]
  IN CASE ~UpAndFit(n) -> {olsr_remove_interface(D, n)}
       [] UpAndFit(n) /\ address[n] = D.ifstruct[id].ip_addr -> measured
       [] UpAndFit(n) /\ address[n] # D.ifstruct[id].ip_addr ->
            UNION {IF R.phase = "run" THEN chk_if_up(R, n) ELSE {R} :
                     R \in {olsr_remove_interface(readdress(U), n) : U \in measured}}

(* A mutant: the poll creates interfaces and never checks the ones it has. *)
NeverRechecked(D, n) ==
  IF D.phase # "run" \/ n \notin if_cnf.autodetect \/ D.interf[n] # 0 THEN {D}
  ELSE chk_if_up(D, n)

CheckInterface(D, n) ==
  IF D.phase # "run" \/ n \notin if_cnf.autodetect THEN {D}
  ELSE IF D.interf[n] # 0 THEN chk_if_changed(D, n) ELSE chk_if_up(D, n)

(* One visit of every configured interface, in the order of the            *)
(* configuration; an exit in the middle ends it.                           *)
check_interface_updates(D) ==
  FoldLeft(LAMBDA SS, n : UNION {CheckInterface(S, n) : S \in SS}, {D}, if_cnf.names)

(* A device that is, or is by now, none of the daemon's: the plugins are   *)
(* told that it is up, or gone.                                            *)
netlink_process_link(D, m) ==
  LET id == if_ifwithindex(D, m.index)
      oif == {n \in Names : n = if_basename(n) /\ kernel[n].index = m.index}
  IN CASE id = 0 /\ m.flags \in {"running", "unfit"} /\ oif # {} ->
            UNION {chk_if_up(D, n) : n \in oif}
       [] id # 0 /\ m.flags = "down" -> {olsr_remove_interface(D, D.ifstruct[id].name)}
       [] id = 0 /\ m.flags \in {"running", "unfit"} /\ oif = {} ->
            {[D EXCEPT !.others = @ \cup {m.index}]}
       [] id = 0 /\ m.flags = "down" -> {[D EXCEPT !.others = @ \ {m.index}]}
       [] OTHER -> {D}

-----------------------------------------------------------------------------
(* The settings and the flags a device starts with.                        *)
InterfacesInit ==
  /\ if_cnf \in IfSetups
  /\ kernel = [d \in Devices |-> [index |-> if_cnf.index[d], flags |-> "running", mtu |-> 1]]
  /\ address \in [Names -> 0 .. 4] /\ \A n \in Names : address[n] = if_cnf.first[n]
  /\ proc = [d \in Devices |-> 1] /\ global = 1 /\ orig_global = 1
  /\ rtnl = <<>> /\ reading = FALSE /\ phase = "off"
  /\ interf = [n \in Names |-> 0] /\ ifnet = <<>> /\ ifstruct = <<>>
  /\ socket_list = {} /\ gen_timers = {} /\ if_links = {} /\ plugin_view = {}
  /\ others_view = {}
  /\ main_addr = 0 /\ sock_failures = if_cnf.failures /\ kernel_steps = 0
  /\ left = {} /\ forgotten = {}

kernelVars == <<if_cnf, kernel, address, orig_global, kernel_steps>>

(* main sets the global options, then tries every interface; the signal    *)
(* handlers come later, so a failure here kills without a clean-up.        *)
olsr_init_interfacedb ==
  /\ phase = "off"
  /\ \E D \in FoldLeft(LAMBDA SS, n : UNION {IF S.phase = "off" THEN chk_if_up(S, n) ELSE {S} :
                                                S \in SS},
                       {[Daemon EXCEPT !.global = 0]}, if_cnf.names) :
       DaemonBecomes([D EXCEPT !.phase =
         IF D.phase = "killed" \/ (D.ifnet = <<>> /\ ~if_cnf.allow_no_interfaces)
         THEN "killed" ELSE "run"])
  /\ UNCHANGED <<kernelVars, rtnl, reading>>

(* The timer of the poll: walk_timers runs after rtnetlink_read is done.   *)
PollInterfaces ==
  /\ phase = "run" /\ ~reading
  /\ \E D \in check_interface_updates(Daemon) : DaemonBecomes(D)
  /\ UNCHANGED <<kernelVars, rtnl, reading>>

rtnetlink_read ==
  /\ phase = "run" /\ rtnl # <<>>
  /\ \E D \in netlink_process_link(Daemon, Head(rtnl)) : DaemonBecomes(D)
  /\ rtnl' = Tail(rtnl) /\ reading' = (Tail(rtnl) # <<>>)
  /\ UNCHANGED kernelVars

LinksBecome(L) ==
  /\ phase = "run" /\ if_links' = L
  /\ UNCHANGED <<proc, global, phase, interf, ifnet, ifstruct, socket_list, gen_timers,
                 plugin_view, others_view, main_addr, sock_failures, left, forgotten, kernelVars,
                 rtnl, reading>>

(* A HELLO comes in: a link is looked up by the device's name, so that a   *)
(* link of an earlier struct or of an alias is found again.                *)
HearNeighbor ==
  \E id \in socket_list :
    LET s == ifstruct[id]
        d == if_basename(s.name)
    IN /\ kernel[d].index = s.bound /\ kernel[d].flags = "running"
       /\ \A l \in if_links : l.if_name # d
       /\ LinksBecome(if_links \cup {[if_name |-> d, local |-> s.ip_addr, inter |-> id]})

LinkExpires == \E l \in if_links : LinksBecome(if_links \ {l})

(* olsr_calculate_routing_table finds the interface of a best link anew.   *)
SpfFindsInterface ==
  \E l \in if_links :
    LinksBecome((if_links \ {l}) \cup {[l EXCEPT !.inter = if_ifwithname(Daemon, l.if_name)]})

SignalShutdown ==
  /\ phase = "run"
  /\ \E D \in {RunShutdown(Daemon)} : DaemonBecomes(D)
  /\ UNCHANGED <<kernelVars, rtnl, reading>>

-----------------------------------------------------------------------------
(* The kernel and its operator.  Every change of a device's flags, its     *)
(* creation and its removal are announced; changes of addresses are not.   *)
KernelBecomes(K, A, news) ==
  /\ phase = "run" /\ kernel_steps < if_cnf.steps
  /\ kernel' = K /\ address' = A /\ rtnl' = rtnl \o news
  /\ kernel_steps' = kernel_steps + 1
  /\ UNCHANGED <<if_cnf, orig_global, reading, sock_failures, global, phase, interf, ifnet,
                 ifstruct, socket_list, gen_timers, if_links, plugin_view, others_view, main_addr,
                 left, forgotten>>

News(i, f) == <<[index |-> i, flags |-> f]>>

FlagsChange ==
  \E d \in Devices, f \in {"running", "nocarrier", "down", "unfit"} :
    /\ kernel[d].index # 0 /\ f # kernel[d].flags
    /\ KernelBecomes([kernel EXCEPT ![d].flags = f], address, News(kernel[d].index, f))
    /\ UNCHANGED proc

MtuChanges ==
  \E d \in Devices :
    /\ kernel[d].index # 0
    /\ KernelBecomes([kernel EXCEPT ![d].mtu = 3 - @], address,
                     News(kernel[d].index, kernel[d].flags))
    /\ UNCHANGED proc

AddressChanges ==
  \E n \in Names : \E a \in if_cnf.addresses[n] \ {address[n]} :
    /\ kernel[if_basename(n)].index # 0
    /\ KernelBecomes(kernel, [address EXCEPT ![n] = a], <<>>)
    /\ UNCHANGED proc

DeviceGone ==
  \E d \in Devices :
    /\ kernel[d].index # 0
    /\ KernelBecomes([kernel EXCEPT ![d].index = 0, ![d].flags = "down"],
                     [n \in Names |-> IF if_basename(n) = d THEN 0 ELSE address[n]],
                     News(kernel[d].index, "down"))
    /\ UNCHANGED proc

(* A device made anew has a new index and the default settings.            *)
DeviceMade ==
  \E d \in Devices :
    /\ kernel[d].index = 0
    /\ KernelBecomes([kernel EXCEPT ![d] = [index |-> 10 + kernel_steps, flags |-> "down", mtu |-> 1]],
                     address, News(10 + kernel_steps, "down"))
    /\ proc' = [proc EXCEPT ![d] = 1]

InterfacesNext ==
  \/ olsr_init_interfacedb \/ PollInterfaces \/ rtnetlink_read
  \/ HearNeighbor \/ LinkExpires \/ SpfFindsInterface \/ SignalShutdown
  \/ FlagsChange \/ MtuChanges \/ AddressChanges \/ DeviceGone \/ DeviceMade

InterfacesSpec ==
  /\ InterfacesInit /\ [][InterfacesNext]_interfaceVars
  /\ WF_interfaceVars(PollInterfaces) /\ WF_interfaceVars(rtnetlink_read)
  /\ WF_interfaceVars(olsr_init_interfacedb)

-----------------------------------------------------------------------------
Live == Range(ifnet)
Aliased == \E n \in Names : n # if_basename(n)

(* While the daemon runs, the list holds one struct for each interface     *)
(* that is configured; sockets, timers, buffers and the plugins' view are  *)
(* those of the list, and an MTU that is known is that of the buffer; once *)
(* the link messages are read, the plugins know of no other device that is *)
(* down or gone; every link points to a live interface with its address,   *)
(* unless an interface was moved away from that address or a device is     *)
(* shared, where olsr_remove_interface does leave the pointer behind; and  *)
(* there is an interface unless the daemon may run without.  After         *)
(* olsr_shutdown the kernel's settings are as at the start, also on a      *)
(* device with aliases, except where an interface was removed before.      *)
InterfacesSound ==
  /\ phase = "run" =>
       /\ IsInjective(ifnet) /\ Live = DOMAIN ifstruct
       /\ Live = {interf[n] : n \in Names} \ {0}
       /\ \A n \in Names : interf[n] # 0 => ifstruct[interf[n]].name = n
       /\ socket_list = Live /\ gen_timers = Live /\ plugin_view = Live
       /\ \A i \in Live : ifstruct[i].int_mtu \in {0, ifstruct[i].bufsize}
       /\ rtnl = <<>> =>
            \A i \in others_view : \E d \in if_cnf.others : kernel[d].index = i /\ kernel[d].flags # "down"
       /\ if_cnf.allow_no_interfaces \/ Live # {}
       /\ ~Aliased =>
            \A l \in {l \in if_links : l.local \notin left} :
              l.inter \in Live /\ ifstruct[l.inter].ip_addr = l.local
  /\ phase = "shutdown" =>
       global = orig_global /\ \A d \in Devices \ forgotten : kernel[d].index = 0 \/ proc[d] = 1

(* Once the kernel no longer changes, the poll brings every interface it   *)
(* checks in line: configured, with the kernel's address, exactly if the   *)
(* kernel has it up, fit and addressed.                                    *)
InterfacesFollow ==
  <>[](\/ phase # "run" \/ if_cnf.src # 0
       \/ \A n \in if_cnf.autodetect :
            /\ (interf[n] # 0) = UpAndFit(n)
            /\ interf[n] # 0 => ifstruct[interf[n]].ip_addr = address[n])
=============================================================================
