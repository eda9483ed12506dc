------------------------------ MODULE MCCatchup ------------------------------
(***************************************************************************)
(* Two views that must catch up with what they are views of, side by side  *)
(* in one run: a node's view of an originator's neighbors, and the         *)
(* daemon's view of the kernel's interfaces.  The variable part says which *)
(* of them moves.                                                          *)
(***************************************************************************)
EXTENDS TcFlow, Interfaces

VARIABLE part

(* An originator, 6, with one neighbor at a time, and this node, 1, with   *)
(* neighbor 6.                                                             *)
MCIfAddr == [n \in Adjacent |-> n]
OneEach  == {{2}, {3}}

(* One device whose addresses come and go, with IPv6.                      *)
OneDevice ==
  [names |-> <<"eth0">>, others |-> {}, base |-> [eth0 |-> "eth0"], index |-> [eth0 |-> 1],
   first |-> [eth0 |-> 1], addresses |-> [eth0 |-> {0, 1, 2}], ip6 |-> TRUE, src |-> 0,
   allow_no_interfaces |-> TRUE, autodetect |-> {"eth0"}, failures |-> 1, steps |-> 4]

(* The same with IPv4 and a configured source address, and a device that   *)
(* the daemon does not run on.                                             *)
FixedSource ==
  [OneDevice EXCEPT !.ip6 = FALSE, !.src = 4, !.addresses.eth0 = {1, 2},
                    !.others = {"tun0"}, !.index = [eth0 |-> 1, tun0 |-> 5],
                    !.failures = 0, !.steps = 2]

(* Two devices with IPv4.                                                  *)
TwoDevices ==
  [names |-> <<"eth0", "wlan0">>, others |-> {}, base |-> [eth0 |-> "eth0", wlan0 |-> "wlan0"],
   index |-> [eth0 |-> 1, wlan0 |-> 2], first |-> [eth0 |-> 1, wlan0 |-> 2],
   addresses |-> [eth0 |-> {0, 1}, wlan0 |-> {2, 3}], ip6 |-> FALSE, src |-> 0,
   allow_no_interfaces |-> TRUE, autodetect |-> {"eth0", "wlan0"}, failures |-> 1,
   steps |-> 2]

(* An interface and its alias on one device; the last one gone is the end. *)
Alias == "eth0:1"
WithAlias(a, b) == [n \in {"eth0", Alias} |-> IF n = "eth0" THEN a ELSE b]
AliasedDevice ==
  [names |-> <<"eth0", Alias>>, others |-> {}, base |-> WithAlias("eth0", "eth0"),
   index |-> [eth0 |-> 1], first |-> WithAlias(1, 2),
   addresses |-> WithAlias({0, 1}, {0, 2}), ip6 |-> FALSE, src |-> 0,
   allow_no_interfaces |-> FALSE, autodetect |-> {"eth0", Alias}, failures |-> 0,
   steps |-> 3]

MCIfSetups == {OneDevice, FixedSource, TwoDevices, AliasedDevice}

CatchupInit ==
  /\ part \in {"topology", "interfaces"}
  /\ FlowInit
  /\ InterfacesInit /\ (part # "interfaces" => if_cnf = OneDevice)

FlowStep(A) == part = "topology" /\ A /\ UNCHANGED <<interfaceVars, part>>
InterfacesStep(A) == part = "interfaces" /\ A /\ UNCHANGED <<flowVars, part>>

CatchupNext == FlowStep(FlowNext) \/ InterfacesStep(InterfacesNext)

(* The fairness of each part when it is the one that moves.                *)
CatchupSpec ==
  /\ CatchupInit /\ [][CatchupNext]_<<flowVars, interfaceVars, part>>
  /\ WF_flowVars(part = "topology" /\ NeighborComes)
  /\ WF_flowVars(part = "topology" /\ olsr_output_lq_tc)
  /\ WF_flowVars(part = "topology" /\ flight # <<>> /\ Deliver(1))
  /\ WF_interfaceVars(part = "interfaces" /\ olsr_init_interfacedb)
  /\ WF_interfaceVars(part = "interfaces" /\ PollInterfaces)
  /\ WF_interfaceVars(part = "interfaces" /\ rtnetlink_read)
==============================================================================
