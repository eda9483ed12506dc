------------------------------ MODULE MCPlugins ------------------------------
(***************************************************************************)
(* The plugins side by side in one run: the names other nodes announce,    *)
(* the routes exchanged with zebra, the sockets of multicast forwarding,   *)
(* and what clients, viewers and the front end are shown of the daemon.    *)
(* The variable part says which of them moves.                             *)
(***************************************************************************)
EXTENDS Zebra, Nameservice, BmfInterfaces, InfoServers, GraphPlugins, FrontEnd, GuiNodes

VARIABLE part

(* What the other nodes announce: host names, one of them the beginning of *)
(* another, and a MAC address; DNS servers under changing routes; services *)
(* and positions, one of them malformed.                                   *)
Announced(k, n, ip) == [type |-> k, name |-> n, ip |-> ip, wellformed |-> TRUE]
Server(ip) == Announced("forwarder", <<>>, ip)

NamesAndMacs ==
  [messages |-> {<<Announced("host", <<1, 2>>, "a"), Announced("host", <<2>>, "b")>>,
                 <<Announced("host", <<1>>, "a")>>,
                 <<Announced("mac", <<3>>, "a")>>},
   routes |-> {}, forwarders |-> {<<>>}, failing |-> {"host", "mac"}]

Servers ==
  [messages |-> {<<Server("a"), Server("b")>>, <<Server("c"), Server("a")>>},
   routes |-> {<<>>, <<"c", "a", "b">>, <<"b", "a">>},
   forwarders |-> {<<>>, <<FALSE>>, <<TRUE>>}, failing |-> {"forwarder"}]

ServicesAndPositions ==
  [messages |-> {<<Announced("service", <<3>>, "a"), Announced("latlon", <<1>>, "a")>>,
                 <<[Announced("service", <<4>>, "a") EXCEPT !.wellformed = FALSE],
                   Announced("latlon", <<2>>, "b")>>},
   routes |-> {}, forwarders |-> {<<>>}, failing |-> {"service"}]

MCNameSetups == {NamesAndMacs, Servers, ServicesAndPositions}

(* Two OLSR interfaces and another one; with all sockets, with as few as   *)
(* possible and an address for the tunnel, and with an OLSR interface that *)
(* is used also while it is none.                                          *)
AllSockets ==
  [devices |-> <<"br0", "eth0", "wlan0">>, olsr |-> {"eth0", "wlan0"}, non_olsr |-> {"br0"},
   capture_olsr |-> TRUE, promiscuous |-> TRUE, ip |-> NotSet, rp_filter |-> 1]

MCBmfSetups ==
  {AllSockets,
   [AllSockets EXCEPT !.capture_olsr = FALSE, !.promiscuous = FALSE, !.ip = ConfiguredIp,
                      !.rp_filter = 2],
   [AllSockets EXCEPT !.non_olsr = {"eth0"}]}

(* The tables of the daemon, before and after it lost its neighbors.       *)
FullTables ==
  [main |-> 1, mprs |-> {2},
   neighbors |-> {[addr |-> 2, sym |-> TRUE, mpr |-> FALSE, cost |-> 4, two_hop |-> {3}]},
   links |-> {[local |-> 1, remote |-> 2, cost |-> 4]},
   routes |-> {[dst |-> 2, best |-> [gateway |-> 2, hops |-> 1, cost |-> 4]]},
   edges |-> {[dest |-> 2, last |-> 1, cost |-> 4, inv |-> TRUE],
              [dest |-> 3, last |-> 2, cost |-> 4, inv |-> FALSE]},
   own_nets |-> {10}, hna |-> {[net |-> 20, gateway |-> 2]}, mid |-> {[main |-> 2, aliases |-> {5}]},
   plc |-> {[addr |-> 2, tx |-> 100, rx |-> 90]}, interfaces |-> {[name |-> "eth0", up |-> TRUE]},
   config |-> {"config"}, tc |-> {1, 2, 3}, current |-> [v4 |-> 2, v6 |-> 0],
   gateways |-> {[addr |-> 2, v4 |-> TRUE, v6 |-> FALSE, nat |-> FALSE],
                 [addr |-> 3, v4 |-> TRUE, v6 |-> FALSE, nat |-> TRUE]},
   ipv4 |-> TRUE, niit |-> FALSE, allow_nat |-> FALSE]
AloneTables == [FullTables EXCEPT !.neighbors = {}, !.links = {}, !.routes = {}, !.tc = {1}, !.edges = {}]
MCTxtTables == {FullTables, AloneTables}
MCGraphTables == MCTxtTables \cup {[FullTables EXCEPT !.hna = {}]}

TxtSetup == [plugin |-> "txtinfo", max |-> 2, foreign |-> {}, requests |-> {{"lin", "gat"}}]
MCTxtSetups ==
  {TxtSetup, [TxtSetup EXCEPT !.max = 1],
   [plugin |-> "txtinfo_PLC", max |-> 2, foreign |-> {2},
    requests |-> {{"tes"}, {"all"}, {"neighbours", "int"}}],
   [plugin |-> "httpinfo", max |-> 1, foreign |-> {},
    requests |-> {{"all"}, {"POST"}, {"/"}, {"logo.gif"}}]}

(* Messages of two nodes about each other, an alias and a network.         *)
MCGuiMessages ==
  {[type |-> "HELLO", from |-> 2, vtime |-> 3,
    items |-> <<[addr |-> 1, mpr |-> TRUE], [addr |-> 3, mpr |-> FALSE]>>],
   [type |-> "TC", from |-> 3, vtime |-> 4, items |-> <<[addr |-> 2]>>],
   [type |-> "MID", from |-> 2, vtime |-> 4, items |-> <<[addr |-> 3]>>],
   [type |-> "HNA", from |-> 3, vtime |-> 1, items |-> <<[addr |-> 9]>>]}

pluginsVars == <<zebraVars, nameVars, bmfIfVars, txtVars, graphVars, feVars, guiVars, part>>

(* A part that does not move has one of its configurations.                *)
PluginsInit ==
  /\ part \in {"zebra", "names", "sockets", "answers", "graphs", "frontend", "window"}
  /\ ZebraInit
  /\ name_constructor /\ (part # "names" => name_setup = NamesAndMacs /\ main_addr_set)
  /\ BmfIfInit /\ (part # "sockets" => bmf_cnf = AllSockets /\ olsr_ifs = {})
  /\ TxtInit /\ (part # "answers" => txt_setup = TxtSetup /\ txt_tables = FullTables)
  /\ GraphInit /\ (part # "graphs" => graph_plugin = "pgraph" /\ graph_tables = FullTables)
  /\ FrontEndInit /\ (part # "frontend" => fe_tells)
  /\ GuiInit

(* What all parts but p keep.                                              *)
OthersKeep(p) ==
  /\ part = p /\ UNCHANGED part
  /\ p # "zebra" => UNCHANGED zebraVars
  /\ p # "names" => UNCHANGED nameVars
  /\ p # "sockets" => UNCHANGED bmfIfVars
  /\ p # "answers" => UNCHANGED txtVars
  /\ p # "graphs" => UNCHANGED graphVars
  /\ p # "frontend" => UNCHANGED feVars
  /\ p # "window" => UNCHANGED guiVars

PluginsNext ==
  \/ OthersKeep("zebra") /\ ZebraNext
  \/ OthersKeep("names") /\ NameNext
  \/ OthersKeep("sockets") /\ BmfIfNext
  \/ OthersKeep("answers") /\ TxtNext
  \/ OthersKeep("graphs") /\ GraphNext
  \/ OthersKeep("frontend") /\ FrontEndNext
  \/ OthersKeep("window") /\ GuiNext

PluginsSpec == PluginsInit /\ [][PluginsNext]_pluginsVars

------------------------------------------------------------------------------
(* What others are shown of the daemon's tables agrees with them: the      *)
(* replies of txtinfo, txtinfo_PLC and httpinfo, the graphs of dot_draw    *)
(* and pgraph, and in the graphical front end the routes, and the nodes    *)
(* and packets it was told of.                                             *)
ViewsInStep ==
  /\ part = "answers" => InfoAnswers
  /\ part = "graphs" => GraphsWhole
  /\ part = "frontend" => FrontEndFollows
  /\ part = "window" => GuiShowsNodes
==============================================================================
