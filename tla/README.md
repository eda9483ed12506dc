# Verification of olsrd with hybrid PLC link qualities

olsrd is a routing daemon for wireless and power-line mesh networks. This
directory holds TLA+ models of its parts, translated from the C code under
`src/`, the TLC configurations that check them on small instances, and theorems
about them that TLAPS checks for every value of the constants.

`PROJECT.json` lists the components, the runs with their properties, the source
lines each definition stands for, the mutants that show each property can fail,
the hazards that led to the properties, the findings and the theorems.

## The system

One thread runs a scheduler: it reads sockets, fires the timers of a wheel and,
after each round, processes the changes that were flagged.

    sockets -> parser -> duplicate set -> handlers (HELLO, TC, MID, HNA)
                     \-> forwarding -> output buffers -> sockets
    handlers, timers -> link set, neighbors, two-hop neighbors, MID, TC, HNA
    changes          -> relays (MPR), SPF, routing table -> kernel or zebra
    link qualities   -> costs of links and edges -> relays, SPF
    plugins          -> handlers, timers, sockets and, for dyn_gw, a thread

A handler runs to its end before anything else happens, so one handler is one
action. Where the code itself hands over in between (callbacks of timers, the
threads of dyn_gw, the requests to the kernel during an update, the packets in
the air), the model has a step of its own for each part.

## Modules

| Module | Code | State and actions |
|---|---|---|
| DuplicateSet | duplicate_set.c | one function per field of `struct dup_entry`; the branches of `olsr_message_is_duplicate`, both cleanups, the clock with its wrap |
| LinkSensing | link_set.c, lq_packet.c | two nodes, their link entries with three timers; HELLO sent, received or lost, time, crash and restart |
| Neighborhood | link_set.c, neighbor_table.c, mid_set.c | link entries with pointers to neighbor objects, aliases; HELLO, MID, timeouts, removal of interfaces; the model stops when a link points to a freed entry |
| TwoHop | two_hop_neighbor_table.c, neighbor_table.c, process_package.c, mpr.c, lq_mpr.c | two-hop lists as mutual pointers; both relay selections as operators |
| TcSet, MCTcSet | tc_set.c, routing_table.c, hna_set.c, olsr_spf.c | comparison of sequence numbers; entries, edges, reference counts, prefixes, timers; TC and HNA messages, expiry, neighbor changes. MCTcSet adds the messages that arrive |
| TcFlow | tc_set.c, lq_packet.c | an originator that splits its set over messages, a network that loses, repeats and reorders, a receiver that is TcSet's handler |
| Spf | olsr_spf.c, link_set.c | Dijkstra's search, one candidate per step |
| Routes | routing_table.c, process_routes.c, olsr.c, linux/kernel_routes_nl.c | paths, entries, the three lists of changes, one kernel request per step, interface removal, exit |
| Flooding | olsr.c, parser.c, net_olsr.c | five nodes, output buffers, forwarding by relays |
| MessageOutput | build_msg.c, packet.c, generate_msg.c, lq_packet.c, net_olsr.c | one output buffer; every generator of messages of both families |
| Timers, TimerService | scheduler.c, olsr_cookie.c, common/list.c | the wheel with its lists; a slot and a callback at a time; the abstract service it implements |
| Sockets | scheduler.c | the list of sockets, both walks over it, one handler per step; registration and removal from within handlers |
| Gateway | gateway.c, gateway_default_handler.c, linux/kernel_tunnel.c | gateway entries, current gateways, tunnels and their use counts |
| LinkQuality | lq_plugin*.c, linklayer_plc_data.c, lib/hybrid_PLC | the windows and averages of four link quality algorithms, the table of PLC peers |
| AvlTree, SortedList | common/avl.c | nodes with parent, children, balance and thread; the abstract sorted list it implements |
| Interfaces | interfaces.c, unix/ifnet.c, linux/net.c, linux/kernel_routes_nl.c | the interface database against the devices of the kernel |
| DynGw | lib/dyn_gw | the timer and the ping thread, one access to shared state per step |
| Secure | lib/secure | the exchange of challenges of two nodes |
| BmfFlood | lib/bmf | a multicast packet on its way over several networks |
| BmfInterfaces | lib/bmf | the plugin's sockets, tunnel, route and device setting through restarts |
| Zebra | lib/quagga | the session with zebra, exported and redistributed routes |
| Nameservice | lib/nameservice | received names, their timers, the files |
| InfoServers | lib/txtinfo, lib/txtinfo_PLC, lib/httpinfo | requests, replies and pages, and the parallel arrays of clients they are sent from |
| GraphPlugins | lib/dot_draw, lib/pgraph | the connection of a viewer and the graphs sent to it |
| FrontEnd | ipc_frontend.c, win32/kernel_routes.c, gui/linux-gtk | the connection of a front end, the messages and routes it is told |
| GuiNodes | gui/linux-gtk | the nodes, routes and packets the graphical front end lists |

DuplicateSetProofs, LinkSensingProofs, TcSetProofs, SpfProofs, RoutesProofs,
SecureProofs, SocketsProofs and TimersProofs hold the proofs, see below.

A handler that changes several tables is an operator on a record of those
tables (`Tables`, `Bmf`, `Zebra`, ...), and `...Become(s)` assigns the result to
the variables; helpers keep the names of the C functions.

The MC modules give the constants their values. MCServices, MCTimed,
MCConvergence, MCCatchup, MCReceived, MCPaths and MCPlugins check several components side by
side: a variable `part`, chosen initially, says which component moves while the
others rest, so that the states add up instead of multiplying. Several
configurations of one component (address families, algorithms, topologies) are
likewise a variable chosen initially.

## Runs

| Run | Properties | What it shows |
|---|---|---|
| routes_export | KernelHasBest, CleanExit, RoutesMoveSafely | after any sequence of topology changes, revocations, refused requests and lost interfaces the kernel has the best routes, and no entry takes a route for installed that is not; a route changes without a gap, gateways go in first and, of the routes deleted together, out last, the default route moves only past the threshold; the exit leaves nothing |
| routes_backoff | SettledIsCurrent (violated) | a change during the backoff of the calculation is never processed |
| tc_lsdb | LsdbConsistent, ChangesFlagged | reference counts, inverse edges and timers of the database under all handlers |
| plugins | ZebraInSync, NamesFollow, BmfRestartsCleanly, ViewsInStep | exported routes survive a restart of zebra; the files of names follow the tables; the sockets of BMF survive restarts in which any step of closing and opening fails; what clients of the information plugins, graph viewers and front ends are sent is a whole view, in order and to the right client |
| catchup | ViewCatchesUp, InterfacesSound, InterfacesFollow | the view of an originator, and of the devices of the kernel, catches up |
| paths | CandidateExact, ShortestPaths, SpfTree, ReachedHasNextHop, DeliveredOnce, PacketReaches | shortest paths on every graph of the instance; multicast packets come to every node, and none is written into the tuntap interface of a node that has seen it |
| received | TwoHopConsistent, RelaysCover, PartsMakeWhole, AnsnNeverBack | mutual pointers, coverage by the selected relays, expiry; a set of neighbors split over messages is taken over exactly, and its number never goes back |
| mpr_rfc | RfcCovers (violated) | the optimization of the RFC selection removes all relays of a node |
| services | NeighborsConsistent, OutputComplete, ArrayIsHistory, NewNeverBlocked, OnlyFirstRepeats, KeptWhileHeard, TreeBalanced, TreeIsSortedList, ValidatedOnce | neighbor tables, message generation, duplicate set, trees and time stamps |
| timed | TimersServe, SocketsServed, GatewayChosen, LinkQualitySound | timers as a service, handlers of sockets, gateways and tunnels, link costs |
| convergence | LinkSound, LinksConverge, FloodBounded, AllInformed, UplinkFollows | link handshake, flooding, dynamic gateway |
| hello6_exit | HelloNeverExits (violated) | an IPv6 HELLO into a filled buffer ends the program |

Three runs are expected to end in a violation; each checks what a comment of the
code says and is described under `findings` in PROJECT.json.

### Bounds

Widths shrink but stay wider than what compares them: sequence numbers keep
their wrap with a space at least twice the windows, the duplicate array keeps
its shift over all distances, the timer wheel keeps a clock of several turns
that wraps. Two destinations, gateways or announcers suffice for the
orders of events that the properties are about, three neighbors for the choice
of relays, four nodes for a detour in the search, nine keys for both
rebalancings of a deletion, three networks for a loop of multicast packets.
The neighbor tables run with two kinds of surroundings, two neighbors that keep
their main addresses and one that changes it, the latter up to `MaxRenames`
changes; the clock of the duplicate set starts shortly before its wrap and runs
past it, with two validity times before. Counters that grow for ever (sends, restarts, sessions, names, challenges) have
named bounds in the guards.

### Fairness

Liveness is checked where the code keeps on trying: the poll of the interfaces,
periodic timers and the clock (weak fairness of those actions); messages that are
sent periodically may be lost, but only a bounded number in a row
(`MaxLosses`), or delivery is fair. dyn_gw assumes strong fairness of the step of
`update_routing` that sees a settled routing table: the timer comes round again
and again, and the table is at rest in between. Nothing else is assumed; in
particular links, routes and devices change at will.

### Refinement

`TimersServe` states that the wheel implements TimerService: a timer fires not
before its time, not later than the walk of the turn it belongs to, and never
after it was stopped. The mapping takes the deadline of each timer in use; the
slots, lists and the walk are internal. `TreeIsSortedList` states that the AVL
tree with its threaded list implements SortedList: insertion behind equal keys,
deletion, and lookup of the first of equals.

## Proofs

Eight modules hold theorems. Each states a property of a run, for every value of
the constants that the module's assumption admits; all of them go through an
inductive invariant that TLC checked on an instance as well. A leaf of a proof names the facts and definitions it uses.
The larger modules begin with `USE ZenonT(60)`: most leaves are first-order and go
to Zenon; those that need arithmetic, records or sequences name SMT.

**DuplicateSetProofs**, for every number of originators and every width of
sequence numbers, array and clock that `DuplicateSetAssumption` admits:

- `TypeCorrect`: the fields keep their ranges;
- `ArrayCorrect` (ArrayIsHistory): the array marks exactly the numbers that were
  processed and are within its reach, except the one that created the entry. The
  invariant relates the array to a history variable, so that it is inductive as
  it stands; the proof turns on `WindowMoves` (a shift by d moves every position
  by d over the wrap) and `DiffIsPosition`;
- `RepeatsAtMostFirst` (OnlyFirstRepeats) follows from it, and so does
  `NewAccepted` (NewNeverBlocked), together with the fact that the counter has
  counted every low message since the last other one (`LowsCounted`);
- `KeptUnlessWrapped` (KeptWhileHeard): an originator that is heard is forgotten
  only where the time its last message asked for is the smaller number, at the
  wrap of the clock. The invariant `OwedKept` says that the time of an entry is
  not below the one owed to it, as plain numbers.

**LinkSensingProofs**: `LinksSound` (LinkSound), for all validity, hold and HELLO
times and every jitter with `HoldTime + 1 >= 2 * Jitter`. That a symmetric link
was heard is not inductive: it has to be known how old the news in a HELLO may
be. `Remembered` bounds the time since a node was heard by what is left of
`ASYM_time` at the other side, which a listing in a HELLO passes on; `Ahead` says
how far the link timer is ahead of the symmetry timer, as set together or, if set
since, because the latter has run down. The condition on the jitter came out of
the proof. In the code the hold time is 20 s and the jitter 5 % of the validity
time plus 20 s, so it holds up to validity times of about 180 s; beyond that the
link timer may fire before the symmetry timer.

**TcSetProofs**, for any nodes, networks, link qualities and sequence numbers
(EXTENDS MCTcSet, whose `Next` adds arbitrary TC messages to the handlers):

- `Invariance`: `GoodLsdb`, a predicate on the record of all tables. It adds to
  LsdbConsistent that every entry has the path to itself and that timers run only
  for entries of other nodes. Handlers are compositions of operators on that
  record, so there is a lemma for each operator (`LocateEntry`, edge creation and
  deletion, path creation and deletion, ...) that says what it keeps, and reference
  counts follow from the cardinalities of the sets they count;
- `DatabaseConsistent` (LsdbConsistent) and `EveryChangeFlagged` (ChangesFlagged).

**SpfProofs**, for every graph, every table of neighbors and every order of equal
candidates:

- `Candidates` (CandidateExact): the path cost tells which nodes are in the
  candidate tree, so `avl_delete` is only called for nodes that are;
- `Tree` (SpfTree): when the search ends no usable edge improves a path, and each
  path extends its predecessor's;
- `Shortest` (ShortestPaths): the costs found are the least over all walks from
  this node, as the recursive function `Distances` (rounds of one more edge)
  defines them, and nothing that can be reached is left out;
- `NextHops` (ReachedHasNextHop), `Finality` and `TypeCorrect` (costs stay below
  the wrap of 32 bits if the number of nodes times the largest cost does).

The invariant `IInv` says in addition that final costs are not above those of
candidates, that each candidate's cost comes from a final predecessor, and that
edges out of final nodes are relaxed. `Shortest` also uses `PathsOrdered`: the
path list is ordered by cost, so that each node's predecessor comes before it.
Its inductions, over the rounds and over the path list, are by the least
counterexample (`LeastNumber`, from the well-foundedness of the numbers), also
for the existence of the recursive function (`DistancesExist`).

**RoutesProofs**, for every set of originators, prefixes, next hops, topologies
and kinds of kernels:

- `Invariance`: `IInv`, in seven parts. The RIB and the queues agree (`RibInv`,
  `QueueInv`), the elected path is the cheapest up to the threshold (`CostInv`),
  an entry that does not wait in a queue has the next hop of its path and a route
  in the kernel (`NextHopInv`, `HasInv`), and each route in the kernel is the one
  that an entry remembers (`StaleInv`). Between two exports the queues are empty and
  this is the property; in between it needs the queues;
- `KernelIsRib` (KernelHasBest), `ExitIsClean` (CleanExit), and `MovesSafely`
  (RoutesMoveSafely), an action property: no gap, gateways in first and out last,
  and the default route only past the threshold.

What the kernel does belongs to the setup (`KernelAnswers`: a request is done,
refused, lost, or done and its answer lost; `KernelDeletes`; `KernelFlushes`), and
each part of the property states what it asks of the kernel (`ObedientKernel`,
`ReliableKernel`). `NoGap`, `GatewayLast` and `GatewayHysteresis` ask nothing.

**SecureProofs**: `ExchangeSound` (ValidatedOnce), for any number of challenges.
The invariant says which challenges were drawn, that every message in the air
answers one of those, that nothing rests on the challenge an entry still waits
for (so a second answer to it cannot be there), and that whoever has validated
did so on an answer that was sent.

**SocketsProofs**, for any descriptors, length of the list and number of calls of
select:

- `Invariance`: `SocketsInv`. Open and registered descriptors are the same, none is
  registered twice, and during a walk an entry that select reported was called or
  is still ahead, as long as it is registered. What handlers and timers may do to
  the list under a walk is one relation (`Keeps`), shown for each of the four calls;
- `Served` (SocketsServed), an action property on top of it.

**TimersProofs**: `WheelServes` (TimersServe), the refinement of TimerService by the
wheel, for any number of timers and slots, any clock and any times that
`TimersAssumption` admits: the wheel divides the range of the clock, that range is
wide against the wheel and the times asked for, and two walks are at most a turn of
the wheel apart. Initial states map to initial states, and each action to a step of
the service or to none (`TimesStep`, `SetStep`, `FireStep`; `BeginStep`,
`NotDueStep`, `NextSlotStep`, `EndStep`). The invariant `TimersInv`:

- `Good`: a running timer is on exactly one list, that of the slot of its clock or
  the temporary one, once; memory is either running, free or never used. It is
  shown for each operation on the lists, and `Fires` puts together what a callback
  may do, stopping, starting and changing timers, while its own is on the temporary
  list;
- `Walked`: the present walk began at slot `l0`, `g` ticks behind, and every timer
  that is due lies in a slot that this walk has not passed, or, when the clock has
  wrapped since, waits for the next turn (`OnTime`). This is what makes "not later
  than" inductive, and its arithmetic over the wrap is in the lemmas on `%` at the
  beginning of the module;
- `Waiting`: what is on the temporary list is not due.

### Model-checked only

- Liveness (ViewCatchesUp, InterfacesFollow, LinksConverge, AllInformed,
  UplinkFollows, PacketReaches): out of reach of the prover.
- What folds, SelectSeq or RECURSIVE operators compute: RelaysCover and
  TwoHopConsistent, NeighborsConsistent, OutputComplete, TreeBalanced and
  TreeIsSortedList, InterfacesSound, GatewayChosen, ZebraInSync, NamesFollow,
  BmfRestartsCleanly, ViewsInStep, FloodBounded, LinkQualitySound. The library's
  folds cannot be unfolded by the provers, and a module with RECURSIVE operators
  cannot hold a theorem.
- AnsnNeverBack and PartsMakeWhole hold because the number of messages under way is
  small against the space of sequence numbers, a bound of the instance that would
  have to become an assumption about time. DeliveredOnce likewise rests on a
  history that is kept longer than a packet stays in a loop.

## Observed behaviours

What the code does where a reader may expect otherwise. The models have these
behaviours; a property that would exclude one is stated so as to admit it.

Duplicates and flooding
- The bit of the message that creates an entry is not set, so its first copy is
  processed once more (duplicate_set.c:83; OnlyFirstRepeats admits it).
- `valid_until` is compared as a plain number (duplicate_set.c:154): once in every
  turn of the 32 bit clock, 49.7 days, an originator that is heard all the time is
  dropped, and its last messages are taken for new (KeptWhileHeard admits exactly
  this).
- An empty TC sets the counter of low messages to DUP_MAX_TOO_LOW - 2 also when it
  was higher (duplicate_set.c:70); NewNeverBlocked counts from there.
- A message whose hop count and TTL add up to more than 255 counts as overdue
  (olsr.c:326): it goes on over Ethernet only, and FloodBounded limits it to the
  wireless hop it was sent with.
- Nothing flushes the output buffers by `fwdtimer`, although unix/ifnet.c:786
  says "max_jitter determines the max time to store to-be-send-messages".

Links, neighbors, relays
- A neighbor that changes its main address breaks the neighbor table. A MID
  message, or the alias of a HELLO, replaces the entry of the old address by one
  that starts with the counter 0, and redirects the links to it without counting
  them (mid_set.c:287-289, also 234), although the comment above says this is to
  avoid "a fatal inconsistency between neighbortable and link_set". The entry then
  stays after its last link, or is freed while redirected links point to it: a
  HELLO over another address raises the counter to 1, and the loss of any link
  frees the entry. A HELLO that renames an entry (link_set.c:666) flags no change
  and may give two entries one main address. NeighborsConsistent says by how much
  the counters are off, keeps typing and aliases, and claims the rest only while
  no main address changes.
- The alias of a HELLO is registered after the status that needs it
  (link_set.c:730, process_package.c:425); a neighbor stays symmetric after its
  last symmetric link is gone until something refreshes it (link_set.c:446).
- `get_best_link_to_neighbor` prefers a cheaper asymmetric link that comes first
  (link_set.c:286).
- A new two-hop entry has no timer (process_package.c:272): TwoHopConsistent asks
  for one from the second announcement on.
- A HELLO whose sender has no usable link resets path costs without flagging a
  change (process_package.c:172); the LQ selection ignores WILL_NEVER; only
  additions (lq_mpr.c) or only removals (mpr.c) count as a change of relays;
  asymmetric neighbors may become relays of the RFC selection (mpr.c:325).
- serialize_hello6 does not skip HIDE_LINK as serialize_hello4 does
  (build_msg.c:463).

Topology and routes
- The cost of a new edge is computed before its quality is read, so the edge is
  broken until the next message (tc_set.c:499, 647).
- A restart with ANSN 0 keeps the old edges until they time out (tc_set.c:603);
  an entry that a prefix creates has no timer (routing_table.c:546); the own edge
  created by interface address survives (link_set.c:366, olsr_spf.c:416).
- A denied address in a TC ends the reading of its entry before the link quality,
  which is then read as the next address (tc_set.c:643-645, 904); MCTcSet lets such
  a message name any range.
- The header of olsr_chg_kernel_routes says "non-nexthop routes need to be changed
  first and therefore the queue needs to be traversed from tail to head"
  (process_routes.c:231-236); the code goes from head to tail, and the comment
  inside says "such that nexthop routes are added first" (247-250). GatewayFirst
  follows the code. Deletions precede changes, so that a route to a gateway may be
  deleted before another route is changed away from it; "out last" (GatewayLast)
  is about the entries that are deleted in one run.
- An addition that is lost after the old route was deleted (IPv6) leaves an entry
  that remembers a route the kernel does not have; an addition whose answer is lost
  leaves a route that no entry remembers; a deletion that fails is not repeated.
- The deletion order reads a freed rt_best (routing_table.c:418), and so does the
  loss of an interface (process_routes.c:402); a refused request may count as
  success (process_routes.c:208); with FIBM_CORRECT an IPv4 replacement leaves the
  route with the old metric (process_routes.c:254); a generated host route stays
  at the exit (linux/kernel_routes_nl.c:590). A lost request followed by the
  removal of another interface leaves a stale route; a link-local prefix that goes
  from one hop to more and back is not installed again over IPv6, and one whose
  interface is removed may leave its route.

Timers, sockets, gateways, link qualities
- The walk skips slots when the 32 bit clock wraps (scheduler.c:575); a timer then
  waits for the next turn of the wheel.
- A descriptor that is closed and opened again during a walk carries the readiness
  that was read for the old one (SocketsServed admits a call for it). The socket of
  host emulation is registered with one handler and removed with another
  (interfaces.c:430, 433), so it stays.
- After the only gateway is deleted a later one is never chosen; a gateway that
  withdraws by flags stays current if there is no other; a failed tunnel counts as
  finished (gateway.c:276, a TODO). gateway_default_handler.c:59 asks for
  `ipv4nat == smart_gw_allow_nat`, gateway.c:259 for `!ipv4nat || allow_nat`.
- etx_fpm: with lq_aging below about 0.04 a silent link keeps a useful quality;
  with the default 0.05 it is broken after 57 losses.
- etx_hybrid_plc: drops of quality are passed on only when relevant; the MAC of a
  peer is never updated; the table is filled by main address and read by interface
  address; the comment at line 264 says "round up", the code truncates.

Interfaces
- A changed address is stored before `olsr_remove_interface`, which deletes links
  by address: the old links stay, with a pointer to freed memory, until the SPF
  finds the interface again by its base name, which may be an alias of it.
- An MTU that cannot be read is the default for a new interface and 0 for one that
  is there, which keeps its buffer (ifnet.c:219, 684). Link messages of devices that
  are no interfaces of the daemon reach the plugins by the index of the device.
- With IPv4Src other than the primary address every poll creates the interface
  anew. A single interface whose address changes ends the program unless
  allow_no_interfaces is set. Only the poll notices a lost carrier. An interface
  that was removed is not restored at the exit.

Plugins
- dyn_gw: a configured HNA of the same prefix is removed along; a prefix in two
  groups is active in the first only; `probe_ok` is stale while no HNA is active.
- secure: simultaneous challenges refuse each other; an entry without validation
  stays until an uninitialised `valtime` has passed (comment at line 125).
- bmf: DeliveredOnce is about what BMF writes into the tuntap interface. A packet
  sent on an OLSR interface may come to a node twice, through that interface and
  then directly, and to its own sender (README_BMF.txt:295-328 describes it). The
  rewriting of a local broadcast changes the CRC, so that such a packet may be
  delivered once per network; DeliveredOnce needs a history that is kept longer
  than a packet stays in a loop (3 s against milliseconds). When restoring the spoof
  filter fails, the next start saves the cleared setting as the original; when
  deleting the multicast route fails it stays; the tunnel device is persistent and
  stays at the exit. A listening
  socket that fails leaves the capturing one open, a failing MAC address the
  listening one; EtherTunTapFd is not reset; a configured tunnel address is
  forgotten at the first change of an interface; the comment says the "first OLSR
  interface" gives the address, the code takes the last one of its list.
- nameservice: names are compared over the length of the received one, so a name
  that is the beginning of a saved one is dropped; MAC addresses are not compared,
  so that each message adds one ("don't insert the received entry again",
  nameservice.c:820); resolv.conf gets up to four servers ("the 3 best"); it is not
  written again when routes change; a file that cannot be opened waits for the next
  change. The flags of all tables start up, but no timer does (nameservice.c:100-115):
  the files of an earlier run stay until the first change of any table, and all are
  written then.
- quagga: an end of file is taken for a broken packet, so that the loss of zebra
  is noticed by the next write only; HNAs of a lost session stay and are doubled by
  the next (a TODO in client.c); a reconnection exports the next hop of rt_best,
  which may be freed; a failing request to redistribute ends the program.
- txtinfo waits for a silent client (`0 <= select`), and its replies under way are
  not limited by MAX_CLIENTS as they are in httpinfo, so that one client too many
  writes past the arrays (the model stops there); a client behind one that is
  done is skipped for a tick. dot_draw draws the box of a relay round its own node.
  pgraph: a failing setsockopt or bind leaves the descriptor set and is not tried
  again; a new connection replaces the old one, which leaks; an error of accept ends
  the program.

Front ends
- ipc_frontend.c: a connection from a foreign host closes the variable of the
  present one while `ipc_active` stays; a failing net info leaves `ipc_active` and
  leaks the connection; a route that the kernel refused is listed at the connection
  and again when it is retried. Validity times are cut to whole seconds.
- Only the Windows build tells a front end of routes that change
  (win32/kernel_routes.c); on Linux it keeps the table as it was at the connection.
- gtk: a recv that returns only the first part of a message tears the stream, which
  TCP allows (ipc.c:124, 180); a first message of more than 512 bytes is torn; `add_node` writes the row
  from an uninitialised copy (MID and HNA "yes"); the row "local" is never removed;
  an alias that comes with a new node is not removed as a node; the button to
  reconnect calls `ipc_connect()` without its argument.

## Not modelled

Left out within the modelled parts: the bytes of messages and packets (the models
keep sizes where a limit depends on them), texts and logging, host emulation,
memory exhaustion, and kernel messages that are lost (ENOBUFS).

Parts without a module, with the reason for each under `components` in
PROJECT.json: hysteresis, etx_float and the mantissa of validity times (floating
point numbers), the MPR selector set (an input of the models that use it), the
parser and printer of packets, the configuration parser (generated code), the
plugin loader and the start of the program, NIIT, the ports to FreeBSD and Windows
(but for what the latter tells front ends), the host switch and other test tools, the plugins p2pd, mdns, tas, watchdog,
arprefresh and dyn_gw_plain, the Windows front end, and the copied Lua and regular
expression libraries.
