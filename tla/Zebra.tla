-------------------------------- MODULE Zebra --------------------------------
(***************************************************************************)
(* The quagga plugin (lib/quagga): routes are exported to the zebra daemon *)
(* instead of the kernel, and zebra's own routes become announcements of   *)
(* networks (HNA).  The plugin notices the end of a session only when a    *)
(* write or a read fails; an end of file it takes for a broken packet.     *)
(*                                                                         *)
(* A destination and a next hop are numbers; a next hop that is the        *)
(* destination is a direct route.  zebra is external: a route it is given  *)
(* replaces the one it has, a deletion must name the next hop.             *)
(***************************************************************************)
EXTENDS Integers, Sequences, SequencesExt

CONSTANTS
  ZebraDsts,      \* destinations, which are also the next hops
  ZebraPrefixes,  \* zebra's own routes
  MaxSessions,    \* bound on the connections
  MaxInbox        \* bound on the messages zebra has sent

VARIABLES
  zebra_status,   \* zebra.status & STATUS_CONNECTED
  session,        \* zebra's end of the connection is open
  zebra_up,       \* zebra accepts connections
  zebra_routes,   \* destination -> next hop zebra has from us, 0: none
  zebra_prefixes, \* zebra's own routes
  inbox,          \* zebra's messages that wait in the socket
  rt_nexthop,     \* destination -> next hop that was exported, 0: none
  rt_best_nh,     \* destination -> next hop of rt_best, 0: no entry, Dangling
  hna_copies,     \* prefix -> entries in hna_entries
  sessions,       \* history: connections made
  unmatched,      \* history: destinations with a failed or garbled export
  zebra_phase     \* run, exit (my_fini), failed (olsr_exit)

zebraVars == <<zebra_status, session, zebra_up, zebra_routes, zebra_prefixes, inbox, rt_nexthop,
               rt_best_nh, hna_copies, sessions, unmatched, zebra_phase>>

(* The path of rt_best was freed; the entry stays until the next SPF.      *)
Dangling == -1

Zebra == [status |-> zebra_status, session |-> session, routes |-> zebra_routes]
ZebraBecomes(Z) ==
  zebra_status' = Z.status /\ session' = Z.session /\ zebra_routes' = Z.routes

------------------------------------------------------------------------------
(* The outcomes <<state, returned value>> of a write.  Without connection  *)
(* it succeeds; on a connection whose other end is closed it fails, or is  *)
(* lost without an error (over TCP).                                       *)
zclient_write(Z, received) ==
  IF ~Z.status THEN {<<Z, 0>>}
  ELSE IF Z.session THEN {<<received, 0>>}
  ELSE {<<[Z EXCEPT !.status = FALSE], -1>>, <<Z, 0>>}

(* Direct routes are left to zebra.                                        *)
zebra_addroute(Z, d, nh) ==
  IF nh = d THEN {<<Z, 0>>} ELSE zclient_write(Z, [Z EXCEPT !.routes[d] = nh])

zebra_delroute(Z, d, nh) ==
  IF nh = d THEN {<<Z, 0>>}
  ELSE zclient_write(Z, [Z EXCEPT !.routes[d] = IF @ = nh THEN 0 ELSE @])

(* A mutant: the RIB is not exported again.                                *)
Silent(Z, best) == {[Z EXCEPT !.status = TRUE, !.session = TRUE]}

(* Every entry of the RIB is exported with the next hop of rt_best; one    *)
(* that was freed may hold anything.                                       *)
zclient_reconnect(Z, best) ==
  {[status |-> TRUE, session |-> TRUE, routes |-> r] :
     r \in {r \in [ZebraDsts -> ZebraDsts \cup {0}] :
              \A d \in ZebraDsts :
                IF best[d] = Dangling THEN TRUE ELSE r[d] = IF best[d] = d THEN 0 ELSE best[d]}}

(* ip_prefix_list_add does not look for the prefix, ip_prefix_list_remove  *)
(* removes one entry.                                                      *)
Parsed(h, m) ==
  [h EXCEPT ![m.prefix] = IF m.cmd = "add" THEN @ + 1 ELSE IF @ = 0 THEN 0 ELSE @ - 1]

------------------------------------------------------------------------------
ZebraInit ==
  /\ zebra_status = FALSE /\ session = FALSE /\ zebra_up = TRUE
  /\ zebra_routes = [d \in ZebraDsts |-> 0] /\ zebra_prefixes = {} /\ inbox = <<>>
  /\ rt_nexthop = [d \in ZebraDsts |-> 0] /\ rt_best_nh = [d \in ZebraDsts |-> 0]
  /\ hna_copies = [p \in ZebraPrefixes |-> 0]
  /\ sessions = 0 /\ unmatched = {} /\ zebra_phase = "run"

peerVars == <<zebra_up, zebra_prefixes>>
ribVars == <<rt_nexthop, rt_best_nh>>

(* The timer, without a connection.  zebra answers the request to          *)
(* redistribute with all its routes; it may stop before: the failure of a  *)
(* route is noted, the failure of that request is the end.                 *)
Reconnect ==
  /\ zebra_phase = "run" /\ ~zebra_status /\ zebra_up /\ sessions < MaxSessions
  /\ sessions' = sessions + 1
  /\ \/ /\ \E Z \in zclient_reconnect(Zebra, rt_best_nh) : ZebraBecomes(Z)
        /\ unmatched' = {d \in ZebraDsts : \/ rt_best_nh[d] = Dangling
                                           \/ rt_best_nh[d] # rt_nexthop[d]}
        /\ inbox' = [i \in 1 .. Len(SetToSeq(zebra_prefixes)) |->
                       [cmd |-> "add", prefix |-> SetToSeq(zebra_prefixes)[i]]]
        /\ UNCHANGED <<zebra_phase, zebra_up>>
     \/ /\ zebra_up' = FALSE /\ inbox' = <<>>
        /\ zebra_phase' \in {"run", "failed"}
        /\ UNCHANGED <<zebra_status, session, zebra_routes, unmatched>>
  /\ UNCHANGED <<zebra_prefixes, ribVars, hna_copies>>

(* The timer, with a connection: all that has come is read and parsed.     *)
zparse ==
  /\ zebra_phase = "run" /\ zebra_status
  /\ \/ /\ inbox # <<>>
        /\ hna_copies' = FoldLeft(Parsed, hna_copies, inbox) /\ inbox' = <<>>
        /\ UNCHANGED zebra_status
     \/ /\ inbox = <<>> /\ ~session
        /\ zebra_status' = FALSE
        /\ UNCHANGED <<hna_copies, inbox>>
  /\ UNCHANGED <<session, zebra_routes, peerVars, ribVars, sessions, unmatched, zebra_phase>>

(* The SPF finds a path, another path or none for d; what was exported is  *)
(* deleted first.                                                          *)
ExportRoute(d) ==
  /\ zebra_phase = "run"
  /\ \E nh \in ZebraDsts :
       /\ rt_best_nh' = [rt_best_nh EXCEPT ![d] = nh] /\ rt_best_nh[d] # nh
       /\ IF rt_nexthop[d] = nh
          THEN ZebraBecomes(Zebra) /\ UNCHANGED <<rt_nexthop, unmatched>>
          ELSE \E del \in IF rt_nexthop[d] = 0 THEN {<<Zebra, 0>>}
                          ELSE zebra_delroute(Zebra, d, rt_nexthop[d]) :
               \E add \in zebra_addroute(del[1], d, nh) :
                 /\ ZebraBecomes(add[1])
                 /\ rt_nexthop' = [rt_nexthop EXCEPT ![d] = IF add[2] = 0 THEN nh ELSE @]
                 /\ unmatched' = IF add[2] # 0 THEN unmatched \cup {d}
                                 ELSE IF nh = d THEN unmatched ELSE unmatched \ {d}
  /\ UNCHANGED <<peerVars, inbox, hna_copies, sessions, zebra_phase>>

RevokeRoute(d) ==
  /\ zebra_phase = "run" /\ rt_best_nh[d] # 0
  /\ rt_best_nh' = [rt_best_nh EXCEPT ![d] = 0] /\ rt_nexthop' = [rt_nexthop EXCEPT ![d] = 0]
  /\ \E del \in IF rt_nexthop[d] = 0 THEN {<<Zebra, 0>>}
                ELSE zebra_delroute(Zebra, d, rt_nexthop[d]) : ZebraBecomes(del[1])
  /\ UNCHANGED <<peerVars, inbox, hna_copies, sessions, unmatched, zebra_phase>>

(* An entry of the topology is freed with its paths between two SPF runs.  *)
PathFreed(d) ==
  /\ zebra_phase = "run" /\ rt_best_nh[d] > 0
  /\ rt_best_nh' = [rt_best_nh EXCEPT ![d] = Dangling]
  /\ UNCHANGED <<zebra_status, session, zebra_routes, peerVars, inbox, rt_nexthop, hna_copies,
                 sessions, unmatched, zebra_phase>>

(* olsr_shutdown deletes all routes before the plugin is closed.           *)
ZebraExit ==
  /\ zebra_phase = "run" /\ zebra_phase' = "exit"
  /\ \E Z \in FoldLeft(LAMBDA ZZ, d : UNION {{x[1] : x \in IF rt_nexthop[d] = 0 THEN {<<z, 0>>}
                                                     ELSE zebra_delroute(z, d, rt_nexthop[d])} :
                                               z \in ZZ},
                       {Zebra}, SetToSeq(ZebraDsts)) : ZebraBecomes(Z)
  /\ rt_nexthop' = [d \in ZebraDsts |-> 0] /\ rt_best_nh' = [d \in ZebraDsts |-> 0]
  /\ UNCHANGED <<peerVars, inbox, hna_copies, sessions, unmatched>>

(* zebra stops and with it its routes are gone; what it sent can be read.  *)
ZebraStops ==
  /\ zebra_phase = "run" /\ zebra_up /\ zebra_up' = FALSE
  /\ session' = FALSE /\ zebra_routes' = [d \in ZebraDsts |-> 0]
  /\ UNCHANGED <<zebra_status, zebra_prefixes, inbox, ribVars, hna_copies, sessions, unmatched,
                 zebra_phase>>

ZebraStarts ==
  /\ zebra_phase = "run" /\ ~zebra_up /\ sessions < MaxSessions /\ zebra_up' = TRUE
  /\ zebra_prefixes' \in SUBSET ZebraPrefixes
  /\ UNCHANGED <<zebra_status, session, zebra_routes, inbox, ribVars, hna_copies, sessions,
                 unmatched, zebra_phase>>

ZebraPrefixChanges ==
  /\ zebra_phase = "run" /\ zebra_up /\ Len(inbox) < MaxInbox
  /\ \E p \in ZebraPrefixes :
       LET cmd == IF p \in zebra_prefixes THEN "del" ELSE "add"
       IN /\ zebra_prefixes' = IF cmd = "add" THEN zebra_prefixes \cup {p} ELSE zebra_prefixes \ {p}
          /\ inbox' = IF session THEN Append(inbox, [cmd |-> cmd, prefix |-> p]) ELSE inbox
  /\ UNCHANGED <<zebra_status, session, zebra_up, zebra_routes, ribVars, hna_copies, sessions,
                 unmatched, zebra_phase>>

ZebraNext ==
  \/ Reconnect \/ zparse \/ ZebraExit \/ ZebraStops \/ ZebraStarts \/ ZebraPrefixChanges
  \/ \E d \in ZebraDsts : ExportRoute(d) \/ RevokeRoute(d) \/ PathFreed(d)

ZebraSpec == ZebraInit /\ [][ZebraNext]_zebraVars

------------------------------------------------------------------------------
(* In a session zebra has the routes of the RIB that are not direct, with  *)
(* the next hops that were exported, and none after the exit, except for   *)
(* destinations whose export failed, or came from a freed path, and was    *)
(* not repeated.  What zebra redistributes is announced, and with every    *)
(* new session at most one more copy of it stays behind.                   *)
ZebraInSync ==
  session =>
    /\ zebra_status \/ zebra_phase # "run"
    /\ \A d \in ZebraDsts \ unmatched :
         zebra_routes[d] = IF rt_nexthop[d] = d THEN 0 ELSE rt_nexthop[d]
    /\ LET h == FoldLeft(Parsed, hna_copies, inbox)
       IN \A p \in ZebraPrefixes :
            h[p] - (IF p \in zebra_prefixes THEN 1 ELSE 0) \in 0 .. sessions - 1
==============================================================================
