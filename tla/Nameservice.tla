---------------------------- MODULE Nameservice ----------------------------
(***************************************************************************)
(* The name service plugin (lib/nameservice): host names, DNS servers,     *)
(* services, MAC addresses and positions announced by the other nodes, the *)
(* files written from them and the timer that paces the writing.           *)
(*                                                                         *)
(* A name is a sequence of characters because the plugin compares names by *)
(* strncmp over the length of the received one; an address is a model      *)
(* value.  The routing table is what olsr_lookup_routing_table and         *)
(* olsr_cmp_rt show of it: the addresses with a host route, best first.    *)
(***************************************************************************)
EXTENDS Naturals, Sequences, SequencesExt, FiniteSets

CONSTANTS
    Announcers,         \* originators 1..n, in the order of their hash
    NameSetups,         \* records of the messages (sequences of entries), of
                        \* the routing tables (routed addresses, best first),
                        \* of the own DNS servers and of the kinds of files
                        \* that cannot always be opened
    NAMESERVER_COUNT,   \* nameservice.h: 3
    MaxNames            \* bound: entries of one list (MAC lists never shrink)

ASSUME NameserviceAssumption ==
    /\ Announcers \subseteq Nat
    /\ NAMESERVER_COUNT \in Nat \ {0}

VARIABLES
    nameservice_configured, \* name_lazy_init has run
    main_addr_set,          \* olsr_cnf->main_addr is not zero
    my_forwarders,          \* own DNS servers: is each an allowed address?
    db,                     \* *_list: the names of each entry, newest first
    db_timer,               \* the <<kind, originator>> that have an entry
    table_changed,          \* *_table_changed
    write_file_timer,       \* the timer is running
    host_routes,            \* the routing table
    written,                \* what each file holds
    name_setup,             \* the setup of this behaviour
    unwritten,              \* history: kinds whose last write was given up
    passed                  \* history: the timer that writes the files has fired

nameVars == <<nameservice_configured, main_addr_set, my_forwarders, db,
              db_timer, table_changed, write_file_timer, host_routes, written,
              name_setup, unwritten, passed>>

Kinds == {"host", "forwarder", "service", "mac", "latlon"}

\* The files of the kinds other than latlon (written on WIN32 only) and
\* forwarder (resolv.conf, which depends on the routes too).
ListFiles == {"host", "service", "mac"}

----------------------------------------------------------------------------
(* Receiving names.  N is the record of the plugin's tables.               *)

NameTables == [db |-> db, timed |-> db_timer, changed |-> table_changed, timer |-> write_file_timer]

TablesBecome(N) ==
    /\ db' = N.db
    /\ db_timer' = N.timed
    /\ table_changed' = N.changed
    /\ write_file_timer' = N.timer

\* strncmp(saved, received, strlen(received)) == 0
SameUpToReceived(saved, received) == IsPrefix(received, saved)

AlreadySaved(names, e) ==
    \E i \in 1..Len(names) :
        \/ e.type \in {"host", "service"} /\ SameUpToReceived(names[i].name, e.name)
        \/ e.type = "forwarder" /\ names[i].ip = e.ip

\* The position of a node is one entry, overwritten when it changes.
Moved(saved, e) ==
    [saved EXCEPT !.name = IF SameUpToReceived(saved.name, e.name) THEN @ ELSE e.name,
                  !.ip = e.ip]

Flagged(N, k) == [N EXCEPT !.changed[k] = TRUE, !.timer = TRUE]

decap_namemsg(N, o, e) ==
    LET names == N.db[e.type][o] IN
    IF ~e.wellformed \/ AlreadySaved(names, e) THEN N
    ELSE IF e.type = "latlon" /\ names # <<>>
         THEN IF Moved(names[1], e) = names[1] THEN N
              ELSE Flagged([N EXCEPT !.db["latlon"][o] = <<Moved(names[1], e)>> \o Tail(names)],
                           "latlon")
         ELSE Flagged([N EXCEPT !.db[e.type][o] = <<e>> \o names], e.type)

\* The entry of the originator is created, or its timer set again, whether or
\* not the name is taken.
insert_new_name_in_list(N, o, e) ==
    decap_namemsg([N EXCEPT !.timed = @ \cup {<<e.type, o>>}], o, e)

update_name_entry(N, o, msg) ==
    FoldLeft(LAMBDA M, e : insert_new_name_in_list(M, o, e), N, msg)

\* The own DNS servers that are not an own address or inside an own HNA are
\* dropped once the main address is known.
name_lazy_init ==
    IF nameservice_configured \/ ~main_addr_set
    THEN UNCHANGED <<nameservice_configured, my_forwarders>>
    ELSE /\ nameservice_configured' = TRUE
         /\ my_forwarders' = SelectSeq(my_forwarders, LAMBDA allowed : allowed)

\* A NAME message of o from a symmetric neighbor or from somebody else.
olsr_parser(o, msg, symmetric) ==
    /\ \A i \in 1..Len(msg) : Len(db[msg[i].type][o]) < MaxNames
    /\ name_lazy_init
    /\ IF nameservice_configured' /\ symmetric
       THEN \E N \in {update_name_entry(NameTables, o, msg)} : TablesBecome(N)
       ELSE UNCHANGED <<db, db_timer, table_changed, write_file_timer>>
    /\ UNCHANGED <<main_addr_set, host_routes, written,
                   name_setup, unwritten, passed>>

\* The timer that generates the own message also waits for the main address.
olsr_namesvc_gen ==
    /\ ~nameservice_configured
    /\ name_lazy_init
    /\ UNCHANGED <<main_addr_set, db, db_timer, table_changed, write_file_timer,
                   host_routes, written,
                   name_setup, unwritten, passed>>

\* Mutant: a list that vanishes as a whole is not written again.
DeletedQuietly(N, k, o) ==
    [N EXCEPT !.db[k][o] = <<>>, !.timed = @ \ {<<k, o>>}, !.timer = TRUE]

\* free_name_entry_list flags the table only if the list had a name.
olsr_namesvc_delete_db_entry(N, k, o) ==
    [N EXCEPT !.db[k][o] = <<>>,
              !.timed = @ \ {<<k, o>>},
              !.timer = TRUE,
              !.changed[k] = @ \/ N.db[k][o] # <<>>]

olsr_nameservice_expire_db_timer(k, o) ==
    /\ <<k, o>> \in db_timer
    /\ TablesBecome(olsr_namesvc_delete_db_entry(NameTables, k, o))
    /\ UNCHANGED <<nameservice_configured, main_addr_set, my_forwarders,
                   host_routes, written,
                   name_setup, unwritten, passed>>

----------------------------------------------------------------------------
(* Writing the files.                                                      *)

\* The lists in the order of the hash buckets, each as it stands.
HashOrder == SetToSortSeq(Announcers, <)

Contents(k) == FlattenSeq([i \in 1..Len(HashOrder) |-> db[k][HashOrder[i]]])

Rank(ip) == CHOOSE r \in 1..Len(host_routes) : host_routes[r] = ip

Empty == "null"

\* One pass over the array rt[0..NAMESERVER_COUNT] (here from 1): the better
\* of two neighbours moves towards the end, and an empty place moves up.
select_best_nameserver(rt) ==
    FoldLeft(LAMBDA a, i :
                IF a[i + 1] = Empty \/ (a[i] # Empty /\ Rank(a[i]) < Rank(a[i + 1]))
                THEN [a EXCEPT ![i] = a[i + 1], ![i + 1] = a[i]]
                ELSE a,
             rt, [i \in 1..NAMESERVER_COUNT |-> i])

Routed == SelectSeq(Contents("forwarder"), LAMBDA e : Contains(host_routes, e.ip))

nameserver_routes ==
    FoldLeft(LAMBDA rt, e : select_best_nameserver([rt EXCEPT ![1] = e.ip]),
             [i \in 1..NAMESERVER_COUNT + 1 |-> Empty],
             Routed)

\* The array is written from its end; its first place holds the loser of the
\* last comparison and is written like the others.
ResolvLines == SelectSeq(Reverse(nameserver_routes), LAMBDA a : a # Empty)

\* Does the pass of the timer write resolv.conf, if the file can be opened?
ResolvDue ==
    table_changed["forwarder"] /\ my_forwarders = <<>> /\ ResolvLines # <<>>

Due == {k \in ListFiles : table_changed[k]}
         \cup (IF ResolvDue THEN {"forwarder"} ELSE {})

\* write_resolv_file, write_hosts_file and write_services_file, of which those
\* in failing cannot open their file and return with the flag still set.
olsr_expire_write_file_timer(failing) ==
    /\ write_file_timer
    /\ write_file_timer' = FALSE
    /\ failing \subseteq Due
    /\ written' = [k \in DOMAIN written |->
                     IF k \notin Due \ failing THEN written[k]
                     ELSE IF k = "forwarder" THEN ResolvLines ELSE Contents(k)]
    /\ table_changed' = [k \in Kinds |-> table_changed[k] /\ k \notin Due \ failing]
    /\ unwritten' = failing
    /\ passed' = TRUE
    /\ UNCHANGED <<nameservice_configured, main_addr_set, my_forwarders, db, db_timer,
                   host_routes, name_setup>>

----------------------------------------------------------------------------
(* External: the interfaces come up, the routes change.                    *)

MainAddressSet ==
    /\ ~main_addr_set
    /\ main_addr_set' = TRUE
    /\ UNCHANGED <<nameservice_configured, my_forwarders, db, db_timer, table_changed,
                   write_file_timer, host_routes, written,
                   name_setup, unwritten, passed>>

RoutesChange(rts) ==
    /\ host_routes' = rts
    /\ UNCHANGED <<nameservice_configured, main_addr_set, my_forwarders, db, db_timer,
                   table_changed, write_file_timer, written,
                   name_setup, unwritten, passed>>

\* What an earlier run of the daemon has left in the files.
Leftover == <<[type |-> "left", name |-> <<>>, ip |-> "none", wellformed |-> TRUE]>>

\* The flags of all tables start up, and nothing starts the timer: the first
\* change of any table makes the timer write all files.
name_constructor ==
    /\ name_setup \in NameSetups
    /\ nameservice_configured = FALSE
    /\ main_addr_set \in BOOLEAN
    /\ my_forwarders \in name_setup.forwarders
    /\ db = [k \in Kinds |-> [o \in Announcers |-> <<>>]]
    /\ db_timer = {}
    /\ table_changed = [k \in Kinds |-> TRUE]
    /\ write_file_timer = FALSE
    /\ host_routes = <<>>
    /\ written = [k \in ListFiles \cup {"forwarder"} |-> Leftover]
    /\ unwritten = {}
    /\ passed = FALSE

NameNext ==
    \/ \E o \in Announcers, msg \in name_setup.messages, symmetric \in BOOLEAN :
          olsr_parser(o, msg, symmetric)
    \/ olsr_namesvc_gen
    \/ \E k \in Kinds, o \in Announcers : olsr_nameservice_expire_db_timer(k, o)
    \/ \E failing \in SUBSET name_setup.failing :
          olsr_expire_write_file_timer(failing)
    \/ MainAddressSet
    \/ \E rts \in name_setup.routes : RoutesChange(rts)

NameSpec == name_constructor /\ [][NameNext]_nameVars

----------------------------------------------------------------------------
(* Properties.                                                             *)

\* A file that is not due to be written again holds exactly what the table
\* holds, and a table that changed is written by a timer that is running,
\* unless its file could not be opened the last time: no change of a list, by
\* a message or by the expiry of an originator, is ever forgotten by the flag
\* and the pacing timer, which are set in different functions.  The flags start
\* up without a timer (nameservice.c:100-115): until the first change of any
\* table nothing is announced, and the files are those of an earlier run.
FilesFollow ==
    \A k \in ListFiles :
        IF table_changed[k]
        THEN \/ write_file_timer
             \/ k \in unwritten
             \/ ~passed /\ \A j \in Kinds : Contents(j) = <<>>
        ELSE written[k] = Contents(k)

\* In the list of one originator a name is saved once: no entry repeats an
\* older one, no DNS server is listed twice, and there is one position.
SavedOnce ==
    \A o \in Announcers :
        /\ \A k \in {"host", "service"} : \A i, j \in 1..Len(db[k][o]) :
              i < j => db[k][o][i].name # db[k][o][j].name
        /\ \A i, j \in 1..Len(db["forwarder"][o]) :
              i < j => db["forwarder"][o][i].ip # db["forwarder"][o][j].ip
        /\ Len(db["latlon"][o]) <= 1

\* The lines that resolv.conf would get now start with the NAMESERVER_COUNT
\* best of the announced servers that have a route, best first, although the
\* array is filled by single passes and in the order of the hash buckets.
BestServersFirst ==
    LET sorted == SortSeq(Routed, LAMBDA a, b : Rank(a.ip) < Rank(b.ip))
        n == IF Len(sorted) < NAMESERVER_COUNT THEN Len(sorted) ELSE NAMESERVER_COUNT
    IN  \A i \in 1..n : ResolvLines[i] = sorted[i].ip

\* The files of the name service follow what the other nodes announce.
NamesFollow == FilesFollow /\ SavedOnce /\ BestServersFirst
============================================================================
