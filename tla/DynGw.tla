------------------------------- MODULE DynGw -------------------------------
(***************************************************************************)
(* The dyn_gw plugin (lib/dyn_gw): networks of groups are announced in HNA *)
(* messages while the kernel has a route to them and a host of the group   *)
(* answers to pings.  The daemon's thread reads the routing table and sets *)
(* the HNA entries, another thread pings; they share flags without locks.  *)
(***************************************************************************)
EXTENDS Integers, Sequences, SequencesExt

CONSTANTS HnaGroups,     \* hna_groups: a sequence of sequences of networks
          PingGroups     \* the groups with ping hosts

(* find_hna marks the first of two equal networks only; there are none.    *)
ASSUME HnaAssumption ==
  /\ PingGroups \subseteq DOMAIN HnaGroups
  /\ \A g \in DOMAIN HnaGroups : HnaGroups[g] # <<>>
  /\ IsInjective(FlattenSeq(HnaGroups))

VARIABLES route,         \* networks with a route that is up, other than those of the daemon
          reachable,     \* groups of which a ping host answers
          checked, active, hna_added,     \* sets of networks
          hna_entries,   \* olsr_cnf->hna_entries: how often each network is there
          probe_ok,      \* set of groups
          main_todo,     \* what is left of the timer's run in the daemon's thread
          ping_todo,     \* what is left of the round of the other thread
          pinging        \* it waits for the answer to the ping of the first of them

mainVars == <<checked, active, hna_added, hna_entries, main_todo>>
pingVars == <<probe_ok, ping_todo, pinging>>
dynVars == <<route, reachable, mainVars, pingVars>>

(* The order in which the loops over groups and networks visit them.       *)
Visits ==
  FlattenSeq([g \in DOMAIN HnaGroups |-> [i \in DOMAIN HnaGroups[g] |-> [group |-> g, hna |-> HnaGroups[g][i]]]])
Networks == {Visits[i].hna : i \in DOMAIN Visits}
Todo(what) == [i \in DOMAIN Visits |-> [do |-> what, group |-> Visits[i].group, hna |-> Visits[i].hna]]

hna_ping_check == PingGroups # {}

------------------------------------------------------------------------------
(* The daemon's thread.                                                    *)

(* The routing table is read into checked; if it cannot be, everything     *)
(* stays as it is.                                                         *)
update_routing(readable) ==
  /\ main_todo = <<>>
  /\ checked' = IF readable THEN route ELSE checked
  /\ main_todo' = (IF readable THEN Todo("copy") ELSE <<>>) \o Todo("announce")
  /\ UNCHANGED <<route, reachable, active, hna_added, hna_entries, pingVars>>

CopyChecked ==
  LET h == Head(main_todo).hna
  IN  /\ main_todo # <<>> /\ Head(main_todo).do = "copy"
      /\ active' = IF h \in checked THEN active \cup {h} ELSE active \ {h}
      /\ main_todo' = Tail(main_todo)
      /\ UNCHANGED <<route, reachable, checked, hna_added, hna_entries, pingVars>>

olsr_event_doing_hna ==
  LET h   == Head(main_todo).hna
      due == Head(main_todo).group \in probe_ok /\ h \in active
  IN  /\ main_todo # <<>> /\ Head(main_todo).do = "announce"
      /\ hna_added' = IF due THEN hna_added \cup {h} ELSE hna_added \ {h}
      /\ hna_entries' = [hna_entries EXCEPT ![h] = IF h \in hna_added THEN IF due THEN @ ELSE 0
                                                   ELSE IF due THEN @ + 1 ELSE @]
      /\ main_todo' = Tail(main_todo)
      /\ UNCHANGED <<route, reachable, checked, active, pingVars>>

------------------------------------------------------------------------------
(* The thread that pings, if there is something to ping.                   *)

(* Networks that are not active are passed over.                           *)
looped_checks ==
  /\ hna_ping_check /\ ~pinging
  /\ IF ping_todo = <<>> THEN ping_todo' = Visits /\ UNCHANGED pinging
     ELSE IF Head(ping_todo).hna \in active THEN pinging' = TRUE /\ UNCHANGED ping_todo
     ELSE ping_todo' = Tail(ping_todo) /\ UNCHANGED pinging
  /\ UNCHANGED <<route, reachable, mainVars, probe_ok>>

check_gw(g) == g \in PingGroups => g \in reachable

(* Mutant: a failed check does not withdraw the group.                     *)
ProbedOnce ==
  LET g == Head(ping_todo).group
  IN  /\ pinging /\ pinging' = FALSE
      /\ probe_ok' = IF check_gw(g) THEN probe_ok \cup {g} ELSE probe_ok
      /\ ping_todo' = IF check_gw(g) THEN SelectSeq(ping_todo, LAMBDA v : v.group # g) ELSE Tail(ping_todo)
      /\ UNCHANGED <<route, reachable, mainVars>>

(* The answer, or the end of the wait; after a good one the rest of the    *)
(* group is passed over.                                                   *)
ProbeEnds ==
  LET g == Head(ping_todo).group
  IN  /\ pinging /\ pinging' = FALSE
      /\ probe_ok' = IF check_gw(g) THEN probe_ok \cup {g} ELSE probe_ok \ {g}
      /\ ping_todo' = IF check_gw(g) THEN SelectSeq(ping_todo, LAMBDA v : v.group # g) ELSE Tail(ping_todo)
      /\ UNCHANGED <<route, reachable, mainVars>>

------------------------------------------------------------------------------
(* The kernel's routes and the hosts outside.                              *)
RouteChanges ==
  /\ \E h \in Networks : route' = (route \cup {h}) \ (route \cap {h})
  /\ UNCHANGED <<reachable, mainVars, pingVars>>

ReachabilityChanges ==
  /\ \E g \in PingGroups : reachable' = (reachable \cup {g}) \ (reachable \cap {g})
  /\ UNCHANGED <<route, mainVars, pingVars>>

(* olsrd_plugin_init: the table is read once before the thread starts.     *)
DynInit ==
  /\ route \in SUBSET Networks /\ reachable = {}
  /\ checked \in {{}, route} /\ active = checked
  /\ hna_added = {} /\ hna_entries = [h \in Networks |-> 0]
  /\ probe_ok = IF hna_ping_check THEN {} ELSE DOMAIN HnaGroups
  /\ main_todo = <<>> /\ ping_todo = <<>> /\ pinging = FALSE

DynNext ==
  \/ \E readable \in BOOLEAN : update_routing(readable)
  \/ CopyChecked \/ olsr_event_doing_hna
  \/ looped_checks \/ ProbeEnds
  \/ RouteChanges \/ ReachabilityChanges

(* The timer fires again and again, the threads run, a ping ends, and the  *)
(* routing table can be read again and again.                              *)
DynFairness ==
  /\ SF_dynVars(update_routing(TRUE))
  /\ WF_dynVars(CopyChecked \/ olsr_event_doing_hna)
  /\ WF_dynVars(looped_checks \/ ProbeEnds)

DynSpec == DynInit /\ [][DynNext]_dynVars /\ DynFairness

------------------------------------------------------------------------------
(* The announcements follow the uplinks, whichever way the two threads     *)
(* interleave: a network whose route stays and whose group keeps answering *)
(* is announced for good, and one whose route stays away, or whose group   *)
(* stops answering while one of its routes stays, is withdrawn for good    *)
(* (olsr_event_doing_hna, looped_checks; the flags of one are read by the  *)
(* other without a lock).                                                  *)
UplinkFollows ==
  \A i, j \in DOMAIN Visits :
    LET h == Visits[i].hna
        g == Visits[i].group
    IN  /\ <>[](h \in route /\ check_gw(g)) => <>[](hna_entries[h] = 1)
        /\ <>[](h \notin route) => <>[](hna_entries[h] = 0)
        /\ Visits[j].group = g =>
             (<>[](~check_gw(g) /\ Visits[j].hna \in route) => <>[](hna_entries[h] = 0))
==============================================================================
