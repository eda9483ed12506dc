---------------------------- MODULE Neighborhood ----------------------------
(***************************************************************************)
(* The link set (link_set.c), the neighbor table (neighbor_table.c) and    *)
(* the aliases (mid_set.c) of one node: three tables that point into each  *)
(* other and change together when a HELLO or a MID message comes and when  *)
(* timers run out.                                                         *)
(*                                                                         *)
(* A link is keyed by the remote address and the local interface.  A       *)
(* neighbor entry is an object with an address in memory (an element of    *)
(* Objs): links point to it, its main address may change, and nothing in   *)
(* the table keeps two entries from having the same one.  The hash table   *)
(* is one queue, most recent first: entries that could be mistaken for     *)
(* each other are in the same bucket.  Timers may run out at any time; the *)
(* order of their deadlines is the subject of LinkSensing.                 *)
(***************************************************************************)
EXTENDS Integers, Sequences, SequencesExt, FiniteSets

CONSTANTS
  Addrs,      \* addresses of remote interfaces
  Ifs,        \* local interfaces
  Links,      \* <<remote, interface>>: who may be heard where
  Objs,       \* memory for neighbor entries; positive numbers
  Surroundings, \* sets of <<link, main>>: HELLOs on the link may have the originator main
  MaxRenames, \* bound: how often entries get another main address
  MidClaims,  \* <<main, aliases>>: the MID messages that may come
  NoAddr      \* no address

Null == 0
LinkCodes == {"UNSPEC_LINK", "ASYM_LINK", "SYM_LINK", "LOST_LINK"}

ASSUME NeighborhoodAssumption ==
  /\ Objs \subseteq Nat \ {Null} /\ NoAddr \notin Addrs
  /\ Links \subseteq Addrs \X Ifs
  /\ Surroundings \subseteq SUBSET (Links \X Addrs)
  /\ MidClaims \subseteq Addrs \X SUBSET Addrs

VARIABLES
  may_claim,             \* the HELLOs that may come: one of the Surroundings
  neighbortable,         \* the entries, most recently queued first
  neighbor_main_addr, linkcount, status,   \* their fields; status: symmetric
  link_set,              \* the links that exist
  neighbor,              \* the entry a link points to
  link_sym_timer,        \* whether the timer runs
  prev_status,           \* whether prev_status is SYM_LINK
  mid_set,               \* the main addresses that have a MID entry
  mid_main,              \* main address an alias is registered with, or NoAddr
  changes_neighborhood,
  reported,              \* history: the symmetric neighbors at the last processing of changes
  renames,               \* history: how often a neighbor entry got another main address
  redirected,            \* history: the links that were redirected to an entry
  exiting                \* the daemon shuts down

neighborhoodVars ==
  <<may_claim, neighbortable, neighbor_main_addr, linkcount, status, link_set, neighbor,
    link_sym_timer, prev_status, mid_set, mid_main, changes_neighborhood, reported, renames,
    redirected, exiting>>

(* The tables as one value, so that operations compose.                    *)
Tables ==
  [queue |-> neighbortable, main |-> neighbor_main_addr, count |-> linkcount, status |-> status,
   links |-> link_set, nbr |-> neighbor, sym |-> link_sym_timer, prev |-> prev_status,
   mids |-> mid_set, mid |-> mid_main, changes |-> changes_neighborhood,
   renames |-> renames, redirected |-> redirected]

Become(T) ==
  /\ neighbortable' = T.queue /\ neighbor_main_addr' = T.main
  /\ linkcount' = T.count /\ status' = T.status
  /\ link_set' = T.links /\ neighbor' = T.nbr
  /\ link_sym_timer' = T.sym /\ prev_status' = T.prev
  /\ mid_set' = T.mids /\ mid_main' = T.mid
  /\ changes_neighborhood' = T.changes
  /\ renames' = T.renames /\ redirected' = T.redirected

SymNeighbors(T) == {T.main[n] : n \in {m \in ToSet(T.queue) : T.status[m]}}

------------------------------------------------------------------------------
(* The neighbor table.                                                     *)

olsr_lookup_neighbor_table_alias(T, a) ==
  LET found == SelectSeq(T.queue, LAMBDA n : T.main[n] = a)
  IN  IF found = <<>> THEN Null ELSE Head(found)

olsr_lookup_neighbor_table(T, a) ==
  olsr_lookup_neighbor_table_alias(T, IF T.mid[a] = NoAddr THEN a ELSE T.mid[a])

Free(T) == Objs \ ToSet(T.queue)

olsr_insert_neighbor_table(T, a) ==
  IF olsr_lookup_neighbor_table_alias(T, a) # Null THEN T
  ELSE LET n == CHOOSE m \in Free(T) : TRUE
       IN  [T EXCEPT !.queue = <<n>> \o @, !.main[n] = a, !.count[n] = 0, !.status[n] = FALSE,
                     !.redirected[n] = 0]

(* The first entry with the address goes.                                  *)
olsr_delete_neighbor_table(T, a) ==
  LET n == olsr_lookup_neighbor_table_alias(T, a)
  IN  IF n = Null THEN T
      ELSE [T EXCEPT !.queue = SelectSeq(@, LAMBDA m : m # n), !.changes = TRUE]

olsr_update_neighbor_main_addr(T, n, a) ==
  [T EXCEPT !.queue = <<n>> \o SelectSeq(@, LAMBDA m : m # n), !.main[n] = a, !.renames = @ + 1]

(* Mutant: a change of the status is not reported.                         *)
StatusUnreported(T, n, sym) == [T EXCEPT !.status[n] = sym]

update_neighbor_status(T, n, sym) ==
  [T EXCEPT !.status[n] = sym, !.changes = @ \/ T.status[n] # sym]

------------------------------------------------------------------------------
(* The link set.                                                           *)

(* Mutant: only one interface is looked at.                                *)
OneInterface(T, a) == \E l \in T.links : l[1] = a /\ T.sym[l] /\ l[2] = CHOOSE i \in Ifs : TRUE

(* Some link to the address, its main address or one of the aliases of     *)
(* that is symmetric.                                                      *)
get_neighbor_status(T, a) ==
  LET main  == IF T.mid[a] = NoAddr THEN a ELSE T.mid[a]
      addrs == {main} \cup {b \in Addrs : T.mid[b] = main}
  IN  \E l \in T.links : l[1] \in addrs /\ T.sym[l]

lookup_link_entry(T, l, main) ==
  IF T.main[T.nbr[l]] # main THEN olsr_update_neighbor_main_addr(T, T.nbr[l], main) ELSE T

add_link_entry(T, l, main) ==
  LET known == olsr_lookup_neighbor_table(T, main)
      U     == IF known = Null THEN olsr_insert_neighbor_table(T, main) ELSE T
      n     == IF known = Null THEN olsr_lookup_neighbor_table_alias(U, main) ELSE known
  IN  [U EXCEPT !.links = @ \cup {l}, !.nbr[l] = n, !.count[n] = @ + 1,
                !.sym[l] = FALSE, !.prev[l] = FALSE]

update_link_entry(T, l, main, code) ==
  LET U == IF l \in T.links THEN lookup_link_entry(T, l, main) ELSE add_link_entry(T, l, main)
      V == [U EXCEPT !.prev[l] = (code = "SYM_LINK"),
                     !.sym[l] = (code # "LOST_LINK" /\ (@ \/ code # "UNSPEC_LINK"))]
  IN  update_neighbor_status(V, V.nbr[l], get_neighbor_status(V, l[1]))

replace_neighbor_link_set(T, old, new) ==
  [T EXCEPT !.nbr = [l \in Links |-> IF l \in T.links /\ T.nbr[l] = old THEN new ELSE T.nbr[l]],
            !.renames = @ + 1,
            !.redirected[new] = @ + Cardinality({l \in T.links : T.nbr[l] = old})]

olsr_delete_link_entry(T, l) ==
  LET n == T.nbr[l]
      U == IF T.count[n] = 1 THEN olsr_delete_neighbor_table(T, T.main[n])
           ELSE [T EXCEPT !.count[n] = @ - 1]
  IN  [U EXCEPT !.links = @ \ {l}, !.nbr[l] = Null, !.sym[l] = FALSE, !.prev[l] = FALSE,
                !.changes = TRUE]

------------------------------------------------------------------------------
(* The aliases.                                                            *)

olsr_delete_mid_entry(T, m) ==
  [T EXCEPT !.mids = @ \ {m}, !.mid = [a \in Addrs |-> IF @[a] = m THEN NoAddr ELSE @[a]]]

(* A neighbor entry of an alias is dropped in favour of that of the main   *)
(* address; its links are redirected.                                      *)
DeleteBogusNeighbor(T, m, a) ==
  LET tmp_neigh  == olsr_lookup_neighbor_table_alias(T, a)
      real_neigh == olsr_lookup_neighbor_table_alias(T, m)
  IN  IF tmp_neigh = Null \/ real_neigh = Null THEN T
      ELSE [replace_neighbor_link_set(T, tmp_neigh, real_neigh)
              EXCEPT !.queue = SelectSeq(@, LAMBDA n : n # tmp_neigh)]

insert_mid_tuple(T, m, a) ==
  IF T.mid[a] = m THEN T
  ELSE LET U == [T EXCEPT !.mids = @ \cup {m}, !.mid[a] = m]
       IN  FoldLeft(LAMBDA V, b : DeleteBogusNeighbor(V, m, b), U,
                    SetToSeq({b \in Addrs : U.mid[b] = m}))

(* The entry of a neighbor that had the alias for its main address is      *)
(* replaced by an entry of the main address.                               *)
insert_mid_alias(T, m, a) ==
  LET ne_old == olsr_lookup_neighbor_table_alias(T, a)
      U == olsr_insert_neighbor_table(olsr_delete_neighbor_table(T, a), m)
      V == replace_neighbor_link_set(U, ne_old, olsr_lookup_neighbor_table_alias(U, m))
      W == IF a \in V.mids THEN olsr_delete_mid_entry(V, a) ELSE V
  IN  [insert_mid_tuple(IF ne_old = Null THEN T ELSE W, m, a) EXCEPT !.changes = TRUE]

------------------------------------------------------------------------------
NeighborhoodInit ==
  /\ may_claim \in Surroundings
  /\ neighbortable = <<>>
  /\ neighbor_main_addr = [n \in Objs |-> NoAddr]
  /\ linkcount = [n \in Objs |-> 0]
  /\ status = [n \in Objs |-> FALSE]
  /\ link_set = {}
  /\ neighbor = [l \in Links |-> Null]
  /\ link_sym_timer = [l \in Links |-> FALSE]
  /\ prev_status = [l \in Links |-> FALSE]
  /\ mid_set = {}
  /\ mid_main = [a \in Addrs |-> NoAddr]
  /\ changes_neighborhood = FALSE
  /\ reported = {}
  /\ renames = 0
  /\ redirected = [n \in Objs |-> 0]
  /\ exiting = FALSE

(* A HELLO from the address l[1] arrives on l[2], with the originator      *)
(* "main" and our link in state "code".  Changes are processed at once.    *)
olsr_hello_tap(l, main, code) ==
  LET U == update_link_entry(Tables, l, main, code)
      V == IF main # l[1] /\ U.mid[l[1]] \in {NoAddr, main}
           THEN insert_mid_alias(U, main, l[1]) ELSE U
  IN  /\ Free(Tables) # {}
      /\ Become([V EXCEPT !.changes = FALSE])
      /\ reported' = IF V.changes THEN SymNeighbors(V) ELSE reported
      /\ UNCHANGED exiting

(* A MID message lists the aliases of m; registered ones that it does not  *)
(* list are dropped when their own time is over ("timedout").              *)
olsr_input_mid(m, aliases, timedout) ==
  LET new  == SetToSeq({a \in aliases : mid_main[a] = NoAddr})
      U    == FoldLeft(LAMBDA T, a : insert_mid_alias(T, m, a), Tables, new)
      gone == {a \in timedout \ aliases : U.mid[a] = m}
  IN  /\ \E l \in link_set : link_sym_timer[l]
      /\ Free(Tables) # {}
      /\ Become([U EXCEPT !.mid = [a \in Addrs |-> IF a \in gone THEN NoAddr ELSE @[a]],
                          !.changes = @ \/ gone # {}])
      /\ UNCHANGED <<reported, exiting>>

olsr_expire_mid_entry(m) ==
  /\ m \in mid_set
  /\ Become(olsr_delete_mid_entry(Tables, m))
  /\ UNCHANGED <<reported, exiting>>

(* The symmetry times out.  If the last HELLO did not list the link as     *)
(* symmetric the status of the neighbor stays as it is.                    *)
olsr_expire_link_sym_timer(l) ==
  LET T == [Tables EXCEPT !.sym[l] = FALSE]
      U == [T EXCEPT !.prev[l] = FALSE, !.changes = TRUE]
  IN  /\ l \in link_set
      /\ link_sym_timer[l]
      /\ Become(IF prev_status[l]
                THEN update_neighbor_status(U, U.nbr[l], get_neighbor_status(U, l[1])) ELSE T)
      /\ UNCHANGED <<reported, exiting>>

olsr_expire_link_entry(l) ==
  /\ l \in link_set
  /\ Become(olsr_delete_link_entry(Tables, l))
  /\ UNCHANGED <<reported, exiting>>

(* An interface goes: its links are deleted one by one.                    *)
olsr_delete_link_entry_by_ip(i) ==
  /\ \E l \in link_set : l[2] = i
  /\ Become(FoldLeft(olsr_delete_link_entry, Tables, SetToSeq({l \in link_set : l[2] = i})))
  /\ UNCHANGED <<reported, exiting>>

(* The final HELLO of the daemon lists all links as lost.                  *)
olsr_reset_all_links ==
  /\ link_set # {}
  /\ LET touched == {neighbor[l] : l \in link_set}
     IN  Become([Tables EXCEPT
                   !.sym = [l \in Links |-> FALSE],
                   !.status = [n \in Objs |-> @[n] /\ n \notin touched],
                   !.prev = [l \in Links |-> FALSE],
                   !.changes = @ \/ \E l \in link_set : prev_status[l]])
  /\ exiting' = TRUE
  /\ UNCHANGED reported

olsr_process_changes ==
  /\ changes_neighborhood
  /\ Become([Tables EXCEPT !.changes = FALSE])
  /\ reported' = SymNeighbors(Tables)
  /\ UNCHANGED exiting

(* A link points to an entry that was freed: what the program does next is *)
(* undefined, and the model stops.                                         *)
Dangling == \E l \in link_set : ~Contains(neighbortable, neighbor[l])

NeighborhoodNext ==
  /\ ~exiting /\ ~Dangling /\ renames < MaxRenames
  /\ UNCHANGED may_claim
  /\ \/ \E c \in may_claim, code \in LinkCodes : olsr_hello_tap(c[1], c[2], code)
     \/ \E c \in MidClaims : \E timedout \in SUBSET {x \in Addrs : mid_main[x] = c[1]} :
          olsr_input_mid(c[1], c[2], timedout)
     \/ \E m \in mid_set : olsr_expire_mid_entry(m)
     \/ \E l \in link_set : olsr_expire_link_sym_timer(l)
     \/ \E l \in link_set : olsr_expire_link_entry(l)
     \/ \E i \in Ifs : olsr_delete_link_entry_by_ip(i)
     \/ olsr_reset_all_links
     \/ olsr_process_changes

NeighborhoodSpec == NeighborhoodInit /\ [][NeighborhoodNext]_neighborhoodVars

------------------------------------------------------------------------------
Entries == ToSet(neighbortable)

NeighborhoodTypeOK ==
  /\ neighbortable \in Seq(Objs)
  /\ neighbor_main_addr \in [Objs -> Addrs \cup {NoAddr}]
  /\ linkcount \in [Objs -> Int]
  /\ status \in [Objs -> BOOLEAN]
  /\ link_set \subseteq Links
  /\ neighbor \in [Links -> Objs \cup {Null}]
  /\ \A l \in link_set : neighbor[l] # Null
  /\ mid_set \subseteq Addrs
  /\ mid_main \in [Addrs -> Addrs \cup {NoAddr}]

(* The counter of an entry is the number of links that point to it, less   *)
(* those that were redirected to it: mid_set.c does not count these.       *)
LinkcountExact ==
  ~Dangling => \A n \in Entries :
    linkcount[n] + redirected[n] = Cardinality({l \in link_set : neighbor[l] = n})

(* A link never points to an entry that was freed, and an entry goes with  *)
(* its last link.                                                          *)
EntryPerLinks == ~Dangling /\ \A n \in Entries : linkcount[n] > 0

(* The table has one entry for a main address.                             *)
UniqueMain ==
  \A i, j \in DOMAIN neighbortable :
    neighbor_main_addr[neighbortable[i]] = neighbor_main_addr[neighbortable[j]] => i = j

(* A neighbor with a symmetric link on any interface is a symmetric        *)
(* neighbor, if it sends its HELLOs from one address.                      *)
SymLinkCounts ==
  \A l \in link_set :
    /\ link_sym_timer[l]
    /\ \A c \in may_claim : c[2] = neighbor_main_addr[neighbor[l]] => c[1][1] = c[2]
    => status[neighbor[l]]

(* Whenever the symmetric neighbors are not those the MPR calculation last *)
(* saw, the flag that triggers it is set.                                  *)
ChangesFlagged == ~changes_neighborhood /\ ~exiting => reported = SymNeighbors(Tables)

(* An alias is registered with an entry that exists, and no address is     *)
(* both a main address with aliases and an alias of another.               *)
MidConsistent ==
  \A a \in Addrs : mid_main[a] # NoAddr => mid_main[a] \in mid_set /\ mid_main[mid_main[a]] = NoAddr

(* The tables are well typed, aliases belong to an entry, and the counter  *)
(* of a neighbor entry is the number of its links that were not redirected *)
(* to it, after any sequence of HELLO and MID messages and timeouts.  As   *)
(* long as no neighbor changes its main address, pointers lead to entries  *)
(* that exist and last as long as their links, one entry stands for a main *)
(* address, symmetric links make symmetric neighbors, and a change of the  *)
(* symmetric neighbors is flagged for the MPRs.  None of these survives    *)
(* the change of a main address: the entry that replaces another           *)
(* (mid_set.c:287-289) starts with the counter 0 though links are          *)
(* redirected to it, so it stays for good or is freed while a link points  *)
(* to it, and renaming an entry (link_set.c:666) flags nothing and may     *)
(* give two entries one main address.                                      *)
NeighborsConsistent ==
  /\ NeighborhoodTypeOK /\ MidConsistent /\ LinkcountExact
  /\ renames = 0 => EntryPerLinks /\ UniqueMain /\ SymLinkCounts /\ ChangesFlagged
==============================================================================
