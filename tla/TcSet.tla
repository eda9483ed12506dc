-------------------------------- MODULE TcSet --------------------------------
(***************************************************************************)
(* The link-state database (tc_set.c): one entry for every node that was   *)
(* heard of, the edges it advertises in TC messages, and the prefixes that *)
(* hang off it (olsr_insert_routing_table of routing_table.c, the HNA set  *)
(* of hna_set.c).  Entries are reference counted, an edge and its inverse  *)
(* point to each other, and the edges of the node itself are kept in step  *)
(* with its neighbors by the SPF calculation (olsr_spf.c:378-428) and by   *)
(* the deletion of links (link_set.c:360-369).                             *)
(*                                                                         *)
(* Entries and edges are keyed by addresses, numbers of AddrBits bits.     *)
(* Fields of what does not exist are zero.  Link quality is a number whose *)
(* cost is itself, zero being broken.  Timers may fire at any time.        *)
(***************************************************************************)
EXTENDS Integers, FiniteSetsExt

CONSTANTS
  HalfSeq,    \* half of the sequence number space (2^15)
  AddrBits,   \* width of an address
  Self,       \* the main address of this node
  Nodes,      \* the main addresses of all nodes
  Denied,     \* addresses that olsr_validate_address refuses (net_olsr.c)
  Adjacent,   \* the nodes that may be neighbors
  Gateways,   \* the nodes that announce networks
  Nets,       \* prefixes announced by HNA
  Qualities,  \* link qualities
  IfAddr,     \* for each of these, the interface address its link has
  SeqWindow, AnsnWindow,          \* TC_SEQNO_WINDOW (1024), TC_ANSN_WINDOW (256)
  SeqWindowMult, AnsnWindowMult,  \* TC_SEQNO_WINDOW_MULT (8), TC_ANSN_WINDOW_MULT (4)
  MaxIgnored                      \* old messages ignored in a row (32)

Others == Nodes \ {Self}
Edges == Nodes \X Nodes
Rev(e) == <<e[2], e[1]>>
NoSeq == -1        \* err_seq is not valid
NoBorder == 0
OpenBorder == 255

ASSUME TcSetAssumption ==
  /\ HalfSeq \in Nat \ {0}
  /\ AddrBits \in Nat /\ Nodes \subseteq 0 .. 2^AddrBits - 2 /\ Self \in Nodes
  /\ Denied \subseteq Nat /\ Denied \cap Nodes = {}
  /\ Adjacent \subseteq Others /\ Gateways \subseteq Others
  /\ Nets \cap Nodes = {} /\ Qualities \subseteq Nat \ {0}
  /\ IsFiniteSet(Nodes) /\ IsFiniteSet(Nets)
  /\ IfAddr \in [Adjacent -> Nat] /\ MaxIgnored \in Nat
  /\ SeqWindow * SeqWindowMult < HalfSeq /\ AnsnWindow * AnsnWindowMult < HalfSeq

------------------------------------------------------------------------------
(* Comparisons of 16-bit sequence numbers that wrap around (tc_set.c,      *)
(* olsr_protocol.h).  The bounds of a range are ints that may lie outside  *)
(* of the sequence numbers on one side.                                    *)
SeqSpace == 2 * HalfSeq
Seqnos   == 0 .. SeqSpace - 1
MAXVALUE == SeqSpace - 1

olsr_seq_inrange_low(beg, end, seq) ==
  IF beg < 0 THEN seq >= beg % SeqSpace \/ seq < end
  ELSE IF end >= SeqSpace THEN seq >= beg \/ seq < end % SeqSpace
  ELSE seq >= beg /\ seq < end

olsr_seq_inrange_high(beg, end, seq) ==
  IF beg < 0 THEN seq > beg % SeqSpace \/ seq <= end
  ELSE IF end >= SeqSpace THEN seq > beg \/ seq <= end % SeqSpace
  ELSE seq > beg /\ seq <= end

SEQNO_GREATER_THAN(s1, s2) ==
  \/ s1 > s2 /\ s1 - s2 <= MAXVALUE \div 2
  \/ s2 > s1 /\ s2 - s1 > MAXVALUE \div 2

(* How far seq is behind beg on the circle.                                *)
Ahead(seq, beg) == (seq - beg) % SeqSpace

------------------------------------------------------------------------------
VARIABLES
  tc_tree,        \* the entries
  refcount, msg_seq, ansn, ignored, err_seq,   \* their fields
  validity_timer, edge_gc_timer,               \* the entries whose timer runs
  edge_tree,      \* the edges of all entries
  edge_ansn, linkquality, cost,                \* their fields
  edge_inv,       \* the edges whose pointer to the inverse edge is set
  prefix_tree,    \* <<node, prefix>>: the paths hanging off the entries
  hna_set,        \* <<gateway, net>>
  nbr,            \* status of the neighbors, or "none"
  changes         \* changes_topology, changes_hna, changes_neighborhood

vars == <<tc_tree, refcount, msg_seq, ansn, ignored, err_seq, validity_timer, edge_gc_timer,
          edge_tree, edge_ansn, linkquality, cost, edge_inv, prefix_tree, hna_set, nbr, changes>>

(* The database as one value, so that operations compose.                  *)
Lsdb ==
  [tree |-> tc_tree, ref |-> refcount, seq |-> msg_seq, ansn |-> ansn, ign |-> ignored,
   err |-> err_seq, valid |-> validity_timer, gc |-> edge_gc_timer,
   edges |-> edge_tree, eansn |-> edge_ansn, lq |-> linkquality, cost |-> cost, inv |-> edge_inv,
   paths |-> prefix_tree, hna |-> hna_set, nbr |-> nbr, changes |-> changes]

Become(T) ==
  /\ tc_tree' = T.tree /\ refcount' = T.ref /\ msg_seq' = T.seq /\ ansn' = T.ansn
  /\ ignored' = T.ign /\ err_seq' = T.err /\ validity_timer' = T.valid /\ edge_gc_timer' = T.gc
  /\ edge_tree' = T.edges /\ edge_ansn' = T.eansn /\ linkquality' = T.lq /\ cost' = T.cost
  /\ edge_inv' = T.inv /\ prefix_tree' = T.paths /\ hna_set' = T.hna /\ nbr' = T.nbr
  /\ changes' = T.changes

EdgesOf(T, a) == {e \in T.edges : e[1] = a}

Flag(T, c) == [T EXCEPT !.changes = @ \cup {c}]

------------------------------------------------------------------------------
(* Entries and prefixes.                                                   *)

(* Hang a path off an entry that exists.                                   *)
olsr_alloc_rt_path(T, a, p) ==
  IF <<a, p>> \in T.paths THEN T
  ELSE Flag([T EXCEPT !.paths = @ \cup {<<a, p>>}, !.ref[a] = @ + 1], "hna")

(* Delete the paths to prefixes of P, one after the other.                 *)
olsr_delete_routing_table(T, a, P) ==
  LET D == {x \in T.paths : x[1] = a /\ x[2] \in P}
  IN  IF D = {} THEN T
      ELSE Flag([T EXCEPT !.paths = @ \ D, !.ref[a] = @ - Cardinality(D)], "hna")

(* A new entry is locked once for the tree and has a path to itself.       *)
olsr_add_tc_entry(T, a) ==
  olsr_alloc_rt_path([T EXCEPT !.tree = @ \cup {a}, !.ref[a] = 1, !.err[a] = NoSeq], a, a)

olsr_locate_tc_entry(T, a) == IF a \in T.tree THEN T ELSE olsr_add_tc_entry(T, a)

olsr_insert_routing_table(T, a, p) == olsr_alloc_rt_path(olsr_locate_tc_entry(T, a), a, p)

------------------------------------------------------------------------------
(* Edges.                                                                  *)

(* The field f of the edges E is set to v.                                 *)
Setting(f, E, v) == [e \in Edges |-> IF e \in E THEN v ELSE f[e]]

(* Mutant: only the new edges get a pointer.                               *)
EdgeHalfLinked(T, a, D, n) ==
  LET new == {<<a, d>> : d \in D}
  IN  [T EXCEPT !.edges = @ \cup new, !.ref[a] = @ + Cardinality(new),
                !.eansn = Setting(@, new, n), !.lq = Setting(@, new, 0), !.cost = Setting(@, new, 0),
                !.inv = @ \cup {e \in new : Rev(e) \in T.edges}]

(* Add edges from a to the nodes of D, one after the other.  The cost is   *)
(* computed from the quality of a new edge, which is still zero.  The      *)
(* inverse is looked for under the entry of the other end.                 *)
olsr_add_tc_edge_entry(T, a, D, n) ==
  LET new == {<<a, d>> : d \in D}
      met == {e \in new : e[2] \in T.tree /\ Rev(e) \in T.edges}
  IN  [T EXCEPT !.edges = @ \cup new, !.ref[a] = @ + Cardinality(new),
                !.eansn = Setting(@, new, n), !.lq = Setting(@, new, 0), !.cost = Setting(@, new, 0),
                !.inv = @ \cup met \cup {Rev(e) : e \in met}]

(* Delete the edges D of a.                                                *)
olsr_delete_tc_edge_entry(T, a, D) ==
  [T EXCEPT !.edges = @ \ D, !.ref[a] = @ - Cardinality(D),
            !.inv = @ \ (D \cup {Rev(e) : e \in D}),
            !.eansn = Setting(@, D, 0), !.lq = Setting(@, D, 0), !.cost = Setting(@, D, 0)]

(* Mutant: the deletion is not reported.                                   *)
OutdatedUnflagged(T, a) ==
  olsr_delete_tc_edge_entry(T, a, {e \in EdgesOf(T, a) : SEQNO_GREATER_THAN(T.ansn[a], T.eansn[e])})

olsr_delete_outdated_tc_edges(T, a) ==
  LET D == {e \in EdgesOf(T, a) : SEQNO_GREATER_THAN(T.ansn[a], T.eansn[e])}
  IN  IF D = {} THEN T ELSE Flag(olsr_delete_tc_edge_entry(T, a, D), "topology")

(* Delete the edges between the borders, the upper one excluded, that are  *)
(* older than n.                                                           *)
olsr_delete_revoked_tc_edges(T, a, n, lower, upper) ==
  LET D == {e \in EdgesOf(T, a) : lower <= e[2] /\ e[2] < upper
                                  /\ SEQNO_GREATER_THAN(n, T.eansn[e])}
  IN  IF D = {} THEN T ELSE Flag(olsr_delete_tc_edge_entry(T, a, D), "topology")

(* Edges and paths go first, then the timers and the entry.                *)
olsr_delete_tc_entry(T, a) ==
  LET U == olsr_delete_tc_edge_entry(olsr_delete_routing_table(T, a, {a}), a, EdgesOf(T, a))
      P == {x \in U.paths : x[1] = a}
  IN  [U EXCEPT !.paths = @ \ P, !.ref[a] = @ - Cardinality(P) - 1,
                !.tree = @ \ {a}, !.gc = @ \ {a}, !.valid = @ \ {a},
                !.seq[a] = 0, !.ansn[a] = 0, !.ign[a] = 0, !.err[a] = NoSeq]

(* The addresses R read from a message, with quality q.  There is no edge  *)
(* to a denied one.  The quality of an edge that is new is read after its  *)
(* cost was set.                                                           *)
olsr_tc_update_edge(T, a, n, R, q) ==
  LET D   == R \ Denied
      E   == {<<a, d>> : d \in D}
      old == E \cap T.edges
      U   == olsr_add_tc_edge_entry(T, a, {d \in D : <<a, d>> \notin T.edges}, n)
  IN  IF D = {} THEN T
      ELSE Flag([U EXCEPT !.eansn = Setting(@, old, n), !.lq = Setting(@, E, q),
                          !.cost = Setting(@, old, q)], "topology")

------------------------------------------------------------------------------
(* TC messages.                                                            *)

(* The bits of an address below bit k cleared and bit k set.               *)
BorderAt(a, k) ==
  LET high == (a \div 2^k) * 2^k
  IN  IF (a \div 2^k) % 2 = 1 THEN high ELSE high + 2^k

(* Mutant: the borders are one bit too low.                                *)
BorderBitLow(lower, first, upper, last) ==
  <<IF lower = OpenBorder THEN 0 ELSE BorderAt(first, Max({lower - 2, 0})),
    IF upper = OpenBorder THEN 2^AddrBits - 1 ELSE BorderAt(last, Max({upper - 2, 0}))>>

(* The range of addresses a message speaks for, from its border flags and  *)
(* its first and last address.                                             *)
olsr_calculate_tc_border(lower, first, upper, last) ==
  <<IF lower = OpenBorder THEN 0 ELSE BorderAt(first, lower - 1),
    IF upper = OpenBorder THEN 2^AddrBits - 1 ELSE BorderAt(last, upper - 1)>>

(* How the entry of an originator that has edges takes the numbers of a    *)
(* message: they are old, plausible, or neither.                           *)
SeenBefore(T, m) ==
  LET a == m.orig
  IN  /\ olsr_seq_inrange_high(T.seq[a] - SeqWindow, T.seq[a], m.seq)
      /\ olsr_seq_inrange_high(T.ansn[a] - AnsnWindow, T.ansn[a], m.ansn)

Plausible(T, m) ==
  LET a == m.orig
  IN  /\ olsr_seq_inrange_high(T.seq[a], T.seq[a] + SeqWindow * SeqWindowMult, m.seq)
      /\ olsr_seq_inrange_low(T.ansn[a], T.ansn[a] + AnsnWindow * AnsnWindowMult, m.ansn)

Known(T, m) == m.orig \in T.tree /\ EdgesOf(T, m.orig) # {}

(* Mutant: every message is processed.                                     *)
NothingIgnored(T, m) == FALSE

(* Mutant: an implausible message is always ignored.                       *)
StraysIgnored(T, m) ==
  LET a == m.orig
  IN  /\ Known(T, m)
      /\ IF SeenBefore(T, m) THEN T.seq[a] = m.seq \/ T.ign[a] < MaxIgnored
         ELSE ~Plausible(T, m)

(* The message is ignored: an old one, unless too many were, or the first  *)
(* implausible one.                                                        *)
Ignored(T, m) ==
  LET a == m.orig
  IN  /\ Known(T, m)
      /\ IF SeenBefore(T, m) THEN T.seq[a] = m.seq \/ T.ign[a] < MaxIgnored
         ELSE ~Plausible(T, m) /\ T.err[a] \in {NoSeq, m.seq}

(* What an ignored message leaves behind.                                  *)
IgnoreTc(T, m) ==
  LET a == m.orig
  IN  IF SeenBefore(T, m)
      THEN IF T.seq[a] = m.seq THEN T ELSE [T EXCEPT !.ign[a] = @ + 1]
      ELSE [T EXCEPT !.err[a] = m.seq]

UpdateEntry(T, m) ==
  [olsr_locate_tc_entry(T, m.orig) EXCEPT
     !.seq[m.orig] = m.seq, !.ansn[m.orig] = m.ansn, !.ign[m.orig] = 0, !.err[m.orig] = NoSeq]

UpdateEdges(T, m) == olsr_tc_update_edge(T, m.orig, m.ansn, m.dests, m.q)

olsr_cleanup_hna(T, a) ==
  [olsr_delete_routing_table(T, a, {p \in Nets : <<a, p>> \in T.hna})
     EXCEPT !.hna = {x \in @ : x[1] # a}]

SetValidityTimer(T, a) == [T EXCEPT !.valid = @ \cup {a}]

(* The borders are taken from the first and the last address read, denied  *)
(* ones included.  Without borders the edges of older messages go when the timer fires.    *)
(* An empty message with open borders takes the whole entry away.          *)
ProcessTc(T, m) ==
  LET a       == m.orig
      U       == UpdateEdges(UpdateEntry(T, m), m)
      V       == SetValidityTimer(U, a)
      empty   == m.dests = {}
      bounded == IF empty THEN m.lower = OpenBorder /\ m.upper = OpenBorder
                 ELSE m.lower # NoBorder \/ m.upper # NoBorder
      borders == IF empty THEN <<0, 2^AddrBits - 1>>
                 ELSE olsr_calculate_tc_border(m.lower, m.first, m.upper, m.last)
      W       == IF bounded THEN olsr_delete_revoked_tc_edges(V, a, m.ansn, borders[1], borders[2])
                 ELSE [V EXCEPT !.gc = @ \cup {a}]
  IN  IF empty /\ bounded THEN olsr_delete_tc_entry(olsr_cleanup_hna(W, a), a) ELSE W

(* A TC message comes from a symmetric neighbor.                           *)
olsr_input_tc(m) ==
  /\ \E n \in Adjacent : nbr[n] = "SYM"
  /\ m.orig # Self
  /\ Become(IF Ignored(Lsdb, m) THEN IgnoreTc(Lsdb, m) ELSE ProcessTc(Lsdb, m))

------------------------------------------------------------------------------
(* Timers, HNA messages and the edges of this node.                        *)

olsr_expire_tc_entry(a) ==
  /\ a \in validity_timer
  /\ Become(Flag(olsr_delete_tc_entry(Lsdb, a), "topology"))

olsr_expire_tc_edge_gc(a) ==
  /\ a \in edge_gc_timer
  /\ Become(olsr_delete_outdated_tc_edges([Lsdb EXCEPT !.gc = @ \ {a}], a))

olsr_update_hna_entry(a, p) ==
  /\ \E n \in Adjacent : nbr[n] = "SYM"
  /\ Become(olsr_insert_routing_table(
              IF <<a, p>> \in hna_set THEN Lsdb ELSE Flag([Lsdb EXCEPT !.hna = @ \cup {<<a, p>>}], "hna"),
              a, p))

olsr_expire_hna_net_entry(a, p) ==
  /\ <<a, p>> \in hna_set
  /\ Become([olsr_delete_routing_table(Lsdb, a, {p}) EXCEPT !.hna = @ \ {<<a, p>>}])

(* A neighbor appears, or its symmetry changes.                            *)
SetNeighbor(n, st) ==
  /\ nbr[n] # st
  /\ Become(Flag([Lsdb EXCEPT !.nbr[n] = st], "neighborhood"))

(* The last link of a neighbor, and the neighbor with it, is deleted.  The *)
(* edge is looked up with the address of the link.                         *)
olsr_delete_link_entry(n) ==
  /\ nbr[n] # "none"
  /\ LET e == <<Self, IfAddr[n]>>
     IN  Become(Flag([(IF e \in edge_tree THEN olsr_delete_tc_edge_entry(Lsdb, Self, {e}) ELSE Lsdb)
                        EXCEPT !.nbr[n] = "none"], "neighborhood"))

(* The SPF calculation brings the edges of this node up to date: one to    *)
(* each symmetric neighbor but the linkless, whose best link is lost or    *)
(* cannot be found.  A new edge gets no quality.                           *)
SpfEdges(T, q, linkless) ==
  LET sym  == {n \in Adjacent \ linkless : T.nbr[n] = "SYM"}
      gone == {<<Self, n>> : n \in {n \in Adjacent \ sym : T.nbr[n] # "none"}} \cap T.edges
      kept == {<<Self, n>> : n \in sym} \cap T.edges
      U    == olsr_add_tc_edge_entry(olsr_delete_tc_edge_entry(T, Self, gone), Self,
                                     {n \in sym : <<Self, n>> \notin T.edges}, 0)
  IN  [U EXCEPT !.lq = Setting(@, kept, q), !.cost = Setting(@, kept, q)]

olsr_calculate_routing_table(q, linkless) ==
  /\ changes # {}
  /\ Become([SpfEdges(Lsdb, q, linkless) EXCEPT !.changes = {}])

------------------------------------------------------------------------------
(* The empty database, with the entry of this node (olsr_init_tc).         *)
EmptyLsdb ==
  [tree |-> {}, ref |-> [a \in Nodes |-> 0], seq |-> [a \in Nodes |-> 0],
   ansn |-> [a \in Nodes |-> 0], ign |-> [a \in Nodes |-> 0], err |-> [a \in Nodes |-> NoSeq],
   valid |-> {}, gc |-> {}, edges |-> {}, eansn |-> [e \in Edges |-> 0],
   lq |-> [e \in Edges |-> 0], cost |-> [e \in Edges |-> 0], inv |-> {},
   paths |-> {}, hna |-> {}, nbr |-> [n \in Adjacent |-> "none"], changes |-> {}]

olsr_init_tc ==
  LET T == olsr_add_tc_entry(EmptyLsdb, Self)
  IN  /\ tc_tree = T.tree /\ refcount = T.ref /\ msg_seq = T.seq /\ ansn = T.ansn
      /\ ignored = T.ign /\ err_seq = T.err /\ validity_timer = T.valid /\ edge_gc_timer = T.gc
      /\ edge_tree = T.edges /\ edge_ansn = T.eansn /\ linkquality = T.lq /\ cost = T.cost
      /\ edge_inv = T.inv /\ prefix_tree = T.paths /\ hna_set = T.hna /\ nbr = T.nbr
      /\ changes = T.changes

(* Everything that happens to the database but the TC messages.            *)
Environment ==
  \/ \E a \in Others : olsr_expire_tc_entry(a) \/ olsr_expire_tc_edge_gc(a)
  \/ \E a \in Gateways, p \in Nets : olsr_update_hna_entry(a, p) \/ olsr_expire_hna_net_entry(a, p)
  \/ \E n \in Adjacent, st \in {"SYM", "NOT_SYM"} : SetNeighbor(n, st)
  \/ \E n \in Adjacent : olsr_delete_link_entry(n)
  \/ \E q \in Qualities, linkless \in SUBSET Adjacent : olsr_calculate_routing_table(q, linkless)

------------------------------------------------------------------------------
(* Every field is in its range; what does not exist has no fields, and     *)
(* timers run only for entries that exist.                                 *)
TypeOK ==
  /\ Self \in tc_tree /\ tc_tree \subseteq Nodes
  /\ refcount \in [Nodes -> Nat] /\ ignored \in [Nodes -> 0 .. MaxIgnored]
  /\ msg_seq \in [Nodes -> Seqnos] /\ ansn \in [Nodes -> Seqnos]
  /\ err_seq \in [Nodes -> Seqnos \cup {NoSeq}]
  /\ validity_timer \subseteq tc_tree \ {Self} /\ edge_gc_timer \subseteq validity_timer
  /\ edge_tree \subseteq tc_tree \X Nodes /\ edge_inv \subseteq edge_tree
  /\ edge_ansn \in [Edges -> Seqnos]
  /\ linkquality \in [Edges -> Qualities \cup {0}] /\ cost \in [Edges -> Qualities \cup {0}]
  /\ prefix_tree \subseteq tc_tree \X (Nodes \cup Nets) /\ hna_set \subseteq Others \X Nets

(* An entry is referred to by the tree, its edges and its paths, and its   *)
(* counter is their number: it is freed exactly when it is deleted.        *)
RefcountExact ==
  \A a \in Nodes :
    refcount[a] = IF a \in tc_tree
                  THEN 1 + Cardinality({e \in edge_tree : e[1] = a})
                         + Cardinality({x \in prefix_tree : x[1] = a})
                  ELSE 0

(* An edge has a pointer to its inverse exactly when that exists; SPF uses *)
(* an edge only then, and follows the pointer.                             *)
EdgeInvMutual ==
  edge_inv = {e \in edge_tree : <<e[2], e[1]>> \in edge_tree}

(* No edge of another node lives forever: the validity timer of its entry  *)
(* runs, whatever messages, timeouts and prefixes came in between.         *)
EdgesExpire ==
  \A e \in edge_tree : e[1] # Self => e[1] \in validity_timer

(* A path for a network has an HNA entry that will time out, also when the *)
(* entry it hangs off was deleted and created again.                       *)
PathHasHna ==
  \A x \in prefix_tree : x[2] \in Nets => x \in hna_set

(* Whenever edges or paths change, a flag is up that makes the next pass   *)
(* of the scheduler compute the routes again.                              *)
ChangesFlagged ==
  [][edge_tree' # edge_tree \/ prefix_tree' # prefix_tree
       => changes' # {} \/ changes # {}]_vars

(* The edges of this node lead to neighbors (link_set.c:365 "delete tc     *)
(* edges we made for SPF"), if the link is to the main address.            *)
SelfEdgesAreNeighbors ==
  \A e \in edge_tree : e[1] = Self /\ IfAddr[e[2]] = e[2] => nbr[e[2]] # "none"

(* The database is well formed after any sequence of messages, timeouts,   *)
(* neighbor changes and SPF runs: exact counters of references, mutual     *)
(* pointers between edges, timers for all edges of other nodes, a reason   *)
(* for every path, and no edge of this node without its neighbor.          *)
LsdbConsistent == TypeOK /\ RefcountExact /\ EdgeInvMutual /\ EdgesExpire /\ PathHasHna /\ SelfEdgesAreNeighbors
==============================================================================
