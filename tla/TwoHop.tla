-------------------------------- MODULE TwoHop --------------------------------
(***************************************************************************)
(* The two-hop neighbor table (two_hop_neighbor_table.c, neighbor_table.c) *)
(* as HELLO messages fill it (process_package.c), and the relays selected  *)
(* from it.  Each neighbor has a list of the two-hop neighbors it          *)
(* announced, and each two-hop neighbor a list of those neighbors and a    *)
(* count; an entry of the former has a timer.                              *)
(*                                                                         *)
(* What the link set contributes, the status of a neighbor and the cost of *)
(* its best link, is an input.  Addresses are main addresses, and those of *)
(* this node were left out of the messages.                                *)
(***************************************************************************)
EXTENDS Integers, Sequences, FiniteSets, SequencesExt

CONSTANTS
  NbrOrder,      \* the neighbors in the order of the walks over their table
  TwoHops,       \* two-hop neighbors, some of which may be neighbors
  Coverage,      \* mpr_coverage
  LINK_COST_BROKEN,
  Hellos,     \* what a HELLO lists: for each two-hop neighbor a set of costs
  LinkCosts,  \* costs of the links of this node
  Wills,      \* the willingness that a neighbor may announce
  MaxHellos   \* bound on the messages

Nbrs == ToSet(NbrOrder)

WILL_NEVER  == 0
WILL_ALWAYS == 7

ASSUME MprAssumption ==
  /\ NbrOrder \in Seq(Nbrs) /\ Coverage \in Nat \ {0}
  /\ LINK_COST_BROKEN \in Nat

------------------------------------------------------------------------------
(* The selection of the multipoint relays (MPRs), the neighbors that       *)
(* forward the messages of this node, by link quality (lq_mpr.c) and as    *)
(* RFC 3626 has it (mpr.c).  A table T is a record with, of each neighbor, *)
(* its status, willingness and the cost of its best link, and for each     *)
(* two-hop neighbor the list of the neighbors that announced it, with the  *)
(* cost of the path.                                                       *)

Sym(T, n) == n \in Nbrs /\ T.status[n] = "SYM"

(* The neighbors by which x can be reached.                                *)
Via(T, x) == {T.nblist[x][i].nbr : i \in DOMAIN T.nblist[x]}

------------------------------------------------------------------------------
(* olsr_calculate_lq_mpr                                                   *)

(* Positions in the list of x of symmetric neighbors over which the path   *)
(* is not broken and better than the direct link, if there is one.         *)
Eligible(T, x) ==
  {i \in DOMAIN T.nblist[x] :
     LET e == T.nblist[x][i]
     IN  /\ Sym(T, e.nbr)
         /\ e.path_linkcost < LINK_COST_BROKEN
         /\ Sym(T, x) => e.path_linkcost < T.best[x]}

(* Mutant: the candidates are taken in the order of the list.              *)
InListOrder(T, x, i, j) == i < j

(* The entry at i is chosen before that at j: it is cheaper, or as cheap   *)
(* and earlier in the list.                                                *)
ChosenBefore(T, x, i, j) ==
  LET c(k) == T.nblist[x][k].path_linkcost
  IN  c(i) < c(j) \/ (c(i) = c(j) /\ i < j)

(* The best mpr_coverage neighbors that lead to x.  A symmetric neighbor   *)
(* without a link needs none.                                              *)
SelectFor(T, x) ==
  IF Sym(T, x) /\ T.best[x] = LINK_COST_BROKEN THEN {}
  ELSE {T.nblist[x][i].nbr : i \in {k \in Eligible(T, x) :
          Cardinality({j \in Eligible(T, x) : ChosenBefore(T, x, j, k)}) < Coverage}}

olsr_calculate_lq_mpr(T) ==
  {n \in Nbrs : Sym(T, n) /\ T.will[n] = WILL_ALWAYS} \cup UNION {SelectFor(T, x) : x \in TwoHops}

------------------------------------------------------------------------------
(* olsr_calculate_mpr: a calculation R has the relays, how many of them    *)
(* cover each two-hop neighbor, how many uncovered ones each neighbor      *)
(* would cover, and how often one was counted as covered.                  *)

(* The counters are of 16 bits, the coverage of a two-hop neighbor is of 8. *)
U16(i) == i % 65536
U8(i)  == i % 256

(* Two-hop neighbors of n that are not neighbors themselves.               *)
Strict(T, n) == {x \in TwoHops : n \in Via(T, x) /\ ~Sym(T, x)}

(* n becomes a relay.                                                      *)
olsr_chosen_mpr(T, R, n) ==
  LET cov  == [x \in TwoHops |-> IF x \in Strict(T, n) THEN U8(R.cov[x] + 1) ELSE R.cov[x]]
      full == {x \in Strict(T, n) : cov[x] >= Coverage}
  IN  [R EXCEPT !.mpr = @ \cup {n},
                !.cov = cov,
                !.covered = U16(@ + Cardinality(full)),
                !.nocov = [m \in Nbrs |-> IF Sym(T, m) THEN @[m] - Cardinality({x \in full : m \in Via(T, x)})
                                          ELSE @[m]]]

(* The counts of the two-hop neighbors.  The counters of the code run on   *)
(* from one neighbor to the next, so that a neighbor counts those of all   *)
(* before it too.                                                          *)
olsr_calculate_two_hop_neighbors(T) ==
  LET step(a, n) ==
        IF ~Sym(T, n) THEN [a EXCEPT !.nocov[n] = a.count]
        ELSE LET new == Cardinality(Strict(T, n) \ a.processed)
                 all == U16(a.n_count + Cardinality(Strict(T, n)))
             IN  [a EXCEPT !.n_count = all, !.count = U16(@ + new), !.nocov[n] = all,
                           !.processed = @ \cup Strict(T, n), !.sum = U16(@ + a.count + new)]
  IN  FoldLeft(step, [count |-> 0, n_count |-> 0, sum |-> 0, processed |-> {},
                      nocov |-> [n \in Nbrs |-> 0]], NbrOrder)

add_will_always_nodes(T, R) ==
  FoldLeft(LAMBDA r, n : IF Sym(T, n) /\ T.will[n] = WILL_ALWAYS THEN olsr_chosen_mpr(T, r, n) ELSE r,
           R, NbrOrder)

(* The only neighbors to some two-hop neighbor.                            *)
olsr_find_2_hop_neighbors_with_1_link(T, w) ==
  {n \in Nbrs : /\ T.will[n] = w /\ Sym(T, n)
                /\ \E x \in TwoHops : ~Sym(T, x) /\ Len(T.nblist[x]) = 1 /\ Via(T, x) = {n}}

(* The first of the neighbors that cover most.                             *)
olsr_find_maximum_covered(T, R, w) ==
  LET cand == SelectSeq(NbrOrder, LAMBDA n : n \notin R.mpr /\ T.will[n] = w /\ R.nocov[n] > 0)
  IN  SelectSeq(cand, LAMBDA n : \A m \in ToSet(cand) : R.nocov[m] <= R.nocov[n])

(* The relays of willingness w, unless enough two-hop neighbors were       *)
(* counted as covered.                                                     *)
SelectWilling(T, R, w, two_hop_count) ==
  LET one   == FoldLeft(LAMBDA r, n : IF n \in olsr_find_2_hop_neighbors_with_1_link(T, w) \ r.mpr
                                      THEN olsr_chosen_mpr(T, r, n) ELSE r,
                        R, NbrOrder)
      again(r, n) == LET max == olsr_find_maximum_covered(T, r, w)
                     IN  IF r.covered >= two_hop_count \/ max = <<>> THEN r
                         ELSE olsr_chosen_mpr(T, r, Head(max))
  IN  IF R.done THEN R
      ELSE LET r == FoldLeft(again, one, NbrOrder)
           IN  [r EXCEPT !.done = r.covered >= two_hop_count]

(* The relays that remain: each with a two-hop neighbor that no more than  *)
(* mpr_coverage relays cover.                                              *)
olsr_optimize_mpr_set(T, R) ==
  {n \in R.mpr : T.will[n] \in {WILL_NEVER, WILL_ALWAYS}
                   \/ \E x \in Strict(T, n) : R.cov[x] <= Coverage}

olsr_calculate_mpr(T) ==
  LET two_hop == olsr_calculate_two_hop_neighbors(T)
      start   == [mpr |-> {}, cov |-> [x \in TwoHops |-> 0], nocov |-> two_hop.nocov,
                  covered |-> 0, done |-> FALSE]
      result  == FoldLeft(LAMBDA R, w : SelectWilling(T, R, w, two_hop.sum),
                          add_will_always_nodes(T, start), <<6, 5, 4, 3, 2, 1>>)
  IN  olsr_optimize_mpr_set(T, result)

------------------------------------------------------------------------------
(* The tables.                                                             *)

VARIABLES
  lq_level,   \* of the configuration: 0, or more
  status, will, best,      \* neighbors: "none" or status, willingness, cost of the best link
  neighbor_2_list,         \* pairs of a neighbor and a two-hop neighbor
  nbr2_list_timer,         \* the pairs whose timer runs
  two_hop_table,           \* two-hop neighbors with an entry
  nblist,                  \* their lists of neighbors with path costs
  neighbor_2_pointer,      \* their counts
  is_mpr,                  \* the relays
  changes_neighborhood,
  listed,    \* history: how often each pair was announced, 0, 1 or 2 for more
  hellos     \* messages so far

tables == <<status, will, best, neighbor_2_list, nbr2_list_timer, two_hop_table, nblist, neighbor_2_pointer>>
twoHopVars == <<lq_level, tables, is_mpr, changes_neighborhood, listed, hellos>>

Pairs == Nbrs \X TwoHops

(* The tables as a record: handlers change it step by step.                *)
Tables ==
  [status |-> status, will |-> will, best |-> best, list |-> neighbor_2_list, timer |-> nbr2_list_timer,
   table |-> two_hop_table, nblist |-> nblist, pointer |-> neighbor_2_pointer,
   changed |-> changes_neighborhood]

Store(T) ==
  /\ status' = T.status /\ will' = T.will /\ best' = T.best
  /\ neighbor_2_list' = T.list /\ nbr2_list_timer' = T.timer
  /\ two_hop_table' = T.table /\ nblist' = T.nblist /\ neighbor_2_pointer' = T.pointer

Init ==
  /\ lq_level \in {0, 2}
  /\ status = [n \in Nbrs |-> "none"] /\ will = [n \in Nbrs |-> WILL_NEVER]
  /\ best = [n \in Nbrs |-> LINK_COST_BROKEN]
  /\ neighbor_2_list = {} /\ nbr2_list_timer = {} /\ two_hop_table = {}
  /\ nblist = [x \in TwoHops |-> <<>>] /\ neighbor_2_pointer = [x \in TwoHops |-> 0]
  /\ is_mpr = {} /\ changes_neighborhood = FALSE
  /\ listed = [p \in Pairs |-> 0]
  /\ hellos = 0

------------------------------------------------------------------------------
(* Deleting                                                                *)

(* The entry of x in the list of n goes; so does x when nobody counts it.  *)
olsr_del_nbr2_list(T, n, x) ==
  [T EXCEPT !.list = @ \ {<<n, x>>}, !.timer = @ \ {<<n, x>>}, !.changed = TRUE,
            !.table = IF T.pointer[x] < 1 THEN @ \ {x} ELSE @]

(* Mutant: a pointer to the neighbor remains.                              *)
PointerStays(T, n, x) == T

olsr_delete_neighbor_pointer(T, n, x) ==
  [T EXCEPT !.nblist[x] = SelectSeq(@, LAMBDA e : e.nbr # n)]

(* One announcement less, as when its timer expires.                       *)
Unlink(T, n, x) ==
  olsr_del_nbr2_list(olsr_delete_neighbor_pointer([T EXCEPT !.pointer[x] = @ - 1], n, x), n, x)

(* x goes, with the entries of all neighbors for it.                       *)
olsr_delete_two_hop_neighbor_table(T, x) ==
  [T EXCEPT !.list = {p \in @ : p[2] # x}, !.timer = {p \in @ : p[2] # x}, !.table = @ \ {x},
            !.nblist[x] = <<>>, !.pointer[x] = 0,
            !.changed = @ \/ T.nblist[x] # <<>>]

TwoHopOrder == SetToSeq(TwoHops)

(* A neighbor goes with its list.                                          *)
olsr_delete_neighbor_table(T, n) ==
  LET U == FoldLeft(LAMBDA t, x : Unlink(t, n, x), T,
                     SelectSeq(TwoHopOrder, LAMBDA x : <<n, x>> \in T.list))
  IN  [U EXCEPT !.status[n] = "none", !.will[n] = WILL_NEVER, !.best[n] = LINK_COST_BROKEN, !.changed = TRUE]

(* A neighbor that becomes symmetric is no two-hop neighbor any more.      *)
update_neighbor_status(T, n, sym) ==
  LET U == IF sym /\ T.status[n] # "SYM" /\ n \in T.table
           THEN olsr_delete_two_hop_neighbor_table(T, n) ELSE T
  IN  [U EXCEPT !.status[n] = IF sym THEN "SYM" ELSE "NOT_SYM",
                !.changed = @ \/ (sym <=> T.status[n] # "SYM")]

------------------------------------------------------------------------------
(* HELLO messages                                                          *)

(* n and x are put into each other's list.  The timer is changed, but an   *)
(* entry that is new has none.                                             *)
linking_this_2_entries(T, n, x) ==
  [T EXCEPT !.table = @ \cup {x}, !.list = @ \cup {<<n, x>>}, !.changed = TRUE,
            !.nblist[x] = <<[nbr |-> n, path_linkcost |-> LINK_COST_BROKEN]>> \o @,
            !.pointer[x] = @ + 1]

SetPathCost(T, n, x, c) ==
  [T EXCEPT !.nblist[x] = [i \in DOMAIN @ |-> IF @[i].nbr = n THEN [@[i] EXCEPT !.path_linkcost = c] ELSE @[i]]]

(* Mutant: the timer of an entry that is there is not set.                 *)
AnnounceTwiceOnly(T, n, x, costs) ==
  LET U == IF <<n, x>> \in T.list THEN T ELSE linking_this_2_entries(T, n, x)
      V == IF Cardinality(costs) = 1 THEN U ELSE [U EXCEPT !.timer = @ \cup {<<n, x>>}]
  IN  IF (<<n, x>> \notin T.list /\ Cardinality(costs) = 1) \/ lq_level = 0 THEN V
      ELSE SetPathCost(V, n, x, LINK_COST_BROKEN)

(* The first pass at one two-hop neighbor of the message: an entry that is *)
(* there, or is listed once more, gets its timer.                          *)
Announce(T, n, x, costs) ==
  LET U == IF <<n, x>> \in T.list THEN T ELSE linking_this_2_entries(T, n, x)
  IN  IF <<n, x>> \notin T.list /\ Cardinality(costs) = 1 THEN U
      ELSE LET V == [U EXCEPT !.timer = @ \cup {<<n, x>>}]
           IN  IF lq_level > 0 THEN SetPathCost(V, n, x, LINK_COST_BROKEN) ELSE V

(* The second pass: the best path over n.                                  *)
PathCost(T, n, x, costs) ==
  LET c == T.best[n] + Min(costs)
  IN  IF c < LINK_COST_BROKEN THEN [SetPathCost(T, n, x, c) EXCEPT !.changed = TRUE] ELSE T

process_message_neighbors(T, n, h) ==
  LET xs == SelectSeq(TwoHopOrder, LAMBDA x : h[x] # {})
      U  == FoldLeft(LAMBDA t, x : Announce(t, n, x, h[x]), T, xs)
  IN  IF lq_level = 0 \/ T.best[n] = LINK_COST_BROKEN THEN U
      ELSE FoldLeft(LAMBDA t, x : PathCost(t, n, x, h[x]), U, xs)

Calculated(T) == IF lq_level = 0 THEN olsr_calculate_mpr(T) ELSE olsr_calculate_lq_mpr(T)

(* The changes are processed: the relays are selected if there were any.   *)
olsr_process_changes(T) ==
  /\ Store(T)
  /\ is_mpr' = IF T.changed THEN Calculated(T) ELSE is_mpr
  /\ changes_neighborhood' = FALSE

(* A HELLO of n with willingness w, after which the link is symmetric or   *)
(* not and, with a metric that counts each HELLO, costs c.                 *)
olsr_hello_tap(n, sym, c, w, h) ==
  LET T == update_neighbor_status(Tables, n, sym)
      U == [T EXCEPT !.best[n] = c, !.will[n] = w, !.changed = @ \/ c # T.best[n] \/ w # T.will[n]]
      V == IF w = WILL_NEVER THEN U ELSE process_message_neighbors(U, n, h)
  IN  /\ hellos < MaxHellos /\ hellos' = hellos + 1
      /\ n \in TwoHops => h[n] = {}
      /\ c \in {best[n]} \cup (IF lq_level > 0 THEN LinkCosts ELSE {})
      /\ olsr_process_changes(V)
      /\ listed' = [p \in Pairs |->
                      LET before == IF p \in T.list THEN listed[p] ELSE 0
                      IN  IF p[1] = n /\ w # WILL_NEVER THEN Min({2, before + Cardinality(h[p[2]])})
                          ELSE before]
      /\ UNCHANGED lq_level

------------------------------------------------------------------------------
(* Timers and the link set                                                 *)

Update(T) ==
  /\ Store(T)
  /\ changes_neighborhood' = T.changed
  /\ listed' = [p \in Pairs |-> IF p \in T.list THEN listed[p] ELSE 0]
  /\ is_mpr' = {n \in is_mpr : T.status[n] # "none"}
  /\ UNCHANGED <<lq_level, hellos>>

olsr_expire_nbr2_list(n, x) ==
  /\ <<n, x>> \in nbr2_list_timer
  /\ Update(Unlink(Tables, n, x))

(* The link to n is not symmetric any more.                                *)
LinkNotSym(n) ==
  /\ status[n] = "SYM"
  /\ Update(update_neighbor_status(Tables, n, FALSE))

(* The last link to n is gone.                                             *)
LinkGone(n) ==
  /\ status[n] # "none"
  /\ Update(olsr_delete_neighbor_table(Tables, n))

(* The cost of the best link changes, if link quality is used, by little   *)
(* or by so much that it counts as a change of the neighborhood.           *)
LinkCost(n, c) ==
  /\ lq_level > 0
  /\ status[n] # "none" /\ c # best[n]
  /\ \E relevant \in IF LINK_COST_BROKEN \in {c, best[n]} THEN {TRUE} ELSE BOOLEAN :
       Update([Tables EXCEPT !.best[n] = c, !.changed = @ \/ relevant])

(* The changes are processed in the main loop.                             *)
Scheduler ==
  /\ changes_neighborhood
  /\ olsr_process_changes(Tables)
  /\ UNCHANGED <<lq_level, listed, hellos>>

Next ==
  \/ \E n \in Nbrs, sym \in BOOLEAN, c \in LinkCosts, h \in Hellos :
       \E w \in Wills[n] : olsr_hello_tap(n, sym, c, w, h)
  \/ \E n \in Nbrs, x \in TwoHops : olsr_expire_nbr2_list(n, x)
  \/ \E n \in Nbrs : LinkNotSym(n) \/ LinkGone(n)
  \/ \E n \in Nbrs, c \in LinkCosts : LinkCost(n, c)
  \/ Scheduler

Spec == Init /\ [][Next]_twoHopVars

------------------------------------------------------------------------------
TwoHopTypeOK ==
  /\ lq_level \in {0, 2}
  /\ status \in [Nbrs -> {"none", "NOT_SYM", "SYM"}] /\ will \in [Nbrs -> WILL_NEVER .. WILL_ALWAYS]
  /\ best \in [Nbrs -> 0 .. LINK_COST_BROKEN]
  /\ neighbor_2_list \subseteq Pairs /\ nbr2_list_timer \subseteq neighbor_2_list
  /\ two_hop_table \subseteq TwoHops
  /\ nblist \in [TwoHops -> Seq([nbr : Nbrs, path_linkcost : 0 .. LINK_COST_BROKEN])]
  /\ neighbor_2_pointer \in [TwoHops -> Nat]
  /\ is_mpr \subseteq Nbrs /\ changes_neighborhood \in BOOLEAN

(* The two lists mirror each other: x is in the list of n, which exists,   *)
(* exactly if n is once in the list of x; the count of x is the length of  *)
(* its list, and x is in the table as long as it is not zero.  No list     *)
(* points to an entry that was freed, and an entry that was announced more *)
(* than once has a timer: it goes unless it is announced again.            *)
TwoHopConsistent ==
  /\ TwoHopTypeOK
  /\ \A n \in Nbrs, x \in TwoHops :
       Cardinality({i \in DOMAIN nblist[x] : nblist[x][i].nbr = n})
         = IF <<n, x>> \in neighbor_2_list THEN 1 ELSE 0
  /\ \A p \in neighbor_2_list : status[p[1]] # "none"
  /\ \A x \in TwoHops : /\ neighbor_2_pointer[x] = Len(nblist[x])
                         /\ x \in two_hop_table <=> neighbor_2_pointer[x] > 0
  /\ \A p \in neighbor_2_list : listed[p] = 2 => p \in nbr2_list_timer

(* The neighbors over which x can be reached: symmetric ones with a path   *)
(* that is not broken.                                                     *)
Reaching(x) ==
  {e \in ToSet(nblist[x]) : status[e.nbr] = "SYM"
                             /\ (lq_level > 0 => e.path_linkcost < LINK_COST_BROKEN)}

(* When all changes are processed, every two-hop neighbor that is not a    *)
(* symmetric neighbor is covered by as many relays as were asked for, or   *)
(* by all neighbors that reach it, the one with the best path among them.  *)
(* A HELLO over a neighbor without a usable link resets the cost of the    *)
(* path and reports nothing (process_package.c:172), so that the relays of *)
(* its two-hop neighbors may be outdated.                                  *)
LqCovers ==
  lq_level > 0 /\ ~changes_neighborhood =>
    \A x \in {y \in two_hop_table : \A n \in Via(Tables, y) : best[n] < LINK_COST_BROKEN} :
      ~Sym(Tables, x) =>
      /\ Cardinality({e \in Reaching(x) : e.nbr \in is_mpr}) >= Min({Coverage, Cardinality(Reaching(x))})
      /\ Reaching(x) # {} =>
           \E e \in Reaching(x) : /\ e.nbr \in is_mpr
                                  /\ \A f \in Reaching(x) : e.path_linkcost <= f.path_linkcost

(* The same for the selection of RFC 3626: each two-hop neighbor that      *)
(* neighbors willing to relay reach is covered by as many relays as were   *)
(* asked for, or by all of them (mpr.c:455 "removing all entries where all *)
(* 2 hop neighbors actually is covered by enough MPRs already").           *)
RfcCovers ==
  lq_level = 0 /\ ~changes_neighborhood =>
    \A x \in two_hop_table \ {n \in Nbrs : status[n] = "SYM"} :
      LET r == {e.nbr : e \in {f \in Reaching(x) : will[f.nbr] # WILL_NEVER}}
      IN  Cardinality(is_mpr \cap r) >= Min({Coverage, Cardinality(r)})

(* What does hold of it, as long as all neighbors are symmetric: the only  *)
(* neighbor that leads to some two-hop neighbor is a relay, whatever its   *)
(* willingness and the others chosen before, and is not optimized away.    *)
RfcSoleNeighbor ==
  lq_level = 0 /\ ~changes_neighborhood /\ (\A n \in Nbrs : status[n] # "NOT_SYM") =>
    \A x \in two_hop_table \ {n \in Nbrs : status[n] = "SYM"} :
      \A n \in Nbrs : Via(Tables, x) = {n} /\ will[n] # WILL_NEVER => n \in is_mpr

(* When all changes are processed, the relays selected by link quality are *)
(* symmetric neighbors.                                                    *)
RelaysSymmetric == lq_level > 0 /\ ~changes_neighborhood => \A n \in is_mpr : status[n] = "SYM"

(* When all changes are processed the relays suffice: those chosen by link *)
(* quality are symmetric and cover all two-hop neighbors over best paths,  *)
(* those chosen by RFC 3626 cover what only one neighbor reaches.          *)
RelaysCover == LqCovers /\ RelaysSymmetric /\ RfcSoleNeighbor
===============================================================================
