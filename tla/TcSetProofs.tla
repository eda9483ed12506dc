----------------------------- MODULE TcSetProofs -----------------------------
(***************************************************************************)
(* Proofs about TcSet under any TC messages (MCTcSet), for every set of    *)
(* nodes, networks and numbers.  Each operation on the database is shown   *)
(* to keep what the others rely on.                                        *)
(***************************************************************************)
EXTENDS MCTcSet, FiniteSetTheorems, TLAPS

(* Most obligations are first-order: Zenon proves them, SMT the others.     *)
USE ZenonT(60)

Measured == Qualities \cup {0}
Paths == Nodes \X (Nodes \cup Nets)

LsdbType ==
  [tree : SUBSET Nodes, ref : [Nodes -> Int], seq : [Nodes -> Seqnos], ansn : [Nodes -> Seqnos],
   ign : [Nodes -> 0 .. MaxIgnored], err : [Nodes -> Seqnos \cup {NoSeq}],
   valid : SUBSET Nodes, gc : SUBSET Nodes, edges : SUBSET Edges, eansn : [Edges -> Seqnos],
   lq : [Edges -> Measured], cost : [Edges -> Measured], inv : SUBSET Edges,
   paths : SUBSET Paths, hna : SUBSET (Others \X Nets),
   nbr : [Adjacent -> {"none", "SYM", "NOT_SYM"}],
   changes : SUBSET {"hna", "topology", "neighborhood"}]

PathsOf(T, a) == {x \in T.paths : x[1] = a}

(* Entries, edges and paths refer to each other as they should.            *)
Linked(T) ==
  /\ T \in LsdbType
  /\ \A e \in T.edges : e[1] \in T.tree
  /\ \A x \in T.paths : x[1] \in T.tree
  /\ \A a \in Nodes : T.ref[a] = IF a \in T.tree THEN 1 + Cardinality(EdgesOf(T, a)) + Cardinality(PathsOf(T, a)) ELSE 0
  /\ T.inv = {e \in T.edges : Rev(e) \in T.edges}
  /\ \A x \in T.paths : x[2] \in Nets => x \in T.hna
  /\ T.gc \subseteq T.valid /\ T.valid \subseteq T.tree \ {Self}

(* Every entry has the path to itself.                                     *)
Rooted(T) == \A a \in T.tree : <<a, a>> \in T.paths

(* What an operation on the entry of a may do: the neighbors and the edges *)
(* of other entries stay, and a change of edges or paths is reported.      *)
Keeps(T, U, a) ==
  /\ U.nbr = T.nbr /\ T.changes \subseteq U.changes
  /\ U.edges # T.edges \/ U.paths # T.paths => U.changes # {}
  /\ \A e \in Edges : e[1] # a => (e \in U.edges <=> e \in T.edges)
  /\ \A b \in Nodes \ {a} : (b \in U.tree <=> b \in T.tree) /\ (b \in U.valid <=> b \in T.valid)

-----------------------------------------------------------------------------
LEMMA CardGrow ==
  ASSUME NEW S, IsFiniteSet(S), NEW D, IsFiniteSet(D), S \cap D = {}
  PROVE  Cardinality(S \cup D) = Cardinality(S) + Cardinality(D) /\ Cardinality(S \cup D) \in Nat
<1>1. Cardinality(S \cup D) = Cardinality(S) + Cardinality(D) - Cardinality(S \cap D)
  BY FS_Union
<1>2. Cardinality(S) \in Nat /\ Cardinality(D) \in Nat /\ Cardinality(S \cap D) = 0
  BY FS_CardinalityType, FS_EmptySet
<1> QED BY <1>1, <1>2, SMTT(30)

LEMMA CardShrink ==
  ASSUME NEW S, IsFiniteSet(S), NEW D \in SUBSET S
  PROVE  Cardinality(S \ D) = Cardinality(S) - Cardinality(D) /\ Cardinality(S \ D) \in Nat
<1>1. Cardinality(S \ D) = Cardinality(S) - Cardinality(S \cap D) /\ IsFiniteSet(S \ D)
  BY FS_Difference
<1>2. S \cap D = D
  OBVIOUS
<1> QED BY <1>1, <1>2, FS_CardinalityType

LEMMA Finite ==
  ASSUME NEW T, T \in LsdbType, NEW a \in Nodes
  PROVE  /\ IsFiniteSet(Edges) /\ IsFiniteSet(Paths) /\ IsFiniteSet(EdgesOf(T, a)) /\ IsFiniteSet(PathsOf(T, a))
         /\ \A D \in SUBSET Edges : IsFiniteSet(D)
         /\ \A D \in SUBSET Paths : IsFiniteSet(D)
<1>1. IsFiniteSet(Edges)
  BY TcSetAssumption, FS_Product DEF Edges
<1>2. IsFiniteSet(Nodes \cup Nets)
  BY TcSetAssumption, FS_Union
<1>3. IsFiniteSet(Paths)
  BY <1>2, TcSetAssumption, FS_Product DEF Paths
<1>4. EdgesOf(T, a) \subseteq Edges /\ PathsOf(T, a) \subseteq Paths
  BY DEF LsdbType, EdgesOf, PathsOf
<1> QED BY <1>1, <1>3, <1>4, FS_Subset

LEMMA KeepsTransitive ==
  ASSUME NEW T, NEW U, NEW V, NEW a, Keeps(T, U, a), Keeps(U, V, a)
  PROVE  Keeps(T, V, a)
BY DEF Keeps

LEMMA SettingType ==
  ASSUME NEW S, NEW f \in [Edges -> S], NEW E, NEW v \in S
  PROVE  Setting(f, E, v) \in [Edges -> S]
BY DEF Setting

LEMMA Reverse ==
  ASSUME NEW e \in Edges
  PROVE  Rev(e) \in Edges /\ Rev(Rev(e)) = e /\ Rev(e)[1] = e[2] /\ Rev(e)[2] = e[1] /\ e = <<e[1], e[2]>>
         /\ e[1] \in Nodes /\ e[2] \in Nodes
BY SMTT(30) DEF Edges, Rev

LEMMA ZeroSeq == 0 \in Seqnos
BY TcSetAssumption, SMTT(30) DEF Seqnos, SeqSpace

(* The database with other edges.                                          *)
Edged(T, E, r, n, q, c, i) ==
  [T EXCEPT !.edges = E, !.ref = r, !.eansn = n, !.lq = q, !.cost = c, !.inv = i]

LEMMA WithEdges ==
  ASSUME NEW T \in LsdbType, NEW E \in SUBSET Edges, NEW r \in [Nodes -> Int], NEW n \in [Edges -> Seqnos],
         NEW q \in [Edges -> Measured], NEW c \in [Edges -> Measured], NEW i \in SUBSET Edges,
         NEW U, U = Edged(T, E, r, n, q, c, i)
  PROVE  /\ U \in LsdbType
         /\ U.edges = E /\ U.ref = r /\ U.inv = i /\ U.eansn = n /\ U.lq = q /\ U.cost = c
         /\ U.tree = T.tree /\ U.valid = T.valid /\ U.gc = T.gc /\ U.paths = T.paths /\ U.hna = T.hna
         /\ U.nbr = T.nbr /\ U.changes = T.changes /\ U.seq = T.seq /\ U.ansn = T.ansn /\ U.ign = T.ign
         /\ U.err = T.err
<1>1. U \in LsdbType
  BY DEF LsdbType, Edged
<1> QED BY <1>1, SMTT(30) DEF LsdbType, Edged

(* New edges from a to the nodes of D.                                     *)
EdgesTo(a, D) == {<<a, d>> : d \in D}

LEMMA AddEdges ==
  ASSUME NEW T, Linked(T), NEW a \in T.tree, NEW D \in SUBSET (Nodes \ {a}), NEW n \in Seqnos,
         EdgesTo(a, D) \cap T.edges = {},
         NEW U, U = olsr_add_tc_edge_entry(T, a, D, n)
  PROVE  /\ Linked(U)
         /\ U.edges = T.edges \cup EdgesTo(a, D)
         /\ U.tree = T.tree /\ U.valid = T.valid /\ U.paths = T.paths /\ U.hna = T.hna
         /\ U.nbr = T.nbr /\ U.changes = T.changes
<1> DEFINE new == {<<a, d>> : d \in D}
           met == {e \in new : e[2] \in T.tree /\ Rev(e) \in T.edges}
           inv == T.inv \cup met \cup {Rev(e) : e \in met}
           ref == [T.ref EXCEPT ![a] = @ + Cardinality(new)]
<1>1. /\ T.tree \in SUBSET Nodes /\ T.edges \in SUBSET Edges /\ T.ref \in [Nodes -> Int] /\ T.inv \in SUBSET Edges
      /\ T.eansn \in [Edges -> Seqnos]
      /\ T.lq \in [Edges -> Measured] /\ T.cost \in [Edges -> Measured]
      /\ a \in Nodes /\ T \in LsdbType
  BY DEF Linked, LsdbType
<1>2. new \in SUBSET Edges /\ new \cap T.edges = {}
  BY <1>1, SMTT(30) DEF Edges, EdgesTo
<1>3. Cardinality(new) \in Nat
  BY <1>1, <1>2, Finite, FS_CardinalityType
<1>4. inv \in SUBSET Edges
  BY <1>1, <1>2, Reverse
<1>5. ref \in [Nodes -> Int]
  BY <1>1, <1>3, SMTT(30)
<1>6. Setting(T.eansn, new, n) \in [Edges -> Seqnos]
  BY <1>1, SettingType
<1>7. Setting(T.lq, new, 0) \in [Edges -> Measured] /\ Setting(T.cost, new, 0) \in [Edges -> Measured]
  <2>1. 0 \in Measured
    BY DEF Measured
  <2>2. Setting(T.lq, new, 0) \in [Edges -> Measured]
    BY <2>1, <1>1, SettingType
  <2>3. Setting(T.cost, new, 0) \in [Edges -> Measured]
    BY <2>1, <1>1, SettingType
  <2> QED BY <2>2, <2>3
<1>8. U = Edged(T, T.edges \cup new, ref, Setting(T.eansn, new, n), Setting(T.lq, new, 0), Setting(T.cost, new, 0), inv)
  BY <1>1 DEF olsr_add_tc_edge_entry, LsdbType, Edged
<1>9. U \in LsdbType /\ U.edges = T.edges \cup new /\ U.ref = ref /\ U.inv = inv
      /\ U.tree = T.tree /\ U.valid = T.valid /\ U.gc = T.gc /\ U.paths = T.paths /\ U.hna = T.hna
      /\ U.nbr = T.nbr /\ U.changes = T.changes
  <2>1. T.edges \cup new \in SUBSET Edges
    BY <1>1, <1>2
  <2> HIDE DEF inv, ref, new
  <2> QED BY <2>1, <1>1, <1>4, <1>5, <1>6, <1>7, <1>8, WithEdges, SMTT(30)
<1>11. U.inv = {e \in U.edges : Rev(e) \in U.edges}
  <2>1. T.inv = {e \in T.edges : Rev(e) \in T.edges} /\ \A e \in T.edges : e[1] \in T.tree
    BY DEF Linked
  <2>2. \A e \in new : Rev(e) \notin new /\ e[1] = a
    BY <1>2, Reverse, SMTT(30)
  <2>3. ASSUME NEW e \in inv PROVE e \in U.edges /\ Rev(e) \in U.edges
    BY <2>1, <1>1, <1>2, <1>9, Reverse, SMTT(30)
  <2>4. ASSUME NEW e \in T.edges \cup new, Rev(e) \in T.edges \cup new PROVE e \in inv
    <3>1. e \in Edges /\ Rev(Rev(e)) = e /\ Rev(e) \in Edges /\ Rev(e)[1] = e[2]
      BY <1>1, <1>2, Reverse
    <3>2. CASE e \in T.edges /\ Rev(e) \in T.edges
      BY <3>2, <2>1
    <3>3. CASE e \in new
      BY <3>1, <3>3, <2>1, <2>2, <2>4
    <3>4. CASE Rev(e) \in new
      <4>1. Rev(e) \in met
        <5>1. e \in T.edges
          BY <3>1, <3>4, <2>2
        <5>2. Rev(e)[2] = e[1]
          BY <3>1, Reverse
        <5> QED BY <5>1, <5>2, <3>1, <3>4, <2>1
      <4> QED BY <4>1, <3>1
    <3> QED BY <3>2, <3>3, <3>4, <2>4
  <2> HIDE DEF inv, new
  <2> QED BY <2>3, <2>4, <1>9
<1>12. \A b \in Nodes : U.ref[b] = IF b \in U.tree THEN 1 + Cardinality(EdgesOf(U, b)) + Cardinality(PathsOf(U, b)) ELSE 0
  <2> SUFFICES ASSUME NEW b \in Nodes
               PROVE  U.ref[b] = IF b \in T.tree THEN 1 + Cardinality(EdgesOf(U, b)) + Cardinality(PathsOf(T, b)) ELSE 0
    BY <1>9 DEF PathsOf
  <2>1. T.ref[b] = IF b \in T.tree THEN 1 + Cardinality(EdgesOf(T, b)) + Cardinality(PathsOf(T, b)) ELSE 0
    BY DEF Linked
  <2>2. CASE b # a
    <3>1. EdgesOf(U, b) = EdgesOf(T, b)
      BY <2>2, <1>9, SMTT(30) DEF EdgesOf
    <3> QED BY <3>1, <2>1, <2>2, <1>9, <1>1
  <2>3. CASE b = a
    <3>1. EdgesOf(U, a) = EdgesOf(T, a) \cup new /\ EdgesOf(T, a) \cap new = {}
      BY <1>2, <1>9, SMTT(30) DEF EdgesOf
    <3>2. IsFiniteSet(EdgesOf(T, a)) /\ IsFiniteSet(new)  /\ IsFiniteSet(PathsOf(T, a))
      BY <1>1, <1>2, Finite
    <3>3. Cardinality(EdgesOf(U, a)) = Cardinality(EdgesOf(T, a)) + Cardinality(new)
      BY <3>1, <3>2, CardGrow
    <3>4. Cardinality(EdgesOf(T, a)) \in Nat /\ Cardinality(PathsOf(T, a)) \in Nat
      BY <3>2, FS_CardinalityType
    <3>5. U.ref[a] = T.ref[a] + Cardinality(new)
      BY <1>1, <1>9
    <3> HIDE DEF new
    <3> QED BY <3>3, <3>4, <3>5, <2>1, <2>3, <1>3, SMTT(30)
  <2> QED BY <2>2, <2>3
<1>13. \A e \in U.edges : e[1] \in U.tree
  BY <1>9, SMTT(30) DEF Linked
<1> QED BY <1>9, <1>11, <1>12, <1>13 DEF Linked, EdgesTo

(* The edges D of a go.                                                    *)
LEMMA DelEdges ==
  ASSUME NEW T, Linked(T), NEW a \in T.tree, NEW D \in SUBSET EdgesOf(T, a),
         NEW U, U = olsr_delete_tc_edge_entry(T, a, D)
  PROVE  /\ Linked(U)
         /\ U.edges = T.edges \ D
         /\ U.tree = T.tree /\ U.valid = T.valid /\ U.paths = T.paths /\ U.hna = T.hna
         /\ U.nbr = T.nbr /\ U.changes = T.changes
<1> DEFINE inv == T.inv \ (D \cup {Rev(e) : e \in D})
           ref == [T.ref EXCEPT ![a] = @ - Cardinality(D)]
<1>1. /\ T.tree \in SUBSET Nodes /\ T.edges \in SUBSET Edges /\ T.ref \in [Nodes -> Int] /\ T.inv \in SUBSET Edges
      /\ T.eansn \in [Edges -> Seqnos]
      /\ T.lq \in [Edges -> Measured] /\ T.cost \in [Edges -> Measured]
      /\ a \in Nodes /\ T \in LsdbType
  BY DEF Linked, LsdbType
<1>2. D \in SUBSET Edges /\ \A e \in D : e \in T.edges /\ e[1] = a
  BY <1>1 DEF EdgesOf
<1>3. Cardinality(D) \in Nat
  BY <1>1, <1>2, Finite, FS_CardinalityType
<1>4. inv \in SUBSET Edges /\ T.edges \ D \in SUBSET Edges
  BY <1>1
<1>5. ref \in [Nodes -> Int]
  BY <1>1, <1>3, SMTT(30)
<1>6. Setting(T.eansn, D, 0) \in [Edges -> Seqnos]
  BY <1>1, SettingType, ZeroSeq
<1>7. Setting(T.lq, D, 0) \in [Edges -> Measured] /\ Setting(T.cost, D, 0) \in [Edges -> Measured]
  <2>1. 0 \in Measured
    BY DEF Measured
  <2>2. Setting(T.lq, D, 0) \in [Edges -> Measured]
    BY <2>1, <1>1, SettingType
  <2>3. Setting(T.cost, D, 0) \in [Edges -> Measured]
    BY <2>1, <1>1, SettingType
  <2> QED BY <2>2, <2>3
<1>8. U = Edged(T, T.edges \ D, ref, Setting(T.eansn, D, 0), Setting(T.lq, D, 0), Setting(T.cost, D, 0), inv)
  BY <1>1 DEF olsr_delete_tc_edge_entry, LsdbType, Edged
<1>9. U \in LsdbType /\ U.edges = T.edges \ D /\ U.ref = ref /\ U.inv = inv
      /\ U.tree = T.tree /\ U.valid = T.valid /\ U.gc = T.gc /\ U.paths = T.paths /\ U.hna = T.hna
      /\ U.nbr = T.nbr /\ U.changes = T.changes
  <2> HIDE DEF inv, ref
  <2> QED BY <1>1, <1>4, <1>5, <1>6, <1>7, <1>8, WithEdges, SMTT(30)
<1>10. U.inv = {e \in U.edges : Rev(e) \in U.edges}
  <2>1. T.inv = {e \in T.edges : Rev(e) \in T.edges}
    BY DEF Linked
  <2>2. ASSUME NEW e \in inv PROVE e \in U.edges /\ Rev(e) \in U.edges
    BY <2>1, <1>1, <1>2, <1>9, Reverse, SMTT(30)
  <2>3. ASSUME NEW e \in T.edges \ D, Rev(e) \in T.edges \ D PROVE e \in inv
    BY <2>1, <2>3, <1>1, <1>2, Reverse, SMTT(30)
  <2> HIDE DEF inv
  <2> QED BY <2>2, <2>3, <1>9
<1>11. \A b \in Nodes : U.ref[b] = IF b \in U.tree THEN 1 + Cardinality(EdgesOf(U, b)) + Cardinality(PathsOf(U, b)) ELSE 0
  <2> SUFFICES ASSUME NEW b \in Nodes
               PROVE  U.ref[b] = IF b \in T.tree THEN 1 + Cardinality(EdgesOf(U, b)) + Cardinality(PathsOf(T, b)) ELSE 0
    BY <1>9 DEF PathsOf
  <2>1. T.ref[b] = IF b \in T.tree THEN 1 + Cardinality(EdgesOf(T, b)) + Cardinality(PathsOf(T, b)) ELSE 0
    BY DEF Linked
  <2>2. CASE b # a
    <3>1. EdgesOf(U, b) = EdgesOf(T, b)
      BY <2>2, <1>2, <1>9 DEF EdgesOf
    <3> QED BY <3>1, <2>1, <2>2, <1>9, <1>1
  <2>3. CASE b = a
    <3>1. EdgesOf(U, a) = EdgesOf(T, a) \ D
      BY <1>9 DEF EdgesOf
    <3>2. IsFiniteSet(EdgesOf(T, a)) /\ IsFiniteSet(PathsOf(T, a))
      BY <1>1, Finite
    <3>3. Cardinality(EdgesOf(U, a)) = Cardinality(EdgesOf(T, a)) - Cardinality(D)
      BY <3>1, <3>2, CardShrink
    <3>4. Cardinality(EdgesOf(T, a)) \in Nat /\ Cardinality(PathsOf(T, a)) \in Nat
      BY <3>2, FS_CardinalityType
    <3>5. U.ref[a] = T.ref[a] - Cardinality(D)
      BY <1>1, <1>9
    <3> QED BY <3>3, <3>4, <3>5, <2>1, <2>3, <1>3, SMTT(30)
  <2> QED BY <2>2, <2>3
<1> QED BY <1>9, <1>10, <1>11 DEF Linked

-----------------------------------------------------------------------------
(* The database with other paths.                                          *)
Hung(T, r, P, c) == [T EXCEPT !.ref = r, !.paths = P, !.changes = c]

LEMMA WithPaths ==
  ASSUME NEW T \in LsdbType, NEW r \in [Nodes -> Int], NEW P \in SUBSET Paths,
         NEW c \in SUBSET {"hna", "topology", "neighborhood"},
         NEW U, U = Hung(T, r, P, c)
  PROVE  /\ U \in LsdbType
         /\ U.ref = r /\ U.paths = P /\ U.changes = c
         /\ U.edges = T.edges /\ U.inv = T.inv /\ U.tree = T.tree /\ U.valid = T.valid /\ U.gc = T.gc
         /\ U.hna = T.hna /\ U.nbr = T.nbr
<1>1. U \in LsdbType
  BY DEF LsdbType, Hung
<1> QED BY <1>1 DEF LsdbType, Hung

LEMMA Flagged ==
  ASSUME NEW T, Linked(T), NEW c \in {"hna", "topology", "neighborhood"},
         NEW U, U = Flag(T, c)
  PROVE  /\ Linked(U) /\ U.changes = T.changes \cup {c}
         /\ U.edges = T.edges /\ U.tree = T.tree /\ U.valid = T.valid /\ U.hna = T.hna
         /\ U.nbr = T.nbr /\ U.paths = T.paths
<1>1. T \in LsdbType /\ T.ref \in [Nodes -> Int] /\ T.paths \in SUBSET Paths
      /\ T.changes \cup {c} \in SUBSET {"hna", "topology", "neighborhood"}
  BY DEF Linked, LsdbType
<1>2. U = Hung(T, T.ref, T.paths, T.changes \cup {c})
  BY <1>1 DEF Flag, LsdbType, Hung
<1>3. /\ U \in LsdbType
      /\ U.ref = T.ref /\ U.paths = T.paths /\ U.changes = T.changes \cup {c}
      /\ U.edges = T.edges /\ U.inv = T.inv /\ U.tree = T.tree /\ U.valid = T.valid /\ U.gc = T.gc
      /\ U.hna = T.hna /\ U.nbr = T.nbr
  BY <1>1, <1>2, WithPaths, SMTT(30)
<1> QED BY <1>3 DEF Linked, EdgesOf, PathsOf

(* A path to p hangs off a.                                                *)
LEMMA AllocPath ==
  ASSUME NEW T, Linked(T), NEW a \in T.tree, NEW p \in Nodes \cup Nets, p \in Nets => <<a, p>> \in T.hna,
         NEW U, U = olsr_alloc_rt_path(T, a, p)
  PROVE  /\ Linked(U) /\ Keeps(T, U, a)
         /\ U.paths = T.paths \cup {<<a, p>>}
         /\ U.edges = T.edges /\ U.tree = T.tree /\ U.valid = T.valid /\ U.hna = T.hna
<1>1. CASE <<a, p>> \in T.paths
  BY <1>1 DEF olsr_alloc_rt_path, Keeps
<1>2. CASE <<a, p>> \notin T.paths
  <2> DEFINE ref == [T.ref EXCEPT ![a] = @ + 1]
  <2>1. /\ T \in LsdbType /\ T.ref \in [Nodes -> Int] /\ T.paths \cup {<<a, p>>} \in SUBSET Paths
        /\ T.changes \cup {"hna"} \in SUBSET {"hna", "topology", "neighborhood"} /\ a \in Nodes
        /\ ref \in [Nodes -> Int]
    BY SMTT(30) DEF Linked, LsdbType, Paths
  <2>2. U = Hung(T, ref, T.paths \cup {<<a, p>>}, T.changes \cup {"hna"})
    BY <1>2, <2>1 DEF olsr_alloc_rt_path, Flag, LsdbType, Hung
  <2>3. /\ U \in LsdbType
        /\ U.ref = ref /\ U.paths = T.paths \cup {<<a, p>>} /\ U.changes = T.changes \cup {"hna"}
        /\ U.edges = T.edges /\ U.inv = T.inv /\ U.tree = T.tree /\ U.valid = T.valid /\ U.gc = T.gc
        /\ U.hna = T.hna /\ U.nbr = T.nbr
    <3> HIDE DEF ref
    <3> QED BY <2>1, <2>2, WithPaths, SMTT(30)
  <2>4. \A b \in Nodes : U.ref[b] = IF b \in U.tree THEN 1 + Cardinality(EdgesOf(U, b)) + Cardinality(PathsOf(U, b)) ELSE 0
    <3> SUFFICES ASSUME NEW b \in Nodes
                 PROVE  U.ref[b] = IF b \in T.tree THEN 1 + Cardinality(EdgesOf(T, b)) + Cardinality(PathsOf(U, b)) ELSE 0
      BY <2>3 DEF EdgesOf
    <3>1. T.ref[b] = IF b \in T.tree THEN 1 + Cardinality(EdgesOf(T, b)) + Cardinality(PathsOf(T, b)) ELSE 0
      BY DEF Linked
    <3>2. CASE b # a
      <4>1. PathsOf(U, b) = PathsOf(T, b)
        BY <3>2, <2>3, SMTT(30) DEF PathsOf
      <4> QED BY <4>1, <3>1, <3>2, <2>3, <2>1
    <3>3. CASE b = a
      <4>1. PathsOf(U, a) = PathsOf(T, a) \cup {<<a, p>>} /\ <<a, p>> \notin PathsOf(T, a)
        BY <1>2, <2>3, SMTT(30) DEF PathsOf
      <4>2. IsFiniteSet(EdgesOf(T, a)) /\ IsFiniteSet(PathsOf(T, a))
        BY <2>1, Finite
      <4>3. Cardinality(PathsOf(U, a)) = Cardinality(PathsOf(T, a)) + 1
        BY <4>1, <4>2, FS_AddElement
      <4>4. Cardinality(EdgesOf(T, a)) \in Nat /\ Cardinality(PathsOf(T, a)) \in Nat
        BY <4>2, FS_CardinalityType
      <4>5. U.ref[a] = T.ref[a] + 1
        BY <2>1, <2>3
      <4> QED BY <4>3, <4>4, <4>5, <3>1, <3>3, SMTT(30)
    <3> QED BY <3>2, <3>3
  <2>5. \A x \in U.paths : x[1] \in U.tree /\ (x[2] \in Nets => x \in U.hna)
    BY <2>3, SMTT(30) DEF Linked
  <2>6. Linked(U)
    BY <2>3, <2>4, <2>5 DEF Linked
  <2>7. Keeps(T, U, a)
    BY <2>3 DEF Keeps
  <2> QED BY <2>3, <2>6, <2>7
<1> QED BY <1>1, <1>2

(* The paths to prefixes of P off a go.                                    *)
LEMMA DelPaths ==
  ASSUME NEW T, Linked(T), NEW a \in T.tree, NEW P,
         NEW U, U = olsr_delete_routing_table(T, a, P)
  PROVE  /\ Linked(U) /\ Keeps(T, U, a)
         /\ U.paths = T.paths \ {x \in T.paths : x[1] = a /\ x[2] \in P}
         /\ U.edges = T.edges /\ U.tree = T.tree /\ U.valid = T.valid /\ U.hna = T.hna
<1> DEFINE D == {x \in T.paths : x[1] = a /\ x[2] \in P}
<1>1. CASE D = {}
  BY <1>1 DEF olsr_delete_routing_table, Keeps
<1>2. CASE D # {}
  <2> DEFINE ref == [T.ref EXCEPT ![a] = @ - Cardinality(D)]
  <2>0. T \in LsdbType /\ T.paths \in SUBSET Paths /\ D \in SUBSET Paths /\ a \in Nodes /\ D \in SUBSET PathsOf(T, a)
    BY DEF Linked, LsdbType, PathsOf
  <2>1. Cardinality(D) \in Nat
    BY <2>0, Finite, FS_CardinalityType
  <2>2. /\ T.ref \in [Nodes -> Int] /\ T.paths \ D \in SUBSET Paths
        /\ T.changes \cup {"hna"} \in SUBSET {"hna", "topology", "neighborhood"}
        /\ ref \in [Nodes -> Int]
    BY <2>0, <2>1, SMTT(30) DEF LsdbType
  <2>3. U = Hung(T, ref, T.paths \ D, T.changes \cup {"hna"})
    BY <1>2, <2>0, <2>2 DEF olsr_delete_routing_table, Flag, LsdbType, Hung
  <2>4. /\ U \in LsdbType
        /\ U.ref = ref /\ U.paths = T.paths \ D /\ U.changes = T.changes \cup {"hna"}
        /\ U.edges = T.edges /\ U.inv = T.inv /\ U.tree = T.tree /\ U.valid = T.valid /\ U.gc = T.gc
        /\ U.hna = T.hna /\ U.nbr = T.nbr
    <3> HIDE DEF ref, D
    <3> QED BY <2>0, <2>2, <2>3, WithPaths, SMTT(30)
  <2>5. \A b \in Nodes : U.ref[b] = IF b \in U.tree THEN 1 + Cardinality(EdgesOf(U, b)) + Cardinality(PathsOf(U, b)) ELSE 0
    <3> SUFFICES ASSUME NEW b \in Nodes
                 PROVE  U.ref[b] = IF b \in T.tree THEN 1 + Cardinality(EdgesOf(T, b)) + Cardinality(PathsOf(U, b)) ELSE 0
      BY <2>4 DEF EdgesOf
    <3>1. T.ref[b] = IF b \in T.tree THEN 1 + Cardinality(EdgesOf(T, b)) + Cardinality(PathsOf(T, b)) ELSE 0
      BY DEF Linked
    <3>2. CASE b # a
      <4>1. PathsOf(U, b) = PathsOf(T, b)
        BY <3>2, <2>4 DEF PathsOf
      <4> QED BY <4>1, <3>1, <3>2, <2>4, <2>2
    <3>3. CASE b = a
      <4>1. PathsOf(U, a) = PathsOf(T, a) \ D
        BY <2>4 DEF PathsOf
      <4>2. IsFiniteSet(EdgesOf(T, a)) /\ IsFiniteSet(PathsOf(T, a))
        BY <2>0, Finite
      <4> HIDE DEF D
      <4>3. Cardinality(PathsOf(U, a)) = Cardinality(PathsOf(T, a)) - Cardinality(D)
        BY <4>1, <4>2, <2>0, CardShrink
      <4>4. Cardinality(EdgesOf(T, a)) \in Nat /\ Cardinality(PathsOf(T, a)) \in Nat
        BY <4>2, FS_CardinalityType
      <4>5. U.ref[a] = T.ref[a] - Cardinality(D)
        BY <2>0, <2>2, <2>4
      <4> QED BY <4>3, <4>4, <4>5, <3>1, <3>3, <2>1, SMTT(30)
    <3> QED BY <3>2, <3>3
  <2> HIDE DEF D
  <2>6. Linked(U)
    BY <2>4, <2>5 DEF Linked, EdgesOf
  <2>7. Keeps(T, U, a)
    BY <2>4 DEF Keeps
  <2> USE DEF D
  <2> QED BY <2>4, <2>6, <2>7
<1> QED BY <1>1, <1>2

-----------------------------------------------------------------------------
(* The database with other entries and paths.                              *)
Entered(T, t, r, s, n, i, e, v, g, P) ==
  [T EXCEPT !.tree = t, !.ref = r, !.seq = s, !.ansn = n, !.ign = i, !.err = e, !.valid = v, !.gc = g, !.paths = P]

Numbered(s, n, i, e) ==
  /\ s \in [Nodes -> Seqnos] /\ n \in [Nodes -> Seqnos] /\ i \in [Nodes -> 0 .. MaxIgnored]
  /\ e \in [Nodes -> Seqnos \cup {NoSeq}]

LEMMA WithEntries ==
  ASSUME NEW T \in LsdbType, NEW t \in SUBSET Nodes, NEW r \in [Nodes -> Int], NEW s, NEW n, NEW i, NEW e,
         Numbered(s, n, i, e), NEW v \in SUBSET Nodes, NEW g \in SUBSET Nodes, NEW P \in SUBSET Paths,
         NEW U, U = Entered(T, t, r, s, n, i, e, v, g, P)
  PROVE  /\ U \in LsdbType
         /\ U.tree = t /\ U.ref = r /\ U.valid = v /\ U.gc = g /\ U.paths = P
         /\ U.edges = T.edges /\ U.inv = T.inv /\ U.hna = T.hna /\ U.nbr = T.nbr /\ U.changes = T.changes
<1>1. U \in LsdbType
  BY DEF LsdbType, Entered, Numbered
<1> QED BY <1>1 DEF LsdbType, Entered

(* The numbers of entries, and timers for entries of others, are set.      *)
Timed(T, v, g) == v \subseteq T.tree \ {Self} /\ g \subseteq v

LEMMA SetFields ==
  ASSUME NEW T, Linked(T), NEW s, NEW n, NEW i, NEW e, Numbered(s, n, i, e),
         NEW v, NEW g, Timed(T, v, g),
         NEW U, U = Entered(T, T.tree, T.ref, s, n, i, e, v, g, T.paths)
  PROVE  /\ Linked(U) /\ U.valid = v
         /\ U.tree = T.tree /\ U.edges = T.edges /\ U.paths = T.paths /\ U.hna = T.hna
         /\ U.nbr = T.nbr /\ U.changes = T.changes
<1>1. T \in LsdbType /\ T.tree \in SUBSET Nodes /\ T.ref \in [Nodes -> Int] /\ T.paths \in SUBSET Paths
  BY DEF Linked, LsdbType
<1>2. v \in SUBSET Nodes /\ g \in SUBSET Nodes
  BY <1>1 DEF Timed
<1>3. /\ U \in LsdbType
      /\ U.tree = T.tree /\ U.ref = T.ref /\ U.valid = v /\ U.gc = g /\ U.paths = T.paths
      /\ U.edges = T.edges /\ U.inv = T.inv /\ U.hna = T.hna /\ U.nbr = T.nbr /\ U.changes = T.changes
  BY <1>1, <1>2, WithEntries, SMTT(30)
<1> QED BY <1>3 DEF Linked, EdgesOf, PathsOf, Timed

(* The entry of a exists.                                                  *)
LEMMA LocateEntry ==
  ASSUME NEW T, Linked(T), Rooted(T), NEW a \in Nodes, NEW U, U = olsr_locate_tc_entry(T, a)
  PROVE  /\ Linked(U) /\ Rooted(U) /\ Keeps(T, U, a)
         /\ a \in U.tree /\ T.tree \subseteq U.tree /\ T.paths \subseteq U.paths
         /\ U.edges = T.edges /\ U.valid = T.valid /\ U.hna = T.hna
<1>1. CASE a \in T.tree
  BY <1>1 DEF olsr_locate_tc_entry, Keeps
<1>2. CASE a \notin T.tree
  <2> DEFINE ref == [T.ref EXCEPT ![a] = 1]
             err == [T.err EXCEPT ![a] = NoSeq]
             V == [T EXCEPT !.tree = @ \cup {a}, !.ref[a] = 1, !.err[a] = NoSeq]
  <2>1. /\ T \in LsdbType /\ T.tree \cup {a} \in SUBSET Nodes /\ T.valid \in SUBSET Nodes /\ T.gc \in SUBSET Nodes
        /\ T.paths \in SUBSET Paths /\ T.ref \in [Nodes -> Int] /\ ref \in [Nodes -> Int]
        /\ Numbered(T.seq, T.ansn, T.ign, err)
    BY SMTT(30) DEF Linked, LsdbType, Numbered
  <2>2. V = Entered(T, T.tree \cup {a}, ref, T.seq, T.ansn, T.ign, err, T.valid, T.gc, T.paths)
    BY <2>1 DEF LsdbType, Entered
  <2>3. /\ V \in LsdbType
        /\ V.tree = T.tree \cup {a} /\ V.ref = ref /\ V.valid = T.valid /\ V.gc = T.gc /\ V.paths = T.paths
        /\ V.edges = T.edges /\ V.inv = T.inv /\ V.hna = T.hna /\ V.nbr = T.nbr /\ V.changes = T.changes
    <3> HIDE DEF ref, err, V
    <3> QED BY <2>1, <2>2, WithEntries, SMTT(30)
  <2>4. U = olsr_alloc_rt_path(V, a, a)
    BY <1>2 DEF olsr_locate_tc_entry, olsr_add_tc_entry
  <2>5. \A b \in Nodes : V.ref[b] = IF b \in V.tree THEN 1 + Cardinality(EdgesOf(V, b)) + Cardinality(PathsOf(V, b)) ELSE 0
    <3> SUFFICES ASSUME NEW b \in Nodes
                 PROVE  ref[b] = IF b \in T.tree \cup {a} THEN 1 + Cardinality(EdgesOf(T, b)) + Cardinality(PathsOf(T, b)) ELSE 0
      <4> HIDE DEF V
      <4> QED BY <2>3 DEF EdgesOf, PathsOf
    <3>1. T.ref[b] = IF b \in T.tree THEN 1 + Cardinality(EdgesOf(T, b)) + Cardinality(PathsOf(T, b)) ELSE 0
      BY DEF Linked
    <3>2. CASE b # a
      BY <3>1, <3>2, <2>1
    <3>3. CASE b = a
      <4>1. EdgesOf(T, a) = {} /\ PathsOf(T, a) = {}
        BY <1>2, SMTT(30) DEF Linked, EdgesOf, PathsOf
      <4>2. Cardinality(EdgesOf(T, a)) = 0 /\ Cardinality(PathsOf(T, a)) = 0
        BY <4>1, FS_EmptySet
      <4> QED BY <4>2, <3>3, <2>1, SMTT(30)
    <3> QED BY <3>2, <3>3
  <2> HIDE DEF V
  <2>6. Linked(V) /\ a \in V.tree
    BY <2>3, <2>5 DEF Linked
  <2>7. a \in Nodes \cup Nets /\ (a \in Nets => <<a, a>> \in V.hna)
    BY TcSetAssumption
  <2>8. /\ Linked(U) /\ Keeps(V, U, a)
        /\ U.paths = V.paths \cup {<<a, a>>}
        /\ U.edges = V.edges /\ U.tree = V.tree /\ U.valid = V.valid /\ U.hna = V.hna
    BY <2>4, <2>6, <2>7, AllocPath, SMTT(30)
  <2>9. Keeps(T, U, a)
    BY <2>3, <2>8 DEF Keeps
  <2>10. Rooted(U)
    BY <2>3, <2>8 DEF Rooted
  <2> QED BY <2>3, <2>6, <2>8, <2>9, <2>10
<1> QED BY <1>1, <1>2

(* An entry goes with its edges and paths.  The path to itself is one, so  *)
(* the deletion is reported.                                               *)
LEMMA DeleteEntry ==
  ASSUME NEW T, Linked(T), Rooted(T), NEW a \in T.tree, NEW W, W = olsr_delete_tc_entry(T, a)
  PROVE  /\ Linked(W) /\ Rooted(W) /\ Keeps(T, W, a)
         /\ \A e \in W.edges : e[1] # a
<1> DEFINE S == olsr_delete_routing_table(T, a, {a})
           U == olsr_delete_tc_edge_entry(S, a, EdgesOf(T, a))
           P == PathsOf(U, a)
           ref == [U.ref EXCEPT ![a] = @ - Cardinality(P) - 1]
           seq == [U.seq EXCEPT ![a] = 0]
           ans == [U.ansn EXCEPT ![a] = 0]
           ign == [U.ign EXCEPT ![a] = 0]
           err == [U.err EXCEPT ![a] = NoSeq]
<1>1. /\ Linked(S) /\ Keeps(T, S, a)
      /\ S.paths = T.paths \ {x \in T.paths : x[1] = a /\ x[2] \in {a}}
      /\ S.edges = T.edges /\ S.tree = T.tree /\ S.valid = T.valid /\ S.hna = T.hna
  BY DelPaths, SMTT(30)
<1>2. EdgesOf(T, a) \in SUBSET EdgesOf(S, a) /\ a \in S.tree
  BY <1>1 DEF EdgesOf
<1>3. S.paths # T.paths
  <2>1. <<a, a>> \in T.paths /\ <<a, a>>[1] = a /\ <<a, a>>[2] \in {a}
    BY DEF Rooted
  <2> HIDE DEF S
  <2> QED BY <1>1, <2>1
<1> HIDE DEF S
<1>4. /\ Linked(U)
      /\ U.edges = S.edges \ EdgesOf(T, a)
      /\ U.tree = S.tree /\ U.valid = S.valid /\ U.paths = S.paths /\ U.hna = S.hna
      /\ U.nbr = S.nbr /\ U.changes = S.changes
  BY <1>1, <1>2, DelEdges, SMTT(30)
<1> HIDE DEF U
<1>5. W = Entered(U, U.tree \ {a}, ref, seq, ans, ign, err, U.valid \ {a}, U.gc \ {a}, U.paths \ P)
  <2>1. W = [U EXCEPT !.paths = @ \ P, !.ref[a] = @ - Cardinality(P) - 1,
                      !.tree = @ \ {a}, !.gc = @ \ {a}, !.valid = @ \ {a},
                      !.seq[a] = 0, !.ansn[a] = 0, !.ign[a] = 0, !.err[a] = NoSeq]
    BY DEF olsr_delete_tc_entry, PathsOf, U, S
  <2>2. U \in LsdbType
    BY <1>4 DEF Linked
  <2> QED BY <2>1, <2>2 DEF LsdbType, Entered
<1>6. U \in LsdbType /\ U.ref \in [Nodes -> Int] /\ a \in Nodes /\ U.paths \in SUBSET Paths
  BY <1>4, <1>1 DEF Linked, LsdbType
<1>7. IsFiniteSet(P) /\ Cardinality(P) \in Nat
  BY <1>6, Finite, FS_CardinalityType
<1>8. /\ U.tree \ {a} \in SUBSET Nodes /\ U.valid \ {a} \in SUBSET Nodes /\ U.gc \ {a} \in SUBSET Nodes
      /\ U.paths \ P \in SUBSET Paths /\ ref \in [Nodes -> Int]
  BY <1>6, <1>7, SMTT(30) DEF LsdbType
<1>9. Numbered(seq, ans, ign, err)
  BY <1>6, ZeroSeq, TcSetAssumption, SMTT(30) DEF LsdbType, Numbered
<1>10. /\ W \in LsdbType
       /\ W.tree = U.tree \ {a} /\ W.ref = ref /\ W.valid = U.valid \ {a} /\ W.gc = U.gc \ {a} /\ W.paths = U.paths \ P
       /\ W.edges = U.edges /\ W.inv = U.inv /\ W.hna = U.hna /\ W.nbr = U.nbr /\ W.changes = U.changes
  <2> HIDE DEF ref, seq, ans, ign, err, P
  <2> QED BY <1>5, <1>6, <1>8, <1>9, WithEntries, SMTT(30)
<1>11. EdgesOf(U, a) = {} /\ \A e \in W.edges : e[1] # a
  BY <1>1, <1>4, <1>10 DEF EdgesOf
<1>12. \A b \in Nodes : W.ref[b] = IF b \in W.tree THEN 1 + Cardinality(EdgesOf(W, b)) + Cardinality(PathsOf(W, b)) ELSE 0
  <2> SUFFICES ASSUME NEW b \in Nodes
               PROVE  ref[b] = IF b \in U.tree \ {a} THEN 1 + Cardinality(EdgesOf(U, b)) + Cardinality(PathsOf(W, b)) ELSE 0
    BY <1>10 DEF EdgesOf
  <2>1. U.ref[b] = IF b \in U.tree THEN 1 + Cardinality(EdgesOf(U, b)) + Cardinality(PathsOf(U, b)) ELSE 0
    BY <1>4 DEF Linked
  <2>2. CASE b # a
    <3>1. PathsOf(W, b) = PathsOf(U, b)
      BY <2>2, <1>10 DEF PathsOf
    <3> QED BY <3>1, <2>1, <2>2, <1>6
  <2>3. CASE b = a
    <3>1. Cardinality(EdgesOf(U, a)) = 0
      BY <1>11, FS_EmptySet
    <3>2. a \in U.tree
      BY <1>1, <1>4
    <3> HIDE DEF P
    <3>3. ref[a] = U.ref[a] - Cardinality(P) - 1
      BY <1>6
    <3>4. U.ref[a] = 1 + 0 + Cardinality(P)
      BY <3>1, <3>2, <2>1, <2>3 DEF P
    <3> QED BY <3>3, <3>4, <2>3, <1>7, SMTT(30)
  <2> QED BY <2>2, <2>3
<1>13. \A e \in W.edges : e[1] \in W.tree
  BY <1>4, <1>10, <1>11 DEF Linked
<1>14. \A x \in W.paths : x[1] \in W.tree /\ (x[2] \in Nets => x \in W.hna)
  BY <1>4, <1>10 DEF Linked, PathsOf
<1>15. W.inv = {e \in W.edges : Rev(e) \in W.edges} /\ W.gc \subseteq W.valid /\ W.valid \subseteq W.tree \ {Self}
  BY <1>4, <1>10 DEF Linked
<1>16. Linked(W)
  BY <1>10, <1>12, <1>13, <1>14, <1>15 DEF Linked
<1>17. Rooted(W)
  BY <1>1, <1>4, <1>10 DEF Rooted, PathsOf
<1>18. W.changes # {}
  BY <1>1, <1>3, <1>4, <1>10 DEF Keeps
<1>19. Keeps(T, W, a)
  BY <1>1, <1>4, <1>10, <1>18 DEF Keeps, EdgesOf
<1> QED BY <1>11, <1>16, <1>17, <1>19

-----------------------------------------------------------------------------
(* The fields of edges are set.                                            *)
Weighed(T, n, q, c) == [T EXCEPT !.eansn = n, !.lq = q, !.cost = c]

LEMMA SetQuality ==
  ASSUME NEW T, Linked(T), NEW n \in [Edges -> Seqnos], NEW q \in [Edges -> Measured], NEW c \in [Edges -> Measured],
         NEW U, U = Weighed(T, n, q, c)
  PROVE  /\ Linked(U)
         /\ U.edges = T.edges /\ U.tree = T.tree /\ U.valid = T.valid /\ U.paths = T.paths /\ U.hna = T.hna
         /\ U.nbr = T.nbr /\ U.changes = T.changes
<1>1. T \in LsdbType /\ T.edges \in SUBSET Edges /\ T.ref \in [Nodes -> Int] /\ T.inv \in SUBSET Edges
  BY DEF Linked, LsdbType
<1>2. U = Edged(T, T.edges, T.ref, n, q, c, T.inv)
  BY <1>1 DEF LsdbType, Edged, Weighed
<1>3. /\ U \in LsdbType
      /\ U.edges = T.edges /\ U.ref = T.ref /\ U.inv = T.inv
      /\ U.tree = T.tree /\ U.valid = T.valid /\ U.gc = T.gc /\ U.paths = T.paths /\ U.hna = T.hna
      /\ U.nbr = T.nbr /\ U.changes = T.changes
  BY <1>1, <1>2, WithEdges, SMTT(30)
<1> QED BY <1>3 DEF Linked, EdgesOf, PathsOf

(* The edges of a message are added or refreshed.                          *)
LEMMA UpdateEdge ==
  ASSUME NEW T, Linked(T), NEW a \in T.tree, NEW n \in Seqnos, NEW R \in SUBSET ((Nodes \cup Denied) \ {a}),
         NEW q \in Qualities, NEW W, W = olsr_tc_update_edge(T, a, n, R, q)
  PROVE  /\ Linked(W) /\ Keeps(T, W, a)
         /\ W.tree = T.tree /\ W.valid = T.valid /\ W.paths = T.paths /\ W.hna = T.hna
<1> DEFINE D   == R \ Denied
           E   == {<<a, d>> : d \in D}
           old == E \cap T.edges
           N   == {d \in D : <<a, d>> \notin T.edges}
           U   == olsr_add_tc_edge_entry(T, a, N, n)
           ans == Setting(U.eansn, old, n)
           lq  == Setting(U.lq, E, q)
           cst == Setting(U.cost, old, q)
           V   == Weighed(U, ans, lq, cst)
<1>1. CASE D = {}
  BY <1>1 DEF olsr_tc_update_edge, Keeps
<1>2. CASE D # {}
  <2>1. N \in SUBSET (Nodes \ {a}) /\ EdgesTo(a, N) \cap T.edges = {}
    BY DEF EdgesTo
  <2> HIDE DEF N
  <2>2. /\ Linked(U)
        /\ U.edges = T.edges \cup EdgesTo(a, N)
        /\ U.tree = T.tree /\ U.valid = T.valid /\ U.paths = T.paths /\ U.hna = T.hna
        /\ U.nbr = T.nbr /\ U.changes = T.changes
    BY <2>1, AddEdges, SMTT(30)
  <2> HIDE DEF U
  <2>3. U.eansn \in [Edges -> Seqnos] /\ U.lq \in [Edges -> Measured] /\ U.cost \in [Edges -> Measured] /\ U \in LsdbType
    BY <2>2 DEF Linked, LsdbType
  <2>4. q \in Measured
    BY DEF Measured
  <2>5. ans \in [Edges -> Seqnos]
    BY <2>3, SettingType
  <2>6. lq \in [Edges -> Measured]
    BY <2>3, <2>4, SettingType
  <2>7. cst \in [Edges -> Measured]
    BY <2>3, <2>4, SettingType
  <2>8. W = Flag(V, "topology")
    BY <1>2, <2>3 DEF olsr_tc_update_edge, U, N, LsdbType, Weighed
  <2> HIDE DEF ans, lq, cst
  <2>9. /\ Linked(V)
        /\ V.edges = U.edges /\ V.tree = U.tree /\ V.valid = U.valid /\ V.paths = U.paths /\ V.hna = U.hna
        /\ V.nbr = U.nbr /\ V.changes = U.changes
    BY <2>2, <2>5, <2>6, <2>7, SetQuality, SMTT(30)
  <2> HIDE DEF V
  <2>10. /\ Linked(W) /\ W.changes = V.changes \cup {"topology"}
         /\ W.edges = V.edges /\ W.tree = V.tree /\ W.valid = V.valid /\ W.hna = V.hna
         /\ W.nbr = V.nbr /\ W.paths = V.paths
    BY <2>8, <2>9, Flagged
  <2>11. Keeps(T, W, a)
    BY <2>2, <2>9, <2>10, SMTT(30) DEF Keeps, EdgesTo
  <2> QED BY <2>2, <2>9, <2>10, <2>11
<1> QED BY <1>1, <1>2

(* Edges of a go and the change is reported, if there are any.             *)
Dropped(T, a, D) == IF D = {} THEN T ELSE Flag(olsr_delete_tc_edge_entry(T, a, D), "topology")

LEMMA DropEdges ==
  ASSUME NEW T, Linked(T), NEW a \in T.tree, NEW D \in SUBSET EdgesOf(T, a),
         NEW W, W = Dropped(T, a, D)
  PROVE  /\ Linked(W) /\ Keeps(T, W, a) /\ W.edges \subseteq T.edges
         /\ W.tree = T.tree /\ W.valid = T.valid /\ W.paths = T.paths /\ W.hna = T.hna
<1>1. CASE D = {}
  BY <1>1 DEF Keeps, Dropped
<1>2. CASE D # {}
  <2> DEFINE U == olsr_delete_tc_edge_entry(T, a, D)
  <2>1. /\ Linked(U)
        /\ U.edges = T.edges \ D
        /\ U.tree = T.tree /\ U.valid = T.valid /\ U.paths = T.paths /\ U.hna = T.hna
        /\ U.nbr = T.nbr /\ U.changes = T.changes
    BY DelEdges, SMTT(30)
  <2>2. W = Flag(U, "topology")
    BY <1>2 DEF Dropped
  <2> HIDE DEF U
  <2>3. /\ Linked(W) /\ W.changes = U.changes \cup {"topology"}
        /\ W.edges = U.edges /\ W.tree = U.tree /\ W.valid = U.valid /\ W.hna = U.hna
        /\ W.nbr = U.nbr /\ W.paths = U.paths
    BY <2>1, <2>2, Flagged
  <2>4. Keeps(T, W, a)
    BY <2>1, <2>3 DEF Keeps, EdgesOf
  <2> QED BY <2>1, <2>3, <2>4
<1> QED BY <1>1, <1>2

(* The HNA entries of a set of networks go with their paths.               *)
Forgotten(T, h, a, P) == \A x \in T.hna : x \in h \/ (x[1] = a /\ x[2] \in P)

Without(T, a, P, h) == [olsr_delete_routing_table(T, a, P) EXCEPT !.hna = h]

LEMMA ForgetNets ==
  ASSUME NEW T, Linked(T), Rooted(T), NEW a \in Nodes, NEW P \in SUBSET Nets,
         NEW h \in SUBSET T.hna, Forgotten(T, h, a, P),
         NEW W, W = Without(T, a, P, h)
  PROVE  /\ Linked(W) /\ Rooted(W) /\ Keeps(T, W, a)
         /\ W.tree = T.tree /\ W.edges = T.edges /\ W.valid = T.valid /\ W.hna = h
<1> DEFINE U == olsr_delete_routing_table(T, a, P)
           D == {x \in T.paths : x[1] = a /\ x[2] \in P}
<1>1. /\ Linked(U) /\ Keeps(T, U, a)
      /\ U.paths = T.paths \ D
      /\ U.edges = T.edges /\ U.tree = T.tree /\ U.valid = T.valid /\ U.hna = T.hna
  <2>1. CASE a \in T.tree
    BY <2>1, DelPaths, SMTT(30)
  <2>2. CASE a \notin T.tree
    <3>1. D = {}
      BY <2>2, SMTT(30) DEF Linked
    <3> QED BY <3>1 DEF olsr_delete_routing_table, Keeps
  <2> QED BY <2>1, <2>2
<1> HIDE DEF U
<1>2. W \in LsdbType
  BY <1>1 DEF Linked, LsdbType, U, Without
<1>3. /\ W.tree = U.tree /\ W.edges = U.edges /\ W.paths = U.paths /\ W.valid = U.valid /\ W.gc = U.gc
      /\ W.inv = U.inv /\ W.ref = U.ref /\ W.nbr = U.nbr /\ W.changes = U.changes /\ W.hna = h
  BY <1>1 DEF Linked, LsdbType, U, Without
<1>4. \A x \in W.paths : x[2] \in Nets => x \in W.hna
  BY <1>1, <1>3 DEF Linked, Forgotten
<1>5. Linked(W)
  <2>1. \A b \in Nodes : EdgesOf(W, b) = EdgesOf(U, b) /\ PathsOf(W, b) = PathsOf(U, b)
    BY <1>3 DEF EdgesOf, PathsOf
  <2> HIDE DEF D
  <2> QED BY <2>1, <1>1, <1>2, <1>3, <1>4, SMTT(30) DEF Linked
<1>6. Rooted(W)
  <2>1. \A b \in Nodes : <<b, b>> \notin D
    BY TcSetAssumption
  <2>2. T.tree \subseteq Nodes
    BY DEF Linked, LsdbType
  <2> QED BY <1>1, <1>3, <2>1, <2>2 DEF Rooted
<1>7. Keeps(T, W, a)
  BY <1>1, <1>3 DEF Keeps
<1> QED BY <1>1, <1>3, <1>5, <1>6, <1>7

-----------------------------------------------------------------------------
(* What the handler knows of a message.                                    *)
WellFormed(m) ==
  /\ m.orig \in Others /\ m.seq \in Seqnos /\ m.ansn \in Seqnos /\ m.q \in Qualities
  /\ m.dests \in SUBSET ((Nodes \cup Denied) \ {m.orig})

(* An ignored message changes no more than the numbers of its entry.       *)
LEMMA IgnoreMessage ==
  ASSUME NEW T, Linked(T), NEW m, WellFormed(m), Ignored(T, m), NEW U, U = IgnoreTc(T, m)
  PROVE  /\ Linked(U) /\ Keeps(T, U, m.orig)
         /\ U.tree = T.tree /\ U.edges = T.edges /\ U.valid = T.valid /\ U.paths = T.paths
<1> DEFINE a == m.orig
<1>1. T \in LsdbType /\ a \in Nodes /\ Timed(T, T.valid, T.gc)
  BY DEF Linked, WellFormed, Others, Timed
<1>2. CASE U = T
  BY <1>2 DEF Keeps
<1>3. ASSUME U # T
      PROVE  \E i, e : Numbered(T.seq, T.ansn, i, e)
                       /\ U = Entered(T, T.tree, T.ref, T.seq, T.ansn, i, e, T.valid, T.gc, T.paths)
  <2>1. CASE SeenBefore(T, m)
    <3> DEFINE i == [T.ign EXCEPT ![a] = @ + 1]
    <3>1. U = [T EXCEPT !.ign[a] = @ + 1] /\ T.ign[a] < MaxIgnored
      BY <1>3, <2>1 DEF Ignored, IgnoreTc
    <3>2. U = Entered(T, T.tree, T.ref, T.seq, T.ansn, i, T.err, T.valid, T.gc, T.paths)
      BY <3>1, <1>1 DEF Entered, LsdbType
    <3>3. T.ign \in [Nodes -> 0 .. MaxIgnored] /\ T.ign[a] + 1 \in 0 .. MaxIgnored
      BY <3>1, <1>1, TcSetAssumption, SMTT(30) DEF LsdbType
    <3>4. Numbered(T.seq, T.ansn, i, T.err)
      BY <3>3, <1>1 DEF Numbered, LsdbType
    <3> HIDE DEF i
    <3> QED BY <3>2, <3>4
  <2>2. CASE ~SeenBefore(T, m)
    <3> DEFINE e == [T.err EXCEPT ![a] = m.seq]
    <3>1. U = [T EXCEPT !.err[a] = m.seq]
      BY <2>2 DEF IgnoreTc
    <3>2. U = Entered(T, T.tree, T.ref, T.seq, T.ansn, T.ign, e, T.valid, T.gc, T.paths)
      BY <3>1, <1>1 DEF Entered, LsdbType
    <3>3. Numbered(T.seq, T.ansn, T.ign, e)
      BY <1>1 DEF Numbered, LsdbType, WellFormed
    <3> HIDE DEF e
    <3> QED BY <3>2, <3>3
  <2> QED BY <2>1, <2>2
<1>4. CASE U # T
  <2>1. PICK i, e : Numbered(T.seq, T.ansn, i, e)
                    /\ U = Entered(T, T.tree, T.ref, T.seq, T.ansn, i, e, T.valid, T.gc, T.paths)
    BY <1>3, <1>4
  <2>2. /\ Linked(U) /\ U.valid = T.valid
        /\ U.tree = T.tree /\ U.edges = T.edges /\ U.paths = T.paths /\ U.hna = T.hna
        /\ U.nbr = T.nbr /\ U.changes = T.changes
    BY <2>1, <1>1, SetFields, SMTT(30)
  <2> QED BY <2>2 DEF Keeps
<1> QED BY <1>2, <1>4

(* The entry of the originator takes the numbers of the message.           *)
LEMMA TakeNumbers ==
  ASSUME NEW T, Linked(T), Rooted(T), NEW m, WellFormed(m), NEW U, U = UpdateEntry(T, m)
  PROVE  /\ Linked(U) /\ Rooted(U) /\ Keeps(T, U, m.orig) /\ m.orig \in U.tree
<1> DEFINE a == m.orig
           L == olsr_locate_tc_entry(T, a)
           s == [L.seq EXCEPT ![a] = m.seq]
           n == [L.ansn EXCEPT ![a] = m.ansn]
           i == [L.ign EXCEPT ![a] = 0]
           e == [L.err EXCEPT ![a] = NoSeq]
<1>0. a \in Nodes
  BY DEF WellFormed, Others
<1>1. /\ Linked(L) /\ Rooted(L) /\ Keeps(T, L, a)
      /\ a \in L.tree /\ T.tree \subseteq L.tree /\ T.paths \subseteq L.paths
      /\ L.edges = T.edges /\ L.valid = T.valid /\ L.hna = T.hna
  BY <1>0, LocateEntry
<1>2. U = [L EXCEPT !.seq[a] = m.seq, !.ansn[a] = m.ansn, !.ign[a] = 0, !.err[a] = NoSeq]
  BY DEF UpdateEntry
<1> HIDE DEF L
<1>3. L \in LsdbType /\ Timed(L, L.valid, L.gc)
  BY <1>1 DEF Linked, Timed
<1>4. U = Entered(L, L.tree, L.ref, s, n, i, e, L.valid, L.gc, L.paths)
  BY <1>2, <1>3 DEF Entered, LsdbType
<1>5. Numbered(s, n, i, e)
  <2>1. s \in [Nodes -> Seqnos] /\ n \in [Nodes -> Seqnos] /\ e \in [Nodes -> Seqnos \cup {NoSeq}]
    BY <1>3 DEF LsdbType, WellFormed
  <2>2. i \in [Nodes -> 0 .. MaxIgnored]
    <3>1. 0 \in 0 .. MaxIgnored
      BY TcSetAssumption, SMTT(30)
    <3> QED BY <3>1, <1>3 DEF LsdbType
  <2> QED BY <2>1, <2>2 DEF Numbered
<1> HIDE DEF s, n, i, e
<1>6. /\ Linked(U) /\ U.valid = L.valid
      /\ U.tree = L.tree /\ U.edges = L.edges /\ U.paths = L.paths /\ U.hna = L.hna
      /\ U.nbr = L.nbr /\ U.changes = L.changes
  BY <1>1, <1>3, <1>4, <1>5, SetFields, SMTT(30)
<1>7. Rooted(U) /\ Keeps(T, U, a) /\ a \in U.tree
  BY <1>1, <1>6 DEF Rooted, Keeps
<1> QED BY <1>6, <1>7

(* Timers are set for an entry of another node.                            *)
OfOne(T, v, a) == \A b \in Nodes \ {a} : b \in v <=> b \in T.valid

WithTimers(T, v, g) == [T EXCEPT !.valid = v, !.gc = g]

LEMMA SetTimers ==
  ASSUME NEW T, Linked(T), Rooted(T), NEW v, NEW g, Timed(T, v, g), NEW a, OfOne(T, v, a),
         NEW U, U = WithTimers(T, v, g)
  PROVE  /\ Linked(U) /\ Rooted(U) /\ Keeps(T, U, a)
         /\ U.valid = v /\ U.tree = T.tree /\ U.edges = T.edges /\ U.paths = T.paths
<1>1. T \in LsdbType /\ Numbered(T.seq, T.ansn, T.ign, T.err)
  BY DEF Linked, LsdbType, Numbered
<1>2. U = Entered(T, T.tree, T.ref, T.seq, T.ansn, T.ign, T.err, v, g, T.paths)
  BY <1>1 DEF Entered, LsdbType, WithTimers
<1>3. /\ Linked(U) /\ U.valid = v
      /\ U.tree = T.tree /\ U.edges = T.edges /\ U.paths = T.paths /\ U.hna = T.hna
      /\ U.nbr = T.nbr /\ U.changes = T.changes
  BY <1>1, <1>2, SetFields, SMTT(30)
<1> QED BY <1>3 DEF Rooted, Keeps, OfOne

(* A message that is processed leaves a well-formed database, in which the *)
(* edges of its originator will expire.                                    *)
LEMMA ProcessMessage ==
  ASSUME NEW T, Linked(T), Rooted(T), NEW m, WellFormed(m), NEW Z, Z = ProcessTc(T, m)
  PROVE  /\ Linked(Z) /\ Rooted(Z) /\ Keeps(T, Z, m.orig)
         /\ \A e \in Z.edges : e[1] = m.orig => m.orig \in Z.valid
<1> DEFINE a == m.orig
           S == UpdateEntry(T, m)
           U == UpdateEdges(S, m)
           V == SetValidityTimer(U, a)
           empty   == m.dests = {}
           bounded == IF empty THEN m.lower = OpenBorder /\ m.upper = OpenBorder
                      ELSE m.lower # NoBorder \/ m.upper # NoBorder
           borders == IF empty THEN <<0, 2^AddrBits - 1>>
                      ELSE olsr_calculate_tc_border(m.lower, m.first, m.upper, m.last)
           R == olsr_delete_revoked_tc_edges(V, a, m.ansn, borders[1], borders[2])
           G == [V EXCEPT !.gc = @ \cup {a}]
           W == IF bounded THEN R ELSE G
           C == olsr_cleanup_hna(W, a)
<1>1. Z = IF empty /\ bounded THEN olsr_delete_tc_entry(C, a) ELSE W
  BY DEF ProcessTc
<1>2. a \in Nodes /\ a # Self /\ m.ansn \in Seqnos /\ m.q \in Qualities
      /\ m.dests \in SUBSET ((Nodes \cup Denied) \ {a})
  BY DEF WellFormed, Others
<1> HIDE DEF empty, bounded, borders
<1>3. Linked(S) /\ Rooted(S) /\ Keeps(T, S, a) /\ a \in S.tree
  BY TakeNumbers
<1> HIDE DEF S
<1>4. /\ Linked(U) /\ Keeps(S, U, a)
      /\ U.tree = S.tree /\ U.valid = S.valid /\ U.paths = S.paths /\ U.hna = S.hna
  BY <1>2, <1>3, UpdateEdge, SMTT(30) DEF UpdateEdges
<1>5. Rooted(U)
  BY <1>3, <1>4 DEF Rooted
<1> HIDE DEF U
<1>6. /\ Linked(V) /\ Rooted(V) /\ Keeps(U, V, a)
      /\ V.valid = U.valid \cup {a} /\ V.tree = U.tree /\ V.edges = U.edges /\ V.paths = U.paths
  <2>1. Timed(U, U.valid \cup {a}, U.gc) /\ U \in LsdbType
    BY <1>2, <1>3, <1>4 DEF Timed, Linked
  <2>2. V = WithTimers(U, U.valid \cup {a}, U.gc)
    BY <2>1 DEF SetValidityTimer, LsdbType, WithTimers
  <2>3. OfOne(U, U.valid \cup {a}, a)
    BY DEF OfOne
  <2> HIDE DEF V
  <2> QED BY <2>1, <2>2, <2>3, <1>4, <1>5, SetTimers, SMTT(30)
<1> HIDE DEF V
<1>7. a \in V.tree /\ a \in V.valid
  BY <1>3, <1>4, <1>6
<1>8. /\ Linked(R) /\ Keeps(V, R, a)
      /\ R.tree = V.tree /\ R.valid = V.valid /\ R.paths = V.paths
  <2> DEFINE D == {e \in EdgesOf(V, a) : borders[1] <= e[2] /\ e[2] < borders[2]
                                         /\ SEQNO_GREATER_THAN(m.ansn, V.eansn[e])}
  <2>1. R = Dropped(V, a, D)
    BY DEF olsr_delete_revoked_tc_edges, Dropped
  <2>2. D \in SUBSET EdgesOf(V, a)
    OBVIOUS
  <2> HIDE DEF R, D
  <2> QED BY <1>6, <1>7, <2>1, <2>2, DropEdges, SMTT(30)
<1>9. /\ Linked(G) /\ Keeps(V, G, a)
      /\ G.tree = V.tree /\ G.valid = V.valid /\ G.paths = V.paths
  <2>1. Timed(V, V.valid, V.gc \cup {a}) /\ V \in LsdbType
    BY <1>6, <1>7 DEF Timed, Linked
  <2>2. G = WithTimers(V, V.valid, V.gc \cup {a})
    BY <2>1 DEF LsdbType, WithTimers
  <2>3. OfOne(V, V.valid, a)
    BY DEF OfOne
  <2> HIDE DEF G
  <2> QED BY <2>1, <2>2, <2>3, <1>6, SetTimers, SMTT(30)
<1> HIDE DEF R, G
<1>10. /\ Linked(W) /\ Keeps(V, W, a)
       /\ W.tree = V.tree /\ W.valid = V.valid /\ W.paths = V.paths
  BY <1>8, <1>9
<1>11. Rooted(W)
  BY <1>6, <1>10 DEF Rooted
<1> HIDE DEF W
<1>12. Keeps(T, W, a)
  <2>1. Keeps(T, U, a)
    BY <1>3, <1>4, KeepsTransitive
  <2>2. Keeps(T, V, a)
    BY <2>1, <1>6, KeepsTransitive
  <2> QED BY <2>2, <1>10, KeepsTransitive
<1>13. CASE ~(empty /\ bounded)
  BY <1>1, <1>7, <1>10, <1>11, <1>12, <1>13
<1>14. CASE empty /\ bounded
  <2> DEFINE P == {p \in Nets : <<a, p>> \in W.hna}
             h == {x \in W.hna : x[1] # a}
  <2>1. W.hna \in SUBSET (Others \X Nets) /\ W \in LsdbType
    BY <1>10 DEF Linked, LsdbType
  <2>2. P \in SUBSET Nets /\ h \in SUBSET W.hna /\ Forgotten(W, h, a, P)
    BY <2>1, SMTT(30) DEF Forgotten
  <2>3. C = Without(W, a, P, h)
    <3>1. /\ Linked(olsr_delete_routing_table(W, a, P))
          /\ olsr_delete_routing_table(W, a, P).hna = W.hna
      <4> HIDE DEF P
      <4> QED BY <1>7, <1>10, DelPaths, SMTT(30)
    <3> QED BY <3>1 DEF olsr_cleanup_hna, Without
  <2> HIDE DEF C, P, h
  <2>4. Linked(C) /\ Rooted(C) /\ Keeps(W, C, a) /\ C.tree = W.tree
    BY <1>2, <1>10, <1>11, <2>2, <2>3, ForgetNets, SMTT(30)
  <2>5. a \in C.tree
    BY <2>4, <1>7, <1>10
  <2>6. Z = olsr_delete_tc_entry(C, a)
    BY <1>1, <1>14
  <2>7. Linked(Z) /\ Rooted(Z) /\ Keeps(C, Z, a) /\ \A e \in Z.edges : e[1] # a
    BY <2>4, <2>5, <2>6, DeleteEntry
  <2>8. Keeps(T, C, a)
    BY <2>4, <1>12, KeepsTransitive
  <2>9. Keeps(T, Z, a)
    BY <2>7, <2>8, KeepsTransitive
  <2> QED BY <2>7, <2>9
<1> QED BY <1>13, <1>14

(* SPF brings the edges of this node up to date.                           *)
LEMMA SpfStep ==
  ASSUME NEW T, Linked(T), Self \in T.tree, NEW q \in Qualities, NEW linkless, NEW W, W = SpfEdges(T, q, linkless)
  PROVE  /\ Linked(W)
         /\ W.tree = T.tree /\ W.valid = T.valid /\ W.paths = T.paths /\ W.nbr = T.nbr
         /\ \A e \in W.edges : e \in T.edges \/ (e[1] = Self /\ e[2] \in Adjacent /\ T.nbr[e[2]] = "SYM")
<1> DEFINE sym  == {n \in Adjacent \ linkless : T.nbr[n] = "SYM"}
           gone == {<<Self, n>> : n \in {n \in Adjacent \ sym : T.nbr[n] # "none"}} \cap T.edges
           kept == {<<Self, n>> : n \in sym} \cap T.edges
           N    == {n \in sym : <<Self, n>> \notin T.edges}
           S    == olsr_delete_tc_edge_entry(T, Self, gone)
           U    == olsr_add_tc_edge_entry(S, Self, N, 0)
           ans  == U.eansn
           lq   == Setting(U.lq, kept, q)
           cst  == Setting(U.cost, kept, q)
<1>1. W = [U EXCEPT !.lq = lq, !.cost = cst]
  BY DEF SpfEdges
<1>2. gone \in SUBSET EdgesOf(T, Self)
  BY SMTT(30) DEF EdgesOf
<1>3. N \in SUBSET (Nodes \ {Self}) /\ EdgesTo(Self, N) \cap T.edges = {}
  BY TcSetAssumption DEF EdgesTo, Others
<1>4. EdgesTo(Self, N) \subseteq {e \in Edges : e[1] = Self /\ e[2] \in Adjacent /\ T.nbr[e[2]] = "SYM"}
  <2>1. Self \in Nodes /\ Adjacent \subseteq Nodes
    BY TcSetAssumption DEF Others
  <2>2. ASSUME NEW n \in N PROVE n \in Adjacent /\ T.nbr[n] = "SYM" /\ <<Self, n>> \in Edges
    BY <2>1 DEF Edges
  <2> HIDE DEF N
  <2> QED BY <2>2, SMTT(30) DEF EdgesTo
<1> HIDE DEF gone, N, kept
<1>5. /\ Linked(S)
      /\ S.edges = T.edges \ gone
      /\ S.tree = T.tree /\ S.valid = T.valid /\ S.paths = T.paths /\ S.hna = T.hna
      /\ S.nbr = T.nbr /\ S.changes = T.changes
  BY <1>2, DelEdges, SMTT(30)
<1>6. EdgesTo(Self, N) \cap S.edges = {} /\ Self \in S.tree
  BY <1>3, <1>5
<1> HIDE DEF S
<1>7. /\ Linked(U)
      /\ U.edges = S.edges \cup EdgesTo(Self, N)
      /\ U.tree = S.tree /\ U.valid = S.valid /\ U.paths = S.paths /\ U.hna = S.hna
      /\ U.nbr = S.nbr /\ U.changes = S.changes
  BY <1>3, <1>5, <1>6, ZeroSeq, AddEdges, SMTT(30)
<1> HIDE DEF U
<1>8. U \in LsdbType /\ ans \in [Edges -> Seqnos] /\ U.lq \in [Edges -> Measured] /\ U.cost \in [Edges -> Measured]
      /\ q \in Measured
  BY <1>7 DEF Linked, LsdbType, Measured
<1>9. lq \in [Edges -> Measured]
  BY <1>8, SettingType
<1>10. cst \in [Edges -> Measured]
  BY <1>8, SettingType
<1>11. W = Weighed(U, ans, lq, cst)
  BY <1>1, <1>8 DEF Weighed, LsdbType
<1> HIDE DEF ans, lq, cst
<1>12. /\ Linked(W)
       /\ W.edges = U.edges /\ W.tree = U.tree /\ W.valid = U.valid /\ W.paths = U.paths /\ W.hna = U.hna
       /\ W.nbr = U.nbr /\ W.changes = U.changes
  BY <1>7, <1>8, <1>9, <1>10, <1>11, SetQuality, SMTT(30)
<1> QED BY <1>4, <1>5, <1>7, <1>12

-----------------------------------------------------------------------------
(* The inductive invariant: besides what the operations need of each       *)
(* other, the edges of other nodes will expire, and those of this node     *)
(* lead to nodes that may be neighbors and still are if their link has the *)
(* main address.                                                           *)
Good(T) ==
  /\ Linked(T) /\ Rooted(T) /\ Self \in T.tree
  /\ \A e \in T.edges : e[1] # Self => e[1] \in T.valid
  /\ \A e \in T.edges : e[1] = Self => e[2] \in Adjacent /\ (IfAddr[e[2]] = e[2] => T.nbr[e[2]] # "none")

GoodLsdb == Good(Lsdb)

Reported(T, U) == U.edges # T.edges \/ U.paths # T.paths => U.changes # {} \/ T.changes # {}

(* An operation on the entry of another node.                              *)
LEMMA OtherEntry ==
  ASSUME NEW T, Good(T), NEW a \in Others, NEW U, Linked(U), Rooted(U), Keeps(T, U, a),
         \A e \in U.edges : e[1] = a => a \in U.valid
  PROVE  Good(U) /\ Reported(T, U)
<1>1. U.edges \subseteq Edges /\ a # Self /\ Self \in Nodes /\ U.nbr = T.nbr
  BY TcSetAssumption DEF Linked, LsdbType, Others, Keeps
<1>2. Self \in U.tree
  BY <1>1 DEF Good, Keeps
<1>3. ASSUME NEW e \in U.edges, e[1] # Self PROVE e[1] \in U.valid
  <2>1. e \in Edges /\ e[1] \in Nodes
    BY <1>1, Reverse
  <2> QED BY <1>3, <2>1 DEF Good, Keeps
<1>4. ASSUME NEW e \in U.edges, e[1] = Self PROVE e \in T.edges
  BY <1>1, <1>4 DEF Keeps
<1>5. Good(U)
  BY <1>1, <1>2, <1>3, <1>4 DEF Good
<1>6. Reported(T, U)
  BY DEF Reported, Keeps
<1> QED BY <1>5, <1>6

(* The HNA set grows, or a neighbor changes.                               *)
SameButNets(T, U) ==
  /\ U.tree = T.tree /\ U.edges = T.edges /\ U.valid = T.valid /\ U.paths = T.paths
  /\ U.nbr = T.nbr /\ U.changes = T.changes

LEMMA SetNets ==
  ASSUME NEW T, Linked(T), NEW x, NEW U \in LsdbType, U = [T EXCEPT !.hna = T.hna \cup {x}]
  PROVE  Linked(U) /\ SameButNets(T, U) /\ x \in U.hna
<1>1. /\ U.ref = T.ref /\ U.inv = T.inv /\ U.gc = T.gc /\ U.hna = T.hna \cup {x} /\ SameButNets(T, U)
  BY DEF Linked, LsdbType, SameButNets
<1> QED BY <1>1 DEF Linked, EdgesOf, PathsOf, SameButNets

SameButNbr(T, U) ==
  /\ U.tree = T.tree /\ U.edges = T.edges /\ U.valid = T.valid /\ U.paths = T.paths
  /\ U.hna = T.hna /\ U.changes = T.changes

WithNbr(T, n, st) == [T EXCEPT !.nbr[n] = st]
NbrWith(T, n, st) == [T.nbr EXCEPT ![n] = st]

LEMMA SetNbr ==
  ASSUME NEW T, Linked(T), NEW n \in Adjacent, NEW st \in {"none", "SYM", "NOT_SYM"},
         NEW U, U = WithNbr(T, n, st)
  PROVE  Linked(U) /\ SameButNbr(T, U) /\ U.nbr = NbrWith(T, n, st)
<1>1. /\ U \in LsdbType /\ U.ref = T.ref /\ U.inv = T.inv /\ U.gc = T.gc /\ SameButNbr(T, U)
      /\ U.nbr = NbrWith(T, n, st)
  BY DEF Linked, LsdbType, SameButNbr, WithNbr, NbrWith
<1> QED BY <1>1 DEF Linked, EdgesOf, PathsOf, SameButNbr

LEMMA Becomes ==
  ASSUME NEW T \in LsdbType, Become(T)
  PROVE  Lsdb' = T
BY DEF Become, Lsdb, LsdbType

LEMMA Consistent == GoodLsdb => LsdbConsistent
<1> SUFFICES ASSUME GoodLsdb PROVE LsdbConsistent
  OBVIOUS
<1>1. /\ Lsdb.tree = tc_tree /\ Lsdb.ref = refcount /\ Lsdb.seq = msg_seq /\ Lsdb.ansn = ansn /\ Lsdb.ign = ignored
      /\ Lsdb.err = err_seq /\ Lsdb.valid = validity_timer /\ Lsdb.gc = edge_gc_timer
      /\ Lsdb.edges = edge_tree /\ Lsdb.eansn = edge_ansn /\ Lsdb.lq = linkquality /\ Lsdb.cost = cost
      /\ Lsdb.inv = edge_inv /\ Lsdb.paths = prefix_tree /\ Lsdb.hna = hna_set /\ Lsdb.nbr = nbr
      /\ Lsdb.changes = changes
  BY DEF Lsdb
<1>2. Good(Lsdb) /\ Linked(Lsdb) /\ Lsdb \in LsdbType
  BY DEF GoodLsdb, Good, Linked
<1>3. \A a \in Nodes : EdgesOf(Lsdb, a) = {e \in edge_tree : e[1] = a} /\ PathsOf(Lsdb, a) = {x \in prefix_tree : x[1] = a}
  BY <1>1 DEF EdgesOf, PathsOf
<1>4. RefcountExact
  BY <1>1, <1>2, <1>3 DEF RefcountExact, Linked
<1>5. refcount \in [Nodes -> Nat]
  <2>1. \A a \in Nodes : Cardinality(EdgesOf(Lsdb, a)) \in Nat /\ Cardinality(PathsOf(Lsdb, a)) \in Nat
    BY <1>2, Finite, FS_CardinalityType
  <2>2. \A a \in Nodes : refcount[a] = IF a \in tc_tree THEN 1 + Cardinality(EdgesOf(Lsdb, a)) + Cardinality(PathsOf(Lsdb, a)) ELSE 0
    BY <1>1, <1>2 DEF Linked
  <2>3. \A a \in Nodes : refcount[a] \in Nat
    BY <2>1, <2>2, SMTT(30)
  <2>4. refcount \in [Nodes -> Int]
    BY <1>1, <1>2 DEF LsdbType
  <2> QED BY <2>3, <2>4
<1>6. EdgeInvMutual
  BY <1>1, <1>2 DEF EdgeInvMutual, Linked, Rev
<1>7. EdgesExpire /\ PathHasHna /\ SelfEdgesAreNeighbors
  BY <1>1, <1>2 DEF EdgesExpire, PathHasHna, SelfEdgesAreNeighbors, Good, Linked
<1>8. TypeOK
  <2>1. /\ Self \in tc_tree /\ tc_tree \subseteq Nodes /\ ignored \in [Nodes -> 0 .. MaxIgnored]
        /\ msg_seq \in [Nodes -> Seqnos] /\ ansn \in [Nodes -> Seqnos]
        /\ err_seq \in [Nodes -> Seqnos \cup {NoSeq}]
        /\ edge_ansn \in [Edges -> Seqnos] /\ hna_set \subseteq Others \X Nets
    BY <1>1, <1>2 DEF Good, LsdbType
  <2>2. validity_timer \subseteq tc_tree \ {Self} /\ edge_gc_timer \subseteq validity_timer
    BY <1>1, <1>2 DEF Linked
  <2>3. edge_tree \subseteq tc_tree \X Nodes /\ edge_inv \subseteq edge_tree
    BY <1>1, <1>2 DEF Linked, LsdbType, Edges
  <2>4. linkquality \in [Edges -> Qualities \cup {0}] /\ cost \in [Edges -> Qualities \cup {0}]
    BY <1>1, <1>2 DEF LsdbType, Measured
  <2>5. prefix_tree \subseteq tc_tree \X (Nodes \cup Nets)
    BY <1>1, <1>2 DEF Linked, LsdbType, Paths
  <2> QED BY <2>1, <2>2, <2>3, <2>4, <2>5, <1>5 DEF TypeOK
<1> QED BY <1>4, <1>6, <1>7, <1>8 DEF LsdbConsistent

LEMMA InitGood == olsr_init_tc => GoodLsdb
<1> SUFFICES ASSUME olsr_init_tc PROVE GoodLsdb
  OBVIOUS
<1> DEFINE U == olsr_locate_tc_entry(EmptyLsdb, Self)
<1>1. EmptyLsdb \in LsdbType
  <2>1. 0 \in Seqnos /\ 0 \in 0 .. MaxIgnored /\ 0 \in Measured
    BY ZeroSeq, TcSetAssumption, SMTT(30) DEF Measured
  <2>2. /\ [a \in Nodes |-> 0] \in [Nodes -> Int] /\ [a \in Nodes |-> 0] \in [Nodes -> Seqnos]
        /\ [a \in Nodes |-> 0] \in [Nodes -> 0 .. MaxIgnored]
        /\ [a \in Nodes |-> NoSeq] \in [Nodes -> Seqnos \cup {NoSeq}]
    BY <2>1, SMTT(30)
  <2>3. [e \in Edges |-> 0] \in [Edges -> Seqnos] /\ [e \in Edges |-> 0] \in [Edges -> Measured]
    BY <2>1
  <2>4. [n \in Adjacent |-> "none"] \in [Adjacent -> {"none", "SYM", "NOT_SYM"}]
    OBVIOUS
  <2> HIDE DEF U
  <2> QED BY <2>2, <2>3, <2>4 DEF EmptyLsdb, LsdbType
<1>2. \A a \in Nodes : EmptyLsdb.ref[a] = 0
  BY DEF EmptyLsdb
<1>3. EmptyLsdb.tree = {} /\ EmptyLsdb.edges = {} /\ EmptyLsdb.paths = {} /\ EmptyLsdb.inv = {} /\ EmptyLsdb.gc = {}
      /\ EmptyLsdb.valid = {}
  BY DEF EmptyLsdb
<1>4. Linked(EmptyLsdb) /\ Rooted(EmptyLsdb)
  BY <1>1, <1>2, <1>3 DEF Linked, Rooted
<1>5. Self \in Nodes
  BY TcSetAssumption
<1>6. Linked(U) /\ Rooted(U) /\ Self \in U.tree /\ U.edges = {}
  BY <1>3, <1>4, <1>5, LocateEntry
<1>7. U = olsr_add_tc_entry(EmptyLsdb, Self)
  BY <1>3 DEF olsr_locate_tc_entry
<1> HIDE DEF U
<1>8. U \in LsdbType
  BY <1>6 DEF Linked
<1>9. Lsdb = U
  BY <1>7, <1>8 DEF olsr_init_tc, Lsdb, LsdbType
<1>10. Good(U)
  BY <1>6 DEF Good
<1> QED BY <1>9, <1>10 DEF GoodLsdb

(* Every step of the database keeps the invariant and reports what it      *)
(* changes.                                                                *)
LEMMA NextGood == GoodLsdb /\ Next => GoodLsdb' /\ Reported(Lsdb, Lsdb')
<1> SUFFICES ASSUME GoodLsdb, Next PROVE GoodLsdb' /\ Reported(Lsdb, Lsdb')
  OBVIOUS
<1>1. PICK T : T = Lsdb
  OBVIOUS
<1>2. Good(T) /\ Linked(T) /\ Rooted(T) /\ T \in LsdbType
  BY <1>1 DEF GoodLsdb, Good, Linked
<1> SUFFICES \E U : Become(U) /\ Good(U) /\ Reported(T, U)
  <2>1. ASSUME NEW U, Become(U), Good(U), Reported(T, U) PROVE GoodLsdb' /\ Reported(Lsdb, Lsdb')
    <3>1. U \in LsdbType
      BY <2>1 DEF Good, Linked
    <3>2. Lsdb' = U
      BY <2>1, <3>1, Becomes
    <3> QED BY <2>1, <3>2, <1>1 DEF GoodLsdb
  <2> QED BY <2>1
<1>3. /\ T.tree = tc_tree /\ T.valid = validity_timer /\ T.gc = edge_gc_timer /\ T.edges = edge_tree
      /\ T.hna = hna_set /\ T.nbr = nbr /\ T.changes = changes
  BY <1>1 DEF Lsdb
<1>4. CASE InputTc
  <2>1. PICK m \in AnyMessage : m.orig \notin m.dests /\ olsr_input_tc(m)
    BY <1>4 DEF InputTc, Messages
  <2>2. WellFormed(m)
    <3>1. PICK o \in Others, s \in Numbers, D \in Lists, x \in Nodes \cup Denied, y \in Nodes \cup Denied,
               b \in Borders, q \in Qualities :
            m = [orig |-> o, seq |-> s[1], ansn |-> s[2], dests |-> D, first |-> x, last |-> y,
                 lower |-> b[1], upper |-> b[2], q |-> q]
      BY <2>1, SMTT(30) DEF AnyMessage
    <3>2. s[1] \in Seqnos /\ s[2] \in Seqnos /\ D \in SUBSET (Nodes \cup Denied)
      BY MessagesAssumption
    <3>3. m.orig = o /\ m.seq = s[1] /\ m.ansn = s[2] /\ m.dests = D /\ m.q = q
      BY <3>1, SMTT(30)
    <3> QED BY <2>1, <3>2, <3>3 DEF WellFormed
  <2>3. m.orig \in Others
    BY <2>2 DEF WellFormed
  <2>4. CASE Ignored(T, m)
    <3> DEFINE U == IgnoreTc(T, m)
    <3>1. Become(U)
      BY <2>1, <2>4, <1>1 DEF olsr_input_tc
    <3>2. /\ Linked(U) /\ Keeps(T, U, m.orig)
          /\ U.tree = T.tree /\ U.edges = T.edges /\ U.valid = T.valid /\ U.paths = T.paths
      BY <2>2, <2>4, <1>2, IgnoreMessage
    <3> HIDE DEF U
    <3>3. Rooted(U)
      BY <3>2, <1>2 DEF Rooted
    <3>4. \A e \in U.edges : e[1] = m.orig => m.orig \in U.valid
      BY <3>2, <1>2, <2>3 DEF Good, Others
    <3>5. Good(U) /\ Reported(T, U)
      BY <3>2, <3>3, <3>4, <1>2, <2>3, OtherEntry
    <3> QED BY <3>1, <3>5
  <2>5. CASE ~Ignored(T, m)
    <3> DEFINE U == ProcessTc(T, m)
    <3>1. Become(U)
      BY <2>1, <2>5, <1>1 DEF olsr_input_tc
    <3>2. /\ Linked(U) /\ Rooted(U) /\ Keeps(T, U, m.orig)
          /\ \A e \in U.edges : e[1] = m.orig => m.orig \in U.valid
      BY <2>2, <1>2, ProcessMessage
    <3> HIDE DEF U
    <3>3. Good(U) /\ Reported(T, U)
      BY <3>2, <1>2, <2>3, OtherEntry
    <3> QED BY <3>1, <3>3
  <2> QED BY <2>4, <2>5
<1>5. ASSUME NEW a \in Others, olsr_expire_tc_entry(a) PROVE \E U : Become(U) /\ Good(U) /\ Reported(T, U)
  <2> DEFINE W == olsr_delete_tc_entry(T, a)
             U == Flag(W, "topology")
  <2>1. Become(U) /\ a \in T.tree
    BY <1>1, <1>2, <1>3, <1>5 DEF olsr_expire_tc_entry, Linked
  <2>2. Linked(W) /\ Rooted(W) /\ Keeps(T, W, a) /\ \A e \in W.edges : e[1] # a
    BY <1>2, <2>1, DeleteEntry
  <2> HIDE DEF W
  <2>3. /\ Linked(U) /\ U.changes = W.changes \cup {"topology"}
        /\ U.edges = W.edges /\ U.tree = W.tree /\ U.valid = W.valid /\ U.hna = W.hna
        /\ U.nbr = W.nbr /\ U.paths = W.paths
    BY <2>2, Flagged
  <2> HIDE DEF U
  <2>4. Rooted(U) /\ Keeps(T, U, a) /\ \A e \in U.edges : e[1] = a => a \in U.valid
    BY <2>2, <2>3 DEF Rooted, Keeps
  <2>5. Good(U) /\ Reported(T, U)
    BY <2>3, <2>4, <1>2, OtherEntry
  <2> QED BY <2>1, <2>5
<1>6. ASSUME NEW a \in Others, olsr_expire_tc_edge_gc(a) PROVE \E U : Become(U) /\ Good(U) /\ Reported(T, U)
  <2> DEFINE V == [T EXCEPT !.gc = @ \ {a}]
             U == olsr_delete_outdated_tc_edges(V, a)
             D == {e \in EdgesOf(V, a) : SEQNO_GREATER_THAN(V.ansn[a], V.eansn[e])}
  <2>1. Become(U) /\ a \in T.tree /\ a \in T.valid
    BY <1>1, <1>2, <1>3, <1>6 DEF olsr_expire_tc_edge_gc, Linked
  <2>2. V = WithTimers(T, T.valid, T.gc \ {a})
    BY <1>2 DEF WithTimers, LsdbType
  <2>3. Timed(T, T.valid, T.gc \ {a}) /\ OfOne(T, T.valid, a)
    BY <1>2 DEF Linked, Timed, OfOne
  <2>4. U = Dropped(V, a, D) /\ D \in SUBSET EdgesOf(V, a)
    BY DEF olsr_delete_outdated_tc_edges, Dropped
  <2> HIDE DEF V, D, U
  <2>5. /\ Linked(V) /\ Rooted(V) /\ Keeps(T, V, a)
        /\ V.valid = T.valid /\ V.tree = T.tree /\ V.edges = T.edges /\ V.paths = T.paths
    BY <1>2, <2>2, <2>3, SetTimers, SMTT(30)
  <2>6. a \in V.tree
    BY <2>1, <2>5
  <2>7. /\ Linked(U) /\ Keeps(V, U, a)
        /\ U.tree = V.tree /\ U.valid = V.valid /\ U.paths = V.paths
    BY <2>4, <2>5, <2>6, DropEdges
  <2>8. Rooted(U) /\ \A e \in U.edges : e[1] = a => a \in U.valid
    BY <2>1, <2>5, <2>7 DEF Rooted
  <2>9. Keeps(T, U, a)
    BY <2>5, <2>7, KeepsTransitive
  <2>10. Good(U) /\ Reported(T, U)
    BY <2>7, <2>8, <2>9, <1>2, OtherEntry
  <2> QED BY <2>1, <2>10
<1>7. ASSUME NEW a \in Gateways, NEW p \in Nets, olsr_update_hna_entry(a, p)
      PROVE  \E U : Become(U) /\ Good(U) /\ Reported(T, U)
  <2> DEFINE V == [T EXCEPT !.hna = @ \cup {<<a, p>>}]
             X == IF <<a, p>> \in T.hna THEN T ELSE Flag(V, "hna")
             L == olsr_locate_tc_entry(X, a)
             U == olsr_alloc_rt_path(L, a, p)
  <2>1. Become(U)
    BY <1>1, <1>3, <1>7 DEF olsr_update_hna_entry, olsr_insert_routing_table
  <2>2. a \in Others /\ a \in Nodes
    BY TcSetAssumption DEF Others
  <2>3. V \in LsdbType /\ V = [T EXCEPT !.hna = T.hna \cup {<<a, p>>}]
    BY <1>2, <2>2, SMTT(30) DEF LsdbType
  <2>4. Linked(V) /\ SameButNets(T, V) /\ <<a, p>> \in V.hna
    BY <1>2, <2>3, SetNets
  <2> HIDE DEF V
  <2>5. /\ Linked(X) /\ Rooted(X) /\ Keeps(T, X, a) /\ X.edges = T.edges /\ X.valid = T.valid
        /\ <<a, p>> \in X.hna
    <3>1. CASE <<a, p>> \in T.hna
      BY <3>1, <1>2 DEF Keeps
    <3>2. CASE <<a, p>> \notin T.hna
      <4>1. X = Flag(V, "hna")
        BY <3>2
      <4> HIDE DEF X
      <4>2. /\ Linked(X) /\ X.changes = V.changes \cup {"hna"}
            /\ X.edges = V.edges /\ X.tree = V.tree /\ X.valid = V.valid /\ X.hna = V.hna
            /\ X.nbr = V.nbr /\ X.paths = V.paths
        BY <4>1, <2>4, Flagged, SMTT(30)
      <4> QED BY <4>2, <2>4, <1>2 DEF SameButNets, Rooted, Keeps
    <3> QED BY <3>1, <3>2
  <2> HIDE DEF X
  <2>6. /\ Linked(L) /\ Rooted(L) /\ Keeps(X, L, a)
        /\ a \in L.tree /\ X.tree \subseteq L.tree /\ X.paths \subseteq L.paths
        /\ L.edges = X.edges /\ L.valid = X.valid /\ L.hna = X.hna
    BY <2>2, <2>5, LocateEntry
  <2> HIDE DEF L
  <2>7. p \in Nodes \cup Nets /\ (p \in Nets => <<a, p>> \in L.hna)
    BY <2>5, <2>6
  <2>8. /\ Linked(U) /\ Keeps(L, U, a)
        /\ U.paths = L.paths \cup {<<a, p>>}
        /\ U.edges = L.edges /\ U.tree = L.tree /\ U.valid = L.valid /\ U.hna = L.hna
    BY <2>6, <2>7, AllocPath, SMTT(30)
  <2> HIDE DEF U
  <2>9. Rooted(U) /\ \A e \in U.edges : e[1] = a => a \in U.valid
    BY <2>2, <2>5, <2>6, <2>8, <1>2 DEF Rooted, Good, Others
  <2>10. Keeps(T, L, a)
    BY <2>5, <2>6, KeepsTransitive
  <2>11. Keeps(T, U, a)
    BY <2>8, <2>10, KeepsTransitive
  <2>12. Good(U) /\ Reported(T, U)
    BY <2>2, <2>8, <2>9, <2>11, <1>2, OtherEntry
  <2> QED BY <2>1, <2>12
<1>8. ASSUME NEW a \in Gateways, NEW p \in Nets, olsr_expire_hna_net_entry(a, p)
      PROVE  \E U : Become(U) /\ Good(U) /\ Reported(T, U)
  <2> DEFINE h == T.hna \ {<<a, p>>}
             P == {p}
             U == Without(T, a, P, h)
  <2>1. a \in Others /\ a \in Nodes
    BY TcSetAssumption DEF Others
  <2>2. olsr_delete_routing_table(T, a, P).hna = T.hna
    BY <1>2 DEF olsr_delete_routing_table, Flag, LsdbType
  <2>3. Become(U)
    BY <1>1, <2>2, <1>8 DEF olsr_expire_hna_net_entry, Without
  <2>4. P \in SUBSET Nets /\ h \in SUBSET T.hna /\ Forgotten(T, h, a, P)
    BY SMTT(30) DEF Forgotten
  <2> HIDE DEF P, h
  <2>5. /\ Linked(U) /\ Rooted(U) /\ Keeps(T, U, a)
        /\ U.tree = T.tree /\ U.edges = T.edges /\ U.valid = T.valid /\ U.hna = h
    BY <1>2, <2>1, <2>4, ForgetNets, SMTT(30)
  <2> HIDE DEF U
  <2>6. \A e \in U.edges : e[1] = a => a \in U.valid
    BY <2>1, <2>5, <1>2 DEF Good, Others
  <2>7. Good(U) /\ Reported(T, U)
    BY <2>1, <2>5, <2>6, <1>2, OtherEntry
  <2> QED BY <2>3, <2>7
<1>9. ASSUME NEW n \in Adjacent, NEW st \in {"SYM", "NOT_SYM"}, SetNeighbor(n, st)
      PROVE  \E U : Become(U) /\ Good(U) /\ Reported(T, U)
  <2> DEFINE V == WithNbr(T, n, st)
             U == Flag(V, "neighborhood")
  <2>1. Become(U)
    BY <1>1, <1>9 DEF SetNeighbor, WithNbr
  <2>2. Linked(V) /\ SameButNbr(T, V) /\ V.nbr = NbrWith(T, n, st)
    BY <1>2, SetNbr
  <2> HIDE DEF V
  <2>3. /\ Linked(U) /\ U.changes = V.changes \cup {"neighborhood"}
        /\ U.edges = V.edges /\ U.tree = V.tree /\ U.valid = V.valid /\ U.hna = V.hna
        /\ U.nbr = V.nbr /\ U.paths = V.paths
    BY <2>2, Flagged
  <2> HIDE DEF U
  <2>4. T.nbr \in [Adjacent -> {"none", "SYM", "NOT_SYM"}]
    BY <1>2 DEF LsdbType
  <2>5. Good(U)
    BY <2>2, <2>3, <2>4, <1>2, SMTT(30) DEF Good, SameButNbr, Rooted, NbrWith
  <2>6. Reported(T, U)
    BY <2>3 DEF Reported
  <2> QED BY <2>1, <2>5, <2>6
<1>10. ASSUME NEW n \in Adjacent, olsr_delete_link_entry(n)
       PROVE  \E U : Become(U) /\ Good(U) /\ Reported(T, U)
  <2> DEFINE e0 == <<Self, IfAddr[n]>>
             S == IF e0 \in T.edges THEN olsr_delete_tc_edge_entry(T, Self, {e0}) ELSE T
             V == WithNbr(S, n, "none")
             U == Flag(V, "neighborhood")
  <2>1. Become(U)
    BY <1>1, <1>3, <1>10 DEF olsr_delete_link_entry, WithNbr
  <2>2. /\ Linked(S) /\ S.edges = T.edges \ {e0}
        /\ S.tree = T.tree /\ S.valid = T.valid /\ S.paths = T.paths /\ S.nbr = T.nbr
    <3>1. CASE e0 \in T.edges
      <4>1. {e0} \in SUBSET EdgesOf(T, Self) /\ Self \in T.tree
        BY <3>1, <1>2, SMTT(30) DEF EdgesOf, Good
      <4>2. S = olsr_delete_tc_edge_entry(T, Self, {e0})
        BY <3>1
      <4> HIDE DEF S, e0
      <4> QED BY <4>1, <4>2, <1>2, DelEdges, SMTT(30)
    <3>2. CASE e0 \notin T.edges
      BY <3>2, <1>2
    <3> QED BY <3>1, <3>2
  <2> HIDE DEF S
  <2>3. Linked(V) /\ SameButNbr(S, V) /\ V.nbr = NbrWith(S, n, "none")
    BY <2>2, SetNbr
  <2> HIDE DEF V
  <2>4. /\ Linked(U) /\ U.changes = V.changes \cup {"neighborhood"}
        /\ U.edges = V.edges /\ U.tree = V.tree /\ U.valid = V.valid /\ U.hna = V.hna
        /\ U.nbr = V.nbr /\ U.paths = V.paths
    BY <2>3, Flagged
  <2> HIDE DEF U
  <2>5. T.nbr \in [Adjacent -> {"none", "SYM", "NOT_SYM"}]
    BY <1>2 DEF LsdbType
  <2>6. ASSUME NEW e \in U.edges, e[1] = Self, IfAddr[e[2]] = e[2] PROVE U.nbr[e[2]] # "none"
    <3>1. e \in T.edges /\ e # e0 /\ e \in Edges
      BY <2>2, <2>3, <2>4, <1>2 DEF SameButNbr, LsdbType
    <3>2. e = <<e[1], e[2]>>
      BY <3>1, Reverse
    <3>3. e[2] # n
      BY <2>6, <3>1, <3>2
    <3> QED BY <2>2, <2>3, <2>4, <2>5, <2>6, <3>1, <3>3, <1>2 DEF Good, NbrWith
  <2>7. Good(U)
    BY <2>2, <2>3, <2>4, <2>6, <1>2 DEF Good, SameButNbr, Rooted
  <2>8. Reported(T, U)
    BY <2>4 DEF Reported
  <2> QED BY <2>1, <2>7, <2>8
<1>11. ASSUME NEW q \in Qualities, NEW linkless \in SUBSET Adjacent, olsr_calculate_routing_table(q, linkless)
       PROVE  \E U : Become(U) /\ Good(U) /\ Reported(T, U)
  <2> DEFINE W == SpfEdges(T, q, linkless)
             U == [W EXCEPT !.changes = {}]
  <2>1. Become(U) /\ T.changes # {}
    BY <1>1, <1>3, <1>11 DEF olsr_calculate_routing_table
  <2>2. /\ Linked(W)
        /\ W.tree = T.tree /\ W.valid = T.valid /\ W.paths = T.paths /\ W.nbr = T.nbr
        /\ \A e \in W.edges : e \in T.edges \/ (e[1] = Self /\ e[2] \in Adjacent /\ T.nbr[e[2]] = "SYM")
    <3>1. Linked(T) /\ Self \in T.tree
      BY <1>2 DEF Good
    <3> QED BY <3>1, SpfStep, SMTT(30)
  <2> HIDE DEF W
  <2>3. W \in LsdbType /\ W.ref \in [Nodes -> Int] /\ W.paths \in SUBSET Paths
        /\ {} \in SUBSET {"hna", "topology", "neighborhood"}
    BY <2>2 DEF Linked, LsdbType
  <2>4. U = Hung(W, W.ref, W.paths, {})
    BY <2>3 DEF Hung, LsdbType
  <2> HIDE DEF U
  <2>5. /\ U \in LsdbType
        /\ U.ref = W.ref /\ U.paths = W.paths /\ U.changes = {}
        /\ U.edges = W.edges /\ U.inv = W.inv /\ U.tree = W.tree /\ U.valid = W.valid /\ U.gc = W.gc
        /\ U.hna = W.hna /\ U.nbr = W.nbr
    BY <2>3, <2>4, WithPaths, SMTT(30)
  <2>6. Linked(U)
    BY <2>2, <2>5 DEF Linked, EdgesOf, PathsOf
  <2>7. Good(U)
    BY <2>2, <2>5, <2>6, <1>2 DEF Good, Rooted
  <2>8. Reported(T, U)
    BY <2>1 DEF Reported
  <2> QED BY <2>1, <2>7, <2>8
<1> QED BY <1>4, <1>5, <1>6, <1>7, <1>8, <1>9, <1>10, <1>11 DEF Next, Environment


-----------------------------------------------------------------------------
(* The database stays good whatever messages, timeouts, neighbor changes   *)
(* and SPF runs come, in any order.                                        *)
THEOREM Invariance == Spec => []GoodLsdb
<1>1. GoodLsdb /\ [Next]_vars => GoodLsdb'
  <2>1. GoodLsdb /\ UNCHANGED vars => GoodLsdb'
    BY DEF vars, GoodLsdb, Lsdb
  <2> QED BY <2>1, NextGood
<1> QED BY <1>1, InitGood, PTL DEF Spec

(* Counters of references are exact, pointers between an edge and its      *)
(* inverse mutual, the edges of others have a running timer, paths to      *)
(* networks an HNA entry, and the edges of this node a neighbor            *)
(* (tc_set.c:247-537, hna_set.c:83-309, link_set.c:357-376).               *)
THEOREM DatabaseConsistent == Spec => []LsdbConsistent
BY Invariance, Consistent, PTL

(* No edge and no path comes or goes without a flag that makes the         *)
(* scheduler compute the routes again (tc_set.c:386, 407, 609, 905,        *)
(* routing_table.c:570, 624).                                              *)
THEOREM EveryChangeFlagged == Spec => ChangesFlagged
<1> DEFINE A == edge_tree' # edge_tree \/ prefix_tree' # prefix_tree => changes' # {} \/ changes # {}
<1>1. GoodLsdb /\ [Next]_vars => [A]_vars
  <2>1. GoodLsdb /\ Next => A
    BY NextGood DEF Reported, Lsdb
  <2> QED BY <2>1
<1> QED BY <1>1, Invariance, PTL DEF Spec, ChangesFlagged
=============================================================================
