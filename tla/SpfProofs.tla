------------------------------ MODULE SpfProofs ------------------------------
(***************************************************************************)
(* Proofs about the shortest path search of Spf, for every graph, every    *)
(* neighbor table and every order of equal candidates.                     *)
(***************************************************************************)
EXTENDS Spf, FiniteSetTheorems, SequenceTheorems, WellFoundedInduction, TLAPS

(* Most obligations are first-order: Zenon proves them, SMT the others.     *)
USE ZenonT(60)

(* The elements of a list with one more entry.                             *)
LEMMA FinalAppend ==
  ASSUME NEW S, NEW p \in Seq(S), NEW e \in S
  PROVE  /\ Append(p, e) \in Seq(S)
         /\ Append(p, e) # <<>>
         /\ ToSet(Append(p, e)) = ToSet(p) \cup {e}
         /\ ToSet(p) \subseteq S
<1>1. /\ Append(p, e) \in Seq(S)
      /\ Len(Append(p, e)) = Len(p) + 1
      /\ DOMAIN Append(p, e) = 1 .. Len(p) + 1
      /\ \A i \in 1 .. Len(p) : Append(p, e)[i] = p[i]
      /\ Append(p, e)[Len(p) + 1] = e
      /\ Len(p) \in Nat /\ DOMAIN p = 1 .. Len(p)
  BY AppendProperties, LenProperties, SMTT(30)
<1>2. ToSet(Append(p, e)) = ToSet(p) \cup {e}
  <2>1. ASSUME NEW x \in ToSet(Append(p, e)) PROVE x \in ToSet(p) \cup {e}
    <3>1. PICK i \in 1 .. Len(p) + 1 : x = Append(p, e)[i]
      BY <1>1 DEF ToSet
    <3>2. CASE i = Len(p) + 1
      BY <3>1, <3>2, <1>1
    <3>3. CASE i # Len(p) + 1
      <4>1. i \in 1 .. Len(p)
        BY <3>3, <1>1, SMTT(30)
      <4> QED BY <3>1, <4>1, <1>1 DEF ToSet
    <3> QED BY <3>2, <3>3
  <2>2. ASSUME NEW x \in ToSet(p) PROVE x \in ToSet(Append(p, e))
    <3>1. PICK i \in 1 .. Len(p) : x = p[i]
      BY <1>1 DEF ToSet
    <3>2. i \in 1 .. Len(p) + 1 /\ Append(p, e)[i] = x
      BY <3>1, <1>1, SMTT(30)
    <3> QED BY <3>2, <1>1 DEF ToSet
  <2>3. e \in ToSet(Append(p, e))
    <3>1. Len(p) + 1 \in 1 .. Len(p) + 1
      BY <1>1, SMTT(30)
    <3> QED BY <3>1, <1>1 DEF ToSet
  <2> QED BY <2>1, <2>2, <2>3
<1>3. ToSet(p) \subseteq S
  BY <1>1, ElementOfSeq DEF ToSet
<1> QED BY <1>1, <1>2, <1>3, SMTT(30)

(* A list without duplicates stays one if its new entry is not in it.      *)
LEMMA DistinctAppend ==
  ASSUME NEW S, NEW p \in Seq(S), NEW e \in S, e \notin ToSet(p),
         \A i, j \in DOMAIN p : p[i] = p[j] => i = j
  PROVE  \A i, j \in DOMAIN Append(p, e) : Append(p, e)[i] = Append(p, e)[j] => i = j
<1>1. /\ DOMAIN Append(p, e) = 1 .. Len(p) + 1
      /\ \A i \in 1 .. Len(p) : Append(p, e)[i] = p[i]
      /\ Append(p, e)[Len(p) + 1] = e
      /\ Len(p) \in Nat /\ DOMAIN p = 1 .. Len(p)
  BY AppendProperties, LenProperties, SMTT(30)
<1>2. \A i \in 1 .. Len(p) : p[i] # e
  BY <1>1 DEF ToSet
<1>3. SUFFICES ASSUME NEW i \in 1 .. Len(p) + 1, NEW j \in 1 .. Len(p) + 1,
                      Append(p, e)[i] = Append(p, e)[j]
               PROVE  i = j
  BY <1>1
<1>4. CASE i \in 1 .. Len(p) /\ j \in 1 .. Len(p)
  BY <1>1, <1>3, <1>4
<1>5. CASE i \in 1 .. Len(p) /\ j = Len(p) + 1
  BY <1>1, <1>2, <1>3, <1>5
<1>6. CASE i = Len(p) + 1 /\ j \in 1 .. Len(p)
  BY <1>1, <1>2, <1>3, <1>6
<1>7. CASE i = Len(p) + 1 /\ j = Len(p) + 1
  BY <1>7
<1> QED BY <1>1, <1>4, <1>5, <1>6, <1>7, SMTT(30)

------------------------------------------------------------------------------
(* One more node in the list leaves room for one more edge on a path.      *)
LEMMA RoomForOneMore ==
  ASSUME NEW F, NEW N, IsFiniteSet(N), F \subseteq N, NEW t \in N, t \notin F
  PROVE  /\ Cardinality(F) \in Nat /\ Cardinality(N) \in Nat
         /\ Cardinality(F \cup {t}) = Cardinality(F) + 1
         /\ Cardinality(F) + 1 <= Cardinality(N)
<1>1. IsFiniteSet(F) /\ Cardinality(F) \in Nat /\ Cardinality(N) \in Nat
  BY FS_Subset, FS_CardinalityType
<1>2. Cardinality(F \cup {t}) = Cardinality(F) + 1
  BY <1>1, FS_AddElement
<1>3. Cardinality(F \cup {t}) <= Cardinality(N)
  BY FS_Subset
<1> QED BY <1>1, <1>2, <1>3

(* A product that grows by one factor.                                     *)
LEMMA TimesMonotone ==
  ASSUME NEW m \in Nat, NEW a \in Nat, NEW b \in Nat, a + 1 <= b
  PROVE  /\ m * a \in Nat /\ m * b \in Nat
         /\ m * (a + 1) = m * a + m
         /\ m * a + m <= m * b
<1>1. PICK d \in Nat : b = a + 1 + d
  <2>1. b - (a + 1) \in Nat /\ b = a + 1 + (b - (a + 1))
    BY SMTT(30)
  <2> QED BY <2>1
<1>2. m * a \in Nat /\ m * d \in Nat /\ m * b \in Nat
  BY SMTT(30)
<1>3. m * b = m * a + m + m * d
  BY <1>1, SMTT(30)
<1>4. m * (a + 1) = m * a + m
  BY SMTT(30)
<1> QED BY <1>2, <1>3, <1>4, SMTT(30)

(* A number below the modulus.                                             *)
LEMMA ModSmall ==
  ASSUME NEW m \in Nat, NEW x \in 0 .. m PROVE x % (m + 1) = x
  BY SMTT(30)

(* A set of positions has a largest member.                                *)
LEMMA MaxPosition ==
  ASSUME NEW n \in Nat, NEW S, S \subseteq 1 .. n, S # {}
  PROVE  Max(S) \in S
<1> DEFINE T == {n - i : i \in S}
<1>1. T \subseteq Nat /\ T # {}
  <2>1. \A i \in S : n - i \in Nat
    BY SMTT(30)
  <2>2. PICK i \in S : TRUE
    OBVIOUS
  <2>3. n - i \in T
    OBVIOUS
  <2> QED BY <2>1, <2>3
<1>2. PICK x \in T : \A y \in T : ~(<<y, x>> \in OpToRel(<, Nat))
  BY <1>1, NatLessThanWellFounded, WFMin
<1>3. PICK i \in S : x = n - i
  OBVIOUS
<1>4. ASSUME NEW j \in S PROVE i >= j
  <2>1. n - j \in T
    OBVIOUS
  <2>2. ~(n - j < n - i)
    BY <1>1, <1>2, <1>3, <2>1 DEF OpToRel
  <2> QED BY <2>2, SMTT(30)
<1> QED BY <1>4 DEF Max

(* The best link to a neighbor is one of its links.                        *)
LEMMA BestLinkType ==
  ASSUME NEW links \in Seq(AllLinks)
  PROVE  get_best_link_to_neighbor(links) \in AllLinks \cup {Null}
<1>1. Len(links) \in Nat /\ DOMAIN links = 1 .. Len(links)
  BY LenProperties
<1>2. Cheaper(links) \subseteq 1 .. Len(links)
  BY <1>1 DEF Cheaper
<1> DEFINE good == {i \in Cheaper(links) : links[i].status = "SYM_LINK"}
<1>3. good # {} => Max(good) \in 1 .. Len(links)
  BY <1>1, <1>2, MaxPosition
<1>4. Cheaper(links) # {} => Max(Cheaper(links)) \in 1 .. Len(links)
  BY <1>1, <1>2, MaxPosition
<1> HIDE DEF good
<1>5. \A i \in 1 .. Len(links) : links[i] \in AllLinks
  BY ElementOfSeq
<1>6. get_best_link_to_neighbor(links) =
        IF good # {} THEN links[Max(good)]
        ELSE IF Cheaper(links) # {} THEN links[Max(Cheaper(links))] ELSE Null
  BY DEF get_best_link_to_neighbor, good
<1> QED BY <1>3, <1>4, <1>5, <1>6

------------------------------------------------------------------------------
(* So is the link that makes it an adjacent vertex.                        *)
LEMMA SpfLinkType ==
  ASSUME TypeOK, NEW n \in Others
  PROVE  SpfLink(n) \in AllLinks \cup {Null}
<1>1. nbr[n].links \in Seq(AllLinks)
  BY DEF TypeOK
<1> QED BY <1>1, BestLinkType DEF SpfLink

(* An edge of this node that the search may use has a link.                *)
LEMMA SelfEdgeHasLink ==
  ASSUME TypeOK, Prepare, NEW n \in Others,
         nbr[n].status = "none" => cost[tc_myself][n] = NoEdge,
         cost'[tc_myself][n] \in 0 .. MaxCost
  PROVE  SpfLink(n) # Null
<1>1. tc_myself \in Nodes /\ n \in Nodes /\ n # tc_myself
  BY SpfAssumption DEF Others
<1>2. cost'[tc_myself][n] = SelfEdge(n)
  BY <1>1 DEF Prepare, TypeOK
<1>3. NoEdge \notin 0 .. MaxCost
  BY SpfAssumption, SMTT(30) DEF NoEdge
<1> QED BY <1>2, <1>3 DEF SelfEdge

(* The invariant holds at the start.                                       *)
LEMMA InitInv == Init => IInv
<1> SUFFICES ASSUME Init PROVE IInv
  OBVIOUS
<1> USE SpfAssumption
<1>1. TypeOK
  BY SMTT(30) DEF Init, TypeOK
<1> QED BY <1>1 DEF Init, IInv, CandidateExact

(* The vertices are initialised so that the search invariant holds.        *)
LEMMA PrepareInv == IInv /\ Prepare => IInv'
<1> SUFFICES ASSUME IInv, Prepare PROVE IInv'
  OBVIOUS
<1> USE SpfAssumption
<1>0. TypeOK /\ phase = "start" /\ tc_myself \in Nodes /\ RouteBroken \in Nat /\ MaxCost \in Nat
      /\ \A n \in Others : nbr[n].status = "none" => cost[tc_myself][n] = NoEdge
  BY DEF IInv, Prepare
<1>a. Others \subseteq Nodes /\ \A n \in Nodes : n \in Others \/ n = tc_myself
  BY DEF Others
<1>b. 0 < RouteBroken
  <2>1. Cardinality(Nodes) \in Nat
    BY FS_CardinalityType
  <2>2. MaxCost * Cardinality(Nodes) \in Nat
    BY <1>0, <2>1, SMTT(30)
  <2> QED BY <2>2, SMTT(30)
<1>c. path_list' = <<>> /\ phase' = "search" /\ cand_tree' = {tc_myself}
  BY DEF Prepare
<1>d. Final' = {} /\ Cardinality(Final') = 0
  <2>1. Final' = {}
    BY <1>c, SMTT(30) DEF Final, ToSet
  <2> QED BY <2>1, FS_EmptySet
<1>1. TypeOK'
  <2>1. cost' \in [Nodes -> [Nodes -> EdgeCosts]]
    <3>1. ASSUME NEW n \in Others PROVE SelfEdge(n) \in EdgeCosts
      <4>1. SpfLink(n) # Null => SpfLink(n).cost \in EdgeCosts
        BY <1>0, SpfLinkType DEF AllLinks, EdgeCosts
      <4>2. cost[tc_myself][n] \in EdgeCosts /\ NoEdge \in EdgeCosts /\ LinkBroken \in EdgeCosts
        BY <1>0, <1>a, SMTT(30) DEF TypeOK, EdgeCosts
      <4> QED BY <4>1, <4>2 DEF SelfEdge
    <3>2. [n \in Nodes |-> IF n = tc_myself THEN cost[tc_myself][n] ELSE SelfEdge(n)] \in [Nodes -> EdgeCosts]
      BY <3>1, <1>0, <1>a, SMTT(30) DEF TypeOK
    <3> QED BY <3>2, <1>0 DEF Prepare, TypeOK
  <2>2. next_hop' \in [Nodes -> {SpfLink(n) : n \in Others} \cup {Null}]
    BY <1>a DEF Prepare
  <2>3. nbr' = nbr /\ \A n \in Others : SpfLink(n)' = SpfLink(n)
    BY DEF Prepare, SpfLink
  <2>4. next_hop' \in [Nodes -> {SpfLink(n)' : n \in Others} \cup {Null}]
    BY <2>2, <2>3
  <2>5. path_cost' \in [Nodes -> 0 .. RouteBroken] /\ hops' \in [Nodes -> 0 .. 255]
    BY SMTT(30) DEF Prepare
  <2> QED BY <2>1, <2>3, <2>4, <2>5, <1>0, <1>c, SMTT(30) DEF TypeOK
<1>2. CandidateExact'
  <2>1. \A n \in Nodes : path_cost'[n] = IF n = tc_myself THEN 0 ELSE RouteBroken
    BY DEF Prepare
  <2>2. {n \in Nodes : path_cost'[n] < RouteBroken} = {tc_myself}
    BY <2>1, <1>0, <1>b, SMTT(30)
  <2> QED BY <2>2, <1>c, <1>d, SMTT(30) DEF CandidateExact
<1>3. SearchInv'
  <2>1. /\ path_cost'[tc_myself] = 0 /\ next_hop'[tc_myself] = Null
        /\ \A n \in Others : path_cost'[n] = RouteBroken
    BY <1>0, <1>a DEF Prepare, Others
  <2>2. \A n \in Others : SpfLink(n)' = SpfLink(n)
    BY DEF Prepare, SpfLink
  <2>3. \A n \in Others : Usable(tc_myself, n)' => SpfLink(n)' # Null
    BY <1>0, <2>2, SelfEdgeHasLink DEF Usable
  <2>4. ASSUME NEW n \in Others, cost'[n][tc_myself] # NoEdge
        PROVE  next_hop'[n] = SpfLink(n)'
    <3>1. n \in Nodes /\ n # tc_myself
      BY DEF Others
    <3>2. cost'[n][tc_myself] = cost[n][tc_myself]
      BY <1>0, <3>1, SMTT(30) DEF Prepare
    <3> QED BY <2>2, <2>4, <3>1, <3>2 DEF Prepare
  <2>5. \A n \in Nodes : path_cost'[n] < RouteBroken => path_cost'[n] <= MaxCost * Cardinality(Final')
    BY <2>1, <1>0, <1>a, <1>d, SMTT(30)
  <2> QED BY <2>1, <2>3, <2>4, <2>5, <1>0, <1>c, <1>d, SMTT(30) DEF SearchInv
<1> QED BY <1>1, <1>2, <1>3, <1>c DEF IInv

------------------------------------------------------------------------------
(* The cost over the best candidate does not overflow, and what it         *)
(* improves is neither final nor the candidate itself.                     *)
LEMMA RelaxCost ==
  ASSUME IInv, NEW tc \in cand_tree, olsr_spf_run_full(tc)
  PROVE  /\ tc \in Nodes /\ tc \notin Final
         /\ \A v \in Nodes : Usable(tc, v) =>
               /\ NewCost(tc, v) = path_cost[tc] + cost[tc][v]
               /\ NewCost(tc, v) \in 0 .. RouteBroken
               /\ NewCost(tc, v) <= MaxCost * Cardinality(Final \cup {tc})
         /\ MaxCost * Cardinality(Final) <= MaxCost * Cardinality(Final \cup {tc})
         /\ MaxCost * Cardinality(Final) \in Nat
         /\ MaxCost * Cardinality(Final \cup {tc}) \in Nat
         /\ \A f \in Final : path_cost[f] <= path_cost[tc]
         /\ \A v \in Improved(tc) : v \notin Final /\ v # tc
<1> USE SpfAssumption
<1>1. TypeOK /\ CandidateExact /\ SearchInv /\ phase = "search"
  BY DEF IInv, olsr_spf_run_full
<1>2. tc \in Nodes /\ tc \notin Final /\ path_cost[tc] < RouteBroken /\ Final \subseteq Nodes
  BY <1>1 DEF TypeOK, CandidateExact
<1>3. /\ Cardinality(Final) \in Nat /\ Cardinality(Nodes) \in Nat
      /\ Cardinality(Final \cup {tc}) = Cardinality(Final) + 1
      /\ Cardinality(Final) + 1 <= Cardinality(Nodes)
  BY <1>2, RoomForOneMore
<1> DEFINE a == MaxCost * Cardinality(Final)
           b == MaxCost * Cardinality(Final \cup {tc})
<1>4. a \in Nat /\ b \in Nat /\ b = a + MaxCost /\ b < RouteBroken
  <2>1. MaxCost \in Nat /\ RouteBroken \in Nat /\ MaxCost * Cardinality(Nodes) < RouteBroken
    OBVIOUS
  <2>2. /\ a \in Nat /\ MaxCost * Cardinality(Nodes) \in Nat
        /\ MaxCost * (Cardinality(Final) + 1) = a + MaxCost
        /\ a + MaxCost <= MaxCost * Cardinality(Nodes)
    BY <1>3, <2>1, TimesMonotone
  <2>3. b = a + MaxCost
    BY <1>3, <2>2
  <2> HIDE DEF a, b
  <2> QED BY <2>1, <2>2, <2>3, SMTT(30)
<1>5. path_cost[tc] \in Nat /\ path_cost[tc] <= a
  BY <1>1, <1>2, SMTT(30) DEF SearchInv, TypeOK
<1> HIDE DEF a, b
<1>6. ASSUME NEW v \in Nodes, Usable(tc, v)
      PROVE  /\ NewCost(tc, v) = path_cost[tc] + cost[tc][v]
             /\ NewCost(tc, v) \in 0 .. RouteBroken
             /\ NewCost(tc, v) <= b
             /\ path_cost[tc] <= NewCost(tc, v)
  <2>1. cost[tc][v] \in 0 .. MaxCost
    BY <1>6 DEF Usable
  <2>2. path_cost[tc] + cost[tc][v] \in 0 .. RouteBroken /\ path_cost[tc] + cost[tc][v] <= b
    BY <1>4, <1>5, <2>1, SMTT(30)
  <2>3. NewCost(tc, v) = path_cost[tc] + cost[tc][v]
    BY <2>2, ModSmall DEF NewCost
  <2> QED BY <2>1, <2>2, <2>3, <1>5, SMTT(30)
<1>7. \A f \in Final : path_cost[f] <= path_cost[tc]
  BY <1>1 DEF SearchInv
<1>8. ASSUME NEW v \in Improved(tc) PROVE v \notin Final /\ v # tc
  <2>1. v \in Nodes /\ Usable(tc, v) /\ NewCost(tc, v) < path_cost[v]
    BY DEF Improved
  <2>2. path_cost[v] \in Nat /\ path_cost[tc] <= NewCost(tc, v) /\ NewCost(tc, v) \in Nat
    BY <1>1, <1>6, <2>1, SMTT(30) DEF TypeOK
  <2> QED BY <2>1, <2>2, <1>5, <1>7, SMTT(30)
<1>9. a <= b
  BY <1>4, SMTT(30)
<1> QED BY ONLY <1>2, <1>4, <1>6, <1>7, <1>8, <1>9 DEF a, b

(* A pass of the search preserves the invariant.                           *)
LEMMA RunFullInv ==
  ASSUME IInv, NEW tc \in cand_tree, olsr_spf_run_full(tc)
  PROVE  IInv'
<1>1. TypeOK /\ CandidateExact /\ SearchInv /\ phase = "search" /\ phase' = "search"
  BY DEF IInv, olsr_spf_run_full
<1>2. tc_myself \in Nodes /\ RouteBroken \in Nat /\ MaxCost \in Nat
  BY SpfAssumption
<1> DEFINE S == Improved(tc)
<1>3. /\ cost' = cost /\ nbr' = nbr
      /\ path_list' = Append(path_list, tc)
      /\ cand_tree' = (cand_tree \cup S) \ {tc}
      /\ path_cost' = [v \in Nodes |-> IF v \in S THEN NewCost(tc, v) ELSE path_cost[v]]
      /\ next_hop' = [v \in Nodes |-> IF v \in S THEN PulledNextHop(tc, v) ELSE next_hop[v]]
      /\ hops' = [v \in Nodes |-> IF v \in S THEN (hops[tc] + 1) % 256 ELSE hops[v]]
  BY DEF olsr_spf_run_full, olsr_spf_relax
<1>4. /\ tc \in Nodes /\ tc \notin Final
      /\ \A v \in Nodes : Usable(tc, v) =>
            /\ NewCost(tc, v) = path_cost[tc] + cost[tc][v]
            /\ NewCost(tc, v) \in 0 .. RouteBroken
            /\ NewCost(tc, v) <= MaxCost * Cardinality(Final \cup {tc})
      /\ MaxCost * Cardinality(Final) <= MaxCost * Cardinality(Final \cup {tc})
      /\ MaxCost * Cardinality(Final) \in Nat
      /\ MaxCost * Cardinality(Final \cup {tc}) \in Nat
      /\ \A f \in Final : path_cost[f] <= path_cost[tc]
      /\ \A v \in S : v \notin Final /\ v # tc
  BY RelaxCost
<1>5. /\ path_list' \in Seq(Nodes) /\ path_list' # <<>>
      /\ Final' = Final \cup {tc} /\ Final \subseteq Nodes
  BY <1>1, <1>3, <1>4, FinalAppend, SMTT(30) DEF TypeOK, Final
<1>6. \A v \in S : v \in Nodes /\ Usable(tc, v) /\ NewCost(tc, v) < path_cost[v]
  BY DEF Improved
<1>7. \A n \in Final \cup {tc} : /\ path_cost'[n] = path_cost[n]
                                 /\ next_hop'[n] = next_hop[n]
                                 /\ hops'[n] = hops[n]
  BY <1>3, <1>4, <1>5
<1>8. \A u, v : Usable(u, v)' = Usable(u, v)
  BY <1>3 DEF Usable
<1>9. \A n : SpfLink(n)' = SpfLink(n)
  BY <1>3 DEF SpfLink
<1>10. \A v \in Nodes : path_cost[v] \in 0 .. RouteBroken
  BY <1>1 DEF TypeOK
<1> HIDE DEF S
<1>11. \A v \in Nodes : /\ path_cost'[v] = IF v \in S THEN path_cost[tc] + cost[tc][v] ELSE path_cost[v]
                        /\ path_cost'[v] \in 0 .. RouteBroken
                        /\ path_cost'[v] <= path_cost[v]
                        /\ v \in S => path_cost'[v] < RouteBroken
  BY <1>2, <1>3, <1>4, <1>6, <1>10, SMTT(30)
<1>12. TypeOK'
  <2>1. path_cost' \in [Nodes -> 0 .. RouteBroken]
    BY <1>3, <1>11
  <2>2. next_hop' \in [Nodes -> {SpfLink(n) : n \in Others} \cup {Null}]
    <3>1. \A v \in Nodes : next_hop[v] \in {SpfLink(n) : n \in Others} \cup {Null}
      BY <1>1 DEF TypeOK
    <3>2. \A v \in Nodes : PulledNextHop(tc, v) \in {SpfLink(n) : n \in Others} \cup {Null}
      BY <3>1, <1>4 DEF PulledNextHop
    <3> QED BY <1>3, <3>1, <3>2
  <2>3. {SpfLink(n)' : n \in Others} = {SpfLink(n) : n \in Others}
    BY <1>9
  <2>4. hops' \in [Nodes -> 0 .. 255]
    <3>1. \A h \in 0 .. 255 : (h + 1) % 256 \in 0 .. 255
      BY SMTT(30)
    <3>2. \A v \in Nodes : hops[v] \in 0 .. 255
      BY <1>1 DEF TypeOK
    <3> QED BY <1>3, <1>4, <3>1, <3>2
  <2>5. cand_tree' \subseteq Nodes
    BY <1>1, <1>3, <1>6 DEF TypeOK
  <2> QED BY <1>1, <1>3, <1>5, <2>1, <2>2, <2>3, <2>4, <2>5 DEF TypeOK
<1>13. CandidateExact'
  <2>1. cand_tree \cap Final = {} /\ cand_tree \cup Final = {n \in Nodes : path_cost[n] < RouteBroken}
    BY <1>1 DEF CandidateExact
  <2>2. cand_tree' \cap Final' = {}
    BY <1>3, <1>4, <1>5, <2>1
  <2>3. cand_tree' \cup Final' = cand_tree \cup Final \cup S
    BY <1>3, <1>4, <1>5
  <2>4. \A n \in Nodes : path_cost'[n] < RouteBroken <=> n \in S \/ path_cost[n] < RouteBroken
    BY <1>11
  <2>5. cand_tree' \cup Final' = {n \in Nodes : path_cost'[n] < RouteBroken}
    BY <1>6, <2>1, <2>3, <2>4
  <2>6. \A i, j \in DOMAIN path_list : path_list[i] = path_list[j] => i = j
    BY <1>1 DEF CandidateExact
  <2>7. \A i, j \in DOMAIN path_list' : path_list'[i] = path_list'[j] => i = j
    BY <1>1, <1>3, <1>4, <2>6, DistinctAppend, SMTT(30) DEF TypeOK, Final
  <2> QED BY <2>2, <2>5, <2>7 DEF CandidateExact
<1>14. SearchInv'
  <2>1. path_cost'[tc_myself] = 0 /\ next_hop'[tc_myself] = Null
    <3>1. tc_myself \notin S
      BY <1>1, <1>2, <1>4, <1>6, <1>10, SMTT(30) DEF SearchInv
    <3> QED BY <1>1, <1>2, <1>3, <3>1 DEF SearchInv
  <2>2. \A n \in Others : Usable(tc_myself, n)' => SpfLink(n)' # Null
    BY <1>1, <1>8, <1>9 DEF SearchInv
  <2>3. tc_myself \in Final'
    BY <1>1, <1>5, SMTT(30) DEF SearchInv
  <2>4. ASSUME NEW n \in Nodes, path_cost'[n] < RouteBroken
        PROVE  path_cost'[n] <= MaxCost * Cardinality(Final')
    <3>1. CASE n \in S
      BY <1>4, <1>5, <1>6, <1>11, <3>1
    <3>2. CASE n \notin S
      <4>1. path_cost[n] <= MaxCost * Cardinality(Final) /\ path_cost'[n] = path_cost[n]
        BY <1>1, <1>11, <2>4, <3>2 DEF SearchInv
      <4> QED BY <1>4, <1>5, <1>10, <4>1, SMTT(30)
    <3> QED BY <3>1, <3>2
  <2>5. ASSUME NEW f \in Final', NEW c \in cand_tree' PROVE path_cost'[f] <= path_cost'[c]
    <3>1. path_cost'[f] = path_cost[f] /\ path_cost[f] <= path_cost[tc] /\ f \in Nodes
      BY <1>4, <1>5, <1>7, <1>10, SMTT(30)
    <3>2. c \in Nodes /\ path_cost[tc] <= path_cost'[c]
      <4>1. CASE c \in S
        <5>1. cost[tc][c] \in 0 .. MaxCost
          BY <1>6, <4>1 DEF Usable
        <5> QED BY <1>2, <1>4, <1>6, <1>10, <1>11, <4>1, <5>1, SMTT(30)
      <4>2. CASE c \notin S
        <5>1. c \in cand_tree /\ c \in Nodes
          BY <1>1, <1>3, <4>2 DEF TypeOK
        <5>2. path_cost[tc] <= path_cost[c]
          BY <5>1 DEF olsr_spf_run_full, olsr_spf_extract_best
        <5> QED BY <1>11, <4>2, <5>1, <5>2
      <4> QED BY <4>1, <4>2
    <3> QED BY <1>4, <1>10, <1>11, <3>1, <3>2, SMTT(30)
  <2>6. ASSUME NEW f \in Final', NEW v \in Nodes, Usable(f, v)'
        PROVE  path_cost'[v] <= path_cost'[f] + cost'[f][v]
    <3>1. f \in Nodes /\ path_cost'[f] = path_cost[f] /\ cost'[f][v] = cost[f][v] /\ Usable(f, v)
      BY <1>3, <1>4, <1>5, <1>7, <1>8, <2>6
    <3>2. cost[f][v] \in 0 .. MaxCost
      BY <3>1 DEF Usable
    <3>3. CASE f \in Final
      <4>1. path_cost[v] <= path_cost[f] + cost[f][v]
        BY <1>1, <3>1, <3>3 DEF SearchInv
      <4> QED BY <1>10, <1>11, <3>1, <3>2, <4>1, SMTT(30)
    <3>4. CASE f = tc
      <4>1. CASE v \in S
        BY <1>10, <1>11, <3>1, <3>2, <3>4, <4>1, SMTT(30)
      <4>2. CASE v \notin S
        <5>1. ~(NewCost(tc, v) < path_cost[v]) /\ NewCost(tc, v) = path_cost[tc] + cost[tc][v]
          BY <1>4, <3>1, <3>4, <4>2 DEF Improved, S
        <5> QED BY <1>10, <1>11, <3>1, <3>2, <3>4, <4>2, <5>1, SMTT(30)
      <4> QED BY <4>1, <4>2
    <3> QED BY <1>5, <3>3, <3>4
  <2>7. ASSUME NEW v \in Others, path_cost'[v] < RouteBroken
        PROVE  /\ next_hop'[v] # Null
               /\ \E u \in Final' :
                    /\ Usable(u, v)'
                    /\ path_cost'[v] = path_cost'[u] + cost'[u][v]
                    /\ hops'[v] = (hops'[u] + 1) % 256
                    /\ next_hop'[v] = IF u = tc_myself THEN SpfLink(v)' ELSE next_hop'[u]
    <3>1. v \in Nodes /\ v # tc_myself
      BY DEF Others
    <3>2. CASE v \in S
      <4>1. /\ tc \in Final' /\ Usable(tc, v)'
            /\ path_cost'[v] = path_cost'[tc] + cost'[tc][v]
            /\ hops'[v] = (hops'[tc] + 1) % 256
        BY <1>3, <1>4, <1>5, <1>6, <1>7, <1>8, <1>11, <3>1, <3>2
      <4>2. next_hop'[v] = PulledNextHop(tc, v)
        BY <1>3, <3>1, <3>2
      <4>3. CASE tc = tc_myself
        <5>1. path_list = <<>> /\ next_hop[tc] = Null
          BY <1>1, <1>4, <4>3 DEF SearchInv
        <5>2. Usable(tc_myself, v)
          BY <1>6, <3>2, <4>3
        <5>3. cost[v][tc_myself] # NoEdge
          BY <5>2 DEF Usable
        <5>4. next_hop[v] = SpfLink(v) /\ SpfLink(v) # Null
          BY <1>1, <5>1, <5>2, <5>3 DEF SearchInv
        <5>5. next_hop'[v] = SpfLink(v)' /\ next_hop'[v] # Null
          BY <1>9, <4>2, <5>1, <5>4 DEF PulledNextHop
        <5> QED BY <4>1, <4>3, <5>5
      <4>4. CASE tc # tc_myself
        <5>1. tc \in Others /\ path_cost[tc] < RouteBroken
          BY <1>1, <1>4, <4>4 DEF Others, CandidateExact
        <5>2. next_hop[tc] # Null
          BY <1>1, <5>1 DEF SearchInv
        <5>3. next_hop'[v] = next_hop'[tc] /\ next_hop'[v] # Null
          BY <1>7, <4>2, <5>2 DEF PulledNextHop
        <5> QED BY <4>1, <4>4, <5>3
      <4> QED BY <4>3, <4>4
    <3>3. CASE v \notin S
      <4>1. /\ path_cost'[v] = path_cost[v] /\ hops'[v] = hops[v] /\ next_hop'[v] = next_hop[v]
            /\ path_cost[v] < RouteBroken
        BY <1>3, <2>7, <3>1, <3>3
      <4>2. next_hop[v] # Null
        BY <1>1, <4>1 DEF SearchInv
      <4>3. PICK u \in Final : /\ Usable(u, v)
                               /\ path_cost[v] = path_cost[u] + cost[u][v]
                               /\ hops[v] = (hops[u] + 1) % 256
                               /\ next_hop[v] = IF u = tc_myself THEN SpfLink(v) ELSE next_hop[u]
        BY <1>1, <4>1 DEF SearchInv
      <4>4. u \in Final' /\ path_cost'[u] = path_cost[u] /\ hops'[u] = hops[u] /\ next_hop'[u] = next_hop[u]
        BY <1>5, <1>7
      <4>5. Usable(u, v)' /\ cost'[u][v] = cost[u][v] /\ SpfLink(v)' = SpfLink(v)
        BY <1>3, <1>8, <1>9, <4>3
      <4>6. /\ path_cost'[v] = path_cost'[u] + cost'[u][v]
            /\ hops'[v] = (hops'[u] + 1) % 256
            /\ next_hop'[v] = IF u = tc_myself THEN SpfLink(v)' ELSE next_hop'[u]
        BY <4>1, <4>3, <4>4, <4>5
      <4> QED BY <4>1, <4>2, <4>4, <4>5, <4>6
    <3> QED BY <3>2, <3>3
  <2> QED BY <1>5, <2>1, <2>2, <2>3, <2>4, <2>5, <2>6, <2>7 DEF SearchInv
<1> QED BY <1>1, <1>12, <1>13, <1>14 DEF IInv

(* The end of the search preserves the invariant.                          *)
LEMMA DoneInv == IInv /\ Done => IInv'
<1> SUFFICES ASSUME IInv, Done PROVE IInv'
  OBVIOUS
<1>1. TypeOK /\ CandidateExact /\ SearchInv /\ phase = "search" /\ phase' = "done" /\ cand_tree = {}
  BY DEF IInv, Done
<1>2. UNCHANGED <<cost, nbr, path_cost, next_hop, hops, cand_tree, path_list>>
  BY DEF Done
<1>3. Final' = Final /\ \A n : SpfLink(n)' = SpfLink(n)
  BY <1>2 DEF Final, SpfLink
<1>4. TypeOK'
  BY <1>1, <1>2, <1>3 DEF TypeOK
<1>5. CandidateExact'
  BY <1>1, <1>2, <1>3 DEF CandidateExact
<1>6. SearchInv'
  BY <1>1, <1>2, <1>3, SMTT(30) DEF SearchInv, Usable
<1> QED BY <1>1, <1>2, <1>4, <1>5, <1>6 DEF IInv

(* The invariant does not depend on anything but the variables.            *)
LEMMA StutterInv == IInv /\ UNCHANGED vars => IInv'
<1> SUFFICES ASSUME IInv, UNCHANGED vars PROVE IInv'
  OBVIOUS
<1>1. Final' = Final /\ \A n : SpfLink(n)' = SpfLink(n)
  BY DEF Final, SpfLink, vars
<1>2. TypeOK'
  BY <1>1 DEF TypeOK, vars, IInv
<1>3. CandidateExact'
  BY <1>1 DEF CandidateExact, vars, IInv
<1>4. SearchInv <=> SearchInv'
  BY <1>1, SMTT(30) DEF SearchInv, Usable, vars
<1> QED BY <1>2, <1>3, <1>4 DEF IInv, vars

(* The inductive invariant of the search.                                  *)
THEOREM Invariance == Spec => []IInv
<1>1. IInv /\ [Next]_vars => IInv'
  BY PrepareInv, RunFullInv, DoneInv, StutterInv DEF Next
<1> QED BY InitInv, <1>1, PTL DEF Spec

(* Costs, next hops and hop counts keep their types: no path cost leaves   *)
(* its 32 bits and every next hop is the best link of some neighbor.       *)
THEOREM TypeCorrect == Spec => []TypeOK
<1>1. IInv => TypeOK
  BY DEF IInv
<1> QED BY Invariance, <1>1, PTL

(* The path cost tells exactly whether a node is in the candidate tree or  *)
(* in the path list, on every graph.                                       *)
THEOREM Candidates == Spec => []CandidateExact
<1>1. IInv => CandidateExact
  BY DEF IInv
<1> QED BY Invariance, <1>1, PTL

(* The invariant, when the search is over, is the tree.                    *)
LEMMA TreeNow == IInv => SpfTree
<1> SUFFICES ASSUME IInv, phase = "done" PROVE SpfTree
  BY DEF SpfTree
<1>1. TypeOK /\ CandidateExact /\ SearchInv /\ cand_tree = {}
  BY DEF IInv
<1>2. Final = {n \in Nodes : path_cost[n] < RouteBroken}
  BY <1>1 DEF CandidateExact
<1>3. \A u, v \in Nodes : path_cost[u] < RouteBroken /\ Usable(u, v)
                            => path_cost[v] <= path_cost[u] + cost[u][v]
  BY <1>1, <1>2 DEF SearchInv
<1>4. ASSUME NEW v \in Others, path_cost[v] < RouteBroken
      PROVE  \E u \in Nodes :
               /\ path_cost[u] < RouteBroken /\ Usable(u, v)
               /\ path_cost[v] = path_cost[u] + cost[u][v]
               /\ hops[v] = (hops[u] + 1) % 256
               /\ next_hop[v] = IF u = tc_myself THEN SpfLink(v) ELSE next_hop[u]
  <2>1. PICK u \in Final : /\ Usable(u, v)
                           /\ path_cost[v] = path_cost[u] + cost[u][v]
                           /\ hops[v] = (hops[u] + 1) % 256
                           /\ next_hop[v] = IF u = tc_myself THEN SpfLink(v) ELSE next_hop[u]
    BY <1>1, <1>4 DEF SearchInv
  <2> QED BY <1>2, <2>1
<1> QED BY <1>3, <1>4 DEF SpfTree

(* The result of the search is a tree of cheapest paths: no edge improves  *)
(* it and each path extends the path of its predecessor.                   *)
THEOREM Tree == Spec => []SpfTree
<1> QED BY Invariance, TreeNow, PTL

(* Every node of the path list has a next hop: the best link, not lost, to *)
(* a symmetric neighbor.                                                   *)
THEOREM NextHops == Spec => []ReachedHasNextHop
<1>1. IInv => ReachedHasNextHop
  <2> SUFFICES ASSUME IInv, NEW n \in Others \cap Final
               PROVE  /\ next_hop[n] # Null
                      /\ next_hop[n].status # "LOST_LINK"
                      /\ \E m \in Others : /\ nbr[m].status = "SYM"
                                           /\ next_hop[n] = get_best_link_to_neighbor(nbr[m].links)
    BY DEF ReachedHasNextHop
  <2>1. phase # "start"
    BY SMTT(30) DEF IInv, Final, ToSet
  <2>2. TypeOK /\ CandidateExact /\ SearchInv
    BY <2>1 DEF IInv
  <2>3. n \in Nodes /\ path_cost[n] < RouteBroken
    BY <2>1, <2>2 DEF CandidateExact, Others
  <2>4. next_hop[n] # Null
    BY <2>2, <2>3 DEF SearchInv
  <2>5. PICK m \in Others : next_hop[n] = SpfLink(m)
    BY <2>2, <2>3, <2>4 DEF TypeOK
  <2> QED BY <2>4, <2>5 DEF SpfLink
<1> QED BY Invariance, <1>1, PTL

(* No pass changes the cost, next hop or hop count of a node in the path   *)
(* list.                                                                   *)
THEOREM Finality == Spec => FinalStaysFinal
<1> DEFINE A == phase = "search" =>
                  \A n \in Final : /\ path_cost'[n] = path_cost[n]
                                   /\ next_hop'[n] = next_hop[n]
                                   /\ hops'[n] = hops[n]
<1>1. IInv /\ [Next]_vars => [A]_vars
  <2> SUFFICES ASSUME IInv, Next, phase = "search", NEW n \in Final
               PROVE  /\ path_cost'[n] = path_cost[n]
                      /\ next_hop'[n] = next_hop[n]
                      /\ hops'[n] = hops[n]
    OBVIOUS
  <2>1. CASE Done
    BY <2>1 DEF Done
  <2>2. ASSUME NEW tc \in cand_tree, olsr_spf_run_full(tc)
        PROVE  /\ path_cost'[n] = path_cost[n]
               /\ next_hop'[n] = next_hop[n]
               /\ hops'[n] = hops[n]
    <3>1. n \notin Improved(tc)
      BY <2>2, RelaxCost
    <3>2. n \in Nodes
      BY DEF IInv, CandidateExact
    <3> QED BY <2>2, <3>1, <3>2 DEF olsr_spf_run_full, olsr_spf_relax
  <2> QED BY <2>1, <2>2 DEF Next, Prepare
<1> QED BY Invariance, <1>1, PTL DEF Spec, FinalStaysFinal

------------------------------------------------------------------------------
(* The search against the definition of a shortest path.  A node follows   *)
(* its predecessor in the path list, so that its path has fewer edges than *)
(* the list has entries.                                                   *)
LEMMA OrderedRunFull ==
  ASSUME IInv, PathsOrdered, NEW tc \in cand_tree, olsr_spf_run_full(tc)
  PROVE  PathsOrdered'
<1> DEFINE p == path_list
<1>1. TypeOK /\ CandidateExact /\ SearchInv /\ phase = "search"
  BY DEF IInv, olsr_spf_run_full
<1>2. p \in Seq(Nodes) /\ tc \in Nodes /\ tc \notin Final /\ Final \subseteq Nodes /\ path_cost[tc] < RouteBroken
  BY <1>1 DEF TypeOK, CandidateExact
<1>3. \A v \in Improved(tc) : v \notin Final /\ v # tc
  BY RelaxCost
<1>4. \A v \in Final \cup {tc} : path_cost'[v] = path_cost[v]
  BY <1>2, <1>3 DEF olsr_spf_run_full, olsr_spf_relax
<1>5. cost' = cost /\ path_list' = Append(p, tc)
  BY DEF olsr_spf_run_full
<1>0. PICK len : len = Len(p)
  OBVIOUS
<1>6. /\ DOMAIN path_list' = 1 .. len + 1
      /\ \A i \in 1 .. len : path_list'[i] = p[i]
      /\ path_list'[len + 1] = tc
      /\ len \in Nat /\ DOMAIN p = 1 .. len
  BY <1>0, <1>2, <1>5, AppendProperties, LenProperties, SMTT(30)
<1>7. \A i \in 1 .. len : p[i] \in Final
  BY <1>6 DEF Final, ToSet
<1> DEFINE Extends(i, j) == /\ Usable(path_list[j], path_list[i])
                            /\ path_cost[path_list[i]] = path_cost[path_list[j]] + cost[path_list[j]][path_list[i]]
<1>8. ASSUME NEW i \in 1 .. len, p[i] # tc_myself
      PROVE  \E j \in 1 .. i - 1 : Extends(i, j)'
  <2>1. PICK j \in 1 .. i - 1 : Extends(i, j)
    BY <1>6, <1>8 DEF PathsOrdered
  <2>2. j \in 1 .. len
    BY <1>6, SMTT(30)
  <2>3. Extends(i, j)'
    BY <1>4, <1>5, <1>6, <1>7, <2>1, <2>2 DEF Usable
  <2> QED BY <2>3
<1>9. ASSUME tc # tc_myself
      PROVE  \E j \in 1 .. len : Extends(len + 1, j)'
  <2>1. tc \in Others
    BY <1>2, <1>9 DEF Others
  <2>2. PICK u \in Final : Usable(u, tc) /\ path_cost[tc] = path_cost[u] + cost[u][tc]
    BY <1>1, <1>2, <2>1, SMTT(30) DEF SearchInv
  <2>3. PICK j \in 1 .. len : u = p[j]
    BY <1>6 DEF Final, ToSet
  <2>4. Extends(len + 1, j)'
    BY <1>4, <1>5, <1>6, <2>2, <2>3 DEF Usable
  <2> QED BY <2>4
<1>10. ASSUME NEW i \in 1 .. len + 1, path_list'[i] # tc_myself
       PROVE  \E j \in 1 .. i - 1 : Extends(i, j)'
  <2>1. CASE i = len + 1
    <3>1. i - 1 = len
      BY <1>6, <2>1, SMTT(30)
    <3> QED BY <1>6, <1>9, <1>10, <2>1, <3>1
  <2>2. CASE i # len + 1
    <3>1. i \in 1 .. len
      BY <1>6, <2>2, SMTT(30)
    <3> QED BY <1>6, <1>8, <1>10, <3>1
  <2> QED BY <2>1, <2>2
<1> QED BY <1>6, <1>10 DEF PathsOrdered

LEMMA OrderedNext == IInv /\ PathsOrdered /\ [Next]_vars => PathsOrdered'
<1> SUFFICES ASSUME IInv, PathsOrdered, [Next]_vars PROVE PathsOrdered'
  OBVIOUS
<1>1. CASE Prepare
  BY <1>1, SMTT(30) DEF Prepare, PathsOrdered
<1>2. CASE Done \/ UNCHANGED vars
  BY <1>2 DEF Done, vars, PathsOrdered, Usable
<1> QED BY <1>1, <1>2, OrderedRunFull DEF Next

------------------------------------------------------------------------------
(* A set of natural numbers that is not empty has a least member.          *)
LEMMA LeastNumber ==
  ASSUME NEW S, S \subseteq Nat, S # {}
  PROVE  \E m \in S : \A x \in S : m <= x
<1>1. PICK m \in S : \A x \in S : ~(<<x, m>> \in OpToRel(<, Nat))
  BY NatLessThanWellFounded, WFMin
<1>2. ASSUME NEW x \in S PROVE m <= x
  <2>1. ~(x < m)
    BY <1>1 DEF OpToRel
  <2> QED BY <2>1, SMTT(30)
<1> QED BY <1>2

LEMMA LeastIsMin ==
  ASSUME NEW S, S \subseteq Nat, S # {}
  PROVE  Min(S) \in S /\ \A x \in S : Min(S) <= x
BY LeastNumber DEF Min

(* One more edge: no path gets longer, each edge is tried, and a shorter   *)
(* path has one.                                                           *)
LEMMA OneEdge ==
  ASSUME TypeOK, NEW d \in [Nodes -> 0 .. RouteBroken], NEW n \in Nodes
  PROVE  /\ OneMoreEdge(d)[n] \in 0 .. RouteBroken /\ OneMoreEdge(d)[n] <= d[n]
         /\ \A u \in Nodes : Usable(u, n) /\ d[u] < RouteBroken => OneMoreEdge(d)[n] <= d[u] + cost[u][n]
         /\ \/ OneMoreEdge(d)[n] = d[n]
            \/ \E u \in Nodes : /\ Usable(u, n) /\ d[u] < RouteBroken
                                /\ OneMoreEdge(d)[n] = d[u] + cost[u][n]
<1> DEFINE W == {w \in Nodes : Usable(w, n) /\ d[w] < RouteBroken}
           S == {d[n]} \cup {d[u] + cost[u][n] : u \in W}
<1>1. RouteBroken \in Nat /\ MaxCost \in Nat
  BY SpfAssumption
<1>2. \A u \in W : cost[u][n] \in 0 .. MaxCost /\ d[u] \in Nat /\ d[u] + cost[u][n] \in Nat
  BY <1>1, SMTT(30) DEF Usable
<1>3. d[n] \in 0 .. RouteBroken
  OBVIOUS
<1>4. S \subseteq Nat /\ S # {}
  BY <1>1, <1>2, <1>3, SMTT(30)
<1>5. Min(S) \in S /\ \A x \in S : Min(S) <= x
  <2> HIDE DEF S
  <2> QED BY <1>4, LeastIsMin
<1>6. OneMoreEdge(d)[n] = Min(S)
  BY DEF OneMoreEdge
<1> DEFINE m == Min(S)
<1> HIDE DEF m
<1>7. m \in S /\ m <= d[n] /\ \A u \in W : m <= d[u] + cost[u][n]
  BY <1>5 DEF m
<1>8. m \in Nat
  BY <1>4, <1>7
<1>9. m \in 0 .. RouteBroken
  BY <1>1, <1>3, <1>7, <1>8, SMTT(30)
<1>10. m = d[n] \/ \E u \in W : m = d[u] + cost[u][n]
  BY <1>7
<1> QED BY <1>6, <1>7, <1>9, <1>10 DEF m

(* The function of the distances exists, up to any number of edges: there  *)
(* is no least number up to which it does not.                             *)
DistancesUpTo(f, m) == f = [k \in 0 .. m |-> IF k = 0 THEN NoEdges ELSE OneMoreEdge(f[k - 1])]

LEMMA DistancesExist ==
  ASSUME NEW N \in Nat
  PROVE  \E f : DistancesUpTo(f, N)
<1> DEFINE Bad == {m \in Nat : ~\E f : DistancesUpTo(f, m)}
<1> SUFFICES ASSUME N \in Bad PROVE FALSE
  OBVIOUS
<1>1. PICK m \in Bad : \A x \in Bad : m <= x
  <2>1. Bad \subseteq Nat /\ Bad # {}
    OBVIOUS
  <2> HIDE DEF Bad
  <2> QED BY <2>1, LeastNumber
<1>2. m \in Nat /\ ~\E f : DistancesUpTo(f, m)
  OBVIOUS
<1>3. CASE m = 0
  <2> DEFINE f == [k \in 0 .. 0 |-> NoEdges]
  <2>1. f = [k \in 0 .. 0 |-> IF k = 0 THEN NoEdges ELSE OneMoreEdge(f[k - 1])]
    BY SMTT(30)
  <2> HIDE DEF f
  <2>2. DistancesUpTo(f, 0)
    BY <2>1 DEF DistancesUpTo
  <2> QED BY <1>2, <1>3, <2>2
<1>4. CASE m # 0
  <2>1. m - 1 \in Nat /\ ~(m <= m - 1)
    BY <1>2, <1>4, SMTT(30)
  <2>2. m - 1 \notin Bad
    BY <1>1, <2>1
  <2>3. PICK f : DistancesUpTo(f, m - 1)
    BY <2>1, <2>2
  <2>4. f = [k \in 0 .. m - 1 |-> IF k = 0 THEN NoEdges ELSE OneMoreEdge(f[k - 1])]
    BY <2>3 DEF DistancesUpTo
  <2> DEFINE g == [k \in 0 .. m |-> IF k = m THEN OneMoreEdge(f[m - 1]) ELSE f[k]]
             h == [k \in 0 .. m |-> IF k = 0 THEN NoEdges ELSE OneMoreEdge(g[k - 1])]
  <2>5. ASSUME NEW k \in 0 .. m PROVE g[k] = h[k]
    <3>1. CASE k = m
      <4>1. g[m - 1] = f[m - 1]
        BY <2>1, <1>2, SMTT(30)
      <4> QED BY <3>1, <4>1, <1>2, <1>4
    <3>2. CASE k # m /\ k # 0
      <4>1. k \in 0 .. m - 1 /\ k - 1 \in 0 .. m /\ k - 1 # m
        BY <3>2, <1>2, SMTT(30)
      <4>2. f[k] = OneMoreEdge(f[k - 1]) /\ g[k] = f[k] /\ g[k - 1] = f[k - 1]
        BY <2>4, <3>2, <4>1
      <4>3. h[k] = OneMoreEdge(g[k - 1])
        BY <3>2
      <4> QED BY <4>2, <4>3
    <3>3. CASE k # m /\ k = 0
      <4>1. k \in 0 .. m - 1
        BY <3>3, <1>2, SMTT(30)
      <4> QED BY <2>4, <3>3, <4>1
    <3> QED BY <3>1, <3>2, <3>3
  <2>6. g = h
    BY <2>5
  <2> HIDE DEF g
  <2>7. DistancesUpTo(g, m)
    BY <2>6 DEF DistancesUpTo
  <2> QED BY <1>2, <2>7
<1> QED BY <1>3, <1>4

LEMMA DistancesDef ==
  /\ Cardinality(Nodes) \in Nat /\ Distances[0] = NoEdges
  /\ \A k \in 1 .. Cardinality(Nodes) : Distances[k] = OneMoreEdge(Distances[k - 1])
<1>1. Cardinality(Nodes) \in Nat
  BY SpfAssumption, FS_CardinalityType
<1>2. \E f : f = [k \in 0 .. Cardinality(Nodes) |-> IF k = 0 THEN NoEdges ELSE OneMoreEdge(f[k - 1])]
  BY <1>1, DistancesExist DEF DistancesUpTo
<1>3. Distances = [k \in 0 .. Cardinality(Nodes) |-> IF k = 0 THEN NoEdges ELSE OneMoreEdge(Distances[k - 1])]
  BY <1>2 DEF Distances
<1> QED BY <1>1, <1>3, SMTT(30)

(* Where no edge improves a cost, no path of any length does.              *)
LEMMA NoneShorter ==
  ASSUME IInv, phase = "done", NEW k \in 0 .. Cardinality(Nodes)
  PROVE  Distances[k] \in [Nodes -> 0 .. RouteBroken] /\ \A n \in Nodes : path_cost[n] <= Distances[k][n]
<1> DEFINE N == Cardinality(Nodes)
           Fine(i) == Distances[i] \in [Nodes -> 0 .. RouteBroken] /\ \A n \in Nodes : path_cost[n] <= Distances[i][n]
           Bad == {i \in 0 .. N : ~Fine(i)}
<1>1. N \in Nat /\ RouteBroken \in Nat /\ MaxCost \in Nat /\ tc_myself \in Nodes
  BY DistancesDef, SpfAssumption
<1>2. TypeOK /\ SearchInv /\ SpfTree
  BY TreeNow DEF IInv
<1>3. \A n \in Nodes : path_cost[n] \in 0 .. RouteBroken
  BY <1>2 DEF TypeOK
<1> SUFFICES ASSUME k \in Bad PROVE FALSE
  OBVIOUS
<1>4. PICK m \in Bad : \A x \in Bad : m <= x
  <2>1. Bad \subseteq Nat /\ Bad # {}
    BY <1>1, SMTT(30)
  <2> HIDE DEF Bad
  <2> QED BY <2>1, LeastNumber
<1>5. m \in 0 .. N /\ m \in Nat /\ ~Fine(m)
  BY <1>1, SMTT(30)
<1>6. CASE m = 0
  <2>1. Distances[0] = NoEdges
    BY DistancesDef
  <2>2. NoEdges \in [Nodes -> 0 .. RouteBroken]
    BY <1>1, SMTT(30) DEF NoEdges
  <2>3. \A n \in Nodes : path_cost[n] <= NoEdges[n]
    BY <1>1, <1>2, <1>3, SMTT(30) DEF NoEdges, SearchInv
  <2> QED BY <1>5, <1>6, <2>1, <2>2, <2>3
<1>7. CASE m # 0
  <2>1. m - 1 \in 0 .. N /\ ~(m <= m - 1) /\ m \in 1 .. N
    BY <1>1, <1>5, <1>7, SMTT(30)
  <2>2. Fine(m - 1)
    BY <1>4, <2>1
  <2> DEFINE d == Distances[m - 1]
  <2>3. d \in [Nodes -> 0 .. RouteBroken] /\ \A n \in Nodes : path_cost[n] <= d[n]
    BY <2>2
  <2>4. Distances[m] = OneMoreEdge(d)
    BY <2>1, DistancesDef
  <2> HIDE DEF d
  <2>5. ASSUME NEW n \in Nodes PROVE OneMoreEdge(d)[n] \in 0 .. RouteBroken /\ path_cost[n] <= OneMoreEdge(d)[n]
    <3>1. OneMoreEdge(d)[n] \in 0 .. RouteBroken
      BY <1>2, <2>3, OneEdge
    <3>2. CASE OneMoreEdge(d)[n] = d[n]
      BY <2>3, <3>1, <3>2
    <3>3. ASSUME NEW u \in Nodes, Usable(u, n), d[u] < RouteBroken, OneMoreEdge(d)[n] = d[u] + cost[u][n]
          PROVE  path_cost[n] <= OneMoreEdge(d)[n]
      <4>1. /\ path_cost[u] \in 0 .. RouteBroken /\ d[u] \in 0 .. RouteBroken
            /\ path_cost[u] <= d[u] /\ cost[u][n] \in 0 .. MaxCost /\ path_cost[n] \in 0 .. RouteBroken
        BY <1>3, <2>3, <3>3 DEF Usable
      <4>2. path_cost[u] < RouteBroken
        BY <1>1, <3>3, <4>1, SMTT(30)
      <4>3. path_cost[n] <= path_cost[u] + cost[u][n]
        BY <1>2, <3>3, <4>2 DEF SpfTree
      <4> HIDE DEF d
      <4> QED BY <1>1, <3>3, <4>1, <4>3, SMTT(30)
    <3>4. \/ OneMoreEdge(d)[n] = d[n]
          \/ \E u \in Nodes : Usable(u, n) /\ d[u] < RouteBroken /\ OneMoreEdge(d)[n] = d[u] + cost[u][n]
      BY <1>2, <2>3, OneEdge
    <3> QED BY <3>1, <3>2, <3>3, <3>4
  <2>6. OneMoreEdge(d) \in [Nodes -> 0 .. RouteBroken]
    <3>1. DOMAIN OneMoreEdge(d) = Nodes /\ OneMoreEdge(d) = [n \in Nodes |-> OneMoreEdge(d)[n]]
      BY DEF OneMoreEdge
    <3> QED BY <2>5, <3>1
  <2> QED BY <1>5, <2>4, <2>5, <2>6
<1> QED BY <1>6, <1>7

(* The node at a position of the path list has a path with fewer edges.    *)
LEMMA FoundInOrder ==
  ASSUME IInv, PathsOrdered, phase = "done", NEW k \in 0 .. Cardinality(Nodes)
  PROVE  \A i \in DOMAIN path_list : i <= k + 1 => Distances[k][path_list[i]] <= path_cost[path_list[i]]
<1> DEFINE N == Cardinality(Nodes)
           p == path_list
           Found(j) == \A i \in DOMAIN p : i <= j + 1 => Distances[j][p[i]] <= path_cost[p[i]]
           Bad == {j \in 0 .. N : ~Found(j)}
<1>1. N \in Nat /\ RouteBroken \in Nat /\ MaxCost \in Nat /\ tc_myself \in Nodes
  BY DistancesDef, SpfAssumption
<1>2. TypeOK /\ CandidateExact /\ SearchInv
  BY DEF IInv
<1>3. Len(p) \in Nat /\ DOMAIN p = 1 .. Len(p) /\ \A i \in DOMAIN p : p[i] \in Nodes
  BY <1>2, LenProperties, ElementOfSeq DEF TypeOK
<1>4. \A n \in Nodes : path_cost[n] \in 0 .. RouteBroken
  BY <1>2 DEF TypeOK
<1>5. \A i \in DOMAIN p : path_cost[p[i]] < RouteBroken
  BY <1>2, <1>3 DEF CandidateExact, Final, ToSet
<1> SUFFICES ASSUME k \in Bad PROVE FALSE
  OBVIOUS
<1>6. PICK m \in Bad : \A x \in Bad : m <= x
  <2>1. Bad \subseteq Nat /\ Bad # {}
    BY <1>1, SMTT(30)
  <2> HIDE DEF Bad
  <2> QED BY <2>1, LeastNumber
<1>7. m \in 0 .. N /\ m \in Nat /\ ~Found(m)
  BY <1>1, SMTT(30)
<1>8. PICK i \in DOMAIN p : i <= m + 1 /\ ~(Distances[m][p[i]] <= path_cost[p[i]])
  BY <1>7
<1>9. i \in Nat /\ i >= 1
  BY <1>3, SMTT(30)
<1>10. CASE m = 0
  <2>1. i = 1
    BY <1>8, <1>9, <1>10, SMTT(30)
  <2>2. p[i] = tc_myself
    BY <2>1, SMTT(30) DEF PathsOrdered
  <2>3. Distances[0][tc_myself] = 0 /\ path_cost[tc_myself] = 0
    BY <1>1, <1>2, DistancesDef DEF NoEdges, SearchInv
  <2> QED BY <1>8, <1>10, <2>2, <2>3, SMTT(30)
<1>11. CASE m # 0
  <2>1. m - 1 \in 0 .. N /\ ~(m <= m - 1) /\ m \in 1 .. N
    BY <1>1, <1>7, <1>11, SMTT(30)
  <2>2. Found(m - 1)
    BY <1>6, <2>1
  <2> DEFINE d == Distances[m - 1]
             e == Distances[m]
             v == p[i]
  <2>3. d \in [Nodes -> 0 .. RouteBroken] /\ e \in [Nodes -> 0 .. RouteBroken]
    BY <2>1, <1>7, NoneShorter
  <2>4. e = OneMoreEdge(d)
    BY <2>1, DistancesDef
  <2>5. v \in Nodes /\ ~(e[v] <= path_cost[v])
    BY <1>3, <1>8
  <2>6. \A j \in DOMAIN p : j <= m => d[p[j]] <= path_cost[p[j]]
    BY <1>7, <2>2, SMTT(30)
  <2> HIDE DEF d, e
  <2>7. /\ e[v] \in 0 .. RouteBroken /\ d[v] \in 0 .. RouteBroken /\ path_cost[v] \in 0 .. RouteBroken
        /\ e[v] <= d[v]
        /\ \A u \in Nodes : Usable(u, v) /\ d[u] < RouteBroken => e[v] <= d[u] + cost[u][v]
    BY <1>2, <1>4, <2>3, <2>4, <2>5, OneEdge
  <2>8. ~(d[v] <= path_cost[v])
    BY <2>5, <2>7, SMTT(30)
  <2>9. i = m + 1
    BY <1>7, <1>8, <1>9, <2>6, <2>8, SMTT(30)
  <2>10. CASE v = tc_myself
    <3>1. 1 \in DOMAIN p /\ 1 <= m
      BY <1>3, <1>9, <2>1, SMTT(30)
    <3>2. p[1] = tc_myself
      BY <3>1, SMTT(30) DEF PathsOrdered
    <3> QED BY <2>6, <2>8, <2>10, <3>1, <3>2
  <2>11. CASE v # tc_myself
    <3>1. PICK j \in 1 .. i - 1 : Usable(p[j], v) /\ path_cost[v] = path_cost[p[j]] + cost[p[j]][v]
      BY <2>11 DEF PathsOrdered
    <3>2. j \in DOMAIN p /\ j <= m
      BY <1>3, <1>9, <2>9, <3>1, SMTT(30)
    <3> DEFINE u == p[j]
    <3>3. u \in Nodes /\ d[u] <= path_cost[u] /\ path_cost[u] < RouteBroken
      BY <1>3, <1>5, <2>6, <3>2
    <3>4. d[u] \in 0 .. RouteBroken /\ path_cost[u] \in 0 .. RouteBroken /\ cost[u][v] \in 0 .. MaxCost
      BY <1>4, <2>3, <3>1, <3>3 DEF Usable
    <3> HIDE DEF u
    <3>5. d[u] < RouteBroken
      BY <1>1, <3>3, <3>4, SMTT(30)
    <3>6. e[v] <= d[u] + cost[u][v]
      BY <2>7, <3>1, <3>3, <3>5 DEF u
    <3>7. path_cost[v] = path_cost[u] + cost[u][v]
      BY <3>1 DEF u
    <3> HIDE DEF v
    <3> QED BY <1>1, <2>5, <2>7, <3>3, <3>4, <3>6, <3>7, SMTT(30)
  <2> QED BY <2>10, <2>11
<1> QED BY <1>10, <1>11

(* A list without duplicates is no longer than there are nodes.            *)
LEMMA ListFits ==
  ASSUME NEW S, IsFiniteSet(S), NEW p \in Seq(S), \A i, j \in DOMAIN p : p[i] = p[j] => i = j
  PROVE  Len(p) <= Cardinality(S)
<1>1. Len(p) \in Nat /\ DOMAIN p = 1 .. Len(p) /\ p \in [1 .. Len(p) -> S]
  BY LenProperties
<1>2. p \in Injection(1 .. Len(p), S)
  BY <1>1 DEF Injection, IsInjective
<1>3. Cardinality(1 .. Len(p)) <= Cardinality(S)
  BY <1>2, FS_Injection
<1>4. Cardinality(1 .. Len(p)) = Len(p)
  BY <1>1, FS_Interval, SMTT(30)
<1> QED BY <1>3, <1>4

(* The search ends, on every graph, with the costs of the shortest paths   *)
(* of the definition, for the nodes that have one, and with                *)
(* ROUTE_COST_BROKEN for the others (olsr_spf_run_full).                   *)
THEOREM Shortest == Spec => []ShortestPaths
<1>1. Init => PathsOrdered
  BY SMTT(30) DEF Init, PathsOrdered
<1>2. IInv /\ PathsOrdered => ShortestPaths
  <2> SUFFICES ASSUME IInv, PathsOrdered, phase = "done" PROVE path_cost = Distance
    BY DEF ShortestPaths
  <2> DEFINE N == Cardinality(Nodes)
  <2>1. TypeOK /\ CandidateExact /\ cand_tree = {} /\ N \in Nat /\ N \in 0 .. N /\ RouteBroken \in Nat
    BY DistancesDef, SpfAssumption, SMTT(30) DEF IInv
  <2>2. Distance \in [Nodes -> 0 .. RouteBroken] /\ \A n \in Nodes : path_cost[n] <= Distance[n]
    BY <2>1, NoneShorter DEF Distance
  <2>3. path_list \in Seq(Nodes) /\ path_cost \in [Nodes -> 0 .. RouteBroken]
    BY <2>1 DEF TypeOK
  <2>4. Len(path_list) \in Nat /\ DOMAIN path_list = 1 .. Len(path_list)
    BY <2>3, LenProperties
  <2>5. Len(path_list) <= N
    <3>1. \A i, j \in DOMAIN path_list : path_list[i] = path_list[j] => i = j
      BY <2>1 DEF CandidateExact
    <3> QED BY <2>3, <3>1, ListFits, SpfAssumption
  <2>6. ASSUME NEW n \in Nodes PROVE path_cost[n] = Distance[n]
    <3>1. CASE path_cost[n] < RouteBroken
      <4>1. n \in Final
        BY <2>1, <3>1 DEF CandidateExact
      <4>2. PICK i \in DOMAIN path_list : n = path_list[i]
        BY <4>1 DEF Final, ToSet
      <4>3. i <= N + 1
        BY <2>1, <2>4, <2>5, SMTT(30)
      <4>4. Distance[n] <= path_cost[n]
        BY <2>1, <4>2, <4>3, FoundInOrder DEF Distance
      <4> QED BY <2>2, <2>3, <4>4, SMTT(30)
    <3>2. CASE ~(path_cost[n] < RouteBroken)
      <4>1. path_cost[n] = RouteBroken
        BY <2>1, <2>3, <3>2, SMTT(30)
      <4> QED BY <2>1, <2>2, <4>1, SMTT(30)
    <3> QED BY <3>1, <3>2
  <2> QED BY <2>2, <2>3, <2>6, SMTT(30)
<1> QED BY Invariance, OrderedNext, <1>1, <1>2, PTL DEF Spec
=============================================================================
