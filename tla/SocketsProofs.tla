---------------------------- MODULE SocketsProofs ----------------------------
(***************************************************************************)
(* Proofs about Sockets, for any number of descriptors, of entries and of  *)
(* calls of select.                                                        *)
(***************************************************************************)
EXTENDS Sockets, SequenceTheorems, WellFoundedInduction, TLAPS

(* Most obligations are first-order: Zenon proves them, SMT the others.     *)
USE ZenonT(60)

Entry == [fd : Descriptors, handlers : SUBSET Rates, flags : SUBSET Directions]

(* The list without one of its entries.                                    *)
LEMMA Without ==
  ASSUME NEW S, NEW s \in Seq(S), NEW i \in DOMAIN s, NEW t, t = RemoveAt(s, i)
  PROVE  /\ t \in Seq(S) /\ Len(t) = Len(s) - 1 /\ Len(s) \in Nat
         /\ \A j \in DOMAIN t : t[j] = IF j < i THEN s[j] ELSE s[j + 1]
<1>1. Len(s) \in Nat /\ DOMAIN s = 1 .. Len(s) /\ i \in 1 .. Len(s)
  BY LenProperties
<1> DEFINE a == SubSeq(s, 1, i - 1)
           b == SubSeq(s, i + 1, Len(s))
<1>2. /\ a \in Seq(S) /\ Len(a) = i - 1
      /\ \A j \in 1 .. i - 1 : a[j] = s[j]
  BY <1>1, SubSeqProperties, SMTT(30)
<1>3. /\ b \in Seq(S) /\ Len(b) = Len(s) - i
      /\ \A j \in 1 .. Len(s) - i : b[j] = s[i + j]
  BY <1>1, SubSeqProperties, SMTT(30)
<1>4. t = a \o b
  BY DEF RemoveAt
<1> HIDE DEF a, b
<1>5. /\ a \o b \in Seq(S) /\ Len(a \o b) = Len(a) + Len(b)
      /\ \A j \in 1 .. Len(a) + Len(b) : (a \o b)[j] = IF j <= Len(a) THEN a[j] ELSE b[j - Len(a)]
  BY <1>2, <1>3, ConcatProperties
<1>6. t \in Seq(S) /\ Len(t) = Len(s) - 1 /\ DOMAIN t = 1 .. Len(s) - 1
  <2>1. t \in Seq(S) /\ Len(t) = Len(a) + Len(b)
    BY <1>4, <1>5
  <2>2. Len(t) = Len(s) - 1
    BY <1>1, <1>2, <1>3, <2>1, SMTT(30)
  <2>3. DOMAIN t = 1 .. Len(t)
    BY <2>1, LenProperties
  <2> QED BY <2>1, <2>2, <2>3
<1>7. ASSUME NEW j \in DOMAIN t PROVE t[j] = IF j < i THEN s[j] ELSE s[j + 1]
  <2>1. j \in 1 .. Len(a) + Len(b) /\ t[j] = IF j <= Len(a) THEN a[j] ELSE b[j - Len(a)]
    BY <1>1, <1>2, <1>3, <1>4, <1>5, <1>6
  <2>2. CASE j < i
    BY <1>1, <1>2, <2>1, <2>2, SMTT(30)
  <2>3. CASE ~(j < i)
    <3>1. j - Len(a) \in 1 .. Len(s) - i /\ i + (j - Len(a)) = j + 1 /\ ~(j <= Len(a))
      BY <1>1, <1>2, <1>3, <2>1, <2>3, SMTT(30)
    <3> QED BY <1>3, <2>1, <2>3, <3>1
  <2> QED BY <2>2, <2>3
<1> QED BY <1>1, <1>6, <1>7

(* The kernel hands out a free descriptor.                                 *)
LEMMA LowestFree ==
  ASSUME NEW F, F \subseteq Descriptors, F # {}, NEW fd, fd = CHOOSE f \in F : \A g \in F : f <= g
  PROVE  fd \in F
<1>1. F \subseteq Nat
  BY SocketsAssumption
<1>2. PICK m \in F : \A x \in F : ~(<<x, m>> \in OpToRel(<, Nat))
  BY <1>1, NatLessThanWellFounded, WFMin
<1>3. ASSUME NEW x \in F PROVE m <= x
  <2>1. ~(x < m)
    BY <1>1, <1>2 DEF OpToRel
  <2> QED BY <1>1, <2>1, SMTT(30)
<1> QED BY <1>3

----------------------------------------------------------------------------
(* The list and the open descriptors.                                      *)

Live(h) == {i \in DOMAIN h : h[i].handlers # {}}

(* The registered descriptors are the open ones, each registered once.     *)
Fits(h, o) ==
  /\ \A i \in Live(h) : h[i].fd \in o
  /\ \A f \in o : \E i \in Live(h) : h[i].fd = f
  /\ \A i, j \in Live(h) : h[i].fd = h[j].fd => i = j

(* What the list g has kept of the list h: no entry is back, or is         *)
(* another, or has moved.                                                  *)
Keeps(h, g) ==
  /\ DOMAIN h \subseteq DOMAIN g
  /\ \A i \in DOMAIN h : i \in Live(g) =>
       i \in Live(h) /\ g[i].fd = h[i].fd /\ g[i].handlers = h[i].handlers

LEMMA FitsIs == Fits(socket_head, open_fds) <=> OpenRegistered /\ RegisteredOnce
BY SMTT(30) DEF Fits, Live, OpenRegistered, RegisteredOnce, Registered

LEMMA AppendFits ==
  ASSUME NEW h \in Seq(Entry), NEW o, Fits(h, o), NEW e \in Entry, e.handlers # {}, e.fd \notin o,
         NEW g, g = Append(h, e)
  PROVE  /\ g \in Seq(Entry) /\ Len(g) = Len(h) + 1
         /\ Fits(g, o \cup {e.fd}) /\ Keeps(h, g)
<1>1. /\ Len(h) \in Nat /\ DOMAIN h = 1 .. Len(h)
      /\ g \in Seq(Entry) /\ Len(g) = Len(h) + 1 /\ DOMAIN g = 1 .. Len(h) + 1
      /\ g[Len(h) + 1] = e /\ \A i \in 1 .. Len(h) : g[i] = h[i]
  <2>1. Len(h) \in Nat /\ DOMAIN h = 1 .. Len(h)
    BY LenProperties
  <2>2. /\ g \in Seq(Entry) /\ Len(g) = Len(h) + 1
        /\ g[Len(h) + 1] = e /\ \A i \in 1 .. Len(h) : g[i] = h[i]
    BY AppendProperties, SMTT(30)
  <2>3. DOMAIN g = 1 .. Len(g)
    BY <2>2, LenProperties
  <2> QED BY <2>1, <2>2, <2>3
<1>2. Live(g) = Live(h) \cup {Len(h) + 1} /\ \A i \in Live(h) : i \in 1 .. Len(h)
  BY <1>1, SMTT(30) DEF Live
<1>3. \A i \in Live(h) : g[i] = h[i]
  BY <1>1, <1>2
<1>4. \A i \in Live(h) : h[i].fd \in o /\ h[i].fd # e.fd
  BY DEF Fits
<1>5. Fits(g, o \cup {e.fd})
  <2>1. \A i \in Live(g) : g[i].fd \in o \cup {e.fd}
    BY <1>1, <1>2, <1>3, <1>4
  <2>2. \A f \in o \cup {e.fd} : \E i \in Live(g) : g[i].fd = f
    BY <1>1, <1>2, <1>3, SMTT(30) DEF Fits
  <2>3. \A i, j \in Live(g) : g[i].fd = g[j].fd => i = j
    BY <1>1, <1>2, <1>3, <1>4, SMTT(30) DEF Fits
  <2> QED BY <2>1, <2>2, <2>3 DEF Fits
<1>6. Keeps(h, g)
  BY <1>1, SMTT(30) DEF Keeps, Live
<1> QED BY <1>1, <1>5, <1>6

LEMMA MarkedIs ==
  ASSUME NEW e \in Entry
  PROVE  Marked(e) \in Entry /\ Marked(e).handlers = {} /\ Marked(e).fd = e.fd
<1> DEFINE d == [e EXCEPT !.handlers = {}]
<1>1. d \in Entry /\ d.handlers = {} /\ d.fd = e.fd
  BY DEF Entry
<1>2. Marked(e) = [d EXCEPT !.flags = {}]
  BY DEF Marked, Entry
<1> HIDE DEF d
<1> QED BY <1>1, <1>2 DEF Entry

LEMMA MarkFits ==
  ASSUME NEW h \in Seq(Entry), NEW o, Fits(h, o), NEW i \in Live(h),
         NEW g, g = [h EXCEPT ![i] = Marked(@)]
  PROVE  /\ g \in Seq(Entry) /\ Len(g) = Len(h)
         /\ Fits(g, o \ {h[i].fd}) /\ Keeps(h, g)
<1>1. Len(h) \in Nat /\ DOMAIN h = 1 .. Len(h) /\ i \in DOMAIN h /\ h[i] \in Entry
  BY LenProperties, ElementOfSeq DEF Live
<1> DEFINE m == Marked(h[i])
<1>2. m \in Entry /\ m.handlers = {}
  BY <1>1, MarkedIs
<1>3. g = [h EXCEPT ![i] = m]
  OBVIOUS
<1> HIDE DEF m
<1>4. g \in Seq(Entry) /\ Len(g) = Len(h) /\ DOMAIN g = DOMAIN h
  BY <1>1, <1>2, <1>3, ExceptSeq, SMTT(30)
<1>5. g[i] = m /\ \A j \in DOMAIN h : j # i => g[j] = h[j]
  BY <1>1, <1>3
<1>6. Live(g) = Live(h) \ {i}
  BY <1>1, <1>2, <1>4, <1>5 DEF Live
<1>7. \A j \in Live(g) : j \in Live(h) /\ g[j] = h[j]
  BY <1>5, <1>6 DEF Live
<1>8. Fits(g, o \ {h[i].fd})
  <2>1. \A j \in Live(g) : g[j].fd \in o \ {h[i].fd}
    BY <1>6, <1>7 DEF Fits
  <2>2. ASSUME NEW f \in o \ {h[i].fd} PROVE \E j \in Live(g) : g[j].fd = f
    <3>1. PICK j \in Live(h) : h[j].fd = f
      BY DEF Fits
    <3>2. j \in Live(g)
      BY <1>6, <3>1
    <3> QED BY <1>7, <3>1, <3>2
  <2>3. \A j, k \in Live(g) : g[j].fd = g[k].fd => j = k
    BY <1>7 DEF Fits
  <2> QED BY <2>1, <2>2, <2>3 DEF Fits
<1>9. Keeps(h, g)
  BY <1>4, <1>7 DEF Keeps
<1> QED BY <1>4, <1>8, <1>9

LEMMA FlagsFit ==
  ASSUME NEW h \in Seq(Entry), NEW o, Fits(h, o), NEW g \in Seq(Entry), DOMAIN g = DOMAIN h,
         \A i \in DOMAIN h : g[i].fd = h[i].fd /\ g[i].handlers = h[i].handlers
  PROVE  Len(g) = Len(h) /\ Fits(g, o) /\ Keeps(h, g)
<1>1. Live(g) = Live(h) /\ \A i \in Live(h) : i \in DOMAIN h
  BY DEF Live
<1>2. Fits(g, o)
  BY <1>1 DEF Fits
<1>3. Keeps(h, g)
  BY <1>1 DEF Keeps
<1>4. Len(g) = Len(h)
  BY LenProperties, SMTT(30)
<1> QED BY <1>2, <1>3, <1>4

LEMMA FreeFits ==
  ASSUME NEW h \in Seq(Entry), NEW o, Fits(h, o), NEW i \in DOMAIN h, h[i].handlers = {},
         NEW g, g = RemoveAt(h, i)
  PROVE  g \in Seq(Entry) /\ Fits(g, o)
<1>1. /\ g \in Seq(Entry) /\ Len(g) = Len(h) - 1 /\ Len(h) \in Nat
      /\ \A j \in DOMAIN g : g[j] = IF j < i THEN h[j] ELSE h[j + 1]
  BY Without, SMTT(30)
<1>2. DOMAIN h = 1 .. Len(h) /\ DOMAIN g = 1 .. Len(h) - 1
  BY <1>1, LenProperties
<1> DEFINE Old(j) == IF j < i THEN j ELSE j + 1
           New(j) == IF j < i THEN j ELSE j - 1
<1>3. ASSUME NEW j \in Live(g) PROVE Old(j) \in Live(h) /\ g[j] = h[Old(j)]
  BY <1>1, <1>2, SMTT(30) DEF Live
<1>4. ASSUME NEW j \in Live(h) PROVE New(j) \in Live(g) /\ g[New(j)] = h[j] 
  <2>1. j \in 1 .. Len(h) /\ j # i /\ i \in 1 .. Len(h) /\ h[j].handlers # {}
    BY <1>2 DEF Live
  <2>2. New(j) \in DOMAIN g /\ (IF New(j) < i THEN New(j) ELSE New(j) + 1) = j
    BY <1>1, <1>2, <2>1, SMTT(30)
  <2>3. g[New(j)] = h[j]
    BY <1>1, <2>2
  <2> QED BY <2>1, <2>2, <2>3 DEF Live
<1>5. ASSUME NEW j \in Live(g), NEW k \in Live(g), Old(j) = Old(k) PROVE j = k
  BY <1>2, <1>5, SMTT(30) DEF Live
<1> HIDE DEF Old, New
<1>6. Fits(g, o)
  <2>1. \A j \in Live(g) : g[j].fd \in o
    BY <1>3 DEF Fits
  <2>2. \A f \in o : \E j \in Live(g) : g[j].fd = f
    BY <1>4, SMTT(30) DEF Fits
  <2>3. \A j, k \in Live(g) : g[j].fd = g[k].fd => j = k
    BY <1>3, <1>5, SMTT(30) DEF Fits
  <2> QED BY <2>1, <2>2, <2>3 DEF Fits
<1> QED BY <1>1, <1>6

----------------------------------------------------------------------------
(* The walks.                                                              *)

(* What a reported entry has, as long as it is registered.                 *)
Ahead(h, w, bits, next, called, i) ==
  /\ RateOf(w) \in h[i].handlers
  /\ \E d \in Directions : h[i].fd \in bits[d]
  /\ i \in called \/ (next # 0 /\ next <= i)

Covers(h, w, bits, next, reported, called) ==
  /\ reported \subseteq DOMAIN h
  /\ \A i \in reported : i \in Live(h) => Ahead(h, w, bits, next, called, i)

LEMMA CoversIs ==
  WalkCovers <=>
    (loop_at \in Walking =>
       Covers(socket_head, loop_at, select_bits, next_entry, walk_reported, walk_called))
BY DEF WalkCovers, Covers, Ahead, Live, Registered

(* User code changes the list under a walk, but keeps what it covers.      *)
LEMMA KeptCovers ==
  ASSUME NEW h, NEW g, Keeps(h, g), NEW w, NEW bits, NEW next, NEW reported, NEW called,
         Covers(h, w, bits, next, reported, called)
  PROVE  Covers(g, w, bits, next, reported, called)
<1>1. reported \subseteq DOMAIN h /\ reported \subseteq DOMAIN g
  BY DEF Covers, Keeps
<1>2. ASSUME NEW i \in reported, i \in Live(g) PROVE Ahead(g, w, bits, next, called, i)
  <2>1. i \in Live(h) /\ g[i].fd = h[i].fd /\ g[i].handlers = h[i].handlers
    BY <1>1, <1>2 DEF Keeps
  <2>2. Ahead(h, w, bits, next, called, i)
    BY <2>1 DEF Covers
  <2> QED BY <2>1, <2>2 DEF Ahead
<1> QED BY <1>1, <1>2 DEF Covers

(* What user code leaves alone, and what it must see to.                   *)
ByUser ==
  /\ UserCode /\ Keeps(socket_head, socket_head') /\ Fits(socket_head', open_fds')
  /\ socket_head' \in Seq(Entry) /\ Len(socket_head') >= Len(socket_head)
  /\ open_fds' \subseteq Descriptors /\ fd_ready' \in [Directions -> SUBSET open_fds']
  /\ UNCHANGED <<loop_at, select_bits, next_entry, calling_entry, selects_left, walk_reported, walk_called>>

LEMMA FitsThen == Fits(socket_head', open_fds') => OpenRegistered' /\ RegisteredOnce'
BY SMTT(30) DEF Fits, Live, OpenRegistered, RegisteredOnce, Registered

LEMMA CoversThen ==
  (loop_at' \in Walking =>
     Covers(socket_head', loop_at', select_bits', next_entry', walk_reported', walk_called'))
    => WalkCovers'
BY DEF WalkCovers, Covers, Ahead, Live, Registered

LEMMA TypeIs ==
  SocketsTypeOK <=>
    /\ socket_head \in Seq(Entry)
    /\ open_fds \subseteq Descriptors /\ fd_ready \in [Directions -> SUBSET open_fds]
    /\ loop_at \in {"poll", "timers", "select", "clean", "stopped"} \cup Walking
    /\ select_bits \in [Directions -> SUBSET Descriptors]
    /\ next_entry \in 0 .. Len(socket_head) /\ calling_entry \in 0 .. Len(socket_head)
    /\ selects_left \in 0 .. MaxSelects
BY DEF SocketsTypeOK, Entry

LEMMA TypeThen ==
  SocketsTypeOK' <=>
    /\ socket_head' \in Seq(Entry)
    /\ open_fds' \subseteq Descriptors /\ fd_ready' \in [Directions -> SUBSET open_fds']
    /\ loop_at' \in {"poll", "timers", "select", "clean", "stopped"} \cup Walking
    /\ select_bits' \in [Directions -> SUBSET Descriptors]
    /\ next_entry' \in 0 .. Len(socket_head') /\ calling_entry' \in 0 .. Len(socket_head')
    /\ selects_left' \in 0 .. MaxSelects
BY DEF SocketsTypeOK, Entry

LEMMA UserKeeps ==
  ASSUME SocketsInv, ByUser
  PROVE  SocketsInv'
<1>1. SocketsTypeOK'
  <2>1. Len(socket_head) \in Nat /\ Len(socket_head') \in Nat
    BY TypeIs, LenProperties DEF SocketsInv, ByUser
  <2> QED BY <2>1, TypeIs, TypeThen, SMTT(30) DEF SocketsInv, ByUser
<1>2. OpenRegistered' /\ RegisteredOnce'
  BY FitsThen DEF ByUser
<1>3. LoopConsistent'
  BY DEF ByUser, UserCode, SocketsInv, LoopConsistent, Walking
<1>4. WalkCovers'
  <2>1. ASSUME loop_at' \in Walking
        PROVE  Covers(socket_head', loop_at', select_bits', next_entry', walk_reported', walk_called')
    <3>1. Covers(socket_head, loop_at, select_bits, next_entry, walk_reported, walk_called)
      BY <2>1, CoversIs DEF SocketsInv, ByUser
    <3>2. PICK h, g : h = socket_head /\ g = socket_head'
      OBVIOUS
    <3>3. PICK w, bits, next, reported, called :
            <<w, bits, next, reported, called>> =
              <<loop_at, select_bits, next_entry, walk_reported, walk_called>>
      OBVIOUS
    <3>4. Covers(g, w, bits, next, reported, called)
      BY <3>1, <3>2, <3>3, KeptCovers, SMTT(30) DEF ByUser
    <3> QED BY <3>2, <3>3, <3>4 DEF ByUser
  <2> QED BY <2>1, CoversThen
<1> QED BY <1>1, <1>2, <1>3, <1>4 DEF SocketsInv

LEMMA InvFits == SocketsInv => Fits(socket_head, open_fds)
BY FitsIs DEF SocketsInv

LEMMA AddKeeps ==
  ASSUME SocketsInv, NEW r \in Rates, NEW fl \in SUBSET Directions, add_olsr_socket({r}, fl)
  PROVE  SocketsInv'
<1>1. PICK F : F = Descriptors \ open_fds
  OBVIOUS
<1>2. PICK fd : fd = CHOOSE f \in F : \A g \in F : f <= g
  OBVIOUS
<1>3. PICK e : e = [fd |-> fd, handlers |-> {r}, flags |-> fl]
  OBVIOUS
<1>4. /\ UserCode /\ Descriptors # open_fds /\ open_fds' = open_fds \cup {fd}
      /\ socket_head' = Append(socket_head, e)
      /\ UNCHANGED <<fd_ready, loop_at, select_bits, next_entry, calling_entry, selects_left,
                     walk_reported, walk_called>>
  BY <1>1, <1>2, <1>3 DEF add_olsr_socket
<1>5. /\ socket_head \in Seq(Entry) /\ open_fds \subseteq Descriptors
      /\ fd_ready \in [Directions -> SUBSET open_fds]
  BY TypeIs DEF SocketsInv
<1>6. fd \in Descriptors /\ fd \notin open_fds
  <2>1. F \subseteq Descriptors /\ F # {}
    BY <1>1, <1>4, <1>5
  <2>2. fd \in F
    BY <1>2, <2>1, LowestFree
  <2> QED BY <1>1, <2>2
<1>7. e \in Entry /\ e.handlers # {} /\ e.fd = fd
  BY <1>3, <1>6 DEF Entry
<1>8. PICK h, g, o : h = socket_head /\ g = socket_head' /\ o = open_fds
  OBVIOUS
<1>9. g \in Seq(Entry) /\ Len(g) = Len(h) + 1 /\ Fits(g, o \cup {e.fd}) /\ Keeps(h, g)
  BY <1>4, <1>5, <1>6, <1>7, <1>8, AppendFits, InvFits
<1>10. Len(h) \in Nat
  BY <1>5, <1>8, LenProperties
<1>11. ByUser
  <2>1. fd_ready' \in [Directions -> SUBSET open_fds'] /\ open_fds' \subseteq Descriptors
    BY <1>4, <1>5, <1>6
  <2> QED BY <1>4, <1>7, <1>8, <1>9, <1>10, <2>1, SMTT(30) DEF ByUser
<1> QED BY <1>11, UserKeeps

LEMMA RemoveKeeps ==
  ASSUME SocketsInv, NEW fd \in Descriptors, NEW r \in Rates, remove_olsr_socket(fd, {r})
  PROVE  SocketsInv'
<1>1. PICK i \in DOMAIN socket_head :
        SameEntry(i, fd, {r}) /\ socket_head' = [socket_head EXCEPT ![i] = Marked(@)]
  BY DEF remove_olsr_socket
<1>2. /\ socket_head \in Seq(Entry) /\ open_fds \subseteq Descriptors
      /\ fd_ready \in [Directions -> SUBSET open_fds]
  BY TypeIs DEF SocketsInv
<1>3. PICK h, g, o : h = socket_head /\ g = socket_head' /\ o = open_fds
  OBVIOUS
<1>4. i \in Live(h) /\ h[i].fd = fd
  BY <1>1, <1>3 DEF SameEntry, Live
<1>5. g = [h EXCEPT ![i] = Marked(@)]
  BY <1>1, <1>3
<1>6. g \in Seq(Entry) /\ Len(g) = Len(h) /\ Fits(g, o \ {fd}) /\ Keeps(h, g)
  BY <1>2, <1>3, <1>4, <1>5, MarkFits, InvFits
<1>7. Len(h) \in Nat
  BY <1>2, <1>3, LenProperties
<1>8. ByUser
  <2>1. /\ UserCode /\ open_fds' = open_fds \ {fd}
        /\ fd_ready' = [d \in Directions |-> fd_ready[d] \ {fd}]
        /\ UNCHANGED <<loop_at, select_bits, next_entry, calling_entry, selects_left, walk_reported, walk_called>>
    BY DEF remove_olsr_socket
  <2>2. fd_ready' \in [Directions -> SUBSET open_fds'] /\ open_fds' \subseteq Descriptors
    BY <1>2, <2>1
  <2> QED BY <1>3, <1>6, <1>7, <2>1, <2>2, SMTT(30) DEF ByUser
<1> QED BY <1>8, UserKeeps

(* enable_olsr_socket and disable_olsr_socket change flags only.           *)
LEMMA FlagsKeep ==
  ASSUME SocketsInv, UserCode, NEW f, f \in [DOMAIN socket_head -> SUBSET Directions],
         socket_head' = [i \in DOMAIN socket_head |-> [socket_head[i] EXCEPT !.flags = f[i]]],
         UNCHANGED <<open_fds, fd_ready, loop_at, select_bits, next_entry, calling_entry, selects_left,
                     walk_reported, walk_called>>
  PROVE  SocketsInv'
<1>1. /\ socket_head \in Seq(Entry) /\ open_fds \subseteq Descriptors
      /\ fd_ready \in [Directions -> SUBSET open_fds]
  BY TypeIs DEF SocketsInv
<1>2. PICK h, g, o : h = socket_head /\ g = socket_head' /\ o = open_fds
  OBVIOUS
<1>3. Len(h) \in Nat /\ DOMAIN h = 1 .. Len(h) /\ \A i \in DOMAIN h : h[i] \in Entry
  BY <1>1, <1>2, LenProperties, ElementOfSeq
<1>4. /\ DOMAIN g = DOMAIN h
      /\ \A i \in DOMAIN h : g[i] = [h[i] EXCEPT !.flags = f[i]]
  BY <1>2
<1>5. ASSUME NEW i \in DOMAIN h
      PROVE  g[i] \in Entry /\ g[i].fd = h[i].fd /\ g[i].handlers = h[i].handlers
  <2>1. h[i] \in Entry /\ f[i] \in SUBSET Directions /\ g[i] = [h[i] EXCEPT !.flags = f[i]]
    BY <1>2, <1>3, <1>4
  <2> QED BY <2>1 DEF Entry
<1>6. g \in Seq(Entry)
  <2>1. g = [i \in 1 .. Len(h) |-> g[i]]
    BY <1>2, <1>3
  <2> QED BY <1>3, <1>4, <1>5, <2>1, IsASeq, SMTT(30)
<1>7. Len(g) = Len(h) /\ Fits(g, o) /\ Keeps(h, g)
  BY <1>1, <1>2, <1>4, <1>5, <1>6, FlagsFit, InvFits
<1>8. ByUser
  BY <1>1, <1>2, <1>3, <1>6, <1>7, SMTT(30) DEF ByUser
<1> QED BY <1>8, UserKeeps

LEMMA EnableKeeps ==
  ASSUME SocketsInv, NEW fd \in Descriptors, NEW r \in Rates, NEW d \in Directions,
         enable_olsr_socket(fd, {r}, {d}) \/ disable_olsr_socket(fd, {r}, {d})
  PROVE  SocketsInv'
<1>1. socket_head \in Seq(Entry) /\ \A i \in DOMAIN socket_head : socket_head[i] \in Entry
  BY TypeIs, ElementOfSeq, SMTT(30) DEF SocketsInv
<1>2. \A i \in DOMAIN socket_head :
        /\ socket_head[i].flags \subseteq Directions
        /\ socket_head[i] = [socket_head[i] EXCEPT !.flags = socket_head[i].flags]
  BY <1>1 DEF Entry
<1>3. CASE enable_olsr_socket(fd, {r}, {d})
  <2> DEFINE f == [i \in DOMAIN socket_head |->
               IF SameEntry(i, fd, {r}) THEN socket_head[i].flags \cup {d} ELSE socket_head[i].flags]
  <2>1. f \in [DOMAIN socket_head -> SUBSET Directions]
    BY <1>2
  <2>2. socket_head' = [i \in DOMAIN socket_head |-> [socket_head[i] EXCEPT !.flags = f[i]]]
    BY <1>2, <1>3 DEF enable_olsr_socket, SetFlags
  <2>3. /\ UserCode
        /\ UNCHANGED <<open_fds, fd_ready, loop_at, select_bits, next_entry, calling_entry, selects_left,
                       walk_reported, walk_called>>
    BY <1>3 DEF enable_olsr_socket, SetFlags
  <2> HIDE DEF f
  <2> QED BY <2>1, <2>2, <2>3, FlagsKeep
<1>4. CASE disable_olsr_socket(fd, {r}, {d})
  <2> DEFINE f == [i \in DOMAIN socket_head |->
               IF SameEntry(i, fd, {r}) THEN socket_head[i].flags \ {d} ELSE socket_head[i].flags]
  <2>1. f \in [DOMAIN socket_head -> SUBSET Directions]
    BY <1>2
  <2>2. socket_head' = [i \in DOMAIN socket_head |-> [socket_head[i] EXCEPT !.flags = f[i]]]
    BY <1>2, <1>4 DEF disable_olsr_socket, SetFlags
  <2>3. /\ UserCode
        /\ UNCHANGED <<open_fds, fd_ready, loop_at, select_bits, next_entry, calling_entry, selects_left,
                       walk_reported, walk_called>>
    BY <1>4 DEF disable_olsr_socket, SetFlags
  <2> HIDE DEF f
  <2> QED BY <2>1, <2>2, <2>3, FlagsKeep
<1> QED BY <1>3, <1>4

----------------------------------------------------------------------------
(* The main loop.                                                          *)

(* select reports entries of the list only, among the open descriptors.    *)
LEMMA SelectedIs ==
  ASSUME SocketsInv, NEW rate, NEW sel, sel = Selected(Asked(rate))
  PROVE  /\ sel \in [Directions -> SUBSET Descriptors]
         /\ sel # NoBits => 1 \in 1 .. Len(socket_head)
<1>1. /\ socket_head \in Seq(Entry) /\ open_fds \subseteq Descriptors
      /\ fd_ready \in [Directions -> SUBSET open_fds]
  BY TypeIs DEF SocketsInv
<1>2. CASE \E d \in Directions : ~(Asked(rate)[d] \subseteq open_fds)
  BY <1>2 DEF Selected, NoBits
<1>3. CASE ~(\E d \in Directions : ~(Asked(rate)[d] \subseteq open_fds))
  <2>1. sel = [d \in Directions |-> Asked(rate)[d] \cap fd_ready[d]]
    BY <1>3 DEF Selected
  <2>2. sel \in [Directions -> SUBSET Descriptors]
    BY <1>1, <2>1
  <2>3. ASSUME sel # NoBits PROVE 1 \in 1 .. Len(socket_head)
    <3>1. PICK d \in Directions : sel[d] # {}
      BY <2>1, <2>3 DEF NoBits
    <3>2. PICK i \in DOMAIN socket_head : TRUE
      BY <2>1, <3>1 DEF Asked
    <3> QED BY <1>1, <3>2, LenProperties, SMTT(30)
  <2> QED BY <2>2, <2>3
<1> QED BY <1>2, <1>3

LEMMA StartKeeps ==
  ASSUME SocketsInv, NEW walk \in Walking, NEW otherwise \in {"timers", "clean"},
         loop_at \in {"poll", "select"}, NEW sel, sel = Selected(Asked(RateOf(walk))),
         StartWalk(walk, sel, otherwise),
         UNCHANGED <<socket_head, open_fds, fd_ready, calling_entry, selects_left>>
  PROVE  SocketsInv'
<1>1. /\ socket_head \in Seq(Entry) /\ Len(socket_head) \in Nat
      /\ DOMAIN socket_head = 1 .. Len(socket_head)
  BY TypeIs, LenProperties DEF SocketsInv
<1>2. next_entry = 0 /\ calling_entry = 0
  BY DEF SocketsInv, LoopConsistent, Walking
<1>3. OpenRegistered' /\ RegisteredOnce'
  BY DEF SocketsInv, OpenRegistered, RegisteredOnce, Registered
<1>4. CASE sel = NoBits
  <2>1. loop_at' = otherwise /\ UNCHANGED <<select_bits, next_entry, walk_reported, walk_called>>
    BY <1>4 DEF StartWalk
  <2>2. SocketsTypeOK'
    BY <2>1, TypeIs, TypeThen DEF SocketsInv
  <2>3. LoopConsistent'
    BY <1>2, <2>1 DEF LoopConsistent, Walking
  <2>4. WalkCovers'
    BY <2>1, CoversThen DEF Walking
  <2> QED BY <1>3, <2>2, <2>3, <2>4 DEF SocketsInv
<1>5. CASE sel # NoBits
  <2>1. /\ loop_at' = walk /\ select_bits' = sel /\ next_entry' = 1 /\ walk_called' = {}
        /\ walk_reported' = {i \in DOMAIN socket_head :
             /\ RateOf(walk) \in socket_head[i].handlers
             /\ \E d \in Directions : socket_head[i].fd \in sel[d]}
    BY <1>5 DEF StartWalk
  <2>2. sel \in [Directions -> SUBSET Descriptors] /\ 1 \in 1 .. Len(socket_head)
    BY <1>5, SelectedIs, SMTT(30)
  <2>3. SocketsTypeOK'
    BY <1>1, <2>1, <2>2, TypeIs, TypeThen, SMTT(30) DEF SocketsInv
  <2>4. LoopConsistent'
    BY <2>1 DEF LoopConsistent, Walking
  <2>5. Covers(socket_head', loop_at', select_bits', next_entry', walk_reported', walk_called')
    BY <1>1, <2>1, SMTT(30) DEF Covers, Ahead
  <2> QED BY <1>3, <2>3, <2>4, <2>5, CoversThen DEF SocketsInv
<1> QED BY <1>4, <1>5

(* The steps of the loop that leave the list and the descriptors alone.    *)
SameList == UNCHANGED <<socket_head, open_fds>>

LEMMA SameListFits == SocketsInv /\ SameList => OpenRegistered' /\ RegisteredOnce'
BY SMTT(30) DEF SocketsInv, SameList, OpenRegistered, RegisteredOnce, Registered

LEMMA HandleFdsKeeps == ASSUME SocketsInv, HandleFds PROVE SocketsInv'
<1>1. PICK n \in 0 .. MaxSelects :
        selects_left' = n /\ loop_at' = IF n = 0 /\ socket_head = <<>> THEN "poll" ELSE "select"
  BY DEF HandleFds
<1>2. /\ loop_at = "timers"
      /\ UNCHANGED <<socket_head, open_fds, fd_ready, select_bits, next_entry, calling_entry,
                     walk_reported, walk_called>>
  BY DEF HandleFds
<1>3. SocketsTypeOK'
  BY <1>1, <1>2, TypeIs, TypeThen DEF SocketsInv
<1>4. LoopConsistent'
  <2>1. next_entry' = 0 /\ calling_entry' = 0
    BY <1>2 DEF SocketsInv, LoopConsistent, Walking
  <2>2. ASSUME loop_at' = "poll" PROVE Registered' = DOMAIN socket_head'
    <3>1. socket_head' = <<>>
      BY <1>1, <1>2, <2>2
    <3>2. DOMAIN socket_head' = {}
      BY <3>1, EmptySeq, SMTT(30)
    <3> QED BY <3>2 DEF Registered
  <2> QED BY <2>1, <2>2 DEF LoopConsistent
<1>5. WalkCovers'
  BY <1>1, CoversThen DEF Walking
<1> QED BY <1>2, <1>3, <1>4, <1>5, SameListFits DEF SocketsInv, SameList

LEMMA Onwards ==
  ASSUME NEW len \in Nat, NEW n \in 1 .. len, NEW m, m = IF n = len THEN 0 ELSE n + 1
  PROVE  {0, n, m} \subseteq 0 .. len /\ \A i \in 1 .. len : n <= i /\ i # n => m # 0 /\ m <= i
BY SMTT(30)

LEMMA VisitKeeps == ASSUME SocketsInv, VisitEntry PROVE SocketsInv'
<1> DEFINE e == socket_head[next_entry]
           got == {d \in Directions : e.fd \in select_bits[d]}
           calls == RateOf(loop_at) \in e.handlers /\ got # {}
<1>1. /\ loop_at \in Walking /\ calling_entry = 0 /\ next_entry # 0
      /\ next_entry' = IF next_entry = Len(socket_head) THEN 0 ELSE next_entry + 1
      /\ UNCHANGED <<socket_head, open_fds, loop_at, select_bits, selects_left, walk_reported>>
  BY DEF VisitEntry
<1>2. /\ calling_entry' = IF calls THEN next_entry ELSE 0
      /\ walk_called' = IF calls THEN walk_called \cup {next_entry} ELSE walk_called
      /\ fd_ready' = IF calls
                     THEN [d \in Directions |-> IF d \in got THEN fd_ready[d] \ {e.fd} ELSE fd_ready[d]]
                     ELSE fd_ready
  BY DEF VisitEntry
<1>3. /\ socket_head \in Seq(Entry) /\ Len(socket_head) \in Nat
      /\ DOMAIN socket_head = 1 .. Len(socket_head) /\ next_entry \in 1 .. Len(socket_head)
      /\ fd_ready \in [Directions -> SUBSET open_fds]
  BY <1>1, TypeIs, LenProperties, SMTT(30) DEF SocketsInv
<1>4. SocketsTypeOK'
  <2>1. fd_ready' \in [Directions -> SUBSET open_fds']
    BY <1>1, <1>2, <1>3
  <2>2. next_entry' \in 0 .. Len(socket_head')
    BY <1>1, <1>3, Onwards
  <2>3. calling_entry' \in {0, next_entry}
    BY <1>2
  <2>4. calling_entry' \in 0 .. Len(socket_head')
    <3>1. {0, next_entry} \subseteq 0 .. Len(socket_head) /\ socket_head' = socket_head
      BY <1>1, <1>3, Onwards
    <3> QED BY <2>3, <3>1
  <2> HIDE DEF e, got, calls
  <2> QED BY <1>1, <2>1, <2>2, <2>4, TypeIs, TypeThen DEF SocketsInv
<1>5. LoopConsistent'
  BY <1>1 DEF LoopConsistent, Walking
<1>6. Covers(socket_head, loop_at, select_bits, next_entry, walk_reported, walk_called)
  BY <1>1, CoversIs DEF SocketsInv
<1>7. ASSUME NEW i \in walk_reported, i \in Live(socket_head)
      PROVE  Ahead(socket_head, loop_at, select_bits, next_entry', walk_called', i)
  <2>1. Ahead(socket_head, loop_at, select_bits, next_entry, walk_called, i) /\ i \in 1 .. Len(socket_head)
    BY <1>3, <1>6, <1>7 DEF Covers
  <2>2. walk_called \subseteq walk_called'
    BY <1>2
  <2>3. CASE i = next_entry
    <3>1. calls
      BY <2>1, <2>3 DEF Ahead
    <3>2. i \in walk_called'
      BY <1>2, <2>3, <3>1
    <3> QED BY <2>1, <3>2 DEF Ahead
  <2>4. CASE i # next_entry
    <3>1. i \in walk_called \/ (next_entry' # 0 /\ next_entry' <= i)
      <4>1. i \in walk_called \/ next_entry <= i
        BY <2>1 DEF Ahead
      <4>2. next_entry <= i => next_entry' # 0 /\ next_entry' <= i
        BY <1>1, <1>3, <2>1, <2>4, Onwards
      <4> QED BY <4>1, <4>2
    <3> QED BY <2>1, <2>2, <3>1 DEF Ahead
  <2> QED BY <2>3, <2>4
<1>8. Covers(socket_head', loop_at', select_bits', next_entry', walk_reported', walk_called')
  BY <1>1, <1>6, <1>7 DEF Covers
<1> QED BY <1>1, <1>4, <1>5, <1>8, SameListFits, CoversThen DEF SocketsInv, SameList

LEMMA ReturnKeeps == ASSUME SocketsInv, HandlerReturns PROVE SocketsInv'
<1>1. /\ calling_entry' = 0
      /\ UNCHANGED <<socket_head, open_fds, fd_ready, loop_at, select_bits, next_entry, selects_left,
                     walk_reported, walk_called>>
  BY DEF HandlerReturns
<1>2. SocketsTypeOK'
  <2>1. 0 \in 0 .. Len(socket_head)
    BY TypeIs, LenProperties, SMTT(30) DEF SocketsInv
  <2> QED BY <1>1, <2>1, TypeIs, TypeThen DEF SocketsInv
<1>3. LoopConsistent'
  BY <1>1 DEF SocketsInv, LoopConsistent, Registered
<1>4. WalkCovers'
  BY <1>1 DEF SocketsInv, WalkCovers, Registered
<1> QED BY <1>1, <1>2, <1>3, <1>4, SameListFits DEF SocketsInv, SameList

LEMMA EndKeeps == ASSUME SocketsInv, WalkEnds PROVE SocketsInv'
<1>1. /\ loop_at \in Walking /\ next_entry = 0 /\ calling_entry = 0
      /\ loop_at' \in {"timers", "clean", "select"}
      /\ UNCHANGED <<socket_head, open_fds, fd_ready, select_bits, next_entry, calling_entry,
                     walk_reported, walk_called>>
  BY DEF WalkEnds
<1>2. selects_left' \in 0 .. MaxSelects
  <2>1. selects_left \in 0 .. MaxSelects /\ MaxSelects \in Nat
    BY TypeIs, SocketsAssumption DEF SocketsInv
  <2>2. \/ selects_left' = selects_left \/ selects_left' = 0
        \/ selects_left > 1 /\ selects_left' = selects_left - 1
    BY DEF WalkEnds
  <2> QED BY <2>1, <2>2, SMTT(30)
<1>3. SocketsTypeOK'
  BY <1>1, <1>2, TypeIs, TypeThen DEF SocketsInv
<1>4. LoopConsistent'
  BY <1>1 DEF LoopConsistent, Walking
<1>5. WalkCovers'
  BY <1>1, CoversThen DEF Walking
<1> QED BY <1>1, <1>3, <1>4, <1>5, SameListFits DEF SocketsInv, SameList

LEMMA CleanKeeps == ASSUME SocketsInv, CleanUp PROVE SocketsInv'
<1> DEFINE removed == {i \in DOMAIN socket_head : socket_head[i].handlers = {}}
<1>1. /\ loop_at = "clean" /\ select_bits' = NoBits
      /\ UNCHANGED <<open_fds, fd_ready, next_entry, calling_entry, selects_left>>
      /\ next_entry = 0 /\ calling_entry = 0
  BY DEF CleanUp, SocketsInv, LoopConsistent, Walking
<1>2. NoBits \in [Directions -> SUBSET Descriptors]
  BY DEF NoBits
<1>3. CASE removed = {}
  <2>1. loop_at' = "poll" /\ UNCHANGED socket_head
    BY <1>3 DEF CleanUp
  <2>2. SocketsTypeOK'
    BY <1>1, <1>2, <2>1, TypeIs, TypeThen DEF SocketsInv
  <2>3. LoopConsistent'
    BY <1>1, <1>3, <2>1 DEF LoopConsistent, Registered
  <2>4. WalkCovers'
    BY <2>1, CoversThen DEF Walking
  <2> QED BY <1>1, <2>1, <2>2, <2>3, <2>4, SameListFits DEF SocketsInv, SameList
<1>4. CASE removed # {}
  <2>1. PICK i \in removed : socket_head' = RemoveAt(socket_head, i)
    BY <1>4 DEF CleanUp
  <2>2. loop_at' = loop_at
    BY <1>4 DEF CleanUp
  <2>3. PICK h, g, o : h = socket_head /\ g = socket_head' /\ o = open_fds
    OBVIOUS
  <2>4. h \in Seq(Entry) /\ Fits(h, o) /\ i \in DOMAIN h /\ h[i].handlers = {} /\ g = RemoveAt(h, i)
    BY <2>1, <2>3, TypeIs, InvFits DEF SocketsInv
  <2>5. g \in Seq(Entry) /\ Fits(g, o)
    BY <2>4, FreeFits
  <2>6. SocketsTypeOK'
    <3>1. Len(g) \in Nat
      BY <2>5, LenProperties
    <3>2. 0 \in 0 .. Len(socket_head')
      BY <2>3, <3>1, SMTT(30)
    <3> QED BY <1>1, <1>2, <2>2, <2>3, <2>5, <3>2, TypeIs, TypeThen DEF SocketsInv
  <2>7. OpenRegistered' /\ RegisteredOnce'
    BY <1>1, <2>3, <2>5, FitsThen
  <2>8. LoopConsistent'
    BY <1>1, <2>2 DEF LoopConsistent, Walking
  <2>9. WalkCovers'
    BY <1>1, <2>2, CoversThen DEF Walking
  <2> QED BY <2>6, <2>7, <2>8, <2>9 DEF SocketsInv
<1> QED BY <1>3, <1>4

LEMMA FlushKeeps == ASSUME SocketsInv, olsr_flush_sockets PROVE SocketsInv'
<1>1. /\ loop_at' = "stopped" /\ socket_head' = <<>> /\ select_bits' = NoBits
      /\ next_entry' = 0 /\ calling_entry' = 0 /\ UNCHANGED selects_left
      /\ open_fds' = open_fds \ {socket_head[i].fd : i \in DOMAIN socket_head}
      /\ fd_ready' = [d \in Directions |-> fd_ready[d] \cap open_fds']
  BY DEF olsr_flush_sockets
<1>2. DOMAIN socket_head' = {} /\ Len(socket_head') = 0 /\ socket_head' \in Seq(Entry)
  BY <1>1, EmptySeq, SMTT(30)
<1>3. open_fds' = {}
  BY <1>1 DEF SocketsInv, OpenRegistered, Registered
<1>4. SocketsTypeOK'
  <2>1. NoBits \in [Directions -> SUBSET Descriptors]
    BY DEF NoBits
  <2>2. fd_ready' \in [Directions -> SUBSET open_fds']
    BY <1>1
  <2>3. 0 \in 0 .. Len(socket_head')
    BY <1>2, SMTT(30)
  <2> QED BY <1>1, <1>2, <1>3, <2>1, <2>2, <2>3, TypeIs, TypeThen DEF SocketsInv
<1>5. OpenRegistered' /\ RegisteredOnce'
  BY <1>2, <1>3 DEF OpenRegistered, RegisteredOnce, Registered
<1>6. LoopConsistent'
  BY <1>1 DEF LoopConsistent
<1>7. WalkCovers'
  BY <1>1, CoversThen DEF Walking
<1> QED BY <1>4, <1>5, <1>6, <1>7 DEF SocketsInv

LEMMA ArriveKeeps ==
  ASSUME SocketsInv, NEW d \in Directions, NEW fd \in Descriptors, Arrives(d, fd)
  PROVE  SocketsInv'
<1>1. /\ fd \in open_fds /\ fd_ready' = [fd_ready EXCEPT ![d] = @ \cup {fd}]
      /\ UNCHANGED <<socket_head, open_fds, loop_at, select_bits, next_entry, calling_entry, selects_left,
                     walk_reported, walk_called>>
  BY DEF Arrives
<1>2. SocketsTypeOK'
  <2>1. fd_ready' \in [Directions -> SUBSET open_fds']
    BY <1>1, TypeIs DEF SocketsInv
  <2> QED BY <1>1, <2>1, TypeIs, TypeThen DEF SocketsInv
<1>3. LoopConsistent'
  BY <1>1 DEF SocketsInv, LoopConsistent, Registered
<1>4. WalkCovers'
  BY <1>1 DEF SocketsInv, WalkCovers, Registered
<1> QED BY <1>1, <1>2, <1>3, <1>4, SameListFits DEF SocketsInv, SameList

----------------------------------------------------------------------------
(* The theorems.                                                           *)

LEMMA Starts == SocketsInit => SocketsInv
<1> SUFFICES ASSUME SocketsInit PROVE SocketsInv
  OBVIOUS
<1>1. /\ socket_head = <<>> /\ open_fds = {} /\ fd_ready = NoBits /\ loop_at = "timers"
      /\ select_bits = NoBits /\ next_entry = 0 /\ calling_entry = 0 /\ selects_left = 0
  BY DEF SocketsInit
<1>2. DOMAIN socket_head = {} /\ Len(socket_head) = 0 /\ socket_head \in Seq(Entry)
  BY <1>1, EmptySeq, SMTT(30)
<1>3. 0 \in 0 .. Len(socket_head) /\ 0 \in 0 .. MaxSelects
  BY <1>2, SocketsAssumption, SMTT(30)
<1>4. NoBits \in [Directions -> SUBSET Descriptors] /\ NoBits \in [Directions -> SUBSET {}]
  BY DEF NoBits
<1>5. SocketsTypeOK
  BY <1>1, <1>2, <1>3, <1>4, TypeIs
<1>6. OpenRegistered /\ RegisteredOnce
  BY <1>1, <1>2 DEF OpenRegistered, RegisteredOnce, Registered
<1>7. LoopConsistent
  BY <1>1 DEF LoopConsistent
<1>8. WalkCovers
  BY <1>1 DEF WalkCovers, Walking
<1> QED BY <1>5, <1>6, <1>7, <1>8 DEF SocketsInv

LEMMA StepKeeps == SocketsInv /\ SocketsNext => SocketsInv'
<1> SUFFICES ASSUME SocketsInv, SocketsNext PROVE SocketsInv'
  OBVIOUS
<1>1. CASE poll_sockets
  <2> DEFINE sel == Selected(Asked("pollrate"))
  <2>1. /\ loop_at = "poll" /\ StartWalk("poll walk", sel, "timers")
        /\ UNCHANGED <<socket_head, open_fds, fd_ready, calling_entry, selects_left>>
    BY <1>1 DEF poll_sockets
  <2>2. sel = Selected(Asked(RateOf("poll walk"))) /\ "poll walk" \in Walking
    BY DEF RateOf, Walking
  <2> HIDE DEF sel
  <2> QED BY <2>1, <2>2, StartKeeps
<1>2. CASE ImmediateSelect
  <2> DEFINE sel == Selected(Asked("immediate"))
  <2>1. /\ loop_at = "select" /\ StartWalk("immediate walk", sel, "clean")
        /\ UNCHANGED <<socket_head, open_fds, fd_ready, calling_entry, selects_left>>
    BY <1>2 DEF ImmediateSelect
  <2>2. sel = Selected(Asked(RateOf("immediate walk"))) /\ "immediate walk" \in Walking
    BY DEF RateOf, Walking
  <2> HIDE DEF sel
  <2> QED BY <2>1, <2>2, StartKeeps
<1>3. CASE HandleFds
  BY <1>3, HandleFdsKeeps
<1>4. CASE VisitEntry
  BY <1>4, VisitKeeps
<1>5. CASE HandlerReturns
  BY <1>5, ReturnKeeps
<1>6. CASE WalkEnds
  BY <1>6, EndKeeps
<1>7. CASE CleanUp
  BY <1>7, CleanKeeps
<1>8. CASE \E r \in Rates, fl \in SUBSET Directions : add_olsr_socket({r}, fl)
  BY <1>8, AddKeeps
<1>9. CASE \E fd \in Descriptors, r \in Rates : remove_olsr_socket(fd, {r})
  BY <1>9, RemoveKeeps
<1>10. CASE \E fd \in Descriptors, r \in Rates, d \in Directions :
              enable_olsr_socket(fd, {r}, {d}) \/ disable_olsr_socket(fd, {r}, {d})
  BY <1>10, EnableKeeps
<1>11. CASE \E d \in Directions, fd \in Descriptors : Arrives(d, fd)
  BY <1>11, ArriveKeeps
<1>12. CASE olsr_flush_sockets
  BY <1>12, FlushKeeps
<1> QED BY <1>1, <1>2, <1>3, <1>4, <1>5, <1>6, <1>7, <1>8, <1>9, <1>10, <1>11, <1>12
     DEF SocketsNext, LoopStep

(* Every behaviour of the main loop keeps the list, the open descriptors   *)
(* and the walk in step, whatever handlers and timers register or remove.  *)
THEOREM Invariance == SocketsSpec => []SocketsInv
<1>1. SocketsInv /\ [SocketsNext]_socketVars => SocketsInv'
  <2>1. ASSUME SocketsInv, UNCHANGED socketVars PROVE SocketsInv'
    BY <2>1, SMTT(30) DEF SocketsInv, socketVars, SocketsTypeOK, OpenRegistered, RegisteredOnce,
                LoopConsistent, WalkCovers, Registered
  <2> QED BY <2>1, StepKeeps
<1> QED BY <1>1, Starts, PTL DEF SocketsSpec

LEMMA InvServes == SocketsInv => WalksComplete
<1> SUFFICES ASSUME SocketsInv PROVE WalksComplete
  OBVIOUS
<1>1. ASSUME loop_at \in Walking, next_entry = 0 PROVE walk_reported \cap Registered \subseteq walk_called
  BY <1>1 DEF SocketsInv, WalkCovers
<1> QED BY <1>1 DEF SocketsInv, LoopConsistent, WalksComplete

LEMMA CalledIsOpen == SocketsInv /\ SocketsNext => CallsRegistered
<1> SUFFICES ASSUME SocketsInv, SocketsNext, calling_entry = 0, calling_entry' # 0
             PROVE  /\ socket_head[calling_entry'].handlers # {}
                    /\ socket_head[calling_entry'].fd \in open_fds
  BY DEF CallsRegistered
<1>1. VisitEntry
  BY DEF SocketsNext, LoopStep, poll_sockets, HandleFds, ImmediateSelect, HandlerReturns, WalkEnds,
         CleanUp, add_olsr_socket, remove_olsr_socket, enable_olsr_socket, disable_olsr_socket,
         SetFlags, Arrives, olsr_flush_sockets
<1>2. calling_entry' = next_entry /\ RateOf(loop_at) \in socket_head[next_entry].handlers
      /\ next_entry # 0
  BY <1>1 DEF VisitEntry
<1>3. next_entry \in Registered
  BY <1>2, TypeIs, LenProperties, SMTT(30) DEF SocketsInv, Registered
<1> QED BY <1>2, <1>3 DEF SocketsInv, OpenRegistered, Registered

(* At every step of the main loop, a walk that ends has called every entry *)
(* that select reported and nobody removed, no removed entry is left when  *)
(* a round begins, the registered descriptors are the open ones, and a     *)
(* handler is called for a registered and open descriptor only.            *)
THEOREM Served == SocketsSpec => SocketsServed
<1>1. SocketsInv /\ SocketsInv' /\ [SocketsNext]_socketVars
        => [WalksComplete' /\ CallsRegistered]_socketVars
  <2>1. SocketsInv' => WalksComplete'
    BY InvServes, PTL
  <2> QED BY <2>1, CalledIsOpen
<1> QED BY <1>1, Invariance, PTL DEF SocketsSpec, SocketsServed
=============================================================================
