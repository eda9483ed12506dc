------------------------ MODULE DuplicateSetProofs ------------------------
(***************************************************************************)
(* Proofs about the duplicate set for every number of originators, every   *)
(* width of the sequence numbers, the array and the clock.                 *)
(***************************************************************************)
EXTENDS DuplicateSet, TLAPS

USE DuplicateSetAssumption DEF SeqRange, TimeMod, Seqnos, Times, Positions

------------------------------------------------------------------------------
(* What the circular distance of two sequence numbers is.                  *)
LEMMA DiffRange ==
  ASSUME NEW a \in Seqnos, NEW b \in Seqnos
  PROVE  /\ olsr_seqno_diff(a, b) \in (-HalfSeq) .. HalfSeq
         /\ olsr_seqno_diff(a, b) = 0 <=> a = b
  BY DEF olsr_seqno_diff

(* A number the array reaches is found at the position its distance gives. *)
LEMMA DiffIsPosition ==
  ASSUME NEW a \in Seqnos, NEW x \in Seqnos
  PROVE  /\ olsr_seqno_diff(x, a) \in (1 - ArrayBits) .. 0
              => /\ -olsr_seqno_diff(x, a) \in Positions
                 /\ x = Before(a, -olsr_seqno_diff(x, a))
         /\ \A i \in Positions : x = Before(a, i) => olsr_seqno_diff(x, a) = -i
         /\ \A i \in Positions : Before(a, i) \in Seqnos
  BY DEF olsr_seqno_diff, Before

(* When the newest number moves from a to b, d ahead, position i of the    *)
(* old window is position i + d of the new one.                            *)
LEMMA WindowMoves ==
  ASSUME NEW a \in Seqnos, NEW b \in Seqnos, NEW i \in Positions,
         olsr_seqno_diff(b, a) > 0
  PROVE  /\ i + olsr_seqno_diff(b, a) \in Positions
               => Before(b, i + olsr_seqno_diff(b, a)) = Before(a, i)
         /\ \A q \in Positions :
               Before(b, q) = Before(a, i) => q = i + olsr_seqno_diff(b, a)
  BY DEF olsr_seqno_diff, Before

(* A time stamp is a clock value.                                          *)
LEMMA StampInRange ==
  ASSUME now \in Times, NEW rel \in Nat
  PROVE  (now + rel) % TimeMod \in Times
  <1>1. TimeMod \in Nat \ {0}
    OBVIOUS
  <1>2. \A m \in Nat \ {0}, n \in Nat : n % m \in 0 .. m - 1
    OBVIOUS
  <1> QED BY <1>1, <1>2

------------------------------------------------------------------------------
(* Every field keeps its range, whatever messages arrive: TypeOK for every *)
(* instance.                                                               *)
THEOREM TypeCorrect == Spec => []TypeOK
  <1>1. Init => TypeOK
    BY DEF Init, TypeOK
  <1>2. TypeOK /\ [Next]_vars => TypeOK'
    <2> SUFFICES ASSUME TypeOK, [Next]_vars PROVE TypeOK'
      OBVIOUS
    <2> USE DEF TypeOK
    <2>0. \A r \in Nat : (now + r) % TimeMod \in Times
      BY StampInRange
    <2>1. ASSUME NEW o \in Originators, NEW s \in Seqnos, FirstMessage(o, s) PROVE TypeOK'
      BY <2>0, <2>1 DEF FirstMessage, GetTimestamp
    <2>2. ASSUME NEW o \in Originators, KnownOriginator(o)
          PROVE  /\ (now \in Times /\ duplicate_set \subseteq Originators)'
                 /\ (valid_until \in [Originators -> Times])'
                 /\ (heard \in [Originators -> 0 .. Vtime])'
      BY <2>0, <2>2 DEF KnownOriginator, Refreshed, GetTimestamp
    <2>3. ASSUME NEW o \in Originators, NEW s \in Seqnos, TooLow(o, s) PROVE TypeOK'
      BY <2>2, <2>3 DEF TooLow
    <2>4. ASSUME NEW o \in Originators, NEW s \in Seqnos, Restarted(o, s) PROVE TypeOK'
      BY <2>2, <2>4 DEF Restarted
    <2>5. ASSUME NEW o \in Originators, NEW s \in Seqnos, Duplicate(o, s) PROVE TypeOK'
      BY <2>2, <2>5 DEF Duplicate
    <2>6. ASSUME NEW o \in Originators, NEW s \in Seqnos, LateMessage(o, s) PROVE TypeOK'
      <3>1. -Diff(o, s) \in Positions
        BY <2>6, DiffRange DEF LateMessage, Diff
      <3> QED BY <2>2, <2>6, <3>1 DEF LateMessage
    <2>7. ASSUME NEW o \in Originators, NEW s \in Seqnos, NewMessage(o, s) PROVE TypeOK'
      <3>1. Diff(o, s) \in Int /\ Diff(o, s) > 0
        BY <2>7, DiffRange DEF NewMessage, Diff
      <3>2. ShiftLeft(array[o], Diff(o, s)) \in SUBSET Positions
        BY <3>1 DEF ShiftLeft
      <3>3. array' \in [Originators -> SUBSET Positions]
        BY <2>7, <3>2 DEF NewMessage
      <3>4. processed' \in [Originators -> SUBSET Seqnos]
        BY <2>7 DEF NewMessage
      <3> QED BY <2>2, <2>7, <3>3, <3>4 DEF NewMessage
    <2>8. ASSUME NEW o \in Originators, olsr_cleanup_duplicates(o) PROVE TypeOK'
      BY <2>8 DEF olsr_cleanup_duplicates
    <2>9. CASE olsr_cleanup_duplicate_entry
      BY <2>9 DEF olsr_cleanup_duplicate_entry
    <2>10. CASE Tick
      BY <2>0, <2>10 DEF Tick, entry
    <2>11. CASE UNCHANGED vars
      BY <2>11 DEF vars, entry
    <2> QED
      BY <2>1, <2>3, <2>4, <2>5, <2>6, <2>7, <2>8, <2>9, <2>10, <2>11 DEF Next
  <1> QED BY <1>1, <1>2, PTL DEF Spec

------------------------------------------------------------------------------
(* ArrayIsHistory for one originator.                                      *)
History(o) ==
  /\ Marked(o) \subseteq processed[o]
  /\ processed[o] \subseteq Window(seqnr[o])
  /\ \A s, t \in processed[o] \ Marked(o) : s = t

(* A step that leaves the newest number, the array and the processed       *)
(* numbers of an originator alone leaves its history alone.                *)
LEMMA HistoryFrame ==
  ASSUME NEW o, History(o),
         seqnr'[o] = seqnr[o], array'[o] = array[o], processed'[o] = processed[o]
  PROVE  History(o)'
  <1>1. Marked(o)' = Marked(o)
    BY DEF Marked
  <1> QED BY <1>1 DEF History

(* The window moves to a newer number: what it drops from the array and    *)
(* from the processed numbers is the same.                                 *)
LEMMA HistoryNewMessage ==
  ASSUME TypeOK, NEW o \in Originators, NEW s \in Seqnos, NewMessage(o, s), History(o)
  PROVE  History(o)'
  <1> DEFINE a == seqnr[o]
             d == olsr_seqno_diff(s, a)
  <1>0. /\ a \in Seqnos /\ d \in Int /\ d > 0
        /\ array[o] \subseteq Positions /\ processed[o] \subseteq Seqnos
    BY DiffRange DEF TypeOK, NewMessage, Diff
  <1>1. /\ seqnr'[o] = s
        /\ array'[o] = ShiftLeft(array[o], d) \cup {0}
        /\ processed'[o] = (processed[o] \cap Window(s)) \cup {s}
    BY DEF NewMessage, TypeOK, Diff
  <1>2. Marked(o)' = {Before(s, i) : i \in array'[o]} /\ Marked(o) = {Before(a, i) : i \in array[o]}
    BY <1>1 DEF Marked
  <1>3. Before(s, 0) = s /\ s \in Marked(o)' /\ s \in Window(s)
    BY <1>1, <1>2 DEF Before, Window
  <1>4. ASSUME NEW x \in Marked(o)', x # s
        PROVE  x \in processed'[o]
    <2>1. PICK q \in ShiftLeft(array[o], d) : x = Before(s, q)
      BY <1>1, <1>2, <1>3, <1>4
    <2>2. PICK i \in array[o] : i + d < ArrayBits /\ q = i + d
      BY <2>1 DEF ShiftLeft
    <2>3. i \in Positions /\ i + d \in Positions
      BY <2>2, <1>0
    <2>4. x = Before(a, i)
      BY <2>1, <2>2, <2>3, <1>0, WindowMoves
    <2>5. x \in processed[o]
      BY <2>2, <2>4, <1>2 DEF History
    <2>6. x \in Window(s)
      BY <2>1, <2>2, <2>3 DEF Window
    <2> QED BY <2>5, <2>6, <1>1
  <1>5. ASSUME NEW x \in processed'[o], x \notin Marked(o)'
        PROVE  x \in processed[o] /\ x \notin Marked(o)
    <2>1. x \in processed[o] /\ x \in Window(s)
      BY <1>1, <1>3, <1>5
    <2>2. ASSUME x \in Marked(o) PROVE FALSE
      <3>1. PICK q \in Positions : x = Before(s, q)
        BY <2>1 DEF Window
      <3>2. PICK i \in array[o] : x = Before(a, i)
        BY <2>2, <1>2
      <3>3. i \in Positions /\ Before(s, q) = Before(a, i)
        BY <3>1, <3>2, <1>0
      <3>4. q = i + d
        BY <3>1, <3>3, <1>0, WindowMoves
      <3>5. q \in ShiftLeft(array[o], d)
        BY <3>1, <3>2, <3>4, <1>0 DEF ShiftLeft
      <3> QED BY <3>1, <3>5, <1>1, <1>2, <1>5
    <2> QED BY <2>1, <2>2
  <1>6. processed'[o] \subseteq Window(s)
    BY <1>1, <1>3
  <1>7. Marked(o)' \subseteq processed'[o]
    BY <1>1, <1>4
  <1>8. \A x, y \in processed'[o] \ Marked(o)' : x = y
    BY <1>5 DEF History
  <1> QED BY <1>1, <1>6, <1>7, <1>8 DEF History

(* A late message sets the bit of exactly its own number.                  *)
LEMMA HistoryLateMessage ==
  ASSUME TypeOK, NEW o \in Originators, NEW s \in Seqnos, LateMessage(o, s), History(o)
  PROVE  /\ History(o)'
         /\ Marked(o)' = Marked(o) \cup {s}
  <1>0. /\ seqnr[o] \in Seqnos
        /\ seqnr'[o] = seqnr[o]
        /\ array'[o] = array[o] \cup {-Diff(o, s)}
        /\ processed'[o] = processed[o] \cup {s}
        /\ Diff(o, s) \in (1 - ArrayBits) .. 0
    BY DEF TypeOK, LateMessage
  <1>1. -Diff(o, s) \in Positions /\ s = Before(seqnr[o], -Diff(o, s))
    BY <1>0, DiffIsPosition DEF Diff
  <1>2. Marked(o)' = Marked(o) \cup {s}
    BY <1>0, <1>1 DEF Marked
  <1>3. s \in Window(seqnr[o])
    BY <1>1 DEF Window
  <1> QED BY <1>0, <1>2, <1>3 DEF History

(* A new entry, or one that starts over, remembers one number.             *)
LEMMA HistoryStartsOver ==
  ASSUME NEW o \in Originators, NEW s \in Seqnos,
         seqnr'[o] = s, processed'[o] = {s}, array'[o] \in {{}, {0}}
  PROVE  History(o)'
  <1>1. Before(s, 0) = s /\ s \in Window(s)
    BY DEF Before, Window
  <1>2. Marked(o)' \subseteq {s}
    BY <1>1 DEF Marked
  <1> QED BY <1>1, <1>2 DEF History

(* The array and the processed numbers agree for every order of arrival,   *)
(* every loss, repetition and restart: ArrayIsHistory for every instance.  *)
THEOREM ArrayCorrect == Spec => []ArrayIsHistory
  <1>1. Init => ArrayIsHistory
    BY DEF Init, ArrayIsHistory
  <1>2. TypeOK /\ TypeOK' /\ ArrayIsHistory /\ [Next]_vars => ArrayIsHistory'
    <2> SUFFICES ASSUME TypeOK, TypeOK', ArrayIsHistory, [Next]_vars,
                        NEW c \in duplicate_set'
                 PROVE  History(c)'
      BY DEF ArrayIsHistory, History
    <2>0. /\ \A o \in duplicate_set : History(o)
          /\ c \in Originators /\ duplicate_set \subseteq Originators
      BY DEF ArrayIsHistory, History, TypeOK
    <2>1. ASSUME NEW o \in Originators, NEW s \in Seqnos, FirstMessage(o, s)
          PROVE  History(c)'
      <3>1. CASE c = o
        BY <2>1, <3>1, HistoryStartsOver DEF FirstMessage, TypeOK
      <3>2. CASE c # o
        BY <2>0, <2>1, <3>2, HistoryFrame DEF FirstMessage, TypeOK
      <3> QED BY <3>1, <3>2
    <2>2. ASSUME NEW o \in Originators, NEW s \in Seqnos, TooLow(o, s) \/ Duplicate(o, s)
          PROVE  History(c)'
      BY <2>0, <2>2, HistoryFrame DEF TooLow, Duplicate, KnownOriginator
    <2>3. ASSUME NEW o \in Originators, NEW s \in Seqnos, Restarted(o, s)
          PROVE  History(c)'
      <3>1. CASE c = o
        BY <2>3, <3>1, HistoryStartsOver DEF Restarted, TypeOK
      <3>2. CASE c # o
        BY <2>0, <2>3, <3>2, HistoryFrame DEF Restarted, KnownOriginator, TypeOK
      <3> QED BY <3>1, <3>2
    <2>4. ASSUME NEW o \in Originators, NEW s \in Seqnos, LateMessage(o, s)
          PROVE  History(c)'
      <3>1. CASE c = o
        BY <2>0, <2>4, <3>1, HistoryLateMessage DEF LateMessage, KnownOriginator
      <3>2. CASE c # o
        BY <2>0, <2>4, <3>2, HistoryFrame DEF LateMessage, KnownOriginator, TypeOK
      <3> QED BY <3>1, <3>2
    <2>5. ASSUME NEW o \in Originators, NEW s \in Seqnos, NewMessage(o, s)
          PROVE  History(c)'
      <3>1. CASE c = o
        BY <2>0, <2>5, <3>1, HistoryNewMessage DEF NewMessage, KnownOriginator
      <3>2. CASE c # o
        BY <2>0, <2>5, <3>2, HistoryFrame DEF NewMessage, KnownOriginator, TypeOK
      <3> QED BY <3>1, <3>2
    <2>6. ASSUME NEW o \in Originators, olsr_cleanup_duplicates(o)
          PROVE  History(c)'
      BY <2>0, <2>6, HistoryFrame DEF olsr_cleanup_duplicates
    <2>7. CASE olsr_cleanup_duplicate_entry
      BY <2>0, <2>7, HistoryFrame DEF olsr_cleanup_duplicate_entry
    <2>8. CASE Tick \/ UNCHANGED vars
      BY <2>0, <2>8, HistoryFrame DEF Tick, vars, entry
    <2> QED BY <2>1, <2>2, <2>3, <2>4, <2>5, <2>6, <2>7, <2>8 DEF Next
  <1> QED BY <1>1, <1>2, TypeCorrect, PTL DEF Spec

(* Nothing is remembered of an originator without an entry.                *)
Forgotten == \A o \in Originators \ duplicate_set : processed[o] = {}

LEMMA NothingRemembered == Spec => []Forgotten
  <1>1. Init => Forgotten
    BY DEF Init, Forgotten
  <1>2. TypeOK /\ Forgotten /\ [Next]_vars => Forgotten'
    <2> SUFFICES ASSUME TypeOK, Forgotten, [Next]_vars, NEW c \in Originators \ duplicate_set'
                 PROVE  processed'[c] = {}
      BY DEF Forgotten
    <2> USE DEF Forgotten, TypeOK
    <2>1. ASSUME NEW o \in Originators, NEW s \in Seqnos, Processes(o, s) \/ Blocks(o, s)
          PROVE  processed'[c] = {}
      BY <2>1 DEF Processes, Blocks, FirstMessage, TooLow, Restarted, Duplicate, LateMessage,
                  NewMessage, KnownOriginator
    <2>2. ASSUME NEW o \in Originators, olsr_cleanup_duplicates(o) PROVE processed'[c] = {}
      BY <2>2 DEF olsr_cleanup_duplicates
    <2>3. CASE olsr_cleanup_duplicate_entry
      BY <2>3 DEF olsr_cleanup_duplicate_entry
    <2>4. CASE Tick \/ UNCHANGED vars
      BY <2>4 DEF Tick, vars, entry
    <2> QED BY <2>1, <2>2, <2>3, <2>4 DEF Next, Processes, Blocks
  <1> QED BY <1>1, <1>2, TypeCorrect, PTL DEF Spec

(* Only the number whose bit the creation of an entry left unset can be    *)
(* processed a second time, and never a third: OnlyFirstRepeats.           *)
THEOREM RepeatsAtMostFirst == Spec => OnlyFirstRepeats
  <1> DEFINE Once == \A o \in Originators, s \in Seqnos :
               Processes(o, s) /\ s \in processed[o] => s \notin Marked(o) /\ s \in Marked(o)'
  <1>1. TypeOK /\ ArrayIsHistory /\ Forgotten => Once
    <2> SUFFICES ASSUME TypeOK, ArrayIsHistory, Forgotten,
                        NEW o \in Originators, NEW s \in Seqnos,
                        Processes(o, s), s \in processed[o]
                 PROVE  s \notin Marked(o) /\ s \in Marked(o)'
      OBVIOUS
    <2>1. o \in duplicate_set /\ s \in Window(seqnr[o]) /\ History(o) /\ seqnr[o] \in Seqnos
      BY DEF Forgotten, ArrayIsHistory, History, TypeOK
    <2>2. PICK i \in Positions : s = Before(seqnr[o], i)
      BY <2>1 DEF Window
    <2>3. Diff(o, s) = -i
      BY <2>1, <2>2, DiffIsPosition DEF Diff
    <2>4. LateMessage(o, s)
      BY <2>1, <2>3 DEF Processes, FirstMessage, Restarted, NewMessage
    <2>5. s \notin Marked(o)
      <3> SUFFICES ASSUME NEW j \in array[o], s = Before(seqnr[o], j) PROVE FALSE
        BY DEF Marked
      <3>1. j \in Positions
        BY DEF TypeOK
      <3>2. Diff(o, s) = -j
        BY <2>1, <3>1, DiffIsPosition DEF Diff
      <3>3. -Diff(o, s) = j
        BY <3>1, <3>2
      <3> QED BY <2>4, <3>3 DEF LateMessage
    <2> QED BY <2>1, <2>4, <2>5, HistoryLateMessage
  <1> QED BY <1>1, TypeCorrect, ArrayCorrect, NothingRemembered, PTL DEF OnlyFirstRepeats

(* The counter has counted the low messages since the last other one.      *)
LowsCounted == \A o \in Originators : lows[o] <= too_low_counter[o]

LEMMA CounterCounts == Spec => []LowsCounted
  <1>1. Init => LowsCounted
    BY DEF Init, LowsCounted
  <1>2. TypeOK /\ LowsCounted /\ [Next]_vars => LowsCounted'
    <2> SUFFICES ASSUME TypeOK, LowsCounted, [Next]_vars PROVE LowsCounted'
      OBVIOUS
    <2> USE DEF LowsCounted, TypeOK
    <2>1. ASSUME NEW o \in Originators, NEW s \in Seqnos, TooLow(o, s) PROVE LowsCounted'
      BY <2>1 DEF TooLow
    <2>2. ASSUME NEW o \in Originators, NEW s \in Seqnos, Processes(o, s) \/ Duplicate(o, s)
          PROVE  LowsCounted'
      BY <2>2 DEF Processes, FirstMessage, Restarted, Duplicate, LateMessage, NewMessage
    <2>3. ASSUME NEW o \in Originators, olsr_cleanup_duplicates(o) PROVE LowsCounted'
      BY <2>3 DEF olsr_cleanup_duplicates
    <2>4. CASE olsr_cleanup_duplicate_entry
      BY <2>4 DEF olsr_cleanup_duplicate_entry
    <2>5. CASE Tick \/ UNCHANGED vars
      BY <2>5 DEF Tick, vars, entry
    <2> QED BY <2>1, <2>2, <2>3, <2>4, <2>5 DEF Next, Processes
  <1> QED BY <1>1, <1>2, TypeCorrect, PTL DEF Spec

(* No number ahead of the newest one is ever blocked, none the array       *)
(* reaches unless it was processed, and no more than DUP_MAX_TOO_LOW of    *)
(* the lower ones in a row: NewNeverBlocked.                               *)
THEOREM NewAccepted == Spec => NewNeverBlocked
  <1> DEFINE Fresh == \A o \in Originators, s \in Seqnos :
               Blocks(o, s) => \/ s \in processed[o]
                               \/ /\ \E i \in ArrayBits .. HalfSeq : s = Before(seqnr[o], i)
                                  /\ lows[o] < DupMaxTooLow
  <1>1. TypeOK /\ ArrayIsHistory /\ LowsCounted => Fresh
    <2> SUFFICES ASSUME TypeOK, ArrayIsHistory, LowsCounted,
                        NEW o \in Originators, NEW s \in Seqnos, Blocks(o, s)
                 PROVE  \/ s \in processed[o]
                        \/ /\ \E i \in ArrayBits .. HalfSeq : s = Before(seqnr[o], i)
                           /\ lows[o] < DupMaxTooLow
      OBVIOUS
    <2>0. seqnr[o] \in Seqnos /\ o \in duplicate_set
      BY DEF TypeOK, Blocks, TooLow, Duplicate, KnownOriginator
    <2>1. CASE TooLow(o, s)
      <3>1. Diff(o, s) < 1 - ArrayBits
        BY <2>1 DEF TooLow
      <3>2. -Diff(o, s) \in ArrayBits .. HalfSeq /\ s = Before(seqnr[o], -Diff(o, s))
        BY <2>0, <3>1 DEF Diff, olsr_seqno_diff, Before
      <3>3. lows[o] < DupMaxTooLow
        BY <2>1 DEF TooLow, LowsCounted, TypeOK
      <3> QED BY <3>2, <3>3
    <2>2. CASE Duplicate(o, s)
      <3>1. Diff(o, s) \in (1 - ArrayBits) .. 0 /\ -Diff(o, s) \in array[o]
        BY <2>2 DEF Duplicate
      <3>2. s = Before(seqnr[o], -Diff(o, s))
        BY <2>0, <3>1, DiffIsPosition DEF Diff
      <3>3. s \in Marked(o)
        BY <3>1, <3>2 DEF Marked
      <3> QED BY <2>0, <3>3 DEF ArrayIsHistory
    <2> QED BY <2>1, <2>2 DEF Blocks
  <1> QED BY <1>1, TypeCorrect, ArrayCorrect, CounterCounts, PTL DEF NewNeverBlocked

------------------------------------------------------------------------------
(* A number below twice the modulus has the remainder one expects.         *)
Reduced(n, m) == IF n < m THEN n ELSE n - m

LEMMA SmallModulo ==
  ASSUME NEW m \in Nat, NEW n \in Nat, n < 2 * m
  PROVE  n % m = Reduced(n, m)
  BY DEF Reduced

(* An entry's time is not before the one its last message asked for, as    *)
(* plain numbers.                                                          *)
OwedKept == \A o \in duplicate_set : heard[o] < Vtime => Owed(o) <= valid_until[o]

(* An entry outlives every message of its originator by DUPLICATE_VTIME,   *)
(* but for messages whose time lies past the wrap of the clock:            *)
(* KeptWhileHeard.                                                         *)
THEOREM KeptUnlessWrapped == Spec => KeptWhileHeard
  <1> DEFINE Kept == \A o \in Originators :
               o \in duplicate_set /\ o \notin duplicate_set' =>
                 heard[o] = Vtime \/ Owed(o) < valid_until[o]
  <1>0. ASSUME now \in Times
        PROVE  /\ GetTimestamp(Vtime) = Reduced(now + Vtime, TimeMod)
               /\ (now + 1) % TimeMod = Reduced(now + 1, TimeMod)
    <2>1. /\ now + Vtime \in Nat /\ now + Vtime < 2 * TimeMod
          /\ now + 1 \in Nat /\ now + 1 < 2 * TimeMod
          /\ TimeMod \in Nat
      BY <1>0
    <2> HIDE DEF TimeMod
    <2>2. (now + Vtime) % TimeMod = Reduced(now + Vtime, TimeMod)
      BY <2>1, SmallModulo, Zenon
    <2>3. (now + 1) % TimeMod = Reduced(now + 1, TimeMod)
      BY <2>1, SmallModulo, Zenon
    <2> QED BY <2>2, <2>3, Zenon DEF GetTimestamp
  <1>1. Init => OwedKept
    BY DEF Init, OwedKept
  <1>2. TypeOK /\ OwedKept /\ [Next]_vars => OwedKept'
    <2> SUFFICES ASSUME TypeOK, OwedKept, [Next]_vars PROVE OwedKept'
      OBVIOUS
    <2>0. /\ now \in Times /\ duplicate_set \subseteq Originators
          /\ \A o \in Originators : valid_until[o] \in Nat /\ heard[o] \in 0 .. Vtime
      BY DEF TypeOK
    <2>1. ASSUME NEW o \in Originators, NEW s \in Seqnos, FirstMessage(o, s) PROVE OwedKept'
      <3>1. now' = now /\ duplicate_set' = duplicate_set \cup {o}
        BY <2>1 DEF FirstMessage
      <3>2. valid_until'[o] = GetTimestamp(Vtime) /\ heard'[o] = 0
        BY <2>1 DEF FirstMessage, TypeOK
      <3>3. \A c \in duplicate_set : c # o => valid_until'[c] = valid_until[c] /\ heard'[c] = heard[c]
        BY <2>0, <2>1 DEF FirstMessage, TypeOK
      <3>4. Owed(o)' = GetTimestamp(Vtime) /\ GetTimestamp(Vtime) \in Int
        BY <1>0, <2>0, <3>1, <3>2 DEF Owed, Reduced
      <3> QED BY <3>1, <3>2, <3>3, <3>4 DEF OwedKept, Owed
    <2>2. ASSUME NEW o \in Originators, KnownOriginator(o) PROVE OwedKept'
      <3>1. now' = now /\ duplicate_set' = duplicate_set /\ o \in duplicate_set
        BY <2>2 DEF KnownOriginator
      <3>2. valid_until'[o] = Refreshed(o) /\ heard'[o] = 0
        BY <2>2 DEF KnownOriginator, TypeOK
      <3>3. \A c \in duplicate_set : c # o => valid_until'[c] = valid_until[c] /\ heard'[c] = heard[c]
        BY <2>0, <2>2 DEF KnownOriginator, TypeOK
      <3>4. Owed(o)' = GetTimestamp(Vtime) /\ GetTimestamp(Vtime) \in Int
        BY <1>0, <2>0, <3>1, <3>2 DEF Owed, Reduced
      <3>5. GetTimestamp(Vtime) <= Refreshed(o)
        BY <2>0, <3>4 DEF Refreshed
      <3> QED BY <3>1, <3>2, <3>3, <3>4, <3>5 DEF OwedKept, Owed
    <2>3. ASSUME NEW o \in Originators, olsr_cleanup_duplicates(o) PROVE OwedKept'
      BY <2>3 DEF olsr_cleanup_duplicates, OwedKept, Owed
    <2>4. CASE olsr_cleanup_duplicate_entry
      <3>1. now' = now /\ duplicate_set' \subseteq duplicate_set
        BY <2>4 DEF olsr_cleanup_duplicate_entry
      <3>2. \A c \in duplicate_set' : valid_until'[c] = valid_until[c] /\ heard'[c] = heard[c]
        BY <2>0, <2>4 DEF olsr_cleanup_duplicate_entry
      <3> QED BY <3>1, <3>2 DEF OwedKept, Owed
    <2>5. CASE Tick
      <3>1. now' = IF now + 1 < TimeMod THEN now + 1 ELSE 0
        BY <1>0, <2>0, <2>5 DEF Tick, Reduced
      <3>2. valid_until' = valid_until /\ duplicate_set' = duplicate_set
        BY <2>5 DEF Tick, entry
      <3>3. \A o \in duplicate_set : heard'[o] = IF heard[o] < Vtime THEN heard[o] + 1 ELSE heard[o]
        BY <2>0, <2>5 DEF Tick
      <3>4. ASSUME NEW o \in duplicate_set, heard'[o] < Vtime
            PROVE  Owed(o)' = Owed(o) /\ heard[o] < Vtime
        <4>1. heard[o] \in 0 .. Vtime /\ heard'[o] = heard[o] + 1 /\ heard[o] + 1 < Vtime
          BY <2>0, <3>3, <3>4
        <4> QED BY <2>0, <3>1, <4>1 DEF Owed
      <3> QED BY <3>2, <3>4 DEF OwedKept
    <2>6. CASE UNCHANGED vars
      BY <2>6 DEF vars, entry, OwedKept, Owed
    <2> QED BY <2>1, <2>2, <2>3, <2>4, <2>5, <2>6
            DEF Next, TooLow, Restarted, Duplicate, LateMessage, NewMessage
  <1>3. TypeOK /\ OwedKept /\ [Next]_vars => [Kept]_vars
    <2> SUFFICES ASSUME TypeOK, OwedKept, Next, NEW o \in duplicate_set, o \notin duplicate_set',
                        heard[o] # Vtime
                 PROVE  Owed(o) < valid_until[o]
      BY DEF TypeOK
    <2>1. olsr_cleanup_duplicate_entry
      BY DEF Next, FirstMessage, TooLow, Restarted, Duplicate, LateMessage, NewMessage,
             KnownOriginator, olsr_cleanup_duplicates, Tick
    <2>2. TimedOut(valid_until[o])
      BY <2>1 DEF olsr_cleanup_duplicate_entry
    <2>3. heard[o] \in 0 .. Vtime - 1 /\ valid_until[o] \in Nat /\ now \in Times
      BY DEF TypeOK
    <2>4. ~TimedOut(Owed(o)) /\ Owed(o) \in Nat
      BY <2>3 DEF TimedOut, Owed
    <2>5. Owed(o) <= valid_until[o]
      BY <2>3 DEF OwedKept
    <2> QED BY <2>2, <2>3, <2>4, <2>5
  <1> QED BY <1>1, <1>2, <1>3, TypeCorrect, PTL DEF Spec, KeptWhileHeard
==============================================================================
