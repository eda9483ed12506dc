---------------------------- MODULE TimersProofs ----------------------------
(***************************************************************************)
(* The timer wheel of Timers keeps the promises of TimerService, for any   *)
(* number of timers, slots and clock values that TimersAssumption allows.  *)
(***************************************************************************)
EXTENDS Timers, SequenceTheorems, TLAPS

(* Most obligations are first-order: Zenon proves them, SMT the others.     *)
USE ZenonT(60)

Clocks == 0 .. ClockRange - 1

(* What TimersAssumption says of the numbers.                              *)
LEMMA Sizes ==
  /\ TimerWheelSlots \in Nat /\ MaxGap \in Nat /\ ClockHalf \in Nat /\ ClockRange \in Nat
  /\ TimerWheelSlots > 0 /\ MaxGap > 0 /\ MaxGap <= TimerWheelSlots
  /\ ClockRange = 2 * ClockHalf /\ TimerWheelSlots + 2 * MaxGap < ClockHalf
  /\ ClockRange % TimerWheelSlots = 0
  BY TimersAssumption, SMTT(30) DEF ClockRange

------------------------------------------------------------------------------
(* Remainders.                                                             *)

(* A multiple of m larger than -m and smaller than m is zero.              *)
LEMMA SmallMultiple ==
  ASSUME NEW m \in Nat \ {0}, NEW t \in Int, -m < m * t, m * t < m
  PROVE  t = 0
<1>1. ASSUME t >= 1 PROVE m * t >= m
  BY <1>1, SMTT(30)
<1>2. ASSUME t <= -1 PROVE m * t <= -m
  BY <1>2, SMTT(30)
<1> QED BY <1>1, <1>2, SMTT(30)

LEMMA DivMod ==
  ASSUME NEW x \in Int, NEW m \in Nat \ {0}
  PROVE  x % m \in 0 .. m - 1 /\ \E q \in Int : x = m * q + (x % m)
<1>1. x % m \in 0 .. m - 1 /\ x \div m \in Int /\ x = m * (x \div m) + (x % m)
  BY SMTT(30)
<1> QED BY <1>1

LEMMA ModIs ==
  ASSUME NEW x \in Int, NEW m \in Nat \ {0}, NEW q \in Int, NEW r \in 0 .. m - 1, x = m * q + r
  PROVE  x % m = r
<1>1. PICK p \in Int : x = m * p + (x % m)
  BY DivMod
<1>2. x % m \in 0 .. m - 1
  BY DivMod
<1>3. m * (p - q) = r - (x % m)
  BY <1>1, <1>2, SMTT(30)
<1>4. p - q \in Int /\ -m < m * (p - q) /\ m * (p - q) < m
  BY <1>2, <1>3, SMTT(30)
<1>5. p - q = 0
  BY <1>4, SmallMultiple
<1> QED BY <1>1, <1>2, <1>5, SMTT(30)

(* A multiple of the modulus does not matter.                              *)
LEMMA ModPlus ==
  ASSUME NEW x \in Int, NEW m \in Nat \ {0}, NEW q \in Int
  PROVE  (x + m * q) % m = x % m
<1>1. PICK p \in Int : x = m * p + (x % m)
  BY DivMod
<1>2. x % m \in 0 .. m - 1
  BY DivMod
<1>3. m * (p + q) = m * p + m * q /\ m * q \in Int /\ m * p \in Int
  BY SMTT(30)
<1>4. x + m * q = m * (p + q) + (x % m) /\ p + q \in Int /\ x + m * q \in Int
  BY <1>1, <1>2, <1>3, SMTT(30)
<1> QED BY <1>2, <1>4, ModIs

(* The remainder of a sum.                                                 *)
LEMMA ModAdd ==
  ASSUME NEW a \in Int, NEW x \in Int, NEW m \in Nat \ {0}
  PROVE  (a + (x % m)) % m = (a + x) % m
<1>1. PICK q \in Int : x = m * q + (x % m)
  BY DivMod
<1>2. x % m \in 0 .. m - 1
  BY DivMod
<1> DEFINE y == a + (x % m)
<1>3. y \in Int /\ a + x = y + m * q
  BY <1>1, <1>2, SMTT(30)
<1> HIDE DEF y
<1>4. (y + m * q) % m = y % m
  BY <1>3, ModPlus
<1> QED BY <1>3, <1>4 DEF y

(* Remainders by a divisor.                                                *)
LEMMA ModDivisor ==
  ASSUME NEW x \in Int, NEW R \in Nat \ {0}, NEW S \in Nat \ {0}, R % S = 0
  PROVE  (x % R) % S = x % S
<1>1. PICK y \in Int : y = x % R
  BY DivMod, SMTT(30)
<1>2. PICK q \in Int : x = R * q + y
  BY <1>1, DivMod
<1>3. PICK k \in Int : R = S * k
  <2>1. R \in Int
    BY SMTT(30)
  <2>2. PICK k \in Int : R = S * k + (R % S)
    BY <2>1, DivMod
  <2>3. R = S * k
    BY <2>2, SMTT(30)
  <2> QED BY <2>3
<1>4. k * q \in Int /\ (S * k) * q = S * (k * q)
  BY SMTT(30)
<1>5. x = y + S * (k * q)
  BY <1>2, <1>3, <1>4, SMTT(30)
<1>6. (y + S * (k * q)) % S = y % S
  BY <1>4, ModPlus
<1> QED BY <1>1, <1>5, <1>6

(* Slots do not change when a time wraps.                                  *)
LEMMA ModMod ==
  ASSUME NEW x \in Int
  PROVE  (x % ClockRange) % TimerWheelSlots = x % TimerWheelSlots
<1>1. TimerWheelSlots \in Nat \ {0} /\ ClockRange \in Nat \ {0} /\ ClockRange % TimerWheelSlots = 0
  BY Sizes, SMTT(30)
<1> QED BY <1>1, ModDivisor

(* Times that are off by less than a turn of the clock.                    *)
LEMMA Near ==
  ASSUME NEW x \in Int, NEW m \in Nat \ {0}
  PROVE  /\ x \in 0 .. m - 1 => x % m = x
         /\ x \in -m .. -1 => x % m = x + m
         /\ x \in m .. 2 * m - 1 => x % m = x - m
<1>1. ASSUME x \in 0 .. m - 1 PROVE x % m = x
  <2>1. x = m * 0 + x
    BY SMTT(30)
  <2> QED BY <1>1, <2>1, ModIs, SMTT(30)
<1>2. ASSUME x \in -m .. -1 PROVE x % m = x + m
  <2>1. x = m * (-1) + (x + m) /\ x + m \in 0 .. m - 1 /\ -1 \in Int
    BY <1>2, SMTT(30)
  <2> QED BY <2>1, ModIs
<1>3. ASSUME x \in m .. 2 * m - 1 PROVE x % m = x - m
  <2>1. x = m * 1 + (x - m) /\ x - m \in 0 .. m - 1
    BY <1>3, SMTT(30)
  <2> QED BY <2>1, ModIs, SMTT(30)
<1> QED BY <1>1, <1>2, <1>3

LEMMA Within == ASSUME NEW m \in Nat \ {0}, NEW x \in 0 .. m - 1 PROVE x % m = x
  BY Near, SMTT(30)

LEMMA Above == ASSUME NEW m \in Nat \ {0}, NEW x \in Int, m <= x, x < 2 * m PROVE x % m = x - m
  BY Near, SMTT(30)

------------------------------------------------------------------------------
(* What is left at time n of a timer whose clock is c.                     *)
Left(c, n) == LET d == (c - n) % ClockRange IN IF d < ClockHalf THEN d ELSE d - ClockRange

(* A timer set to z after n has z left.                                    *)
LEMMA LeftOf ==
  ASSUME NEW n \in Clocks, NEW z \in -ClockHalf .. ClockHalf - 1
  PROVE  (n + z) % ClockRange \in Clocks /\ Left((n + z) % ClockRange, n) = z
<1> DEFINE R == ClockRange
           c == (n + z) % R
           d == (c - n) % R
<1>1. R \in Nat \ {0} /\ R = 2 * ClockHalf /\ ClockHalf \in Nat
  BY Sizes, SMTT(30)
<1>2. n \in 0 .. R - 1
  BY DEF Clocks
<1>3. c \in 0 .. R - 1
  BY <1>1, <1>2, DivMod, SMTT(30)
<1>4. (-n + c) % R = (-n + (n + z)) % R
  <2>1. -n \in Int /\ n + z \in Int
    BY <1>1, <1>2, SMTT(30)
  <2> QED BY <1>1, <2>1, ModAdd
<1> HIDE DEF R, c
<1>5. c - n = -n + c /\ -n + (n + z) = z
  BY <1>2, <1>3, SMTT(30)
<1>6. d = z % R
  BY <1>4, <1>5
<1>7. d = IF z < 0 THEN z + R ELSE z
  <2>1. z \in Int /\ (z \in 0 .. R - 1 \/ z \in -R .. -1) /\ (z < 0 => z \in -R .. -1) /\ (~(z < 0) => z \in 0 .. R - 1)
    BY <1>1, SMTT(30)
  <2> QED BY <1>1, <1>6, <2>1, Near
<1>8. Left(c, n) = IF d < ClockHalf THEN d ELSE d - R
  BY DEF Left, R
<1> HIDE DEF d
<1>9. Left(c, n) = z
  BY <1>1, <1>7, <1>8, SMTT(30)
<1> QED BY <1>3, <1>9 DEF Clocks, R, c

(* And the other way round.                                                *)
LEMMA LeftRange ==
  ASSUME NEW c \in Clocks, NEW n \in Clocks
  PROVE  Left(c, n) \in -ClockHalf .. ClockHalf - 1 /\ c = (n + Left(c, n)) % ClockRange
<1> DEFINE R == ClockRange
           d == (c - n) % R
<1>1. R \in Nat \ {0} /\ R = 2 * ClockHalf /\ ClockHalf \in Nat
  BY Sizes, SMTT(30)
<1>2. n \in 0 .. R - 1 /\ c \in 0 .. R - 1
  BY DEF Clocks
<1>3. d = IF c < n THEN c - n + R ELSE c - n
  <2>1. c - n \in Int /\ (c < n => c - n \in -R .. -1) /\ (~(c < n) => c - n \in 0 .. R - 1)
    BY <1>1, <1>2, SMTT(30)
  <2> QED BY <1>1, <2>1, Near
<1>4. Left(c, n) = IF d < ClockHalf THEN d ELSE d - R
  BY DEF Left, R
<1> HIDE DEF R, d
<1>5. Left(c, n) \in -ClockHalf .. ClockHalf - 1
  BY <1>1, <1>2, <1>3, <1>4, SMTT(30)
<1>6. n + Left(c, n) \in {c, c - R, c + R}
  BY <1>1, <1>2, <1>3, <1>4, SMTT(30)
<1>7. (n + Left(c, n)) % R = c
  <2>1. n + Left(c, n) \in Int
    BY <1>2, <1>5, SMTT(30)
  <2>2. CASE n + Left(c, n) = c
    BY <1>1, <1>2, <2>1, <2>2, Near
  <2>3. CASE n + Left(c, n) = c - R
    <3>1. c - R \in -R .. -1 /\ c - R \in Int /\ c - R + R = c
      BY <1>1, <1>2, SMTT(30)
    <3> QED BY <1>1, <2>3, <3>1, Near
  <2>4. CASE n + Left(c, n) = c + R
    <3>1. c + R \in Int /\ c + R = R * 1 + c
      BY <1>1, <1>2, SMTT(30)
    <3>2. (c + R) % R = c
      BY <1>1, <1>2, <3>1, ModIs, SMTT(30)
    <3> QED BY <2>4, <3>2
  <2> QED BY <1>6, <2>2, <2>3, <2>4
<1> QED BY <1>5, <1>7 DEF R

(* When time passes, less is left.                                         *)
LEMMA LeftLater ==
  ASSUME NEW c \in Clocks, NEW n \in Clocks, NEW d \in Nat, Left(c, n) - d >= -ClockHalf
  PROVE  (n + d) % ClockRange \in Clocks /\ Left(c, (n + d) % ClockRange) = Left(c, n) - d
<1> DEFINE R == ClockRange
           m == (n + d) % R
           z == Left(c, n)
<1>1. R \in Nat \ {0} /\ ClockHalf \in Nat
  BY Sizes, SMTT(30)
<1>2. z \in -ClockHalf .. ClockHalf - 1 /\ c = (n + z) % R
  BY LeftRange
<1>3. n \in Int /\ n + d \in Int
  BY <1>1, SMTT(30) DEF Clocks
<1>4. m \in 0 .. R - 1
  BY <1>1, <1>3, DivMod
<1> HIDE DEF R, z
<1>5. (z - d + m) % R = (z - d + (n + d)) % R
  <2>1. z - d \in Int
    BY <1>1, <1>2, SMTT(30)
  <2> QED BY <1>1, <1>3, <2>1, ModAdd
<1> HIDE DEF m
<1>6. z - d + m = m + (z - d) /\ z - d + (n + d) = n + z
  BY <1>1, <1>2, <1>3, <1>4, SMTT(30)
<1>7. c = (m + (z - d)) % R
  BY <1>2, <1>5, <1>6
<1>8. z - d \in -ClockHalf .. ClockHalf - 1
  BY <1>1, <1>2, SMTT(30) DEF z
<1>9. m \in Clocks
  BY <1>4 DEF Clocks, R
<1>10. Left((m + (z - d)) % R, m) = z - d
  BY <1>8, <1>9, LeftOf DEF R
<1> QED BY <1>7, <1>9, <1>10 DEF m, z, R

(* A timer is due when nothing is left, unless it is half a turn late.     *)
LEMMA DueIs ==
  ASSUME now_times \in Clocks, NEW c \in Clocks, Left(c, now_times) > -ClockHalf
  PROVE  olsr_isTimedOut(c) <=> Left(c, now_times) <= 0
<1> DEFINE R == ClockRange
           n == now_times
           d == (c - n) % R
<1>1. R \in Nat \ {0} /\ R = 2 * ClockHalf /\ ClockHalf \in Nat
  BY Sizes, SMTT(30)
<1>2. n \in 0 .. R - 1 /\ c \in 0 .. R - 1
  BY DEF Clocks
<1>3. d = IF c < n THEN c - n + R ELSE c - n
  <2>1. c - n \in Int /\ (c < n => c - n \in -R .. -1) /\ (~(c < n) => c - n \in 0 .. R - 1)
    BY <1>1, <1>2, SMTT(30)
  <2> QED BY <1>1, <2>1, Near
<1>4. Left(c, n) = IF d < ClockHalf THEN d ELSE d - R
  BY DEF Left, R
<1>5. olsr_isTimedOut(c) <=> IF c > n THEN c - n > ClockHalf ELSE n - c <= ClockHalf
  BY DEF olsr_isTimedOut
<1>6. PICK e : e = Left(c, n)
  OBVIOUS
<1>7. e > -ClockHalf
  BY <1>6
<1> HIDE DEF R, d, n
<1>8. (IF c > n THEN c - n > ClockHalf ELSE n - c <= ClockHalf) <=> e <= 0
  BY <1>1, <1>2, <1>3, <1>4, <1>6, <1>7, SMTT(30)
<1> QED BY <1>5, <1>6, <1>8 DEF n

(* A time that lies w slots after the start of a walk is in the slot that  *)
(* is walked after w others.                                               *)
LEMMA SlotMeets ==
  ASSUME NEW l0 \in Clocks, NEW g \in Nat, NEW z \in Int, NEW c, NEW l, NEW n,
         n = (l0 + g) % ClockRange, c = (n + z) % ClockRange,
         l = (l0 + ((z + g) % TimerWheelSlots)) % ClockRange
  PROVE  c % TimerWheelSlots = l % TimerWheelSlots
<1> DEFINE R == ClockRange
           S == TimerWheelSlots
<1>1. R \in Nat \ {0} /\ S \in Nat \ {0}
  BY Sizes, SMTT(30)
<1>2. l0 \in Int /\ l0 + g \in Int /\ z + g \in Int
  BY <1>1, SMTT(30) DEF Clocks
<1>3. n \in Int /\ (z + g) % S \in Int
  BY <1>1, <1>2, DivMod, SMTT(30)
<1>4. n % S = (l0 + g) % S
  BY <1>2, ModMod
<1>5. c % S = (n + z) % S
  <2>1. n + z \in Int
    BY <1>3, SMTT(30)
  <2> QED BY <2>1, ModMod
<1>6. l % S = (l0 + ((z + g) % S)) % S
  <2>1. l0 + ((z + g) % S) \in Int
    BY <1>2, <1>3, SMTT(30)
  <2> QED BY <2>1, ModMod
<1>7. (l0 + ((z + g) % S)) % S = (l0 + (z + g)) % S
  BY <1>1, <1>2, ModAdd
<1>8. (z + (n % S)) % S = (z + n) % S
  BY <1>1, <1>3, ModAdd
<1>9. (z + ((l0 + g) % S)) % S = (z + (l0 + g)) % S
  BY <1>1, <1>2, ModAdd
<1> HIDE DEF R, S
<1>10. z + n = n + z /\ z + (l0 + g) = l0 + (z + g)
  BY <1>2, <1>3, SMTT(30)
<1>11. c % S = l % S
  BY <1>4, <1>5, <1>6, <1>7, <1>8, <1>9, <1>10
<1> QED BY <1>11 DEF S

------------------------------------------------------------------------------
(* Lists of timers.                                                        *)

(* No timer is twice on a list.                                            *)
Once(q) == \A i, j \in DOMAIN q : q[i] = q[j] => i = j

List(q) == q \in Seq(TimerBlocks) /\ Once(q)

LEMMA EmptyList == List(<<>>) /\ Range(<<>>) = {}
  BY SMTT(30) DEF List, Once, Range

LEMMA Appended ==
  ASSUME NEW q, List(q), NEW b \in TimerBlocks, b \notin Range(q)
  PROVE  List(Append(q, b)) /\ Range(Append(q, b)) = Range(q) \cup {b}
<1> DEFINE t == Append(q, b)
           n == Len(q)
<1>1. q \in Seq(TimerBlocks) /\ n \in Nat /\ DOMAIN q = 1 .. n
  BY LenProperties DEF List
<1>2. /\ t \in Seq(TimerBlocks) /\ DOMAIN t = 1 .. n + 1
      /\ t[n + 1] = b /\ \A i \in 1 .. n : t[i] = q[i]
  BY <1>1, AppendProperties, LenProperties, SMTT(30)
<1>3. \A i \in 1 .. n : q[i] # b
  BY <1>1 DEF Range
<1>4. \A i, j \in 1 .. n : q[i] = q[j] => i = j
  BY <1>1 DEF List, Once
<1> HIDE DEF t, n
<1>5. \A i \in 1 .. n + 1 : i \in 1 .. n \/ i = n + 1
  BY <1>1, SMTT(30)
<1>6. Once(t)
  BY <1>2, <1>3, <1>4, <1>5 DEF Once
<1>7. Range(t) = Range(q) \cup {b}
  <2>1. 1 .. n \subseteq 1 .. n + 1 /\ n + 1 \in 1 .. n + 1
    BY <1>1, SMTT(30)
  <2>2. ASSUME NEW x \in Range(t) PROVE x \in Range(q) \cup {b}
    BY <1>1, <1>2, <1>5, <2>2 DEF Range
  <2>3. ASSUME NEW x \in Range(q) \cup {b} PROVE x \in Range(t)
    <3>1. CASE x = b
      BY <1>2, <2>1, <3>1 DEF Range
    <3>2. CASE x \in Range(q)
      <4>1. PICK i \in 1 .. n : x = q[i]
        BY <1>1, <3>2 DEF Range
      <4> QED BY <1>2, <2>1, <4>1 DEF Range
    <3> QED BY <2>3, <3>1, <3>2
  <2> QED BY <2>2, <2>3
<1> QED BY <1>2, <1>6, <1>7 DEF List, t

LEMMA Pushed ==
  ASSUME NEW q, List(q), NEW b \in TimerBlocks, b \notin Range(q)
  PROVE  List(<<b>> \o q) /\ Range(<<b>> \o q) = Range(q) \cup {b}
<1> DEFINE t == <<b>> \o q
           n == Len(q)
<1>1. q \in Seq(TimerBlocks) /\ n \in Nat /\ DOMAIN q = 1 .. n
  BY LenProperties DEF List
<1>2. <<b>> \in Seq(TimerBlocks) /\ Len(<<b>>) = 1
  BY SMTT(30)
<1>3. /\ t \in Seq(TimerBlocks) /\ Len(t) = 1 + n
      /\ \A i \in 1 .. 1 + n : t[i] = IF i <= 1 THEN <<b>>[i] ELSE q[i - 1]
  BY <1>1, <1>2, ConcatProperties
<1>4. DOMAIN t = 1 .. n + 1
  BY <1>1, <1>3, LenProperties, SMTT(30)
<1> HIDE DEF t, n
<1>5. t[1] = b /\ \A i \in 1 .. n : t[i + 1] = q[i]
  <2>1. 1 \in 1 .. 1 + n /\ t[1] = <<b>>[1]
    BY <1>1, <1>3, SMTT(30)
  <2>2. ASSUME NEW i \in 1 .. n PROVE t[i + 1] = q[i]
    <3>1. i + 1 \in 1 .. 1 + n /\ ~(i + 1 <= 1) /\ (i + 1) - 1 = i
      BY <1>1, SMTT(30)
    <3> QED BY <1>3, <3>1
  <2> QED BY <2>1, <2>2
<1>6. \A i \in 1 .. n : q[i] # b
  BY <1>1 DEF Range
<1>7. \A i, j \in 1 .. n : q[i] = q[j] => i = j
  BY <1>1 DEF List, Once
<1>8. \A i \in 1 .. n + 1 : i = 1 \/ \E k \in 1 .. n : i = k + 1
  <2>1. ASSUME NEW i \in 1 .. n + 1, i # 1 PROVE i - 1 \in 1 .. n /\ i = (i - 1) + 1
    BY <1>1, <2>1, SMTT(30)
  <2> QED BY <2>1
<1>9. Once(t)
  BY <1>4, <1>5, <1>6, <1>7, <1>8, SMTT(30) DEF Once
<1>10. Range(t) = Range(q) \cup {b}
  <2>1. ASSUME NEW x \in Range(t) PROVE x \in Range(q) \cup {b}
    <3>1. PICK i \in 1 .. n + 1 : x = t[i]
      BY <1>4, <2>1 DEF Range
    <3>2. CASE i = 1
      BY <1>5, <3>1, <3>2
    <3>3. ASSUME NEW k \in 1 .. n, i = k + 1 PROVE x \in Range(q)
      BY <1>1, <1>5, <3>1, <3>3 DEF Range
    <3> QED BY <1>8, <3>2, <3>3
  <2>2. ASSUME NEW x \in Range(q) \cup {b} PROVE x \in Range(t)
    <3>1. CASE x = b
      <4>1. 1 \in 1 .. n + 1
        BY <1>1, SMTT(30)
      <4> QED BY <1>4, <1>5, <3>1, <4>1 DEF Range
    <3>2. CASE x \in Range(q)
      <4>1. PICK i \in 1 .. n : x = q[i]
        BY <1>1, <3>2 DEF Range
      <4>2. i + 1 \in 1 .. n + 1
        BY <1>1, SMTT(30)
      <4> QED BY <1>4, <1>5, <4>1, <4>2 DEF Range
    <3> QED BY <2>2, <3>1, <3>2
  <2> QED BY <2>1, <2>2
<1> QED BY <1>3, <1>9, <1>10 DEF List, t

LEMMA Popped ==
  ASSUME NEW q, List(q), q # <<>>
  PROVE  /\ Head(q) \in Range(q) /\ Head(q) \in TimerBlocks
         /\ List(Tail(q)) /\ Range(Tail(q)) = Range(q) \ {Head(q)}
<1> DEFINE t == Tail(q)
           n == Len(q)
<1>1. q \in Seq(TimerBlocks) /\ n \in Nat /\ DOMAIN q = 1 .. n
  BY LenProperties DEF List
<1>2. /\ Head(q) = q[1] /\ n >= 1 /\ t \in Seq(TimerBlocks) /\ Len(t) = n - 1
      /\ \A i \in 1 .. n - 1 : t[i] = q[i + 1]
  BY <1>1, HeadTailProperties, EmptySeq, SMTT(30)
<1>3. DOMAIN t = 1 .. n - 1
  BY <1>2, LenProperties
<1>4. Head(q) \in TimerBlocks
  BY <1>1, <1>2, ElementOfSeq, SMTT(30)
<1>5. \A i, j \in 1 .. n : q[i] = q[j] => i = j
  BY <1>1 DEF List, Once
<1> HIDE DEF t, n
<1>6. 1 \in 1 .. n
  BY <1>1, <1>2, SMTT(30)
<1>7. \A i \in 1 .. n - 1 : i + 1 \in 1 .. n /\ i + 1 # 1
  BY <1>1, SMTT(30)
<1>8. \A i \in 1 .. n : i # 1 => i - 1 \in 1 .. n - 1 /\ (i - 1) + 1 = i
  BY <1>1, SMTT(30)
<1>9. Once(t)
  <2>1. \A i, j \in 1 .. n - 1 : i + 1 = j + 1 => i = j
    BY <1>1, SMTT(30)
  <2> QED BY <1>2, <1>3, <1>5, <1>7, <2>1, SMTT(30) DEF Once
<1>10. Range(t) = Range(q) \ {Head(q)}
  <2>1. ASSUME NEW x \in Range(t) PROVE x \in Range(q) /\ x # Head(q)
    <3>1. PICK i \in 1 .. n - 1 : x = t[i]
      BY <1>3, <2>1 DEF Range
    <3>2. x = q[i + 1] /\ i + 1 \in 1 .. n /\ i + 1 # 1
      BY <1>2, <1>7, <3>1
    <3> QED BY <1>1, <1>2, <1>5, <1>6, <3>2 DEF Range
  <2>2. ASSUME NEW x \in Range(q), x # Head(q) PROVE x \in Range(t)
    <3>1. PICK i \in 1 .. n : x = q[i]
      BY <1>1, <2>2 DEF Range
    <3>2. i - 1 \in 1 .. n - 1 /\ x = t[i - 1]
      BY <1>2, <1>8, <2>2, <3>1
    <3> QED BY <1>3, <3>2 DEF Range
  <2> QED BY <2>1, <2>2
<1>11. Head(q) \in Range(q)
  BY <1>1, <1>2, <1>6 DEF Range
<1> QED BY <1>2, <1>4, <1>9, <1>10, <1>11 DEF List, t

(* The elements of a sequence without its i-th.                            *)
LEMMA WithoutNth ==
  ASSUME NEW q \in Seq(TimerBlocks), NEW i \in DOMAIN q, NEW t, t = CutAt(q, i)
  PROVE  /\ t \in Seq(TimerBlocks) /\ DOMAIN t = 1 .. Len(q) - 1
         /\ \A j \in 1 .. Len(q) - 1 : t[j] = IF j < i THEN q[j] ELSE q[j + 1]
<1>1. Len(q) \in Nat /\ DOMAIN q = 1 .. Len(q) /\ i \in 1 .. Len(q)
  BY LenProperties
<1> DEFINE front == SubSeq(q, 1, i - 1)
           back  == SubSeq(q, i + 1, Len(q))
<1>2. front \in Seq(TimerBlocks) /\ Len(front) = i - 1 /\ \A j \in 1 .. i - 1 : front[j] = q[j]
  BY <1>1, SubSeqProperties, SMTT(30)
<1>3. back \in Seq(TimerBlocks) /\ Len(back) = Len(q) - i /\ \A j \in 1 .. Len(q) - i : back[j] = q[i + j]
  <2>1. PICK m \in Int : m = i + 1
    BY <1>1, SMTT(30)
  <2>2. PICK n \in Int : n = Len(q)
    <3>1. Len(q) \in Int
      BY <1>1, SMTT(30)
    <3> QED BY <3>1
  <2>3. ASSUME NEW k \in m .. n PROVE q[k] \in TimerBlocks
    <3>1. k \in 1 .. Len(q)
      BY <1>1, <2>1, <2>2, SMTT(30)
    <3>2. q \in [1 .. Len(q) -> TimerBlocks]
      BY LenProperties
    <3> QED BY <3>1, <3>2
  <2>4. back = SubSeq(q, m, n)
    BY <2>1, <2>2
  <2> HIDE DEF back
  <2>5. /\ back \in Seq(TimerBlocks)
        /\ Len(back) = IF m <= n THEN n - m + 1 ELSE 0
        /\ \A k \in 1 .. n - m + 1 : back[k] = q[m + k - 1]
    BY <2>3, <2>4, SubSeqProperties, SMTT(30)
  <2>6. Len(back) = Len(q) - i
    <3>1. PICK p : p = Len(q)
      OBVIOUS
    <3>2. i \in 1 .. p /\ p \in Nat /\ m = i + 1 /\ n = p
      BY <1>1, <2>1, <2>2, <3>1
    <3>3. n - m + 1 = p - i /\ (~(m <= n) => p - i = 0)
      BY <3>2, SMTT(30)
    <3> QED BY <2>5, <3>1, <3>3
  <2>7. ASSUME NEW j \in 1 .. Len(q) - i PROVE back[j] = q[i + j]
    <3>1. j \in 1 .. n - m + 1 /\ m + j - 1 = i + j
      BY <1>1, <2>1, <2>2, SMTT(30)
    <3> QED BY <2>5, <3>1
  <2> QED BY <2>5, <2>6, <2>7
<1>4. t = front \o back
  BY DEF CutAt
<1> HIDE DEF front, back
<1>5. /\ t \in Seq(TimerBlocks) /\ Len(t) = Len(front) + Len(back)
      /\ \A j \in 1 .. Len(front) + Len(back) : t[j] = IF j <= Len(front) THEN front[j] ELSE back[j - Len(front)]
  <2>1. front \in Seq(TimerBlocks) /\ back \in Seq(TimerBlocks)
    BY <1>2, <1>3
  <2>2. /\ front \o back \in Seq(TimerBlocks) /\ Len(front \o back) = Len(front) + Len(back)
        /\ \A j \in 1 .. Len(front) + Len(back) :
             (front \o back)[j] = IF j <= Len(front) THEN front[j] ELSE back[j - Len(front)]
    BY <2>1, ConcatProperties
  <2> QED BY <1>4, <2>2
<1>6. Len(front) + Len(back) = Len(q) - 1
  BY <1>1, <1>2, <1>3, SMTT(30)
<1>7. DOMAIN t = 1 .. Len(q) - 1
  BY <1>5, <1>6, LenProperties
<1>8. ASSUME NEW j \in 1 .. Len(q) - 1 PROVE t[j] = IF j < i THEN q[j] ELSE q[j + 1]
  <2>1. t[j] = IF j <= Len(front) THEN front[j] ELSE back[j - Len(front)]
    BY <1>5, <1>6
  <2>2. CASE j < i
    <3>1. j <= Len(front) /\ j \in 1 .. i - 1
      BY <1>1, <1>2, <2>2, SMTT(30)
    <3> QED BY <1>2, <2>1, <2>2, <3>1
  <2>3. CASE ~(j < i)
    <3>1. j - Len(front) \in 1 .. Len(q) - i /\ i + (j - Len(front)) = j + 1 /\ ~(j <= Len(front))
      BY <1>1, <1>2, <2>3, SMTT(30)
    <3> QED BY <1>3, <2>1, <2>3, <3>1
  <2> QED BY <2>2, <2>3
<1> QED BY <1>5, <1>7, <1>8

LEMMA Removed ==
  ASSUME NEW q, List(q), NEW b
  PROVE  List(Unlinked(q, b)) /\ Range(Unlinked(q, b)) = Range(q) \ {b}
<1>1. CASE b \notin Range(q)
  BY <1>1 DEF Unlinked
<1>2. CASE b \in Range(q)
  <2> DEFINE n == Len(q)
             i == CHOOSE k \in DOMAIN q : q[k] = b
             t == CutAt(q, i)
             Src(j) == IF j < i THEN j ELSE j + 1
  <2>1. q \in Seq(TimerBlocks) /\ n \in Nat /\ DOMAIN q = 1 .. n
    BY LenProperties DEF List
  <2>2. i \in 1 .. n /\ q[i] = b
    BY <1>2, <2>1 DEF Range
  <2>3. Unlinked(q, b) = t
    BY <1>2 DEF Unlinked
  <2> HIDE DEF i
  <2>4. /\ t \in Seq(TimerBlocks) /\ DOMAIN t = 1 .. n - 1
        /\ \A j \in 1 .. n - 1 : t[j] = IF j < i THEN q[j] ELSE q[j + 1]
    BY <2>1, <2>2, WithoutNth
  <2> HIDE DEF t, n
  <2>5. \A j \in 1 .. n - 1 : t[j] = q[Src(j)]
    BY <2>4
  <2>6. \A j \in 1 .. n - 1 : Src(j) \in 1 .. n /\ Src(j) # i
    BY <2>1, <2>2, SMTT(30)
  <2>7. \A j, k \in 1 .. n - 1 : Src(j) = Src(k) => j = k
    BY <2>1, <2>2, SMTT(30)
  <2>8. \A k \in 1 .. n : k # i => \E j \in 1 .. n - 1 : Src(j) = k
    <3> SUFFICES ASSUME NEW k \in 1 .. n, k # i PROVE \E j \in 1 .. n - 1 : Src(j) = k
      OBVIOUS
    <3>1. CASE k < i
      <4>1. k \in 1 .. n - 1 /\ Src(k) = k
        BY <2>1, <2>2, <3>1, SMTT(30)
      <4> QED BY <4>1
    <3>2. CASE ~(k < i)
      <4>1. k - 1 \in 1 .. n - 1 /\ Src(k - 1) = k
        BY <2>1, <2>2, <3>2, SMTT(30)
      <4> QED BY <4>1
    <3> QED BY <3>1, <3>2
  <2> HIDE DEF Src
  <2>9. \A k, l \in 1 .. n : q[k] = q[l] => k = l
    BY <2>1 DEF List, Once
  <2>10. Once(t)
    BY <2>4, <2>5, <2>6, <2>7, <2>9, SMTT(30) DEF Once
  <2>11. Range(t) = Range(q) \ {b}
    <3>1. ASSUME NEW x \in Range(t) PROVE x \in Range(q) /\ x # b
      <4>1. PICK j \in 1 .. n - 1 : x = t[j]
        BY <2>4, <3>1 DEF Range
      <4> QED BY <2>1, <2>2, <2>5, <2>6, <2>9, <4>1 DEF Range
    <3>2. ASSUME NEW x \in Range(q), x # b PROVE x \in Range(t)
      <4>1. PICK k \in 1 .. n : x = q[k]
        BY <2>1, <3>2 DEF Range
      <4>2. PICK j \in 1 .. n - 1 : Src(j) = k
        BY <2>2, <2>8, <3>2, <4>1
      <4> QED BY <2>4, <2>5, <4>1, <4>2 DEF Range
    <3> QED BY <3>1, <3>2
  <2> QED BY <2>3, <2>4, <2>10, <2>11 DEF List
<1> QED BY <1>1, <1>2

------------------------------------------------------------------------------
(* The state of the timers as one value: where each timer is.              *)

Slot(c) == c % TimerWheelSlots

TimerType ==
  [wheel : [WheelSlots -> Seq(TimerBlocks)], tmp : Seq(TimerBlocks), clock : [TimerBlocks -> Clocks],
   period : [TimerBlocks -> Rels \cup {0}], running : SUBSET TimerBlocks,
   free : Seq(TimerBlocks), allocated : SUBSET TimerBlocks]

Lists(T) == (\A s \in WheelSlots : List(T.wheel[s])) /\ List(T.tmp) /\ List(T.free)

(* What is on a list runs, and in the slot of its clock; the temporary     *)
(* list has timers of the slot of time l.                                  *)
Linked(T, l) ==
  /\ \A s \in WheelSlots : \A b \in Range(T.wheel[s]) :
       b \in T.running /\ Slot(T.clock[b]) = s /\ b \notin Range(T.tmp)
  /\ \A b \in Range(T.tmp) : b \in T.running /\ Slot(T.clock[b]) = Slot(l)

(* What runs, but for X, is on a list.                                     *)
Listed(T, X) ==
  \A b \in T.running \ X : b \in Range(T.tmp) \/ b \in Range(T.wheel[Slot(T.clock[b])])

Memory(T) == T.running \subseteq T.allocated /\ Range(T.free) = T.allocated \ T.running

Good(T, l) == T \in TimerType /\ Lists(T) /\ Linked(T, l) /\ Listed(T, {}) /\ Memory(T)

(* What an operation leaves of the timers other than those of X, and of    *)
(* the temporary list.                                                     *)
Keeps(T, U, X) ==
  \A u \in TimerBlocks \ X :
    (u \in T.running <=> u \in U.running) /\ U.clock[u] = T.clock[u] /\ U.period[u] = T.period[u]

Shrinks(T, U) == \A u \in Range(U.tmp) : u \in Range(T.tmp) /\ U.clock[u] = T.clock[u]

IsSet(T, b, c, p) == b \in T.running /\ T.clock[b] = c /\ T.period[b] = p

LEMMA SlotRange == ASSUME NEW c \in Clocks PROVE Slot(c) \in WheelSlots
<1>1. c \in Int /\ TimerWheelSlots \in Nat \ {0}
  BY Sizes, SMTT(30) DEF Clocks
<1> QED BY <1>1, DivMod DEF Slot, WheelSlots

(* A timer is taken off its list.                                          *)
LEMMA ListRemove ==
  ASSUME NEW T \in TimerType, Lists(T), NEW b, NEW U, U = list_remove(T, b)
  PROVE  /\ U \in TimerType /\ Lists(U)
         /\ \A s \in WheelSlots : Range(U.wheel[s]) = Range(T.wheel[s]) \ {b}
         /\ Range(U.tmp) = Range(T.tmp) \ {b}
         /\ U.clock = T.clock /\ U.period = T.period /\ U.running = T.running
         /\ U.free = T.free /\ U.allocated = T.allocated
<1> DEFINE w == [s \in WheelSlots |-> Unlinked(T.wheel[s], b)]
           t == Unlinked(T.tmp, b)
<1>1. U = [T EXCEPT !.wheel = w, !.tmp = t]
  BY DEF list_remove
<1>2. \A s \in WheelSlots : List(Unlinked(T.wheel[s], b)) /\ Range(Unlinked(T.wheel[s], b)) = Range(T.wheel[s]) \ {b}
  BY Removed DEF Lists
<1>3. List(t) /\ Range(t) = Range(T.tmp) \ {b}
  BY Removed DEF Lists
<1>4. w \in [WheelSlots -> Seq(TimerBlocks)] /\ t \in Seq(TimerBlocks)
  BY <1>2, <1>3 DEF List
<1>5. \A s \in WheelSlots : List(w[s]) /\ Range(w[s]) = Range(T.wheel[s]) \ {b}
  BY <1>2
<1> HIDE DEF w, t
<1>6. /\ U \in TimerType /\ U.wheel = w /\ U.tmp = t
      /\ U.clock = T.clock /\ U.period = T.period /\ U.running = T.running
      /\ U.free = T.free /\ U.allocated = T.allocated
  BY <1>1, <1>4 DEF TimerType
<1> QED BY <1>3, <1>5, <1>6 DEF Lists

(* A timer is appended to the list of the slot of its clock.               *)
LEMMA ListAdd ==
  ASSUME NEW T \in TimerType, Lists(T), NEW b \in TimerBlocks,
         b \notin Range(T.wheel[Slot(T.clock[b])]), NEW U, U = list_add_before(T, b)
  PROVE  /\ U \in TimerType /\ Lists(U)
         /\ \A s \in WheelSlots :
              Range(U.wheel[s]) = IF s = Slot(T.clock[b]) THEN Range(T.wheel[s]) \cup {b} ELSE Range(T.wheel[s])
         /\ U.tmp = T.tmp /\ U.clock = T.clock /\ U.period = T.period /\ U.running = T.running
         /\ U.free = T.free /\ U.allocated = T.allocated
<1> DEFINE k == Slot(T.clock[b])
           q == Append(T.wheel[k], b)
           w == [T.wheel EXCEPT ![k] = q]
<1>1. T.clock[b] \in Clocks /\ T.wheel \in [WheelSlots -> Seq(TimerBlocks)]
  BY DEF TimerType
<1>2. k \in WheelSlots
  BY <1>1, SlotRange
<1>3. List(q) /\ Range(q) = Range(T.wheel[k]) \cup {b}
  BY <1>2, Appended DEF Lists
<1>4. U = [T EXCEPT !.wheel = w]
  BY DEF list_add_before, Slot
<1> HIDE DEF q, k
<1>5. w \in [WheelSlots -> Seq(TimerBlocks)] /\ w[k] = q /\ \A s \in WheelSlots : s # k => w[s] = T.wheel[s]
  BY <1>1, <1>2, <1>3 DEF List
<1> HIDE DEF w
<1>6. /\ U \in TimerType /\ U.wheel = w /\ U.tmp = T.tmp
      /\ U.clock = T.clock /\ U.period = T.period /\ U.running = T.running
      /\ U.free = T.free /\ U.allocated = T.allocated
  BY <1>4, <1>5 DEF TimerType
<1>7. \A s \in WheelSlots : List(w[s]) /\ Range(w[s]) = IF s = k THEN Range(T.wheel[s]) \cup {b} ELSE Range(T.wheel[s])
  BY <1>3, <1>5 DEF Lists
<1> QED BY <1>6, <1>7 DEF Lists, k

LEMMA Stopped ==
  ASSUME NEW T, NEW l, Good(T, l), NEW b \in T.running, NEW U, U = olsr_stop_timer(T, b)
  PROVE  /\ Good(U, l) /\ Keeps(T, U, {b}) /\ Shrinks(T, U)
         /\ b \notin U.running /\ b \notin Range(U.tmp)
<1> DEFINE V == list_remove(T, b)
           q == Append(V.free, b)
           c == [V.clock EXCEPT ![b] = 0]
           p == [V.period EXCEPT ![b] = 0]
           r == V.running \ {b}
<1>1. T \in TimerType /\ Lists(T) /\ Linked(T, l) /\ Listed(T, {}) /\ Memory(T)
  BY DEF Good
<1>2. /\ V \in TimerType /\ Lists(V)
      /\ \A s \in WheelSlots : Range(V.wheel[s]) = Range(T.wheel[s]) \ {b}
      /\ Range(V.tmp) = Range(T.tmp) \ {b}
      /\ V.clock = T.clock /\ V.period = T.period /\ V.running = T.running
      /\ V.free = T.free /\ V.allocated = T.allocated
  BY <1>1, ListRemove
<1>3. U = [V EXCEPT !.running = r, !.free = q, !.clock = c, !.period = p]
  BY DEF olsr_stop_timer
<1>4. b \in TimerBlocks /\ 0 \in Clocks
  BY <1>1, Sizes, SMTT(30) DEF TimerType, Clocks
<1> HIDE DEF V
<1>5. List(q) /\ Range(q) = Range(T.free) \cup {b}
  BY <1>1, <1>2, <1>4, Appended DEF Lists, Memory
<1>6. /\ c \in [TimerBlocks -> Clocks] /\ p \in [TimerBlocks -> Rels \cup {0}]
      /\ \A u \in TimerBlocks \ {b} : c[u] = T.clock[u] /\ p[u] = T.period[u]
  BY <1>1, <1>2, <1>4 DEF TimerType
<1>7. r \subseteq TimerBlocks /\ r = T.running \ {b}
  BY <1>1, <1>2 DEF TimerType
<1> HIDE DEF q, c, p, r
<1>8. /\ U \in TimerType /\ U.wheel = V.wheel /\ U.tmp = V.tmp /\ U.clock = c /\ U.period = p
      /\ U.running = r /\ U.free = q /\ U.allocated = V.allocated
  <2>1. q \in Seq(TimerBlocks)
    BY <1>5 DEF List
  <2> QED BY <1>2, <1>3, <1>6, <1>7, <2>1 DEF TimerType
<1>9. Lists(U)
  BY <1>2, <1>5, <1>8 DEF Lists
<1>10. Range(U.tmp) = Range(T.tmp) \ {b} /\ \A s \in WheelSlots : Range(U.wheel[s]) = Range(T.wheel[s]) \ {b}
  BY <1>2, <1>8
<1>11. \A u \in T.running \ {b} : u \in U.running /\ U.clock[u] = T.clock[u] /\ T.clock[u] \in Clocks
  BY <1>1, <1>6, <1>7, <1>8 DEF TimerType
<1>12. Linked(U, l)
  BY <1>1, <1>10, <1>11, SMTT(30) DEF Linked
<1>13. Listed(U, {})
  <2> SUFFICES ASSUME NEW u \in U.running
               PROVE  u \in Range(U.tmp) \/ u \in Range(U.wheel[Slot(U.clock[u])])
    BY DEF Listed
  <2>1. u \in T.running \ {b}
    BY <1>7, <1>8
  <2>2. U.clock[u] = T.clock[u] /\ Slot(T.clock[u]) \in WheelSlots
    BY <1>11, <2>1, SlotRange
  <2>3. u \in Range(T.tmp) \/ u \in Range(T.wheel[Slot(T.clock[u])])
    BY <1>1, <2>1 DEF Listed
  <2> QED BY <1>10, <2>1, <2>2, <2>3
<1>14. Memory(U)
  BY <1>1, <1>2, <1>5, <1>7, <1>8 DEF Memory
<1>15. Keeps(T, U, {b})
  BY <1>6, <1>7, <1>8 DEF Keeps
<1>16. Shrinks(T, U)
  BY <1>1, <1>10, <1>11 DEF Shrinks, Linked
<1> QED BY <1>7, <1>8, <1>9, <1>10, <1>12, <1>13, <1>14, <1>15, <1>16 DEF Good

(* A running timer gets another clock and, off its list and on again, the  *)
(* slot of that clock.                                                     *)
LEMMA Changed ==
  ASSUME NEW T, NEW l, Good(T, l), NEW b \in T.running, NEW c \in Clocks, NEW p \in Rels \cup {0},
         NEW U, U = olsr_change_timer(T, b, c, p)
  PROVE  /\ Good(U, l) /\ Keeps(T, U, {b}) /\ Shrinks(T, U)
         /\ IsSet(U, b, c, p) /\ b \notin Range(U.tmp)
<1> DEFINE ck == [T.clock EXCEPT ![b] = c]
           pd == [T.period EXCEPT ![b] = p]
           S  == [T EXCEPT !.clock = ck, !.period = pd]
           V  == list_remove(S, b)
<1>1. T \in TimerType /\ Lists(T) /\ Linked(T, l) /\ Listed(T, {}) /\ Memory(T)
  BY DEF Good
<1>2. b \in TimerBlocks
  BY <1>1 DEF TimerType
<1>3. /\ ck \in [TimerBlocks -> Clocks] /\ pd \in [TimerBlocks -> Rels \cup {0}] /\ ck[b] = c /\ pd[b] = p
      /\ \A u \in TimerBlocks \ {b} : ck[u] = T.clock[u] /\ pd[u] = T.period[u]
  BY <1>1, <1>2 DEF TimerType
<1>4. U = list_add_before(V, b)
  BY DEF olsr_change_timer
<1> HIDE DEF ck, pd
<1>5. /\ S \in TimerType /\ S.wheel = T.wheel /\ S.tmp = T.tmp /\ S.clock = ck /\ S.period = pd
      /\ S.running = T.running /\ S.free = T.free /\ S.allocated = T.allocated
  BY <1>1, <1>3 DEF TimerType
<1>6. Lists(S)
  BY <1>1, <1>5 DEF Lists
<1> HIDE DEF S
<1>7. /\ V \in TimerType /\ Lists(V)
      /\ \A s \in WheelSlots : Range(V.wheel[s]) = Range(T.wheel[s]) \ {b}
      /\ Range(V.tmp) = Range(T.tmp) \ {b}
      /\ V.clock = ck /\ V.period = pd /\ V.running = T.running
      /\ V.free = T.free /\ V.allocated = T.allocated
  BY <1>5, <1>6, ListRemove, SMTT(30)
<1> HIDE DEF V
<1>8. Slot(V.clock[b]) = Slot(c) /\ Slot(c) \in WheelSlots
  BY <1>3, <1>7, SlotRange
<1>9. /\ U \in TimerType /\ Lists(U)
      /\ \A s \in WheelSlots :
           Range(U.wheel[s]) = IF s = Slot(c) THEN Range(V.wheel[s]) \cup {b} ELSE Range(V.wheel[s])
      /\ U.tmp = V.tmp /\ U.clock = ck /\ U.period = pd /\ U.running = T.running
      /\ U.free = T.free /\ U.allocated = T.allocated
  <2>1. b \notin Range(V.wheel[Slot(V.clock[b])])
    BY <1>7, <1>8
  <2> QED BY <1>2, <1>4, <1>7, <1>8, <2>1, ListAdd, SMTT(30)
<1>10. Range(U.tmp) = Range(T.tmp) \ {b}
  BY <1>7, <1>9
<1>11. \A s \in WheelSlots :
         Range(U.wheel[s]) = IF s = Slot(c) THEN (Range(T.wheel[s]) \ {b}) \cup {b} ELSE Range(T.wheel[s]) \ {b}
  BY <1>7, <1>9
<1>12. \A u \in T.running \ {b} : U.clock[u] = T.clock[u] /\ T.clock[u] \in Clocks
  BY <1>1, <1>3, <1>9 DEF TimerType
<1>13. U.clock[b] = c
  BY <1>3, <1>9
<1>14. Linked(U, l)
  <2>1. ASSUME NEW s \in WheelSlots, NEW u \in Range(U.wheel[s])
        PROVE  u \in U.running /\ Slot(U.clock[u]) = s /\ u \notin Range(U.tmp)
    <3>1. CASE u = b
      BY <1>9, <1>10, <1>11, <1>13, <2>1, <3>1
    <3>2. CASE u # b
      <4>1. u \in Range(T.wheel[s])
        BY <1>11, <2>1, <3>2
      <4>2. u \in T.running /\ Slot(T.clock[u]) = s /\ u \notin Range(T.tmp)
        BY <1>1, <4>1 DEF Linked
      <4> QED BY <1>9, <1>10, <1>12, <3>2, <4>2
    <3> QED BY <3>1, <3>2
  <2>2. ASSUME NEW u \in Range(U.tmp)
        PROVE  u \in U.running /\ Slot(U.clock[u]) = Slot(l)
    BY <1>1, <1>9, <1>10, <1>12, <2>2 DEF Linked
  <2> QED BY <2>1, <2>2 DEF Linked
<1>15. Listed(U, {})
  <2> SUFFICES ASSUME NEW u \in U.running
               PROVE  u \in Range(U.tmp) \/ u \in Range(U.wheel[Slot(U.clock[u])])
    BY DEF Listed
  <2>1. CASE u = b
    BY <1>8, <1>11, <1>13, <2>1
  <2>2. CASE u # b
    <3>1. u \in T.running \ {b}
      BY <1>9, <2>2
    <3>2. U.clock[u] = T.clock[u] /\ Slot(T.clock[u]) \in WheelSlots
      BY <1>12, <3>1, SlotRange
    <3>3. u \in Range(T.tmp) \/ u \in Range(T.wheel[Slot(T.clock[u])])
      BY <1>1, <3>1 DEF Listed
    <3> QED BY <1>10, <1>11, <3>1, <3>2, <3>3
  <2> QED BY <2>1, <2>2
<1>16. Memory(U)
  BY <1>1, <1>9 DEF Memory
<1>17. Keeps(T, U, {b})
  BY <1>3, <1>9 DEF Keeps
<1>18. Shrinks(T, U)
  BY <1>1, <1>10, <1>12 DEF Shrinks, Linked
<1>19. IsSet(U, b, c, p)
  BY <1>3, <1>9 DEF IsSet
<1> QED BY <1>9, <1>10, <1>14, <1>15, <1>16, <1>17, <1>18, <1>19 DEF Good

(* A timer starts in memory that no running timer has.                     *)
LEMMA Allocated ==
  ASSUME NEW T, NEW l, Good(T, l), MayAlloc(T)
  PROVE  /\ olsr_cookie_malloc(T) \in TimerBlocks \ T.running
         /\ T.free # <<>> => /\ List(Tail(T.free))
                             /\ Range(Tail(T.free)) = Range(T.free) \ {olsr_cookie_malloc(T)}
         /\ T.free = <<>> => olsr_cookie_malloc(T) \notin T.allocated
<1>1. T \in TimerType /\ List(T.free) /\ Memory(T)
  BY DEF Good, Lists
<1>2. CASE T.free # <<>>
  <2>1. olsr_cookie_malloc(T) = Head(T.free)
    BY <1>2 DEF olsr_cookie_malloc
  <2>2. /\ Head(T.free) \in Range(T.free) /\ Head(T.free) \in TimerBlocks
        /\ List(Tail(T.free)) /\ Range(Tail(T.free)) = Range(T.free) \ {Head(T.free)}
    BY <1>1, <1>2, Popped
  <2> QED BY <1>1, <1>2, <2>1, <2>2 DEF Memory
<1>3. CASE T.free = <<>>
  <2>1. olsr_cookie_malloc(T) = CHOOSE b \in TimerBlocks : b \notin T.allocated
    BY <1>3 DEF olsr_cookie_malloc
  <2>2. T.allocated \subseteq TimerBlocks /\ T.allocated # TimerBlocks
    BY <1>1, <1>3 DEF TimerType, MayAlloc
  <2>3. \E b \in TimerBlocks : b \notin T.allocated
    BY <2>2
  <2>4. olsr_cookie_malloc(T) \in TimerBlocks /\ olsr_cookie_malloc(T) \notin T.allocated
    BY <2>1, <2>3
  <2> QED BY <1>1, <1>3, <2>4 DEF Memory
<1> QED BY <1>2, <1>3

LEMMA Started ==
  ASSUME NEW T, NEW l, Good(T, l), MayAlloc(T), NEW c \in Clocks, NEW p \in Rels \cup {0},
         NEW b, b = olsr_cookie_malloc(T), NEW U, U = olsr_start_timer(T, c, p)
  PROVE  /\ Good(U, l) /\ Keeps(T, U, {b}) /\ Shrinks(T, U) /\ IsSet(U, b, c, p)
         /\ b \in TimerBlocks \ T.running
<1> DEFINE f  == IF T.free = <<>> THEN T.free ELSE Tail(T.free)
           a  == T.allocated \cup {b}
           ck == [T.clock EXCEPT ![b] = c]
           pd == [T.period EXCEPT ![b] = p]
           r  == T.running \cup {b}
           V  == [T EXCEPT !.free = f, !.allocated = a, !.clock = ck, !.period = pd, !.running = r]
<1>1. T \in TimerType /\ Lists(T) /\ Linked(T, l) /\ Listed(T, {}) /\ Memory(T)
  BY DEF Good
<1>2. b \in TimerBlocks \ T.running
  BY Allocated
<1>3. List(f) /\ Range(f) = a \ r
  <2>1. CASE T.free # <<>>
    <3>1. List(Tail(T.free)) /\ Range(Tail(T.free)) = Range(T.free) \ {b}
      BY <2>1, Allocated
    <3> QED BY <1>1, <2>1, <3>1 DEF Memory
  <2>2. CASE T.free = <<>>
    <3>1. b \notin T.allocated
      BY <2>2, Allocated
    <3>2. f = <<>> /\ Range(f) = {} /\ List(f)
      BY <2>2, EmptyList
    <3>3. T.allocated \ T.running = {}
      BY <1>1, <2>2, <3>2 DEF Memory
    <3> QED BY <3>1, <3>2, <3>3
  <2> QED BY <2>1, <2>2
<1>4. /\ ck \in [TimerBlocks -> Clocks] /\ pd \in [TimerBlocks -> Rels \cup {0}] /\ ck[b] = c /\ pd[b] = p
      /\ \A u \in TimerBlocks \ {b} : ck[u] = T.clock[u] /\ pd[u] = T.period[u]
  BY <1>1, <1>2 DEF TimerType
<1>5. r \subseteq TimerBlocks /\ a \subseteq TimerBlocks /\ r \subseteq a
  BY <1>1, <1>2 DEF TimerType, Memory
<1>6. r = T.running \cup {b}
  OBVIOUS
<1>7. U = list_add_before(V, b)
  BY DEF olsr_start_timer
<1> HIDE DEF f, a, ck, pd, r
<1>8. /\ V \in TimerType /\ V.wheel = T.wheel /\ V.tmp = T.tmp /\ V.clock = ck /\ V.period = pd
      /\ V.running = r /\ V.free = f /\ V.allocated = a
  BY <1>1, <1>3, <1>4, <1>5 DEF TimerType, List
<1>9. Lists(V)
  BY <1>1, <1>3, <1>8 DEF Lists
<1> HIDE DEF V
<1>10. Slot(V.clock[b]) = Slot(c) /\ Slot(c) \in WheelSlots
  BY <1>4, <1>8, SlotRange
<1>11. /\ U \in TimerType /\ Lists(U)
       /\ \A s \in WheelSlots :
            Range(U.wheel[s]) = IF s = Slot(c) THEN Range(T.wheel[s]) \cup {b} ELSE Range(T.wheel[s])
       /\ U.tmp = T.tmp /\ U.clock = ck /\ U.period = pd /\ U.running = r
       /\ U.free = f /\ U.allocated = a
  <2>1. b \notin Range(V.wheel[Slot(V.clock[b])])
    BY <1>1, <1>2, <1>8, <1>10 DEF Linked
  <2> QED BY <1>2, <1>7, <1>8, <1>9, <1>10, <2>1, ListAdd, SMTT(30)
<1>12. \A u \in T.running : u # b /\ U.clock[u] = T.clock[u] /\ T.clock[u] \in Clocks
  BY <1>1, <1>2, <1>4, <1>11 DEF TimerType
<1>13. U.clock[b] = c
  BY <1>4, <1>11
<1>14. Linked(U, l)
  <2>1. ASSUME NEW s \in WheelSlots, NEW u \in Range(U.wheel[s])
        PROVE  u \in U.running /\ Slot(U.clock[u]) = s /\ u \notin Range(U.tmp)
    <3>1. CASE u \in Range(T.wheel[s])
      BY <1>1, <1>6, <1>11, <1>12, <3>1 DEF Linked
    <3>2. CASE u \notin Range(T.wheel[s])
      <4>1. u = b /\ s = Slot(c)
        BY <1>11, <2>1, <3>2
      <4>2. b \notin Range(T.tmp)
        BY <1>1, <1>2 DEF Linked
      <4> QED BY <1>6, <1>11, <1>13, <4>1, <4>2
    <3> QED BY <3>1, <3>2
  <2>2. ASSUME NEW u \in Range(U.tmp)
        PROVE  u \in U.running /\ Slot(U.clock[u]) = Slot(l)
    BY <1>1, <1>6, <1>11, <1>12, <2>2 DEF Linked
  <2> QED BY <2>1, <2>2 DEF Linked
<1>15. Listed(U, {})
  <2> SUFFICES ASSUME NEW u \in U.running
               PROVE  u \in Range(U.tmp) \/ u \in Range(U.wheel[Slot(U.clock[u])])
    BY DEF Listed
  <2>1. CASE u = b
    BY <1>10, <1>11, <1>13, <2>1
  <2>2. CASE u # b
    <3>1. u \in T.running
      BY <1>6, <1>11, <2>2
    <3>2. U.clock[u] = T.clock[u] /\ Slot(T.clock[u]) \in WheelSlots
      BY <1>12, <3>1, SlotRange
    <3>3. u \in Range(T.tmp) \/ u \in Range(T.wheel[Slot(T.clock[u])])
      BY <1>1, <3>1 DEF Listed
    <3> QED BY <1>11, <3>2, <3>3
  <2> QED BY <2>1, <2>2
<1>16. Memory(U)
  BY <1>3, <1>5, <1>11 DEF Memory
<1>17. Keeps(T, U, {b})
  BY <1>4, <1>6, <1>11 DEF Keeps
<1>18. Shrinks(T, U)
  BY <1>1, <1>11, <1>12 DEF Shrinks, Linked
<1>19. IsSet(U, b, c, p)
  BY <1>4, <1>6, <1>11 DEF IsSet
<1> QED BY <1>2, <1>11, <1>14, <1>15, <1>16, <1>17, <1>18, <1>19 DEF Good

(* The state as one value.                                                 *)
LEMMA StateFields ==
  /\ TimerState.wheel = timer_wheel /\ TimerState.tmp = tmp_list /\ TimerState.clock = timer_clock
  /\ TimerState.period = timer_period /\ TimerState.running = timer_running
  /\ TimerState.free = free_list /\ TimerState.allocated = allocated
  BY DEF TimerState

LEMMA Became ==
  ASSUME NEW T \in TimerType, TimersBecome(T)
  PROVE  TimerState' = T
<1>1. TimerState' = [wheel |-> T.wheel, tmp |-> T.tmp, clock |-> T.clock, period |-> T.period,
                     running |-> T.running, free |-> T.free, allocated |-> T.allocated]
  BY DEF TimersBecome, TimerState
<1> QED BY <1>1 DEF TimerType

(* The top of the slot that is walked moves to the temporary list.         *)
LEMMA Dequeues ==
  ASSUME timer_last_run \in Clocks, Good(TimerState, timer_last_run), timer_wheel[WalkSlot] # <<>>
  PROVE  /\ WalkTop \in timer_running
         /\ Good(Dequeued, timer_last_run) /\ Dequeued.tmp = <<WalkTop>> \o tmp_list
         /\ Range(Dequeued.tmp) = Range(tmp_list) \cup {WalkTop}
         /\ Dequeued.clock = timer_clock /\ Dequeued.period = timer_period /\ Dequeued.running = timer_running
<1> DEFINE T == TimerState
           U == Dequeued
           l == timer_last_run
           t == WalkTop
           q == Tail(timer_wheel[WalkSlot])
           w == [timer_wheel EXCEPT ![WalkSlot] = q]
           m == <<t>> \o tmp_list
<1>1. T \in TimerType /\ Lists(T) /\ Linked(T, l) /\ Listed(T, {}) /\ Memory(T)
  BY DEF Good
<1>2. WalkSlot = Slot(l) /\ WalkSlot \in WheelSlots
  BY SlotRange DEF WalkSlot, Slot
<1>3. /\ t \in Range(timer_wheel[WalkSlot]) /\ t \in TimerBlocks
      /\ List(q) /\ Range(q) = Range(timer_wheel[WalkSlot]) \ {t}
  BY <1>1, <1>2, StateFields, Popped DEF Lists, WalkTop
<1>4. t \in timer_running /\ Slot(timer_clock[t]) = Slot(l) /\ t \notin Range(tmp_list)
  BY <1>1, <1>2, <1>3, StateFields DEF Linked
<1>5. List(m) /\ Range(m) = Range(tmp_list) \cup {t}
  BY <1>1, <1>3, <1>4, StateFields, Pushed DEF Lists
<1>6. timer_wheel \in [WheelSlots -> Seq(TimerBlocks)]
  BY <1>1, StateFields DEF TimerType
<1>7. /\ w \in [WheelSlots -> Seq(TimerBlocks)] /\ w[WalkSlot] = q
      /\ \A s \in WheelSlots : s # WalkSlot => w[s] = timer_wheel[s]
  BY <1>2, <1>3, <1>6 DEF List
<1>8. U = [T EXCEPT !.wheel = w, !.tmp = m]
  BY StateFields DEF Dequeued
<1> HIDE DEF T, U, t, q, w, m
<1>9. /\ U \in TimerType /\ U.wheel = w /\ U.tmp = m /\ U.clock = T.clock /\ U.period = T.period
      /\ U.running = T.running /\ U.free = T.free /\ U.allocated = T.allocated
  BY <1>1, <1>5, <1>7, <1>8 DEF TimerType, List
<1>10. T.wheel = timer_wheel /\ T.tmp = tmp_list /\ T.clock = timer_clock /\ T.period = timer_period /\ T.running = timer_running
  BY StateFields DEF T
<1>11. Lists(U)
  BY <1>1, <1>3, <1>5, <1>7, <1>9, <1>10 DEF Lists
<1>12. \A s \in WheelSlots : Range(U.wheel[s]) = IF s = Slot(l) THEN Range(T.wheel[s]) \ {t} ELSE Range(T.wheel[s])
  BY <1>2, <1>3, <1>7, <1>9, <1>10
<1>13. Range(U.tmp) = Range(T.tmp) \cup {t}
  BY <1>5, <1>9, <1>10
<1>14. Linked(U, l)
  <2>1. ASSUME NEW s \in WheelSlots, NEW b \in Range(U.wheel[s])
        PROVE  b \in U.running /\ Slot(U.clock[b]) = s /\ b \notin Range(U.tmp)
    <3>1. b \in Range(T.wheel[s])
      BY <1>12, <2>1
    <3>2. b \in T.running /\ Slot(T.clock[b]) = s /\ b \notin Range(T.tmp)
      BY <1>1, <3>1 DEF Linked
    <3>3. b # t
      BY <1>4, <1>10, <1>12, <2>1, <3>2
    <3> QED BY <1>9, <1>13, <3>2, <3>3
  <2>2. ASSUME NEW b \in Range(U.tmp)
        PROVE  b \in U.running /\ Slot(U.clock[b]) = Slot(l)
    BY <1>1, <1>4, <1>9, <1>10, <1>13, <2>2 DEF Linked
  <2> QED BY <2>1, <2>2 DEF Linked
<1>15. Listed(U, {})
  <2> SUFFICES ASSUME NEW b \in U.running
               PROVE  b \in Range(U.tmp) \/ b \in Range(U.wheel[Slot(U.clock[b])])
    BY DEF Listed
  <2>1. b \in T.running /\ U.clock[b] = T.clock[b] /\ T.clock[b] \in Clocks
    BY <1>1, <1>9 DEF TimerType
  <2>2. b \in Range(T.tmp) \/ b \in Range(T.wheel[Slot(T.clock[b])])
    BY <1>1, <2>1 DEF Listed
  <2>3. Slot(T.clock[b]) \in WheelSlots
    BY <2>1, SlotRange
  <2> QED BY <1>12, <1>13, <2>1, <2>2, <2>3
<1>16. Memory(U)
  BY <1>1, <1>9 DEF Memory
<1>17. Good(U, l)
  BY <1>9, <1>11, <1>14, <1>15, <1>16 DEF Good
<1> QED BY <1>4, <1>5, <1>9, <1>10, <1>13, <1>17 DEF U, t, m

(* What is left alone by two operations is left alone by both.             *)
LEMMA KeepsBoth ==
  ASSUME NEW T, NEW U, NEW V, NEW X, NEW Y, Keeps(T, U, X), Keeps(U, V, Y)
  PROVE  Keeps(T, V, X \cup Y)
  BY DEF Keeps

LEMMA ShrinksBoth ==
  ASSUME NEW T, NEW U, NEW V, Shrinks(T, U), Shrinks(U, V)
  PROVE  Shrinks(T, V)
  BY DEF Shrinks

LEMMA SetStays ==
  ASSUME NEW T, NEW U, NEW X, Keeps(T, U, X), NEW b \in TimerBlocks \ X, NEW c, NEW p, IsSet(T, b, c, p)
  PROVE  IsSet(U, b, c, p)
  BY DEF Keeps, IsSet

(* What is left of the timers when timer t has gone off: stop, start and   *)
(* self are what the callback does, new the timer that it starts.          *)
Fired(T, V, l, t, cb, new, c1, c2) ==
  LET p == IF cb.self > 0 THEN cb.self ELSE T.period[t]
  IN  /\ Good(V, l) /\ Shrinks(T, V) /\ t \notin Range(V.tmp)
      /\ IF cb.self = NoTimer \/ p = 0 THEN t \notin V.running ELSE IsSet(V, t, c2, p)
      /\ cb.start > 0 => new \in TimerBlocks \ (T.running \ {cb.stop}) /\ IsSet(V, new, c1, 0)
      /\ cb.stop # new => cb.stop \notin V.running
      /\ Keeps(T, V, {t, new, cb.stop})

(* What callbacks may do.                                                  *)
Callbacks(T, t) ==
  {cb \in [stop : (T.running \ {t}) \cup {NoTimer}, start : {0} \cup Rels, self : {NoTimer, 0} \cup Rels] :
     cb.self > 0 => T.period[t] > 0}

LEMMA FireStop ==
  ASSUME NEW T, NEW l, Good(T, l), NEW t \in T.running, NEW x \in (T.running \ {t}) \cup {NoTimer},
         NEW U, U = IF x = NoTimer THEN T ELSE olsr_stop_timer(T, x)
  PROVE  /\ Good(U, l) /\ Keeps(T, U, {x}) /\ Shrinks(T, U)
         /\ x \notin U.running /\ t \in U.running /\ U.period[t] = T.period[t]
<1>0. T.running \subseteq TimerBlocks /\ NoTimer \notin TimerBlocks
  BY TimersAssumption DEF Good, TimerType
<1>1. CASE x = NoTimer
  <2>1. U = T
    BY <1>1
  <2>2. Keeps(T, U, {x}) /\ Shrinks(T, U)
    BY <2>1 DEF Keeps, Shrinks
  <2> QED BY <1>0, <1>1, <2>1, <2>2
<1>2. CASE x # NoTimer
  <2>1. x \in T.running /\ x # t /\ U = olsr_stop_timer(T, x)
    BY <1>2
  <2>2. Good(U, l) /\ Keeps(T, U, {x}) /\ Shrinks(T, U) /\ x \notin U.running
    BY <2>1, Stopped
  <2>3. t \in U.running /\ U.period[t] = T.period[t]
    BY <1>0, <2>1, <2>2 DEF Keeps
  <2> QED BY <2>2, <2>3
<1> QED BY <1>1, <1>2

LEMMA FireStart ==
  ASSUME NEW T, NEW l, Good(T, l), NEW t \in T.running, NEW x \in {0} \cup Rels, x > 0 => MayAlloc(T),
         NEW c \in Clocks, NEW new, new = IF x = 0 THEN NoTimer ELSE olsr_cookie_malloc(T),
         NEW U, U = IF x = 0 THEN T ELSE olsr_start_timer(T, c, 0)
  PROVE  /\ Good(U, l) /\ Keeps(T, U, {new}) /\ Shrinks(T, U)
         /\ x > 0 => new \in TimerBlocks \ T.running /\ IsSet(U, new, c, 0)
         /\ t # new /\ t \in U.running /\ U.period[t] = T.period[t]
<1>0. T.running \subseteq TimerBlocks /\ NoTimer \notin TimerBlocks
  BY TimersAssumption DEF Good, TimerType
<1>1. CASE x = 0
  <2>1. U = T /\ new = NoTimer
    BY <1>1
  <2>2. Keeps(T, U, {new}) /\ Shrinks(T, U)
    BY <2>1 DEF Keeps, Shrinks
  <2>3. ~(x > 0)
    BY <1>1, SMTT(30)
  <2> QED BY <1>0, <2>1, <2>2, <2>3
<1>2. CASE x # 0
  <2>1. x > 0
    BY <1>2, TimersAssumption, SMTT(30)
  <2>2. MayAlloc(T) /\ new = olsr_cookie_malloc(T) /\ U = olsr_start_timer(T, c, 0) /\ 0 \in Rels \cup {0}
    BY <1>2, <2>1
  <2>3. Good(U, l) /\ Keeps(T, U, {new}) /\ Shrinks(T, U) /\ IsSet(U, new, c, 0) /\ new \in TimerBlocks \ T.running
    BY <2>2, Started
  <2>4. t # new /\ t \in U.running /\ U.period[t] = T.period[t]
    BY <1>0, <2>3 DEF Keeps
  <2> QED BY <2>3, <2>4
<1> QED BY <1>1, <1>2

(* What becomes of the timer that has gone off.                            *)
LEMMA FireSelf ==
  ASSUME NEW T, NEW l, Good(T, l), NEW t \in T.running, NEW x \in {NoTimer, 0} \cup Rels, NEW c \in Clocks,
         NEW p, p = IF x > 0 THEN x ELSE T.period[t],
         NEW S, S = IF x = NoTimer THEN olsr_stop_timer(T, t)
                    ELSE IF x > 0 THEN olsr_change_timer(T, t, c, x) ELSE T,
         NEW V, V = AfterCallback(S, t, c)
  PROVE  /\ Good(V, l) /\ Keeps(T, V, {t}) /\ Shrinks(T, V) /\ t \notin Range(V.tmp)
         /\ IF x = NoTimer \/ p = 0 THEN t \notin V.running ELSE IsSet(V, t, c, p)
<1>0. T.period[t] \in Rels \cup {0} /\ \A r \in Rels : r \in Nat /\ r > 0 /\ r # NoTimer
  BY TimersAssumption, SMTT(30) DEF Good, TimerType, NoTimer
<1>1. CASE x = NoTimer
  <2>1. S = olsr_stop_timer(T, t)
    BY <1>1
  <2>2. Good(S, l) /\ Keeps(T, S, {t}) /\ Shrinks(T, S) /\ t \notin S.running /\ t \notin Range(S.tmp)
    BY <2>1, Stopped
  <2>3. V = S
    BY <2>2 DEF AfterCallback
  <2> QED BY <1>1, <2>2, <2>3
<1>2. CASE x \in Rels
  <2>1. x > 0 /\ x # NoTimer /\ p = x /\ p # 0 /\ S = olsr_change_timer(T, t, c, x)
    BY <1>0, <1>2, SMTT(30)
  <2>2. Good(S, l) /\ Keeps(T, S, {t}) /\ Shrinks(T, S) /\ IsSet(S, t, c, x)
    BY <1>2, <2>1, Changed
  <2>3. t \in S.running /\ S.period[t] = x
    BY <2>2 DEF IsSet
  <2>4. V = olsr_change_timer(S, t, c, x)
    BY <2>1, <2>3 DEF AfterCallback
  <2>5. Good(V, l) /\ Keeps(S, V, {t}) /\ Shrinks(S, V) /\ IsSet(V, t, c, x) /\ t \notin Range(V.tmp)
    BY <1>2, <2>2, <2>3, <2>4, Changed
  <2>6. Keeps(T, V, {t}) /\ Shrinks(T, V)
    <3>1. Keeps(T, V, {t} \cup {t})
      BY <2>2, <2>5, KeepsBoth
    <3>2. {t} \cup {t} = {t}
      OBVIOUS
    <3> QED BY <2>2, <2>5, <3>1, <3>2, ShrinksBoth
  <2> QED BY <2>1, <2>5, <2>6
<1>3. CASE x = 0
  <2>1. ~(x > 0) /\ x # NoTimer
    BY <1>3, SMTT(30) DEF NoTimer
  <2>2. S = T /\ p = T.period[t]
    BY <2>1
  <2>3. CASE p > 0
    <3>1. V = olsr_change_timer(T, t, c, p) /\ p # 0
      BY <1>0, <2>2, <2>3, SMTT(30) DEF AfterCallback
    <3>2. Good(V, l) /\ Keeps(T, V, {t}) /\ Shrinks(T, V) /\ IsSet(V, t, c, p) /\ t \notin Range(V.tmp)
      BY <1>0, <2>2, <3>1, Changed
    <3> QED BY <2>1, <3>1, <3>2
  <2>4. CASE ~(p > 0)
    <3>1. V = olsr_stop_timer(T, t) /\ p = 0
      BY <1>0, <2>2, <2>4 DEF AfterCallback
    <3>2. Good(V, l) /\ Keeps(T, V, {t}) /\ Shrinks(T, V) /\ t \notin V.running /\ t \notin Range(V.tmp)
      BY <3>1, Stopped
    <3> QED BY <3>1, <3>2
  <2> QED BY <2>3, <2>4
<1> QED BY <1>1, <1>2, <1>3

LEMMA Fires ==
  ASSUME NEW T, NEW l, Good(T, l), NEW t \in T.running, NEW cb \in Callbacks(T, t),
         NEW c1 \in Clocks, NEW c2 \in Clocks,
         NEW T1, T1 = IF cb.stop = NoTimer THEN T ELSE olsr_stop_timer(T, cb.stop),
         cb.start > 0 => MayAlloc(T1),
         NEW new, new = IF cb.start = 0 THEN NoTimer ELSE olsr_cookie_malloc(T1),
         NEW V, V = AfterCallback(Callback(T, t, cb, c1, c2), t, c2)
  PROVE  Fired(T, V, l, t, cb, new, c1, c2)
<1> DEFINE T2 == IF cb.start = 0 THEN T1 ELSE olsr_start_timer(T1, c1, 0)
           T3 == IF cb.self = NoTimer THEN olsr_stop_timer(T2, t)
                 ELSE IF cb.self > 0 THEN olsr_change_timer(T2, t, c2, cb.self) ELSE T2
           p  == IF cb.self > 0 THEN cb.self ELSE T.period[t]
<1>1. /\ cb.stop \in (T.running \ {t}) \cup {NoTimer} /\ cb.start \in {0} \cup Rels
      /\ cb.self \in {NoTimer, 0} \cup Rels
  BY DEF Callbacks
<1>2. V = AfterCallback(T3, t, c2)
  BY DEF Callback
<1>3. /\ Good(T1, l) /\ Keeps(T, T1, {cb.stop}) /\ Shrinks(T, T1)
      /\ cb.stop \notin T1.running /\ t \in T1.running /\ T1.period[t] = T.period[t]
  <2>1. PICK x : x = cb.stop
    OBVIOUS
  <2>2. x \in (T.running \ {t}) \cup {NoTimer} /\ T1 = IF x = NoTimer THEN T ELSE olsr_stop_timer(T, x)
    BY <1>1, <2>1
  <2>3. /\ Good(T1, l) /\ Keeps(T, T1, {x}) /\ Shrinks(T, T1)
        /\ x \notin T1.running /\ t \in T1.running /\ T1.period[t] = T.period[t]
    BY <2>2, FireStop
  <2> QED BY <2>1, <2>3
<1>4. /\ Good(T2, l) /\ Keeps(T1, T2, {new}) /\ Shrinks(T1, T2)
      /\ cb.start > 0 => new \in TimerBlocks \ T1.running /\ IsSet(T2, new, c1, 0)
      /\ t # new /\ t \in T2.running /\ T2.period[t] = T1.period[t]
  <2>1. PICK x : x = cb.start
    OBVIOUS
  <2>2. /\ x \in {0} \cup Rels /\ (x > 0 => MayAlloc(T1)) /\ new = IF x = 0 THEN NoTimer ELSE olsr_cookie_malloc(T1)
        /\ T2 = IF x = 0 THEN T1 ELSE olsr_start_timer(T1, c1, 0)
    BY <1>1, <2>1
  <2>3. Good(T1, l) /\ t \in T1.running
    BY <1>3
  <2> HIDE DEF T2
  <2>4. /\ Good(T2, l) /\ Keeps(T1, T2, {new}) /\ Shrinks(T1, T2)
        /\ x > 0 => new \in TimerBlocks \ T1.running /\ IsSet(T2, new, c1, 0)
        /\ t # new /\ t \in T2.running /\ T2.period[t] = T1.period[t]
    <3>1. c1 \in Clocks
      BY <1>1
    <3>2. x \in {0} \cup Rels /\ (x > 0 => MayAlloc(T1))
      BY <2>2
    <3> QED BY ONLY <2>2, <2>3, <3>1, <3>2, FireStart
  <2> QED BY <2>1, <2>4
<1> HIDE DEF T2
<1>5. p = IF cb.self > 0 THEN cb.self ELSE T2.period[t]
  BY <1>3, <1>4
<1> HIDE DEF p
<1>6. /\ Good(V, l) /\ Keeps(T2, V, {t}) /\ Shrinks(T2, V) /\ t \notin Range(V.tmp)
      /\ IF cb.self = NoTimer \/ p = 0 THEN t \notin V.running ELSE IsSet(V, t, c2, p)
  <2>1. PICK x : x = cb.self
    OBVIOUS
  <2>2. /\ x \in {NoTimer, 0} \cup Rels /\ p = IF x > 0 THEN x ELSE T2.period[t]
        /\ T3 = IF x = NoTimer THEN olsr_stop_timer(T2, t)
                ELSE IF x > 0 THEN olsr_change_timer(T2, t, c2, x) ELSE T2
    BY <1>1, <1>5, <2>1
  <2>3. Good(T2, l) /\ t \in T2.running
    BY <1>4
  <2> HIDE DEF T3
  <2>4. /\ Good(V, l) /\ Keeps(T2, V, {t}) /\ Shrinks(T2, V) /\ t \notin Range(V.tmp)
        /\ IF x = NoTimer \/ p = 0 THEN t \notin V.running ELSE IsSet(V, t, c2, p)
    BY <1>2, <2>2, <2>3, FireSelf
  <2> QED BY <2>1, <2>4
<1> HIDE DEF T3
<1>7. Keeps(T, V, {t, new, cb.stop})
  <2>1. Keeps(T, T2, {cb.stop} \cup {new})
    BY <1>3, <1>4, KeepsBoth
  <2>2. Keeps(T, V, ({cb.stop} \cup {new}) \cup {t})
    BY <1>6, <2>1, KeepsBoth, SMTT(30)
  <2>3. ({cb.stop} \cup {new}) \cup {t} = {t, new, cb.stop}
    OBVIOUS
  <2> QED BY <2>2, <2>3
<1>8. Shrinks(T, V)
  BY <1>3, <1>4, <1>6, ShrinksBoth
<1>9. ASSUME cb.start > 0 PROVE new \in TimerBlocks \ (T.running \ {cb.stop}) /\ IsSet(V, new, c1, 0)
  <2>1. new \in TimerBlocks \ T1.running /\ IsSet(T2, new, c1, 0) /\ new # t
    BY <1>4, <1>9
  <2>2. IsSet(V, new, c1, 0)
    BY <1>6, <2>1, SetStays, SMTT(30)
  <2>3. new \notin T.running \ {cb.stop}
    BY <1>3, <2>1 DEF Keeps
  <2> QED BY <2>1, <2>2, <2>3
<1>10. ASSUME cb.stop # new PROVE cb.stop \notin V.running
  <2>1. V.running \subseteq TimerBlocks /\ T2.running \subseteq TimerBlocks /\ cb.stop # t
    <3>1. T.running \subseteq TimerBlocks /\ NoTimer \notin TimerBlocks
      BY TimersAssumption DEF Good, TimerType
    <3> QED BY <1>1, <1>4, <1>6, <3>1 DEF Good, TimerType
  <2>2. cb.stop \notin T2.running
    BY <1>3, <1>4, <1>10, <2>1 DEF Keeps
  <2> QED BY <1>6, <2>1, <2>2 DEF Keeps
<1> QED BY <1>6, <1>7, <1>8, <1>9, <1>10 DEF Fired, p

------------------------------------------------------------------------------
(* Time.                                                                   *)

LEMMA SoonestRange ==
  ASSUME NEW r \in Rels
  PROVE  Soonest(r) \in 1 .. r
<1> DEFINE k == (JitterPct * r) \div 100
<1>1. r \in Nat /\ r > 0 /\ JitterPct \in 0 .. 99
  BY TimersAssumption, SMTT(30)
<1>2. JitterPct * r \in Nat /\ JitterPct * r <= 99 * r
  BY <1>1, SMTT(30)
<1>3. k \in Int /\ 100 * k <= JitterPct * r /\ k >= 0
  BY <1>2, SMTT(30)
<1>4. Soonest(r) = r - k
  BY DEF Soonest
<1> HIDE DEF k
<1> QED BY <1>1, <1>2, <1>3, <1>4, SMTT(30)

LEMMA SoonestZero == Soonest(0) = 0
<1>1. JitterPct * 0 = 0
  BY TimersAssumption, SMTT(30)
<1>2. 0 \div 100 = 0
  BY SMTT(30)
<1> QED BY <1>1, <1>2, SMTT(30) DEF Soonest

(* A timer is set to a time between the soonest and the one asked for.     *)
LEMMA JitterClock ==
  ASSUME now_times \in Clocks, NEW r \in Rels \cup {0}, NEW c \in calc_jitter(r)
  PROVE  c \in Clocks /\ Left(c, now_times) \in Soonest(r) .. r /\ (r \in Rels => Left(c, now_times) >= 1)
<1>1. PICK x \in Soonest(r) .. r : c = (now_times + x) % ClockRange
  BY DEF calc_jitter, olsr_getTimestamp
<1>2. x \in 0 .. r /\ r \in 0 .. ClockHalf - 1 /\ (r \in Rels => x >= 1) /\ Soonest(r) \in Int
  <2>1. CASE r = 0
    <3>1. 0 \notin Rels /\ ClockHalf \in Nat /\ ClockHalf > 0
      BY TimersAssumption, SMTT(30)
    <3> QED BY <2>1, <1>1, <3>1, SoonestZero, SMTT(30)
  <2>2. CASE r \in Rels
    <3>1. Soonest(r) \in 1 .. r /\ r \in 1 .. ClockHalf - 1 /\ ClockHalf \in Nat
      BY <2>2, SoonestRange, TimersAssumption
    <3> QED BY <1>1, <3>1, SMTT(30)
  <2> QED BY <2>1, <2>2
<1>3. x \in -ClockHalf .. ClockHalf - 1
  BY <1>2, Sizes, SMTT(30)
<1>4. c \in Clocks /\ Left(c, now_times) = x
  BY <1>1, <1>3, LeftOf
<1> QED BY <1>1, <1>2, <1>4

(* A timer with z left is on time in a walk that started at l0, at g after *)
(* the last, and has left w slots behind: it is not due, or its slot is    *)
(* still ahead; more than one turn late it is only after a wrap.           *)
OnTime(z, l0, g, w) ==
  \/ z >= 1
  \/ /\ z + g \in 1 - TimerWheelSlots .. g
     /\ z + g <= 0 => l0 < MaxGap - (z + g)
     /\ w <= (z + g) % TimerWheelSlots

WalkAt(T, n, l, w, l0, g) ==
  /\ n = (l0 + g) % ClockRange /\ l = (l0 + w) % ClockRange
  /\ l0 + g >= ClockRange => w = 0
  /\ \A b \in T.running : OnTime(Left(T.clock[b], n), l0, g, w)

Walked(T, n, l, w) == \E l0 \in Clocks, g \in 0 .. MaxGap : WalkAt(T, n, l, w, l0, g)

(* None is half a turn of the clock late.                                  *)
LEMMA OnTimeRange ==
  ASSUME NEW z \in -ClockHalf .. ClockHalf - 1, NEW l0 \in Clocks, NEW g \in 0 .. MaxGap, NEW w \in Int,
         OnTime(z, l0, g, w)
  PROVE  z > -ClockHalf /\ z >= 1 - TimerWheelSlots - g
  BY Sizes, SMTT(30) DEF OnTime

(* Timers that are set anew have time left, the others keep theirs.        *)
LEMMA KeepsTime ==
  ASSUME NEW T, NEW V, NEW l, NEW n, NEW w, NEW X, V.running \subseteq TimerBlocks,
         Walked(T, n, l, w), Keeps(T, V, X), \A b \in V.running \cap X : Left(V.clock[b], n) >= 1
  PROVE  Walked(V, n, l, w)
<1>1. PICK l0 \in Clocks, g \in 0 .. MaxGap : WalkAt(T, n, l, w, l0, g)
  BY DEF Walked
<1>2. \A b \in V.running : OnTime(Left(V.clock[b], n), l0, g, w)
  <2>1. ASSUME NEW b \in V.running PROVE OnTime(Left(V.clock[b], n), l0, g, w)
    <3>1. CASE b \in X
      BY <3>1 DEF OnTime
    <3>2. CASE b \notin X
      <4>1. b \in T.running /\ V.clock[b] = T.clock[b]
        BY <3>2 DEF Keeps
      <4> QED BY <1>1, <4>1 DEF WalkAt
    <3> QED BY <3>1, <3>2
  <2> QED BY <2>1
<1>3. WalkAt(V, n, l, w, l0, g)
  BY <1>1, <1>2 DEF WalkAt
<1> QED BY <1>3 DEF Walked

(* Time passes, after a walk.                                              *)
LEMMA Passes ==
  ASSUME NEW z \in -ClockHalf .. ClockHalf - 1, NEW l0 \in Clocks, NEW g \in 0 .. MaxGap, NEW d \in 1 .. MaxGap,
         g + d <= MaxGap, OnTime(z, l0, g, 0)
  PROVE  OnTime(z - d, l0, g + d, 0)
<1>1. TimerWheelSlots \in Nat /\ TimerWheelSlots > 0 /\ MaxGap \in Nat /\ ClockHalf \in Nat /\ l0 \in Int
  BY Sizes, SMTT(30) DEF Clocks
<1>2. (z - d) + (g + d) = z + g /\ z + g \in Int
  BY <1>1, SMTT(30)
<1>3. 0 <= (z + g) % TimerWheelSlots
  BY <1>1, <1>2, DivMod, SMTT(30)
<1>4. CASE z >= 1
  <2>1. CASE z - d >= 1
    BY <2>1 DEF OnTime
  <2>2. CASE ~(z - d >= 1)
    <3>1. z + g \in 1 - TimerWheelSlots .. g + d /\ ~(z + g <= 0)
      BY <1>1, <1>4, <2>2, SMTT(30)
    <3> QED BY <1>2, <1>3, <3>1 DEF OnTime
  <2> QED BY <2>1, <2>2
<1>5. CASE ~(z >= 1)
  <2>1. z + g \in 1 - TimerWheelSlots .. g /\ (z + g <= 0 => l0 < MaxGap - (z + g))
    BY <1>5 DEF OnTime
  <2>2. z + g \in 1 - TimerWheelSlots .. g + d
    BY <1>1, <2>1, SMTT(30)
  <2> QED BY <1>2, <1>3, <2>1, <2>2 DEF OnTime
<1> QED BY <1>4, <1>5

(* A walk ends.                                                            *)
LEMMA Ends ==
  ASSUME NEW z \in -ClockHalf .. ClockHalf - 1, NEW l0 \in Clocks, NEW g \in 0 .. MaxGap,
         NEW w \in 0 .. TimerWheelSlots, OnTime(z, l0, g, w), l0 + g >= ClockRange => w = 0,
         NEW n, NEW l, n = (l0 + g) % ClockRange, l = (l0 + w) % ClockRange,
         ~(l <= n /\ w < TimerWheelSlots)
  PROVE  OnTime(z, n, 0, 0)
<1> DEFINE S == TimerWheelSlots
           G == MaxGap
           R == ClockRange
           y == (z + g) % S
<1>1. /\ S \in Nat \ {0} /\ G \in Nat /\ R \in Nat \ {0} /\ ClockHalf \in Nat /\ R = 2 * ClockHalf
      /\ G <= S /\ S + 2 * G < ClockHalf /\ l0 \in 0 .. R - 1 /\ g \in 0 .. G /\ w \in 0 .. S /\ z \in Int
  BY Sizes, SMTT(30) DEF Clocks
<1>2. y \in 0 .. S - 1
  <2>1. z + g \in Int
    BY <1>1, SMTT(30)
  <2> QED BY <1>1, <2>1, DivMod
<1>3. 0 <= z % S
  BY <1>1, DivMod, SMTT(30)
<1>4. n = IF l0 + g < R THEN l0 + g ELSE l0 + g - R
  <2>1. PICK x : x = l0 + g
    OBVIOUS
  <2>2. (x < R => x \in 0 .. R - 1) /\ (~(x < R) => x \in R .. 2 * R - 1)
    BY <1>1, <2>1, SMTT(30)
  <2>3. CASE x < R
    BY <1>1, <2>1, <2>2, <2>3, Within
  <2>4. CASE ~(x < R)
    <3>1. R \in Nat \ {0} /\ x \in Int /\ R <= x /\ x < 2 * R
      BY <1>1, <2>1, <2>2, <2>4, SMTT(30)
    <3>2. n = x % R
      BY <2>1
    <3>3. x % R = x - R
      BY <3>1, Above
    <3> HIDE DEF R
    <3> QED BY <1>1, <2>1, <2>4, <3>2, <3>3, SMTT(30)
  <2> QED BY <2>3, <2>4
<1>5. l = IF l0 + w < R THEN l0 + w ELSE l0 + w - R
  <2>1. PICK x : x = l0 + w
    OBVIOUS
  <2>2. (x < R => x \in 0 .. R - 1) /\ (~(x < R) => x \in R .. 2 * R - 1)
    BY <1>1, <2>1, SMTT(30)
  <2>3. CASE x < R
    BY <1>1, <2>1, <2>2, <2>3, Within
  <2>4. CASE ~(x < R)
    <3>1. R \in Nat \ {0} /\ x \in Int /\ R <= x /\ x < 2 * R
      BY <1>1, <2>1, <2>2, <2>4, SMTT(30)
    <3>2. l = x % R
      BY <2>1
    <3>3. x % R = x - R
      BY <3>1, Above
    <3> HIDE DEF R
    <3> QED BY <1>1, <2>1, <2>4, <3>2, <3>3, SMTT(30)
  <2> QED BY <2>3, <2>4
<1>6. z < 1 => y = IF z + g = S THEN 0 ELSE IF z + g >= 0 THEN z + g ELSE z + g + S
  <2> SUFFICES ASSUME z < 1 PROVE y = IF z + g = S THEN 0 ELSE IF z + g >= 0 THEN z + g ELSE z + g + S
    OBVIOUS
  <2>1. z + g \in 1 - S .. g
    BY SMTT(30) DEF OnTime
  <2>2. z + g \in Int /\ (z + g \in 0 .. S - 1 \/ z + g \in -S .. -1 \/ z + g \in S .. 2 * S - 1)
    BY <1>1, <2>1, SMTT(30)
  <2>3. z + g <= S
    BY <1>1, <2>1, SMTT(30)
  <2>4. CASE z + g \in 0 .. S - 1
    <3>1. y = z + g
      BY <1>1, <2>4, Within
    <3> QED BY <1>1, <2>4, <3>1, SMTT(30)
  <2>5. CASE z + g \in -S .. -1
    <3>1. y = z + g + S
      BY <1>1, <2>2, <2>5, Near
    <3> QED BY <1>1, <2>5, <3>1, SMTT(30)
  <2>6. CASE z + g \in S .. 2 * S - 1
    <3>1. PICK x : x = z + g
      OBVIOUS
    <3>2. S \in Nat \ {0} /\ x \in Int /\ S <= x /\ x < 2 * S
      BY <1>1, <2>2, <2>6, <3>1, SMTT(30)
    <3>3. y = x % S
      BY <3>1
    <3>4. x % S = x - S
      BY <3>2, Above
    <3> HIDE DEF S, y
    <3> QED BY <1>1, <2>3, <2>6, <3>1, <3>3, <3>4, SMTT(30)
  <2> QED BY <2>2, <2>4, <2>5, <2>6
<1>7. \/ z >= 1
      \/ z + g \in 1 - S .. g /\ (z + g <= 0 => l0 < G - (z + g)) /\ w <= y
  BY DEF OnTime
<1>8. (l0 + g >= R => w = 0) /\ ~(l <= n /\ w < S)
  OBVIOUS
<1> HIDE DEF S, G, R, y
<1>9. ASSUME z < 1 PROVE z \in 1 - S .. 0 /\ n < G - z
  <2>1. z + g \in 1 - S .. g /\ (z + g <= 0 => l0 < G - (z + g)) /\ w <= y /\ w < S /\ l > n
    BY <1>1, <1>2, <1>4, <1>5, <1>7, <1>8, <1>9, SMTT(30)
  <2>2. CASE l0 + g < R
    BY <1>1, <1>2, <1>4, <1>5, <1>6, <1>9, <2>1, <2>2, SMTT(30)
  <2>3. CASE ~(l0 + g < R)
    BY <1>1, <1>4, <1>9, <2>1, <2>3, SMTT(30)
  <2> QED BY <2>2, <2>3
<1>10. z + 0 = z
  BY <1>1, SMTT(30)
<1> QED BY <1>1, <1>3, <1>9, <1>10, SMTT(30) DEF OnTime, S, G

------------------------------------------------------------------------------
(* The inductive invariant.                                                *)

Done == IF InWalk THEN wheel_slot_walks ELSE 0

(* What is on the temporary list, which lives within the walk of a slot,   *)
(* is not due.                                                             *)
Waiting ==
  /\ tmp_list # <<>> => InWalk /\ SlotsLeft
  /\ \A b \in Range(tmp_list) : Left(timer_clock[b], now_times) >= 1

TimersInv ==
  /\ now_times \in Clocks /\ timer_last_run \in Clocks
  /\ wheel_slot_walks \in {NoTimer} \cup 0 .. TimerWheelSlots
  /\ Good(TimerState, timer_last_run)
  /\ Walked(TimerState, now_times, timer_last_run, Done)
  /\ Waiting

LEMMA DoneRange == ASSUME TimersInv PROVE Done \in 0 .. TimerWheelSlots
  BY Sizes, SMTT(30) DEF TimersInv, Done, InWalk

LEMMA RunningTimers ==
  ASSUME TimersInv, NEW b \in timer_running
  PROVE  /\ b \in TimerBlocks /\ timer_clock[b] \in Clocks /\ timer_period[b] \in Rels \cup {0}
         /\ Left(timer_clock[b], now_times) \in -ClockHalf .. ClockHalf - 1
<1>1. b \in TimerBlocks /\ timer_clock[b] \in Clocks /\ timer_period[b] \in Rels \cup {0}
  BY StateFields DEF TimersInv, Good, TimerType
<1>2. now_times \in Clocks
  BY DEF TimersInv
<1> QED BY <1>1, <1>2, LeftRange

(* A timer is due when its time is up.                                     *)
LEMMA Due ==
  ASSUME TimersInv, NEW b \in timer_running
  PROVE  olsr_isTimedOut(timer_clock[b]) <=> Left(timer_clock[b], now_times) <= 0
<1>1. now_times \in Clocks /\ timer_clock[b] \in Clocks /\ Left(timer_clock[b], now_times) \in -ClockHalf .. ClockHalf - 1
  BY RunningTimers DEF TimersInv
<1>2. PICK l0 \in Clocks, g \in 0 .. MaxGap : WalkAt(TimerState, now_times, timer_last_run, Done, l0, g)
  BY DEF TimersInv, Walked
<1>3. OnTime(Left(timer_clock[b], now_times), l0, g, Done)
  BY <1>2, StateFields DEF WalkAt
<1>4. Left(timer_clock[b], now_times) > -ClockHalf
  BY <1>1, <1>3, DoneRange, OnTimeRange, SMTT(30)
<1> QED BY <1>1, <1>4, DueIs

(* What the service sees as left.                                          *)
LEMMA LeftIs ==
  ASSUME NEW b \in TimerBlocks
  PROVE  /\ b \in timer_running => TimeLeft[b] = Left(timer_clock[b], now_times)
         /\ b \in timer_running' => TimeLeft'[b] = Left(timer_clock'[b], now_times')
  BY DEF TimeLeft, Left

(* Timers that are kept do not change for the service.                     *)
LEMMA KeptUnchanged ==
  ASSUME now_times' = now_times, NEW X, Keeps(TimerState, TimerState', X), NEW u \in TimerBlocks \ X
  PROVE  Service!Unchanged(u)
<1>1. /\ u \in timer_running <=> u \in timer_running'
      /\ timer_clock'[u] = timer_clock[u] /\ timer_period'[u] = timer_period[u]
  BY DEF Keeps, TimerState
<1>2. u \in timer_running => TimeLeft'[u] = TimeLeft[u]
  BY <1>1, LeftIs
<1> QED BY <1>1, <1>2 DEF Service!Unchanged

(* A timer that is set is set for the service.                             *)
LEMMA SetIsArmed ==
  ASSUME now_times \in Clocks, now_times' = now_times, NEW t \in TimerBlocks, NEW r \in Rels,
         NEW c \in calc_jitter(r), NEW p, IsSet(TimerState', t, c, p)
  PROVE  Service!Armed(t, r, p)
<1>1. t \in timer_running' /\ timer_clock'[t] = c /\ timer_period'[t] = p
  BY DEF IsSet, TimerState
<1>2. Left(c, now_times) \in Soonest(r) .. r
  BY JitterClock
<1>3. TimeLeft'[t] \in Soonest(r) .. r
  BY <1>1, <1>2, LeftIs
<1> QED BY <1>1, <1>3 DEF Service!Armed

(* Steps at a time, within a slot or between walks.                        *)
LEMMA AtATime ==
  ASSUME TimersInv, UNCHANGED <<now_times, timer_last_run, wheel_slot_walks>>,
         NEW V, Good(V, timer_last_run), TimersBecome(V), NEW X, Keeps(TimerState, V, X),
         \A b \in V.running \cap X : Left(V.clock[b], now_times) >= 1,
         \A b \in Range(V.tmp) : Left(V.clock[b], now_times) >= 1,
         V.tmp # <<>> => InWalk /\ SlotsLeft
  PROVE  TimersInv' /\ TimerState' = V
<1>1. TimerState' = V
  BY Became DEF Good
<1>2. V.running \subseteq TimerBlocks
  BY DEF Good, TimerType
<1>3. Walked(V, now_times, timer_last_run, Done)
  BY <1>2, KeepsTime DEF TimersInv
<1>4. Done' = Done
  BY DEF Done, InWalk
<1>5. Walked(TimerState, now_times, timer_last_run, Done)'
  BY <1>1, <1>3, <1>4
<1>6. Waiting'
  BY DEF Waiting, TimersBecome, InWalk, SlotsLeft
<1>7. Good(TimerState, timer_last_run)'
  BY <1>1
<1> QED BY <1>1, <1>5, <1>6, <1>7 DEF TimersInv

LEMMA InitTimers == olsr_init_timers => TimersInv /\ Service!ServiceInit
<1> SUFFICES ASSUME olsr_init_timers PROVE TimersInv /\ Service!ServiceInit
  OBVIOUS
<1> USE DEF olsr_init_timers
<1>1. 0 \in Clocks /\ TimerWheelSlots \in Nat /\ MaxGap \in Nat /\ ClockRange \in Nat \ {0}
  BY Sizes, SMTT(30) DEF Clocks
<1>2. List(<<>>) /\ Range(<<>>) = {} /\ <<>> \in Seq(TimerBlocks)
  BY EmptyList, SMTT(30)
<1>3. TimerState \in TimerType
  BY <1>1, <1>2 DEF TimerState, TimerType
<1>4. Good(TimerState, timer_last_run)
  <2>1. Lists(TimerState)
    BY <1>2, StateFields DEF Lists
  <2>2. Linked(TimerState, timer_last_run)
    BY <1>2, StateFields DEF Linked
  <2>3. Listed(TimerState, {}) /\ Memory(TimerState)
    BY <1>2, StateFields DEF Listed, Memory
  <2> QED BY <1>3, <2>1, <2>2, <2>3 DEF Good
<1>5. Walked(TimerState, now_times, timer_last_run, Done)
  <2>1. Done = 0
    BY DEF Done, InWalk
  <2>2. 0 \in 0 .. MaxGap /\ 0 + 0 = 0 /\ 0 % ClockRange = 0
    BY <1>1, Near, SMTT(30)
  <2>3. WalkAt(TimerState, now_times, timer_last_run, Done, 0, 0)
    BY <2>1, <2>2, StateFields DEF WalkAt
  <2> QED BY <1>1, <2>2, <2>3 DEF Walked
<1>6. Waiting
  BY <1>2 DEF Waiting
<1>7. TimersInv
  BY <1>1, <1>4, <1>5, <1>6 DEF TimersInv
<1>8. Service!ServiceInit
  BY DEF Service!ServiceInit, TimeLeft
<1> QED BY <1>7, <1>8

(* A timer is set from a socket handler.                                   *)
LEMMA SetStep ==
  ASSUME TimersInv, NEW b \in timer_running \cup {NoTimer}, NEW rel \in Rels \cup {0}, NEW periodic \in BOOLEAN,
         SetFromSocket(b, rel, periodic)
  PROVE  TimersInv' /\ Service!SetTimer
<1> DEFINE T == TimerState
           t == IF b = NoTimer THEN olsr_cookie_malloc(T) ELSE b
           p == IF periodic THEN rel ELSE 0
<1>1. PICK c \in calc_jitter(rel) : TimersBecome(olsr_set_timer(T, b, rel, c, p))
  BY DEF SetFromSocket
<1> DEFINE V == olsr_set_timer(T, b, rel, c, p)
<1>2. /\ ~InWalk /\ (b = NoTimer => rel # 0 /\ MayAlloc(T))
      /\ timer_call' = [op |-> "set", timer |-> t, rel |-> rel, periodic |-> periodic]
      /\ UNCHANGED <<now_times, timer_last_run, wheel_slot_walks>>
  BY DEF SetFromSocket
<1>3. /\ now_times \in Clocks /\ Good(T, timer_last_run) /\ T.running = timer_running /\ T.tmp = tmp_list
      /\ tmp_list = <<>>
  BY <1>2, StateFields DEF TimersInv, Waiting
<1>4. c \in Clocks /\ (rel \in Rels => Left(c, now_times) >= 1) /\ p \in Rels \cup {0}
  BY <1>3, JitterClock
<1>5. \A r \in Rels : r # 0
  BY TimersAssumption, SMTT(30)
<1> HIDE DEF T, p
<1>6. /\ t \in TimerBlocks /\ Good(V, timer_last_run) /\ Keeps(T, V, {t}) /\ Shrinks(T, V)
      /\ IF rel = 0 THEN t \notin V.running ELSE IsSet(V, t, c, p)
  <2>1. CASE rel = 0
    <3>1. b # NoTimer /\ b \in T.running /\ t = b /\ V = olsr_stop_timer(T, b)
      BY <1>2, <1>3, <2>1 DEF olsr_set_timer
    <3>2. Good(V, timer_last_run) /\ Keeps(T, V, {b}) /\ Shrinks(T, V) /\ b \notin V.running
      BY <1>3, <3>1, Stopped
    <3>3. b \in TimerBlocks
      BY <1>3, <3>1 DEF Good, TimerType
    <3> QED BY <2>1, <3>1, <3>2, <3>3
  <2>2. CASE rel # 0 /\ b = NoTimer
    <3>1. V = olsr_start_timer(T, c, p) /\ MayAlloc(T) /\ t = olsr_cookie_malloc(T)
      BY <1>2, <2>2 DEF olsr_set_timer
    <3>2. /\ Good(V, timer_last_run) /\ Keeps(T, V, {t}) /\ Shrinks(T, V) /\ IsSet(V, t, c, p)
          /\ t \in TimerBlocks \ T.running
      BY <1>3, <1>4, <3>1, Started
    <3> QED BY <2>2, <3>2
  <2>3. CASE rel # 0 /\ b # NoTimer
    <3>1. V = olsr_change_timer(T, b, c, p) /\ b \in T.running /\ t = b
      BY <1>3, <2>3 DEF olsr_set_timer
    <3>2. Good(V, timer_last_run) /\ Keeps(T, V, {b}) /\ Shrinks(T, V) /\ IsSet(V, b, c, p)
      BY <1>3, <1>4, <3>1, Changed
    <3>3. b \in TimerBlocks
      BY <1>3, <3>1 DEF Good, TimerType
    <3> QED BY <2>3, <3>1, <3>2, <3>3
  <2> QED BY <2>1, <2>2, <2>3
<1>7. TimersBecome(V)
  BY <1>1
<1> HIDE DEF V, t
<1>8. V.tmp = <<>>
  <2>1. Range(T.tmp) = {}
    BY <1>3, EmptyList
  <2>2. List(V.tmp) /\ Range(V.tmp) = {}
    BY <1>6, <2>1 DEF Shrinks, Good, Lists
  <2> QED BY <2>2, Popped
<1>9. \A u \in V.running \cap {t} : Left(V.clock[u], now_times) >= 1
  BY <1>4, <1>6 DEF IsSet
<1>10. TimersInv' /\ TimerState' = V
  <2>1. \A u \in Range(V.tmp) : Left(V.clock[u], now_times) >= 1
    BY <1>8, EmptyList
  <2> QED BY <1>2, <1>6, <1>7, <1>8, <1>9, <2>1, AtATime DEF T
<1>11. \A u \in TimerBlocks \ {t} : Service!Unchanged(u)
  BY <1>2, <1>6, <1>10, KeptUnchanged DEF T
<1>12. IF rel = 0 THEN t \notin timer_running' ELSE Service!Armed(t, rel, p)
  <2>1. CASE rel = 0
    BY <1>6, <1>10, <2>1 DEF TimerState
  <2>2. CASE rel # 0
    BY <1>2, <1>3, <1>6, <1>10, <2>2, SetIsArmed
  <2> QED BY <2>1, <2>2
<1>13. Tolerance' = Tolerance
  BY <1>2 DEF Tolerance
<1>14. timer_call'.op = "set" /\ timer_call'.timer = t /\ timer_call'.rel = rel /\ timer_call'.periodic = periodic
  BY <1>2
<1> QED BY <1>10, <1>11, <1>12, <1>13, <1>14 DEF Service!SetTimer, p

(* Time passes before the next walk.                                       *)
LEMMA TimesStep ==
  ASSUME TimersInv, NEW d \in 1 .. MaxGap, olsr_times(d)
  PROVE  TimersInv' /\ Service!Elapse
<1> DEFINE T == TimerState
           n == now_times
           m == (n + d) % ClockRange
<1>1. /\ ~InWalk /\ ((n - timer_last_run) % ClockRange) + d <= MaxGap /\ n' = m
      /\ timer_call' = [op |-> "elapse"]
      /\ UNCHANGED <<timer_last_run, wheel_slot_walks>> /\ TimersBecome(T)
  BY DEF olsr_times, olsr_getTimestamp
<1>2. n \in Clocks /\ T \in TimerType /\ Good(T, timer_last_run) /\ Done = 0 /\ tmp_list = <<>>
  BY <1>1 DEF TimersInv, Good, Done, Waiting
<1>3. TimerState' = T
  BY <1>1, <1>2, Became
<1>4. PICK l0 \in Clocks, g \in 0 .. MaxGap : WalkAt(T, n, timer_last_run, 0, l0, g)
  BY <1>2 DEF TimersInv, Walked
<1>5. /\ MaxGap \in Nat /\ ClockRange \in Nat \ {0} /\ ClockHalf \in Nat /\ TimerWheelSlots \in Nat
      /\ ClockRange = 2 * ClockHalf /\ TimerWheelSlots + 2 * MaxGap < ClockHalf /\ TimerWheelSlots > 0
      /\ MaxGap <= TimerWheelSlots
  BY Sizes, SMTT(30)
<1>6. l0 \in 0 .. ClockRange - 1 /\ g \in 0 .. MaxGap /\ n \in 0 .. ClockRange - 1
  BY <1>2 DEF Clocks
<1>7. timer_last_run = l0 /\ n = (l0 + g) % ClockRange
  <2>1. l0 + 0 = l0 /\ l0 % ClockRange = l0
    BY <1>5, <1>6, Near, SMTT(30)
  <2> QED BY <1>4, <2>1 DEF WalkAt
<1>8. g + d <= MaxGap
  <2>1. (-l0 + ((l0 + g) % ClockRange)) % ClockRange = (-l0 + (l0 + g)) % ClockRange
    <3>1. -l0 \in Int /\ l0 + g \in Int
      BY <1>5, <1>6, SMTT(30)
    <3> QED BY <1>5, <3>1, ModAdd
  <2>2. n - timer_last_run = -l0 + n /\ -l0 + (l0 + g) = g
    BY <1>6, <1>7, SMTT(30)
  <2>3. g % ClockRange = g
    BY <1>5, <1>6, Near, SMTT(30)
  <2>4. (n - timer_last_run) % ClockRange = g
    BY <1>7, <2>1, <2>2, <2>3
  <2> QED BY <1>1, <2>4
<1>9. m = (l0 + (g + d)) % ClockRange
  <2>1. (d + ((l0 + g) % ClockRange)) % ClockRange = (d + (l0 + g)) % ClockRange
    <3>1. d \in Int /\ l0 + g \in Int
      BY <1>5, <1>6, SMTT(30)
    <3> QED BY <1>5, <3>1, ModAdd
  <2>2. d + n = n + d /\ d + (l0 + g) = l0 + (g + d)
    BY <1>6, SMTT(30)
  <2> QED BY <1>7, <2>1, <2>2
<1>10. m \in Clocks
  <2>1. n + d \in Int
    BY <1>5, <1>6, SMTT(30)
  <2> QED BY <1>5, <2>1, DivMod DEF Clocks
<1> HIDE DEF m
<1>11. ASSUME NEW b \in timer_running
       PROVE  /\ b \in TimerBlocks
              /\ Left(timer_clock[b], n) \in Int
              /\ Left(timer_clock[b], m) = Left(timer_clock[b], n) - d
              /\ OnTime(Left(timer_clock[b], m), l0, g + d, 0)
              /\ Left(timer_clock[b], m) >= -(IF m < TimerWheelSlots + 2 * MaxGap THEN TimerWheelSlots + MaxGap ELSE MaxGap - 1)
  <2> DEFINE z == Left(timer_clock[b], n)
  <2>1. b \in TimerBlocks /\ timer_clock[b] \in Clocks /\ z \in -ClockHalf .. ClockHalf - 1
    BY RunningTimers
  <2>2. OnTime(z, l0, g, 0)
    BY <1>4, StateFields DEF WalkAt
  <2>3. z >= 1 - TimerWheelSlots - g
    BY <2>1, <2>2, OnTimeRange, SMTT(30)
  <2>4. z - d >= -ClockHalf
    BY <1>5, <1>6, <1>8, <2>1, <2>3, SMTT(30)
  <2>5. Left(timer_clock[b], m) = z - d
    BY <1>2, <2>1, <2>4, LeftLater, SMTT(30) DEF m
  <2>6. OnTime(z - d, l0, g + d, 0)
    BY <1>8, <2>1, <2>2, Passes
  <2> HIDE DEF z
  <2>7. \/ z - d >= 1
        \/ /\ (z - d) + (g + d) \in 1 - TimerWheelSlots .. g + d
           /\ (z - d) + (g + d) <= 0 => l0 < MaxGap - ((z - d) + (g + d))
    BY <2>6 DEF OnTime
  <2>8. l0 + (g + d) < ClockRange => m = l0 + (g + d)
    <3>1. ASSUME l0 + (g + d) < ClockRange PROVE l0 + (g + d) \in 0 .. ClockRange - 1
      BY <1>5, <1>6, <3>1, SMTT(30)
    <3> QED BY <1>5, <1>9, <3>1, Near, SMTT(30)
  <2>9. CASE m < TimerWheelSlots + 2 * MaxGap
    BY <1>5, <1>6, <1>8, <2>1, <2>5, <2>6, <2>7, <2>9, SMTT(30) DEF z
  <2>10. CASE ~(m < TimerWheelSlots + 2 * MaxGap)
    <3>1. z - d >= -(MaxGap - 1)
      BY <1>5, <1>6, <1>8, <1>10, <2>1, <2>7, <2>8, <2>10, SMTT(30) DEF Clocks
    <3> QED BY <1>5, <2>1, <2>5, <2>6, <2>10, <3>1, SMTT(30) DEF z
  <2> QED BY <2>9, <2>10
<1>12. Walked(T, m, timer_last_run, 0)
  <2>1. timer_last_run = (l0 + 0) % ClockRange
    BY <1>4 DEF WalkAt
  <2>2. WalkAt(T, m, timer_last_run, 0, l0, g + d)
    BY <1>9, <1>11, <2>1, StateFields DEF WalkAt
  <2>3. g + d \in 0 .. MaxGap
    BY <1>5, <1>6, <1>8, SMTT(30)
  <2> QED BY <2>2, <2>3 DEF Walked
<1>13. TimersInv'
  <2>1. Done' = 0
    BY <1>1 DEF Done, InWalk
  <2>2. Walked(TimerState, now_times, timer_last_run, Done)'
    BY <1>1, <1>3, <1>12, <2>1
  <2>3. Good(TimerState, timer_last_run)'
    BY <1>1, <1>2, <1>3
  <2>4. Waiting'
    <3>1. tmp_list' = <<>>
      BY <1>1, <1>2, StateFields DEF TimersBecome
    <3> QED BY <3>1, EmptyList DEF Waiting
  <2> QED BY <1>1, <1>10, <2>2, <2>3, <2>4 DEF TimersInv
<1>14. timer_running' = timer_running /\ timer_period' = timer_period /\ timer_clock' = timer_clock
  BY <1>1, StateFields DEF TimersBecome
<1>15. \A b \in timer_running :
         /\ TimeLeft[b] \in Int /\ TimeLeft'[b] = TimeLeft[b] - d
         /\ TimeLeft'[b] >= -(Tolerance') /\ Tolerance' \in Int
  <2>1. Tolerance' = IF m < TimerWheelSlots + 2 * MaxGap THEN TimerWheelSlots + MaxGap ELSE MaxGap - 1
    BY <1>1 DEF Tolerance
  <2>2. Tolerance' \in Int
    BY <1>5, <2>1, SMTT(30)
  <2>3. ASSUME NEW b \in timer_running
        PROVE  TimeLeft[b] = Left(timer_clock[b], n) /\ TimeLeft'[b] = Left(timer_clock[b], m)
    BY <1>1, <1>11, <1>14, LeftIs
  <2> QED BY <1>11, <2>1, <2>2, <2>3
<1>16. \A b, u \in timer_running : TimeLeft[b] - TimeLeft'[b] = TimeLeft[u] - TimeLeft'[u]
  <2>1. \A b \in timer_running : TimeLeft[b] - TimeLeft'[b] = d
    BY <1>15, SMTT(30)
  <2> QED BY <2>1
<1>17. \A b \in timer_running : TimeLeft'[b] \in -(Tolerance') .. TimeLeft[b]
  <2> SUFFICES ASSUME NEW b \in timer_running PROVE TimeLeft'[b] \in -(Tolerance') .. TimeLeft[b]
    OBVIOUS
  <2>1. TimeLeft[b] \in Int /\ TimeLeft'[b] = TimeLeft[b] - d /\ TimeLeft'[b] >= -(Tolerance') /\ Tolerance' \in Int
    BY <1>15
  <2> QED BY <2>1, SMTT(30)
<1>18. timer_call'.op = "elapse"
  BY <1>1
<1> QED BY <1>13, <1>14, <1>16, <1>17, <1>18 DEF Service!Elapse

(* For the service nothing happens.                                        *)
LEMMA Unseen ==
  ASSUME UNCHANGED <<now_times, timer_call>>, NEW T, TimersBecome(T),
         T.clock = timer_clock, T.period = timer_period, T.running = timer_running
  PROVE  UNCHANGED Service!serviceVars
<1>1. timer_clock' = timer_clock /\ timer_period' = timer_period /\ timer_running' = timer_running
  BY DEF TimersBecome
<1> QED BY <1>1 DEF Service!serviceVars, TimeLeft, Tolerance

LEMMA BeginStep == ASSUME TimersInv, WalkBegin PROVE TimersInv' /\ UNCHANGED Service!serviceVars
<1>1. /\ ~InWalk /\ wheel_slot_walks' = 0 /\ UNCHANGED <<now_times, timer_last_run, timer_call>>
      /\ TimersBecome(TimerState)
  BY DEF WalkBegin
<1>2. TimerState' = TimerState
  BY <1>1, Became DEF TimersInv, Good
<1>3. Done = 0 /\ Done' = 0
  BY <1>1 DEF Done, InWalk
<1>4. tmp_list' = <<>>
  BY <1>1, StateFields DEF TimersBecome, TimersInv, Waiting
<1>5. Waiting'
  BY <1>4, EmptyList DEF Waiting
<1>6. Walked(TimerState, now_times, timer_last_run, Done)' /\ Good(TimerState, timer_last_run)'
  BY <1>1, <1>2, <1>3 DEF TimersInv
<1>7. 0 \in 0 .. TimerWheelSlots
  BY Sizes, SMTT(30)
<1> QED BY <1>1, <1>5, <1>6, <1>7, StateFields, Unseen DEF TimersInv

LEMMA NotDueStep == ASSUME TimersInv, WalkNotDue PROVE TimersInv' /\ UNCHANGED Service!serviceVars
<1> DEFINE V == Dequeued
<1>1. /\ InWalk /\ SlotsLeft /\ timer_wheel[WalkSlot] # <<>> /\ ~olsr_isTimedOut(timer_clock[WalkTop])
      /\ TimersBecome(V) /\ UNCHANGED <<now_times, timer_last_run, wheel_slot_walks, timer_call>>
  BY DEF WalkNotDue
<1>2. timer_last_run \in Clocks /\ Good(TimerState, timer_last_run)
      /\ \A b \in Range(tmp_list) : Left(timer_clock[b], now_times) >= 1
  BY DEF TimersInv, Waiting
<1>3. /\ WalkTop \in timer_running /\ Good(V, timer_last_run) /\ Range(V.tmp) = Range(tmp_list) \cup {WalkTop}
      /\ V.clock = timer_clock /\ V.period = timer_period /\ V.running = timer_running
  BY <1>1, <1>2, Dequeues
<1> HIDE DEF V
<1>4. Left(timer_clock[WalkTop], now_times) >= 1
  <2>1. Left(timer_clock[WalkTop], now_times) \in Int
    BY <1>3, RunningTimers, Sizes, SMTT(30)
  <2> QED BY <1>1, <1>3, <2>1, Due, SMTT(30)
<1>5. Keeps(TimerState, V, {})
  BY <1>3, StateFields DEF Keeps
<1>6. TimersInv'
  <2>1. \A b \in Range(V.tmp) : Left(V.clock[b], now_times) >= 1
    BY <1>2, <1>3, <1>4
  <2>2. \A b \in V.running \cap {} : Left(V.clock[b], now_times) >= 1
    OBVIOUS
  <2> QED BY <1>1, <1>3, <1>5, <2>1, <2>2, AtATime
<1> QED BY <1>1, <1>3, <1>6, Unseen

(* A timer goes off and its callback is called.                            *)
LEMMA FireStep ==
  ASSUME TimersInv, NEW stop \in timer_running \cup {NoTimer}, NEW start \in {0} \cup Rels,
         NEW self \in {NoTimer, 0} \cup Rels, WalkFire([stop |-> stop, start |-> start, self |-> self])
  PROVE  TimersInv' /\ Service!Fire
<1> DEFINE T  == Dequeued
           t  == WalkTop
           cb == [stop |-> stop, start |-> start, self |-> self]
           T1 == IF cb.stop = NoTimer THEN T ELSE olsr_stop_timer(T, cb.stop)
           p  == IF cb.self > 0 THEN cb.self ELSE timer_period[t]
           new == IF cb.start = 0 THEN NoTimer ELSE olsr_cookie_malloc(T1)
<1>1. /\ InWalk /\ SlotsLeft /\ timer_wheel[WalkSlot] # <<>> /\ olsr_isTimedOut(timer_clock[t])
      /\ cb.stop # t /\ (cb.self > 0 => timer_period[t] > 0)
      /\ UNCHANGED <<now_times, timer_last_run, wheel_slot_walks>>
  BY DEF WalkFire
<1>2. /\ cb.start > 0 => MayAlloc(T1)
      /\ timer_call' = [op |-> "fire", timer |-> t, callback |-> cb, new |-> new]
  BY DEF WalkFire
<1>3. PICK c1 \in calc_jitter(cb.start), c2 \in calc_jitter(p) :
        TimersBecome(AfterCallback(Callback(T, t, cb, c1, c2), t, c2))
  BY DEF WalkFire
<1> DEFINE V == AfterCallback(Callback(T, t, cb, c1, c2), t, c2)
<1>4. timer_last_run \in Clocks /\ now_times \in Clocks /\ Good(TimerState, timer_last_run)
      /\ \A b \in Range(tmp_list) : Left(timer_clock[b], now_times) >= 1
  BY DEF TimersInv, Waiting
<1>5. /\ t \in timer_running /\ Good(T, timer_last_run) /\ Range(T.tmp) = Range(tmp_list) \cup {t}
      /\ T.clock = timer_clock /\ T.period = timer_period /\ T.running = timer_running
  BY <1>1, <1>4, Dequeues
<1>6. t \in TimerBlocks /\ timer_period[t] \in Rels \cup {0}
  BY <1>5, RunningTimers
<1>7. cb.stop = stop /\ cb.start = start /\ cb.self = self
  OBVIOUS
<1>8. p \in Rels \cup {0}
  BY <1>6, <1>7, TimersAssumption, SMTT(30) DEF NoTimer
<1>9. /\ c1 \in Clocks /\ (start \in Rels => Left(c1, now_times) >= 1)
      /\ c2 \in Clocks /\ (p \in Rels => Left(c2, now_times) >= 1)
  BY <1>4, <1>7, <1>8, JitterClock
<1>10. cb \in Callbacks(T, t)
  BY <1>1, <1>5 DEF Callbacks
<1> HIDE DEF cb
<1>11. Fired(T, V, timer_last_run, t, cb, new, c1, c2)
  BY <1>2, <1>5, <1>9, <1>10, Fires
<1>12. TimersBecome(V)
  BY <1>3
<1> HIDE DEF V, new, T1
<1>13. p = IF cb.self > 0 THEN cb.self ELSE T.period[t]
  BY <1>5
<1> HIDE DEF p
<1>14. /\ Good(V, timer_last_run) /\ Shrinks(T, V) /\ t \notin Range(V.tmp)
       /\ IF self = NoTimer \/ p = 0 THEN t \notin V.running ELSE IsSet(V, t, c2, p)
       /\ start > 0 => new \in TimerBlocks \ (timer_running \ {stop}) /\ IsSet(V, new, c1, 0)
       /\ stop # new => stop \notin V.running
       /\ Keeps(T, V, {t, new, stop})
  BY <1>5, <1>7, <1>11, <1>13 DEF Fired
<1> HIDE DEF T, t
<1>15. Keeps(TimerState, V, {t, new, stop})
  BY <1>5, <1>14, StateFields DEF Keeps
<1>16. \A b \in V.running \cap {t, new, stop} : Left(V.clock[b], now_times) >= 1
  <2>1. t \in V.running => Left(V.clock[t], now_times) >= 1
    BY <1>8, <1>9, <1>14 DEF IsSet
  <2>2. new \in V.running => Left(V.clock[new], now_times) >= 1
    <3>1. CASE start = 0
      <4>1. new = NoTimer
        BY <1>7, <3>1 DEF new
      <4>2. NoTimer \notin V.running
        BY <1>14, TimersAssumption DEF Good, TimerType
      <4> QED BY <4>1, <4>2
    <3>2. CASE start \in Rels
      <4>1. start \in 1 .. ClockHalf - 1 /\ ClockHalf \in Nat
        BY <3>2, TimersAssumption, Sizes
      <4>2. start > 0
        BY <4>1, SMTT(30)
      <4> QED BY <1>9, <1>14, <3>2, <4>2 DEF IsSet
    <3> QED BY <3>1, <3>2
  <2> QED BY <1>14, <2>1, <2>2
<1>17. \A b \in Range(V.tmp) : Left(V.clock[b], now_times) >= 1
  BY <1>4, <1>5, <1>14 DEF Shrinks
<1>18. TimersInv' /\ TimerState' = V
  BY <1>1, <1>12, <1>14, <1>15, <1>16, <1>17, AtATime
<1>19. \A u \in TimerBlocks \ {t, new, stop} : Service!Unchanged(u)
  BY <1>1, <1>15, <1>18, KeptUnchanged
<1>20. IF self = NoTimer \/ p = 0 THEN t \notin timer_running' ELSE Service!Armed(t, p, p)
  <2>1. CASE self = NoTimer \/ p = 0
    BY <1>14, <1>18, <2>1 DEF TimerState
  <2>2. CASE ~(self = NoTimer \/ p = 0)
    <3>1. p \in Rels /\ IsSet(V, t, c2, p)
      BY <1>8, <1>14, <2>2
    <3> QED BY <1>1, <1>3, <1>4, <1>6, <1>18, <2>2, <3>1, SetIsArmed
  <2> QED BY <2>1, <2>2
<1>21. start > 0 => new \notin timer_running \ {stop} /\ Service!Armed(new, start, 0)
  <2> SUFFICES ASSUME start > 0 PROVE new \notin timer_running \ {stop} /\ Service!Armed(new, start, 0)
    OBVIOUS
  <2>1. start \in Rels
    BY SMTT(30)
  <2> QED BY <1>1, <1>3, <1>4, <1>7, <1>14, <1>18, <2>1, SetIsArmed
<1>22. stop # new => stop \notin timer_running'
  BY <1>14, <1>18 DEF TimerState
<1>23. t \in timer_running /\ TimeLeft[t] <= 0
  BY <1>1, <1>5, <1>6, Due, LeftIs
<1>24. /\ timer_call'.op = "fire" /\ timer_call'.timer = t /\ timer_call'.new = new /\ timer_call'.callback = cb
       /\ Tolerance' = Tolerance
  BY <1>1, <1>2 DEF Tolerance
<1>25. p = IF cb.self > 0 THEN cb.self ELSE timer_period[t]
  BY <1>5, <1>13
<1> QED BY <1>7, <1>18, <1>19, <1>20, <1>21, <1>22, <1>23, <1>24, <1>25 DEF Service!Fire

(* The walk of a slot ends: what was not due returns to the slot.          *)
LEMMA NextSlotStep == ASSUME TimersInv, WalkNextSlot PROVE TimersInv' /\ UNCHANGED Service!serviceVars
<1> DEFINE T == TimerState
           l == timer_last_run
           n == now_times
           w == wheel_slot_walks
           k == (l + 1) % ClockRange
           wh == [timer_wheel EXCEPT ![WalkSlot] = tmp_list]
           V == [T EXCEPT !.wheel[WalkSlot] = T.tmp, !.tmp = <<>>]
<1>1. /\ InWalk /\ SlotsLeft /\ timer_wheel[WalkSlot] = <<>> /\ TimersBecome(V)
      /\ timer_last_run' = k /\ wheel_slot_walks' = w + 1 /\ UNCHANGED <<now_times, timer_call>>
  BY DEF WalkNextSlot
<1>2. /\ n \in Clocks /\ l \in Clocks /\ Good(T, l) /\ Walked(T, n, l, Done) /\ Waiting
      /\ w \in {NoTimer} \cup 0 .. TimerWheelSlots
  BY DEF TimersInv
<1>3. T \in TimerType /\ Lists(T) /\ Linked(T, l) /\ Listed(T, {}) /\ Memory(T)
  BY <1>2 DEF Good
<1>4. WalkSlot = Slot(l) /\ WalkSlot \in WheelSlots
  BY <1>2, SlotRange DEF WalkSlot, Slot
<1>5. timer_wheel \in [WheelSlots -> Seq(TimerBlocks)] /\ tmp_list \in Seq(TimerBlocks) /\ timer_clock \in [TimerBlocks -> Clocks]
      /\ timer_running \subseteq TimerBlocks
  BY <1>3, StateFields DEF TimerType
<1>6. /\ wh \in [WheelSlots -> Seq(TimerBlocks)] /\ wh[WalkSlot] = tmp_list
      /\ \A s \in WheelSlots : s # WalkSlot => wh[s] = timer_wheel[s]
  BY <1>4, <1>5
<1>7. V = [T EXCEPT !.wheel = wh, !.tmp = <<>>]
  BY StateFields
<1> HIDE DEF V, wh
<1>8. /\ V \in TimerType /\ V.wheel = wh /\ V.tmp = <<>> /\ V.clock = timer_clock /\ V.period = timer_period
      /\ V.running = timer_running /\ V.free = free_list /\ V.allocated = allocated
  <2>1. <<>> \in Seq(TimerBlocks)
    BY SMTT(30)
  <2>2. /\ V \in TimerType /\ V.wheel = wh /\ V.tmp = <<>> /\ V.clock = T.clock /\ V.period = T.period
        /\ V.running = T.running /\ V.free = T.free /\ V.allocated = T.allocated
    BY <1>3, <1>6, <1>7, <2>1 DEF TimerType
  <2> QED BY <2>2, StateFields
<1>9. Range(<<>>) = {} /\ List(<<>>)
  BY EmptyList
<1>10. Good(V, k)
  <2>1. Lists(V)
    BY <1>3, <1>6, <1>8, <1>9, StateFields DEF Lists
  <2>2. Linked(V, k)
    <3>1. ASSUME NEW s \in WheelSlots, NEW b \in Range(V.wheel[s])
          PROVE  b \in timer_running /\ Slot(timer_clock[b]) = s
      <4>1. CASE s = WalkSlot
        <5>1. V.wheel[s] = tmp_list
          BY <1>6, <1>8, <4>1
        <5> QED BY <1>3, <1>4, <3>1, <4>1, <5>1, StateFields DEF Linked
      <4>2. CASE s # WalkSlot
        <5>1. V.wheel[s] = timer_wheel[s]
          BY <1>6, <1>8, <4>2
        <5> QED BY <1>3, <3>1, <5>1, StateFields DEF Linked
      <4> QED BY <4>1, <4>2
    <3> QED BY <1>8, <1>9, <3>1 DEF Linked
  <2>3. Listed(V, {})
    <3> SUFFICES ASSUME NEW b \in timer_running PROVE b \in Range(V.wheel[Slot(timer_clock[b])])
      BY <1>8 DEF Listed
    <3>1. b \in Range(tmp_list) \/ b \in Range(timer_wheel[Slot(timer_clock[b])])
      BY <1>3, StateFields DEF Listed
    <3>2. Slot(timer_clock[b]) \in WheelSlots
      BY <1>5, SlotRange
    <3>3. b \in Range(tmp_list) => Slot(timer_clock[b]) = WalkSlot
      BY <1>3, <1>4, StateFields DEF Linked
    <3> QED BY <1>1, <1>6, <1>8, <1>9, <3>1, <3>2, <3>3
  <2>4. Memory(V)
    BY <1>3, <1>8, StateFields DEF Memory
  <2> QED BY <1>8, <2>1, <2>2, <2>3, <2>4 DEF Good
<1>11. TimerState' = V
  BY <1>1, <1>8, Became
<1>12. w \in 0 .. TimerWheelSlots - 1 /\ Done = w /\ Done' = w + 1 /\ w + 1 \in 0 .. TimerWheelSlots /\ w + 1 # NoTimer
  BY <1>1, <1>2, Sizes, SMTT(30) DEF Done, InWalk, SlotsLeft, NoTimer
<1>13. /\ TimerWheelSlots \in Nat \ {0} /\ MaxGap \in Nat /\ ClockRange \in Nat \ {0} /\ ClockHalf \in Nat
       /\ ClockRange = 2 * ClockHalf /\ TimerWheelSlots + 2 * MaxGap < ClockHalf
  BY Sizes, SMTT(30)
<1>14. PICK l0 \in Clocks, g \in 0 .. MaxGap : WalkAt(T, n, l, w, l0, g)
  BY <1>2, <1>12 DEF Walked
<1>15. l0 \in 0 .. ClockRange - 1
  BY DEF Clocks
<1>16. k = (l0 + (w + 1)) % ClockRange /\ k \in Clocks
  <2>1. (1 + ((l0 + w) % ClockRange)) % ClockRange = (1 + (l0 + w)) % ClockRange
    <3>1. 1 \in Int /\ l0 + w \in Int
      BY <1>12, <1>13, <1>15, SMTT(30)
    <3> QED BY <1>13, <3>1, ModAdd
  <2>2. l = (l0 + w) % ClockRange /\ l \in Int
    BY <1>2, <1>14, <1>13, SMTT(30) DEF WalkAt, Clocks
  <2>3. 1 + l = l + 1 /\ 1 + (l0 + w) = l0 + (w + 1)
    BY <1>12, <1>13, <1>15, <2>2, SMTT(30)
  <2>4. k = (l0 + (w + 1)) % ClockRange
    BY <2>1, <2>2, <2>3
  <2>5. l + 1 \in Int
    BY <2>2, SMTT(30)
  <2>6. k \in Clocks
    BY <1>13, <2>5, DivMod DEF Clocks
  <2> QED BY <2>4, <2>6
<1>17. ~(l0 + g >= ClockRange)
  <2> SUFFICES ASSUME l0 + g >= ClockRange PROVE FALSE
    OBVIOUS
  <2>1. w = 0 /\ l = (l0 + w) % ClockRange /\ n = (l0 + g) % ClockRange
    BY <1>14 DEF WalkAt
  <2>2. l = l0
    BY <1>13, <1>15, <2>1, Near, SMTT(30)
  <2>3. PICK x : x = l0 + g
    OBVIOUS
  <2>4. n = x - ClockRange
    <3>1. ClockRange \in Nat \ {0} /\ x \in Int /\ ClockRange <= x /\ x < 2 * ClockRange
      BY <1>13, <1>15, <2>3, SMTT(30)
    <3>2. n = x % ClockRange
      BY <2>1, <2>3
    <3> QED BY <3>1, <3>2, Above
  <2>5. l <= n
    BY <1>1 DEF SlotsLeft
  <2> QED BY <1>13, <1>15, <2>2, <2>3, <2>4, <2>5, SMTT(30)
<1>18. ASSUME NEW b \in timer_running PROVE OnTime(Left(timer_clock[b], n), l0, g, w + 1)
  <2> DEFINE z == Left(timer_clock[b], n)
             y == (z + g) % TimerWheelSlots
  <2>1. timer_clock[b] \in Clocks /\ z \in -ClockHalf .. ClockHalf - 1 /\ timer_clock[b] = (n + z) % ClockRange
    BY <1>2, RunningTimers, LeftRange
  <2>2. OnTime(z, l0, g, w)
    BY <1>8, <1>14, StateFields DEF WalkAt
  <2>3. y \in 0 .. TimerWheelSlots - 1 /\ z \in Int
    <3>1. z \in Int /\ z + g \in Int
      BY <1>13, <2>1, SMTT(30)
    <3> QED BY <1>13, <3>1, DivMod
  <2>4. y = w => z >= 1
    <3> SUFFICES ASSUME y = w PROVE z >= 1
      OBVIOUS
    <3>1. l = (l0 + ((z + g) % TimerWheelSlots)) % ClockRange /\ n = (l0 + g) % ClockRange
      BY <1>14 DEF WalkAt
    <3>2. Slot(timer_clock[b]) = WalkSlot
      BY <1>4, <2>1, <2>3, <3>1, SlotMeets, SMTT(30) DEF Slot
    <3>3. b \in Range(tmp_list)
      BY <1>1, <1>3, <1>9, <3>2, StateFields DEF Listed
    <3> QED BY <1>2, <3>3 DEF Waiting
  <2> HIDE DEF z
  <2>5. CASE z >= 1
    BY <2>5 DEF OnTime, z
  <2>6. CASE ~(z >= 1)
    <3>1. z + g \in 1 - TimerWheelSlots .. g /\ (z + g <= 0 => l0 < MaxGap - (z + g)) /\ w <= y
      BY <2>2, <2>6 DEF OnTime
    <3>2. w + 1 <= y
      BY <1>12, <1>13, <2>3, <2>4, <2>6, <3>1, SMTT(30)
    <3> QED BY <3>1, <3>2 DEF OnTime, z
  <2> QED BY <2>5, <2>6
<1>19. Walked(V, n, k, w + 1)
  <2>1. WalkAt(V, n, k, w + 1, l0, g)
    BY <1>8, <1>14, <1>16, <1>17, <1>18 DEF WalkAt
  <2> QED BY <2>1 DEF Walked
<1>20. Walked(TimerState, now_times, timer_last_run, Done)' /\ Good(TimerState, timer_last_run)'
  BY <1>1, <1>10, <1>11, <1>12, <1>19
<1>21. Waiting'
  BY <1>1, <1>8, <1>9 DEF Waiting, TimersBecome
<1> QED BY <1>1, <1>2, <1>8, <1>12, <1>16, <1>20, <1>21, Unseen DEF TimersInv

(* The walk ends at the present time.                                      *)
LEMMA EndStep == ASSUME TimersInv, WalkEnd PROVE TimersInv' /\ UNCHANGED Service!serviceVars
<1> DEFINE T == TimerState
           l == timer_last_run
           n == now_times
           w == wheel_slot_walks
<1>1. /\ InWalk /\ ~SlotsLeft /\ timer_last_run' = n /\ wheel_slot_walks' = NoTimer
      /\ UNCHANGED <<now_times, timer_call>> /\ TimersBecome(T)
  BY DEF WalkEnd
<1>2. n \in Clocks /\ l \in Clocks /\ Good(T, l) /\ Walked(T, n, l, Done) /\ tmp_list = <<>>
  BY <1>1 DEF TimersInv, Waiting
<1>3. TimerState' = T
  BY <1>1, <1>2, Became DEF Good
<1>4. Good(T, n)
  <2>1. Linked(T, n)
    BY <1>2, EmptyList, StateFields DEF Good, Linked
  <2> QED BY <1>2, <2>1 DEF Good
<1>5. Done = w /\ w \in 0 .. TimerWheelSlots /\ Done' = 0
  BY <1>1, DoneRange DEF Done, InWalk
<1>6. PICK l0 \in Clocks, g \in 0 .. MaxGap : WalkAt(T, n, l, w, l0, g)
  BY <1>2, <1>5 DEF Walked
<1>7. \A b \in timer_running : OnTime(Left(timer_clock[b], n), n, 0, 0)
  <2> SUFFICES ASSUME NEW b \in timer_running PROVE OnTime(Left(timer_clock[b], n), n, 0, 0)
    OBVIOUS
  <2>1. Left(timer_clock[b], n) \in -ClockHalf .. ClockHalf - 1 /\ OnTime(Left(timer_clock[b], n), l0, g, w)
    BY <1>6, RunningTimers, StateFields DEF WalkAt
  <2>2. /\ n = (l0 + g) % ClockRange /\ l = (l0 + w) % ClockRange
        /\ (l0 + g >= ClockRange => w = 0) /\ ~(l <= n /\ w < TimerWheelSlots)
    BY <1>1, <1>6 DEF WalkAt, SlotsLeft
  <2> QED BY <1>5, <2>1, <2>2, Ends
<1>8. Walked(T, n, n, 0)
  <2>1. n \in 0 .. ClockRange - 1 /\ ClockRange \in Nat \ {0} /\ 0 \in 0 .. MaxGap
    BY <1>2, Sizes, SMTT(30) DEF Clocks
  <2>2. n + 0 = n /\ n % ClockRange = n
    BY <2>1, Near, SMTT(30)
  <2>3. WalkAt(T, n, n, 0, n, 0)
    BY <1>7, <2>2, StateFields DEF WalkAt
  <2> QED BY <1>2, <2>1, <2>3 DEF Walked
<1>9. Walked(TimerState, now_times, timer_last_run, Done)' /\ Good(TimerState, timer_last_run)'
  BY <1>1, <1>3, <1>4, <1>5, <1>8
<1>10. Waiting'
  <2>1. tmp_list' = <<>>
    BY <1>1, <1>2, StateFields DEF TimersBecome
  <2> QED BY <2>1, EmptyList DEF Waiting
<1> QED BY <1>1, <1>2, <1>9, <1>10, StateFields, Unseen DEF TimersInv

------------------------------------------------------------------------------
(* Every step keeps the invariant and is one of the service, or one that   *)
(* the service does not see.                                               *)
LEMMA TimersStep ==
  ASSUME TimersInv, [TimersNext]_timerVars
  PROVE  TimersInv' /\ [Service!ServiceNext]_(Service!serviceVars)
<1>1. CASE UNCHANGED timerVars
  <2>1. TimersInv'
    BY <1>1 DEF timerVars, TimersInv, TimerState, Done, InWalk, Waiting, SlotsLeft
  <2>2. UNCHANGED Service!serviceVars
    BY <1>1 DEF timerVars, Service!serviceVars, TimeLeft, Tolerance
  <2> QED BY <2>1, <2>2
<1>2. ASSUME NEW d \in 1 .. MaxGap, olsr_times(d) PROVE TimersInv' /\ Service!ServiceNext
  BY <1>2, TimesStep DEF Service!ServiceNext
<1>3. ASSUME NEW b \in timer_running \cup {NoTimer}, NEW rel \in Rels \cup {0}, NEW periodic \in BOOLEAN,
             SetFromSocket(b, rel, periodic)
      PROVE  TimersInv' /\ Service!ServiceNext
  BY <1>3, SetStep DEF Service!ServiceNext
<1>4. ASSUME NEW stop \in timer_running \cup {NoTimer}, NEW start \in {NoTimer, 0} \cup Rels,
             NEW self \in {NoTimer, 0} \cup Rels, start # NoTimer,
             WalkFire([stop |-> stop, start |-> start, self |-> self])
      PROVE  TimersInv' /\ Service!ServiceNext
  <2>1. start \in {0} \cup Rels
    BY <1>4
  <2> QED BY <1>4, <2>1, FireStep DEF Service!ServiceNext
<1>5. CASE WalkBegin \/ WalkNotDue \/ WalkNextSlot \/ WalkEnd
  BY <1>5, BeginStep, NotDueStep, NextSlotStep, EndStep
<1> QED BY <1>1, <1>2, <1>3, <1>4, <1>5 DEF TimersNext, walk_timers

(* The wheel keeps the promises of TimerService (scheduler.c, walk_timers  *)
(* and the operations on timers): no timer is lost or goes off early,      *)
(* whatever callbacks do to the list that is walked, and none is later     *)
(* than a turn of the wheel, also when the clock wraps.                    *)
THEOREM WheelServes == TimersSpec => TimersServe
<1>1. olsr_init_timers => TimersInv /\ Service!ServiceInit
  BY InitTimers
<1>2. TimersInv /\ [TimersNext]_timerVars => TimersInv' /\ [Service!ServiceNext]_(Service!serviceVars)
  BY TimersStep
<1> QED BY <1>1, <1>2, PTL DEF TimersSpec, TimersServe, Service!ServiceSpec
==============================================================================
