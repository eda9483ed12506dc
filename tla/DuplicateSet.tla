--------------------------- MODULE DuplicateSet ---------------------------
(***************************************************************************)
(* The duplicate set of olsrd (src/duplicate_set.c): for every originator  *)
(* the newest message sequence number, a bit array of the recent ones that *)
(* have been processed, a counter of messages that were too old, and the   *)
(* time until which the entry is kept.                                     *)
(*                                                                         *)
(* Messages of an originator arrive with any sequence number: the network  *)
(* reorders, repeats and loses them, and an originator restarts at a       *)
(* random number (init_msg_seqno).  The bit array is modelled as the set   *)
(* of the positions that are set; the 16-bit sequence numbers and the      *)
(* 32-bit clock keep their wrap-around, with their widths as constants.    *)
(***************************************************************************)
EXTENDS Integers, FiniteSets

CONSTANTS Originators,      \* addresses messages originate from
          HalfSeq,          \* half of the sequence number space (2^15)
          ArrayBits,        \* bits of dup_entry.array (32)
          DupMaxTooLow,     \* DUP_MAX_TOO_LOW (16)
          Vtime,            \* DUPLICATE_VTIME, in clock ticks
          HalfTime,         \* half of the clock's range (2^31)
          StartNow, MaxNow  \* first value of the clock, and the bound on it

SeqRange  == 2 * HalfSeq
TimeMod == 2 * HalfTime

Seqnos    == 0 .. SeqRange - 1
Times     == 0 .. TimeMod - 1
Positions == 0 .. ArrayBits - 1

ASSUME DuplicateSetAssumption ==
  /\ HalfSeq \in Nat /\ ArrayBits \in Nat /\ 1 < ArrayBits /\ ArrayBits <= HalfSeq
  /\ DupMaxTooLow \in Nat /\ 2 <= DupMaxTooLow
  /\ HalfTime \in Nat /\ Vtime \in Nat /\ 0 < Vtime /\ Vtime < HalfTime
  /\ StartNow \in Times /\ MaxNow \in Times

VARIABLES
  now,              \* now_times
  duplicate_set,    \* the originators that have an entry
  seqnr,            \* dup_entry.seqnr
  too_low_counter,  \* dup_entry.too_low_counter
  array,            \* dup_entry.array
  valid_until,      \* dup_entry.valid_until
  processed,        \* history: sequence numbers processed that are still in the window
  heard,            \* history: ticks since the last message of the originator
  lows              \* history: messages blocked as too low in a row

entry == <<seqnr, too_low_counter, array, valid_until>>
vars  == <<now, duplicate_set, entry, processed, heard, lows>>

------------------------------------------------------------------------------
(* Mutant: the difference without the wrap of the sequence numbers.        *)
SeqnoDiffNoWrap(s1, s2) == s1 - s2

(* The distance from s2 to s1 in the circular space of sequence numbers.   *)
(* Both extreme distances, HalfSeq and -HalfSeq, are left as they are.     *)
olsr_seqno_diff(s1, s2) ==
  LET diff == s1 - s2
  IN  IF diff > HalfSeq THEN diff - SeqRange
      ELSE IF diff < -HalfSeq THEN diff + SeqRange
      ELSE diff

GetTimestamp(rel) == (now + rel) % TimeMod

TimedOut(t) ==
  IF t > now THEN t - now > HalfTime ELSE now - t <= HalfTime

(* Mutant: the time of the entry is set when it is created and never again.*)
NotRefreshed(o) == valid_until[o]

(* The later of the entry's time and the new one, compared as plain        *)
(* unsigned numbers.                                                       *)
Refreshed(o) ==
  LET t == GetTimestamp(Vtime)
  IN  IF t > valid_until[o] THEN t ELSE valid_until[o]

Diff(o, s) == olsr_seqno_diff(s, seqnr[o])

(* Mutant: what the shift instruction of the processor does with a distance*)
(* beyond the width, were the distance not compared with it.               *)
ShiftModulo(bits, d) == {i + (d % ArrayBits) : i \in {j \in bits : j + (d % ArrayBits) < ArrayBits}}

(* array <<= d, on the positions that are set; all are lost when d is at   *)
(* least the width.                                                        *)
ShiftLeft(bits, d) == {i + d : i \in {j \in bits : j + d < ArrayBits}}

(* Reference, independent of olsr_seqno_diff: the number i before s, and   *)
(* the numbers that an array whose newest number is s can mark.            *)
Before(s, i) == IF i <= s THEN s - i ELSE s - i + SeqRange
Window(s)    == {Before(s, i) : i \in Positions}

------------------------------------------------------------------------------
Init ==
  /\ now = StartNow
  /\ duplicate_set = {}
  /\ seqnr = [o \in Originators |-> 0]
  /\ too_low_counter = [o \in Originators |-> 0]
  /\ array = [o \in Originators |-> {}]
  /\ valid_until = [o \in Originators |-> 0]
  /\ processed = [o \in Originators |-> {}]
  /\ heard = [o \in Originators |-> 0]
  /\ lows = [o \in Originators |-> 0]

(* What every call for a known originator does first.                      *)
KnownOriginator(o) ==
  /\ o \in duplicate_set
  /\ valid_until' = [valid_until EXCEPT ![o] = Refreshed(o)]
  /\ heard' = [heard EXCEPT ![o] = 0]
  /\ UNCHANGED <<now, duplicate_set>>

(* The first message of an originator creates an entry with an empty array.*)
FirstMessage(o, s) ==
  /\ o \notin duplicate_set
  /\ duplicate_set' = duplicate_set \cup {o}
  /\ seqnr' = [seqnr EXCEPT ![o] = s]
  /\ too_low_counter' = [too_low_counter EXCEPT ![o] = 0]
  /\ array' = [array EXCEPT ![o] = {}]
  /\ valid_until' = [valid_until EXCEPT ![o] = GetTimestamp(Vtime)]
  /\ processed' = [processed EXCEPT ![o] = {s}]
  /\ heard' = [heard EXCEPT ![o] = 0]
  /\ lows' = [lows EXCEPT ![o] = 0]
  /\ UNCHANGED now

(* Older than the array reaches: blocked, and counted.                     *)
TooLow(o, s) ==
  /\ KnownOriginator(o)
  /\ Diff(o, s) < 1 - ArrayBits
  /\ too_low_counter[o] + 1 <= DupMaxTooLow
  /\ too_low_counter' = [too_low_counter EXCEPT ![o] = @ + 1]
  /\ lows' = [lows EXCEPT ![o] = @ + 1]
  /\ UNCHANGED <<seqnr, array, processed>>

(* Too many of those in a row: the originator restarted at a lower number. *)
Restarted(o, s) ==
  /\ KnownOriginator(o)
  /\ Diff(o, s) < 1 - ArrayBits
  /\ too_low_counter[o] + 1 > DupMaxTooLow
  /\ too_low_counter' = [too_low_counter EXCEPT ![o] = 0]
  /\ lows' = [lows EXCEPT ![o] = 0]
  /\ seqnr' = [seqnr EXCEPT ![o] = s]
  /\ array' = [array EXCEPT ![o] = {0}]
  /\ processed' = [processed EXCEPT ![o] = {s}]

(* In reach of the array and marked there: a duplicate.                    *)
Duplicate(o, s) ==
  /\ KnownOriginator(o)
  /\ Diff(o, s) \in (1 - ArrayBits) .. 0
  /\ -Diff(o, s) \in array[o]
  /\ too_low_counter' = [too_low_counter EXCEPT ![o] = 0]
  /\ lows' = [lows EXCEPT ![o] = 0]
  /\ UNCHANGED <<seqnr, array, processed>>

(* Mutant: the late message is processed and its bit forgotten.            *)
LateMessageUnmarked(o, s) ==
  /\ KnownOriginator(o)
  /\ Diff(o, s) \in (1 - ArrayBits) .. 0
  /\ -Diff(o, s) \notin array[o]
  /\ too_low_counter' = [too_low_counter EXCEPT ![o] = 0]
  /\ lows' = [lows EXCEPT ![o] = 0]
  /\ processed' = [processed EXCEPT ![o] = @ \cup {s}]
  /\ UNCHANGED <<seqnr, array>>

(* In reach of the array and not marked: processed, late.                  *)
LateMessage(o, s) ==
  /\ KnownOriginator(o)
  /\ Diff(o, s) \in (1 - ArrayBits) .. 0
  /\ -Diff(o, s) \notin array[o]
  /\ too_low_counter' = [too_low_counter EXCEPT ![o] = 0]
  /\ lows' = [lows EXCEPT ![o] = 0]
  /\ array' = [array EXCEPT ![o] = @ \cup {-Diff(o, s)}]
  /\ processed' = [processed EXCEPT ![o] = @ \cup {s}]
  /\ UNCHANGED seqnr

(* Newer than everything so far: the window moves.                         *)
NewMessage(o, s) ==
  /\ KnownOriginator(o)
  /\ Diff(o, s) > 0
  /\ too_low_counter' = [too_low_counter EXCEPT ![o] = 0]
  /\ lows' = [lows EXCEPT ![o] = 0]
  /\ array' = [array EXCEPT ![o] = ShiftLeft(@, Diff(o, s)) \cup {0}]
  /\ seqnr' = [seqnr EXCEPT ![o] = s]
  /\ processed' = [processed EXCEPT ![o] = (@ \cap Window(s)) \cup {s}]

(* olsr_message_is_duplicate, by its verdict.                              *)
Processes(o, s) == FirstMessage(o, s) \/ Restarted(o, s) \/ LateMessage(o, s) \/ NewMessage(o, s)
Blocks(o, s)    == TooLow(o, s) \/ Duplicate(o, s)

(* The TC handler has seen the originator leave (an empty TC): its next    *)
(* low numbers are accepted sooner.                                        *)
olsr_cleanup_duplicates(o) ==
  /\ o \in duplicate_set
  /\ too_low_counter' = [too_low_counter EXCEPT ![o] = DupMaxTooLow - 2]
  /\ lows' = [lows EXCEPT ![o] = 0]
  /\ UNCHANGED <<now, duplicate_set, seqnr, array, valid_until, processed, heard>>

(* The periodic cleanup drops the entries whose time has passed.           *)
olsr_cleanup_duplicate_entry ==
  LET gone == {o \in duplicate_set : TimedOut(valid_until[o])}
      cleared(f, v) == [o \in Originators |-> IF o \in gone THEN v ELSE f[o]]
  IN  /\ duplicate_set' = duplicate_set \ gone
      /\ seqnr' = cleared(seqnr, 0)
      /\ too_low_counter' = cleared(too_low_counter, 0)
      /\ array' = cleared(array, {})
      /\ valid_until' = cleared(valid_until, 0)
      /\ processed' = cleared(processed, {})
      /\ heard' = cleared(heard, 0)
      /\ lows' = cleared(lows, 0)
      /\ UNCHANGED now

Tick ==
  /\ now # MaxNow
  /\ now' = (now + 1) % TimeMod
  /\ heard' = [o \in Originators |->
                 IF o \in duplicate_set /\ heard[o] < Vtime THEN heard[o] + 1 ELSE heard[o]]
  /\ UNCHANGED <<duplicate_set, entry, processed, lows>>

Next ==
  \/ \E o \in Originators, s \in Seqnos :
       \/ FirstMessage(o, s)
       \/ TooLow(o, s)
       \/ Restarted(o, s)
       \/ Duplicate(o, s)
       \/ LateMessage(o, s)
       \/ NewMessage(o, s)
  \/ \E o \in Originators : olsr_cleanup_duplicates(o)
  \/ olsr_cleanup_duplicate_entry
  \/ Tick

Spec == Init /\ [][Next]_vars

------------------------------------------------------------------------------
(* Every field has the range its C type and the code give it; in           *)
(* particular the counter of low numbers never passes DUP_MAX_TOO_LOW.     *)
TypeOK ==
  /\ now \in Times
  /\ duplicate_set \subseteq Originators
  /\ seqnr \in [Originators -> Seqnos]
  /\ too_low_counter \in [Originators -> 0 .. DupMaxTooLow]
  /\ array \in [Originators -> SUBSET Positions]
  /\ valid_until \in [Originators -> Times]
  /\ processed \in [Originators -> SUBSET Seqnos]
  /\ heard \in [Originators -> 0 .. Vtime]
  /\ lows \in [Originators -> Nat]

(* The numbers the array marks.                                            *)
Marked(o) == {Before(seqnr[o], i) : i \in array[o]}

(* A number is marked in the array exactly if it was processed and the     *)
(* window still reaches it, whatever the order of arrival and across the   *)
(* wrap of the sequence numbers.  The one exception is the number that     *)
(* created the entry, whose bit is not set (duplicate_set.c:83): it may be *)
(* processed and unmarked, and it is then the only such number.            *)
ArrayIsHistory ==
  \A o \in duplicate_set :
    /\ Marked(o) \subseteq processed[o]
    /\ processed[o] \subseteq Window(seqnr[o])
    /\ \A s, t \in processed[o] \ Marked(o) : s = t

(* A message is blocked only if it was processed, or if its number lies    *)
(* behind the newest one farther than the array reaches: no number ahead   *)
(* of the newest one is blocked, across the wrap of the sequence numbers.  *)
(* Of the second kind at most DUP_MAX_TOO_LOW are blocked in a row, so     *)
(* that an originator that restarted with a low number is heard again.     *)
NewNeverBlocked ==
  [][\A o \in Originators, s \in Seqnos :
       Blocks(o, s) => \/ s \in processed[o]
                       \/ /\ \E i \in ArrayBits .. HalfSeq : s = Before(seqnr[o], i)
                          /\ lows[o] < DupMaxTooLow]_vars

(* A number that is in the history is processed again only if it is the    *)
(* one whose bit the creation of the entry left unset.                     *)
OnlyFirstRepeats ==
  [][\A o \in Originators, s \in Seqnos :
       Processes(o, s) /\ s \in processed[o] => s \notin Marked(o) /\ s \in Marked(o)']_vars

(* The time DUPLICATE_VTIME after the last message of the originator.      *)
Owed(o) ==
  LET t == now + Vtime - heard[o] IN IF t < TimeMod THEN t ELSE t - TimeMod

(* The cleanup drops an entry only when no message of the originator came  *)
(* for DUPLICATE_VTIME: every message refreshes valid_until.  The one      *)
(* exception is the wrap of the clock: the time a message asks for may be  *)
(* later and yet the smaller number, so that duplicate_set.c:154 keeps the *)
(* time of an earlier message.                                             *)
KeptWhileHeard ==
  [][\A o \in Originators :
       o \in duplicate_set /\ o \notin duplicate_set' =>
         heard[o] = Vtime \/ Owed(o) < valid_until[o]]_vars
==============================================================================
