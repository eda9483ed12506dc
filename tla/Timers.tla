------------------------------- MODULE Timers -------------------------------
(***************************************************************************)
(* The timers of the daemon: a wheel of slots, each with the list of the   *)
(* timers whose clock falls into it, walked by the main loop from the slot *)
(* of the last walk to that of the present time.  Clocks are unsigned      *)
(* numbers that wrap.  Memory of stopped timers is kept for new ones.      *)
(* scheduler.c, common/list.c, olsr_cookie.c                               *)
(***************************************************************************)
EXTENDS Integers, Sequences, Functions

CONSTANTS TimerBlocks,       \* memory for timers
          TimerWheelSlots,
          ClockHalf,         \* half the range of the clock, 2^31
          MaxGap,            \* the longest time between two walks
          Rels,              \* relative times that timers are set to
          JitterPct

ClockRange == 2 * ClockHalf
NoTimer == -1

(* The wheel divides the range of the clock, which is wide compared with   *)
(* the wheel and with every time asked for, and the main loop falls behind *)
(* by no more than a turn of the wheel.                                    *)
ASSUME TimersAssumption ==
  /\ NoTimer \notin TimerBlocks
  /\ {TimerWheelSlots, MaxGap, ClockHalf} \subseteq Nat \ {0} /\ JitterPct \in 0 .. 99
  /\ MaxGap <= TimerWheelSlots /\ TimerWheelSlots + 2 * MaxGap < ClockHalf
  /\ Rels \subseteq 1 .. ClockHalf - 1
  /\ ClockRange % TimerWheelSlots = 0

VARIABLES now_times, timer_last_run,
          timer_wheel, tmp_list,
          timer_clock, timer_period,
          timer_running,                         \* those with OLSR_TIMER_RUNNING
          free_list, allocated,                  \* of timer_mem_cookie
          wheel_slot_walks,                      \* NoTimer: not in walk_timers
          timer_call                             \* the last call, for the properties

timerVars == <<now_times, timer_last_run, timer_wheel, tmp_list, timer_clock, timer_period,
               timer_running, free_list, allocated, wheel_slot_walks, timer_call>>

WheelSlots == 0 .. TimerWheelSlots - 1

olsr_init_timers ==
  /\ now_times = 0 /\ timer_last_run = 0
  /\ timer_wheel = [s \in WheelSlots |-> <<>>] /\ tmp_list = <<>>
  /\ timer_clock = [b \in TimerBlocks |-> 0] /\ timer_period = [b \in TimerBlocks |-> 0]
  /\ timer_running = {}
  /\ free_list = <<>> /\ allocated = {} /\ wheel_slot_walks = NoTimer
  /\ timer_call = [op |-> "none"]

(* The state of all timers as one value, for handlers that call others.    *)
TimerState == [wheel |-> timer_wheel, tmp |-> tmp_list, clock |-> timer_clock, period |-> timer_period,
               running |-> timer_running, free |-> free_list, allocated |-> allocated]

TimersBecome(T) ==
  /\ timer_wheel' = T.wheel /\ tmp_list' = T.tmp /\ timer_clock' = T.clock
  /\ timer_period' = T.period /\ timer_running' = T.running
  /\ free_list' = T.free /\ allocated' = T.allocated

olsr_getTimestamp(s) == (now_times + s) % ClockRange

olsr_isTimedOut(s) ==
  IF s > now_times THEN s - now_times > ClockHalf ELSE now_times - s <= ClockHalf

(* The times that jitter, up to JitterPct percent, may leave of a relative *)
(* time.                                                                   *)
Soonest(rel) == rel - (JitterPct * rel) \div 100
calc_jitter(rel) == {olsr_getTimestamp(x) : x \in Soonest(rel) .. rel}

(* A timer is unlinked from the list that it is on.                        *)
CutAt(q, i) == SubSeq(q, 1, i - 1) \o SubSeq(q, i + 1, Len(q))
Unlinked(q, b) == IF b \in Range(q) THEN CutAt(q, CHOOSE i \in DOMAIN q : q[i] = b) ELSE q

list_remove(T, b) == [T EXCEPT !.wheel = [s \in WheelSlots |-> Unlinked(@[s], b)], !.tmp = Unlinked(@, b)]
list_add_before(T, b) == [T EXCEPT !.wheel[T.clock[b] % TimerWheelSlots] = Append(@, b)]

(* The block that was freed first, else one from the heap.                 *)
MayAlloc(T) == T.free # <<>> \/ T.allocated # TimerBlocks
olsr_cookie_malloc(T) == IF T.free # <<>> THEN Head(T.free) ELSE CHOOSE b \in TimerBlocks : b \notin T.allocated

olsr_start_timer(T, clock, period) ==
  LET b == olsr_cookie_malloc(T)
  IN  list_add_before([T EXCEPT !.free = IF @ = <<>> THEN @ ELSE Tail(@), !.allocated = @ \cup {b},
                                !.clock[b] = clock, !.period[b] = period, !.running = @ \cup {b}], b)

(* What is left in the memory of a timer that was stopped is not read.     *)
olsr_stop_timer(T, b) ==
  [list_remove(T, b) EXCEPT !.running = @ \ {b}, !.free = Append(@, b), !.clock[b] = 0, !.period[b] = 0]

olsr_change_timer(T, b, clock, period) ==
  list_add_before(list_remove([T EXCEPT !.clock[b] = clock, !.period[b] = period], b), b)

(* Without a time the timer ends, without a timer one starts.              *)
olsr_set_timer(T, b, rel, clock, period) ==
  IF rel = 0 THEN olsr_stop_timer(T, b)
  ELSE IF b = NoTimer THEN olsr_start_timer(T, clock, period)
  ELSE olsr_change_timer(T, b, clock, period)

------------------------------------------------------------------------------
(* The main loop: time passes, and socket handlers set timers, before the  *)
(* timers are walked.                                                      *)

InWalk == wheel_slot_walks # NoTimer

olsr_times(d) ==
  /\ ~InWalk /\ ((now_times - timer_last_run) % ClockRange) + d <= MaxGap
  /\ now_times' = olsr_getTimestamp(d)
  /\ timer_call' = [op |-> "elapse"]
  /\ UNCHANGED <<timer_last_run, wheel_slot_walks>> /\ TimersBecome(TimerState)

SetFromSocket(b, rel, periodic) ==
  /\ ~InWalk
  /\ b = NoTimer => rel # 0 /\ MayAlloc(TimerState)
  /\ \E clock \in calc_jitter(rel) :
       TimersBecome(olsr_set_timer(TimerState, b, rel, clock, IF periodic THEN rel ELSE 0))
  /\ timer_call' = [op |-> "set", timer |-> IF b = NoTimer THEN olsr_cookie_malloc(TimerState) ELSE b,
              rel |-> rel, periodic |-> periodic]
  /\ UNCHANGED <<now_times, timer_last_run, wheel_slot_walks>>

(* Mutant: slots are walked up to the present one, not included.           *)
SlotsLeftBefore == timer_last_run < now_times /\ wheel_slot_walks < TimerWheelSlots

SlotsLeft == timer_last_run <= now_times /\ wheel_slot_walks < TimerWheelSlots

WalkBegin ==
  /\ ~InWalk
  /\ wheel_slot_walks' = 0
  /\ UNCHANGED <<now_times, timer_last_run, timer_call>> /\ TimersBecome(TimerState)

(* What callbacks do: stop another timer (a link that is lost), start one  *)
(* (a gateway that goes), stop (gw_default_timer) or change their own (the *)
(* periodic olsr_expire_link_loss_timer).  None starts a timer after it    *)
(* has stopped its own.                                                    *)
Callback(T, b, cb, clock1, clock2) ==
  LET T1 == IF cb.stop = NoTimer THEN T ELSE olsr_stop_timer(T, cb.stop)
      T2 == IF cb.start = 0 THEN T1 ELSE olsr_start_timer(T1, clock1, 0)
  IN  IF cb.self = NoTimer THEN olsr_stop_timer(T2, b)
      ELSE IF cb.self > 0 THEN olsr_change_timer(T2, b, clock2, cb.self) ELSE T2

(* Only a timer that still runs after its callback is set again or ends.   *)
AfterCallback(T, b, clock) ==
  IF b \notin T.running THEN T
  ELSE IF T.period[b] > 0 THEN olsr_change_timer(T, b, clock, T.period[b])
  ELSE olsr_stop_timer(T, b)

WalkSlot == timer_last_run % TimerWheelSlots

WalkTop == Head(timer_wheel[WalkSlot])

(* The top of the slot moves to the temporary list ...                     *)
Dequeued == [TimerState EXCEPT !.wheel[WalkSlot] = Tail(@), !.tmp = <<WalkTop>> \o @]

WalkNotDue ==
  /\ InWalk /\ SlotsLeft /\ timer_wheel[WalkSlot] # <<>>
  /\ ~olsr_isTimedOut(timer_clock[WalkTop])
  /\ TimersBecome(Dequeued)
  /\ UNCHANGED <<now_times, timer_last_run, wheel_slot_walks, timer_call>>

(* ... and, if it is due, its callback is called.                          *)
WalkFire(cb) ==
  /\ InWalk /\ SlotsLeft /\ timer_wheel[WalkSlot] # <<>>
  /\ olsr_isTimedOut(timer_clock[WalkTop])
  /\ cb.stop # WalkTop /\ (cb.self > 0 => timer_period[WalkTop] > 0)
  /\ LET T == IF cb.stop = NoTimer THEN Dequeued ELSE olsr_stop_timer(Dequeued, cb.stop)
         p == IF cb.self > 0 THEN cb.self ELSE timer_period[WalkTop]
     IN  /\ cb.start > 0 => MayAlloc(T)
         /\ \E c1 \in calc_jitter(cb.start), c2 \in calc_jitter(p) :
              TimersBecome(AfterCallback(Callback(Dequeued, WalkTop, cb, c1, c2), WalkTop, c2))
         /\ timer_call' = [op |-> "fire", timer |-> WalkTop, callback |-> cb,
                     new |-> IF cb.start = 0 THEN NoTimer ELSE olsr_cookie_malloc(T)]
  /\ UNCHANGED <<now_times, timer_last_run, wheel_slot_walks>>

(* The temporary list becomes the list of the slot again.                  *)
WalkNextSlot ==
  /\ InWalk /\ SlotsLeft /\ timer_wheel[WalkSlot] = <<>>
  /\ TimersBecome([TimerState EXCEPT !.wheel[WalkSlot] = TimerState.tmp, !.tmp = <<>>])
  /\ timer_last_run' = (timer_last_run + 1) % ClockRange
  /\ wheel_slot_walks' = wheel_slot_walks + 1
  /\ UNCHANGED <<now_times, timer_call>>

WalkEnd ==
  /\ InWalk /\ ~SlotsLeft
  /\ timer_last_run' = now_times /\ wheel_slot_walks' = NoTimer
  /\ UNCHANGED <<now_times, timer_call>> /\ TimersBecome(TimerState)

walk_timers ==
  \/ WalkBegin \/ WalkNotDue \/ WalkNextSlot \/ WalkEnd
  \/ \E stop \in timer_running \cup {NoTimer}, start, self \in {NoTimer, 0} \cup Rels :
       start # NoTimer /\ WalkFire([stop |-> stop, start |-> start, self |-> self])

TimersNext ==
  \/ \E d \in 1 .. MaxGap : olsr_times(d)
  \/ \E b \in timer_running \cup {NoTimer}, rel \in Rels \cup {0}, periodic \in BOOLEAN :
       SetFromSocket(b, rel, periodic)
  \/ walk_timers

TimersSpec == olsr_init_timers /\ [][TimersNext]_timerVars

------------------------------------------------------------------------------
(* How the wheel provides the service: what is left is the distance of the *)
(* clocks, over the wrap.                                                  *)
TimeLeft == [b \in TimerBlocks |->
           LET d == (timer_clock[b] - now_times) % ClockRange
           IN  IF b \notin timer_running THEN 0 ELSE IF d < ClockHalf THEN d ELSE d - ClockRange]

(* A timer waits for the next walk, and after a wrap of the clock, which   *)
(* hides the slots before it, for the next turn of the wheel.              *)
Tolerance == IF now_times < TimerWheelSlots + 2 * MaxGap THEN TimerWheelSlots + MaxGap ELSE MaxGap - 1

Service == INSTANCE TimerService WITH Handles <- TimerBlocks, Earliest <- Soonest, Null <- NoTimer,
             armed <- timer_running, left <- TimeLeft, period <- timer_period,
             tolerance <- Tolerance, request <- timer_call

(* The wheel keeps the promises of TimerService: no timer is lost or fires *)
(* early, whatever callbacks do to it and to each other while its list is  *)
(* walked, and none is later than a turn of the wheel after the walk that  *)
(* should have found it, also when the clock wraps and walk_timers, which  *)
(* compares plain numbers (scheduler.c:575), finds no slot to walk.        *)
TimersServe == Service!ServiceSpec
==============================================================================
