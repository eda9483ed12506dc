----------------------------- MODULE LinkQuality -----------------------------
(***************************************************************************)
(* The link metrics.  etx_ff, etx_ffeth and etx_hybrid_plc count the       *)
(* packets of a neighbor in a window of seconds (lq_plugin_default_ff.c,   *)
(* _ffeth.c, _hybrid_plc.c).  etx_ffeth favours Ethernet; etx_hybrid_plc   *)
(* also counts the rate that a PLC adapter reports for the adapter of the  *)
(* neighbor.  Nodes tell each other the addresses of their adapters        *)
(* (lib/hybrid_PLC, linklayer_plc_data.c).  etx_fpm ages the quality with  *)
(* each HELLO that came or was missed (lq_plugin_default_fpm.c).           *)
(***************************************************************************)
EXTENDS Integers, FiniteSets

CONSTANTS PlcLinks,           \* links, each with the address of the neighbor's interface
          IfMode,          \* "ether", "plc" or "other", of each link
          MainAddrLinks,   \* links to the main address of the neighbor
          LqWindow,        \* LQ_HYBRID_PLC_WINDOW
          QuickstartInit,  \* LQ_HYBRID_PLC_QUICKSTART_INIT
          PacketsPerTick,  \* bound on the packets in one second
          SeqDistances,    \* distances of packet sequence numbers
          SeqJump,         \* the distance that counts as a jump (256)
          NeighborHello, OwnHello,    \* hello intervals, in seconds
          ForeignLqs,      \* link qualities the neighbors tell in their HELLOs
          Adapters, PlcRates,
          AgedLinks,       \* the links of etx_fpm
          AgedForeignLqs,  \* the qualities told to these; 0: the HELLO does not list us
          LqAging,         \* lq_aging * 65535
          QuickstartAging, QuickstartSteps,   \* LQ_QUICKSTART_AGING * 65535, LQ_QUICKSTART_STEPS
          LossesToBreak    \* missed HELLOs after which no quality is useful

(* The intervals for which the missed HELLOs are counted right.            *)
ASSUME HelloAssumption == OwnHello <= NeighborHello /\ LqWindow % NeighborHello = 0

VARIABLES lq_algorithm,                                    \* active_lq_handler
          received, total, windowSize, activePtr, missed_hellos, perfect_eth,
          lq_value, lq_nlq, lq_quality,                    \* lq
          smoothed_lq, linkcost,
          plc_mac, plc_rate,                               \* of plc_peer_neighbors
          own_mac_known,                                   \* is_ready()
          quickstart,                                      \* of etx_fpm
          silent, heard_now                                \* for the bounds and the properties

lqVars  == <<received, total, windowSize, activePtr, missed_hellos, perfect_eth,
             lq_value, lq_nlq, lq_quality, smoothed_lq, linkcost>>
peerVars == <<plc_mac, plc_rate, own_mac_known>>
plcVars == <<lq_algorithm, lqVars, peerVars, quickstart, silent, heard_now>>

LinkCostBroken == 4194304
LqUseful       == 25            \* 255 * MINIMAL_USEFUL_LQ
NoMac          == 0
LqFpmMultiplier == 65535
LqSlots        == 0 .. LqWindow - 1

RECURSIVE SumTo(_, _)
SumTo(f, n) == IF n = 0 THEN 0 ELSE f[n - 1] + SumTo(f, n - 1)

(* A cost is neither 0 nor above that of a broken link.                    *)
Clamped(cost) == IF cost > LinkCostBroken THEN LinkCostBroken ELSE IF cost = 0 THEN 1 ELSE cost

(* The cost of a link quality; without a bandwidth, as on all interfaces   *)
(* but power lines, the rate counts as 5.  (The code divides as float.)    *)
default_lq_calc_cost_hybrid_plc(q, plc) ==
  LET up(x) == IF x > 0 /\ x < 255 THEN x + 1 ELSE x
      etx   == 65025 \div (up(q.value) * up(q.nlq))
      bw    == IF plc THEN (151 * q.quality) \div 255 ELSE 0
      cost  == (etx * 102400) \div (IF bw < 5 THEN 5 ELSE bw)
  IN  IF q.value < LqUseful \/ q.nlq < LqUseful THEN LinkCostBroken
      ELSE Clamped(cost)

default_lq_calc_cost_ffeth(q) ==
  LET up(x) == IF x > 0 /\ x < 255 THEN x + 1 ELSE x
      cost  == (65025 * 1024) \div (up(q.value) * up(q.nlq))
  IN  IF q.value < LqUseful \/ q.nlq < LqUseful THEN LinkCostBroken
      ELSE Clamped(IF q.value = 255 /\ q.nlq = 255 THEN cost \div 10 ELSE cost)

default_lq_calc_cost_ff(q) ==
  IF q.value < LqUseful \/ q.nlq < LqUseful THEN LinkCostBroken
  ELSE Clamped((65025 * 1024) \div (q.value * q.nlq))

default_lq_calc_cost_fpm(q) ==
  IF q.value < LqUseful \/ q.nlq < LqUseful THEN LinkCostBroken
  ELSE Clamped((((LqFpmMultiplier * 255) \div q.value) * 255) \div q.nlq)

CalcCost(l, q) ==
  CASE lq_algorithm = "etx_hybrid_plc" -> default_lq_calc_cost_hybrid_plc(q, IfMode[l] = "plc")
    [] lq_algorithm = "etx_ffeth"      -> default_lq_calc_cost_ffeth(q)
    [] lq_algorithm = "etx_ff"         -> default_lq_calc_cost_ff(q)
    [] lq_algorithm = "etx_fpm"        -> default_lq_calc_cost_fpm(q)

------------------------------------------------------------------------------
(* A jump of the sequence numbers counts as one packet.                    *)
SeqDiff(d) == IF d > SeqJump THEN 1 ELSE d

(* A packet, d sequence numbers after the last one, and the HELLO in it;   *)
(* repeated ones are not counted, but their HELLO is read.                 *)
WindowParser(l, d, foreign) ==
  /\ heard_now < PacketsPerTick
  /\ IF d = 0 THEN UNCHANGED <<received, total, missed_hellos, silent, heard_now>>
     ELSE /\ received' = [received EXCEPT ![l][activePtr[l]] = @ + 1]
          /\ total' = [total EXCEPT ![l][activePtr[l]] = @ + SeqDiff(d)]
          /\ missed_hellos' = [missed_hellos EXCEPT ![l] = 0]
          /\ silent' = [silent EXCEPT ![l] = 0]
          /\ heard_now' = heard_now + 1
  /\ lq_nlq' = [lq_nlq EXCEPT ![l] = foreign]              \* default_lq_memorize_foreign_hello
  /\ UNCHANGED <<lq_algorithm, windowSize, activePtr, perfect_eth, lq_value, lq_quality, smoothed_lq,
                 linkcost, peerVars, quickstart>>

default_lq_parser_hybrid_plc(l, d, foreign) == lq_algorithm = "etx_hybrid_plc" /\ WindowParser(l, d, foreign)
default_lq_parser_ffeth(l, d, foreign) == lq_algorithm = "etx_ffeth" /\ WindowParser(l, d, foreign)
default_lq_parser_ff(l, d, foreign) == lq_algorithm = "etx_ff" /\ WindowParser(l, d, foreign)

(* The link-loss timer goes off in the intervals of the neighbor's HELLOs; *)
(* it may do so soon after a packet, which need not have had a HELLO.      *)
WindowLoss(l) ==
  /\ missed_hellos[l] * NeighborHello <= silent[l]
  /\ missed_hellos' = [missed_hellos EXCEPT ![l] = @ + 1]
  /\ UNCHANGED <<lq_algorithm, received, total, windowSize, activePtr, perfect_eth, lq_value, lq_nlq,
                 lq_quality, smoothed_lq, linkcost, peerVars, quickstart, silent, heard_now>>

default_lq_packet_loss_worker_hybrid_plc(l) == lq_algorithm = "etx_hybrid_plc" /\ WindowLoss(l)
default_lq_packet_loss_worker_ffeth(l) == lq_algorithm = "etx_ffeth" /\ WindowLoss(l)
default_lq_packet_loss_worker_ff(l) == lq_algorithm = "etx_ff" /\ WindowLoss(l)

(* The part of the packets that was received, of 255, in fixed point       *)
(* numbers with ten bits; missed HELLOs count for own intervals.           *)
LqRatio(l) ==
  LET size == IF windowSize[l] < LqWindow THEN windowSize[l] + 1 ELSE LqWindow
      t    == SumTo(total[l], size)
      r    == SumTo(received[l], size)
      lost == IF missed_hellos[l] > 1 THEN (r * missed_hellos[l] * OwnHello) \div LqWindow ELSE 0
  IN  IF t = 0 THEN 0 ELSE (((1024 * (r - lost)) \div t) * 255) \div 1024

(* etx_ff takes only the full quality for perfect, the others less.        *)
Perfect(x) == x >= (IF lq_algorithm = "etx_ff" THEN 255 ELSE 254)

(* Mutant: a link quality that falls is not taken over.                    *)
RelevantRise(old, new) == new > old /\ (Perfect(new) \/ new - old > old \div 10)

Relevant(old, new) ==
  \/ new > old /\ (Perfect(new) \/ new - old > old \div 10)
  \/ new < old /\ old - new > old \div 10

(* The Ethernet booster: whether a link counts as perfect from now on.     *)
Boosted(l, ratio) ==
  IF IfMode[l] # "ether" \/ lq_algorithm = "etx_ff" THEN perfect_eth[l]
  ELSE ratio > 242 \/ (perfect_eth[l] /\ ~(ratio > 229))

(* The quality of other links keeps below that of Ethernet.                *)
BoostedValue(l, ratio) ==
  IF lq_algorithm = "etx_ff" THEN ratio
  ELSE IF IfMode[l] = "ether" THEN (IF Boosted(l, ratio) THEN 255 ELSE ratio)
  ELSE IF ratio > 0 THEN ratio - 1 ELSE 0

(* The rate of the PLC adapter, where the metric has it.                   *)
PlcQuality(l) ==
  LET rate == IF plc_mac[l] # NoMac /\ l \in MainAddrLinks THEN plc_rate[l] ELSE lq_quality[l]
  IN  IF lq_algorithm # "etx_hybrid_plc" \/ IfMode[l] # "plc" THEN lq_quality[l]
      ELSE IF rate < 1 THEN 1 ELSE rate

(* The links whose new quality is taken over: those where it has changed   *)
(* enough, and then all others where it differs and is not perfect.        *)
TakenOver(values, qualities) ==
  LET old(l)     == smoothed_lq[l]
      changed(l) == \/ Relevant(old(l).value, values[l]) \/ Relevant(old(l).nlq, lq_nlq[l])
                    \/ qualities[l] > old(l).quality /\ qualities[l] - old(l).quality > old(l).quality \div 10
      differs(l) == /\ ~(Perfect(old(l).value) /\ Perfect(old(l).nlq))
                    /\ old(l).value # values[l] \/ old(l).nlq # lq_nlq[l]
      relevant   == {l \in PlcLinks : changed(l)}
  IN  IF relevant = {} THEN {} ELSE relevant \cup {l \in PlcLinks : differs(l)}

(* Only the PLC rates of etx_hybrid_plc make qualities differ.             *)
default_lq_hybrid_plc_handle_lqchange(values, qualities) == TakenOver(values, qualities)
default_lq_ffeth_handle_lqchange(values, qualities) == TakenOver(values, qualities)
default_lq_ff_handle_lqchange(values, qualities) == TakenOver(values, qualities)

(* Every second: the quality of each link, the next slot of its window,    *)
(* and the costs of the links whose quality is taken over.                 *)
NewValues == [l \in PlcLinks |-> BoostedValue(l, LqRatio(l) % 256)]
NewQualities == [l \in PlcLinks |-> PlcQuality(l)]

WindowTimer(taken) ==
  LET ratio(l)   == LqRatio(l) % 256
      values     == NewValues
      qualities  == NewQualities
      next(l)    == (activePtr[l] + 1) % LqWindow
      new(l)     == [value |-> values[l], nlq |-> lq_nlq[l], quality |-> qualities[l]]
  IN  /\ windowSize' = [l \in PlcLinks |-> IF windowSize[l] < LqWindow THEN windowSize[l] + 1 ELSE LqWindow]
      /\ perfect_eth' = [l \in PlcLinks |-> Boosted(l, ratio(l))]
      /\ lq_value' = values /\ lq_quality' = qualities
      /\ activePtr' = [l \in PlcLinks |-> next(l)]
      /\ received' = [l \in PlcLinks |-> [received[l] EXCEPT ![next(l)] = 0]]
      /\ total' = [l \in PlcLinks |-> [total[l] EXCEPT ![next(l)] = 0]]
      /\ smoothed_lq' = [l \in PlcLinks |-> IF l \in taken THEN new(l) ELSE smoothed_lq[l]]
      /\ linkcost' = [l \in PlcLinks |-> IF l \in taken THEN CalcCost(l, new(l)) ELSE linkcost[l]]
      /\ silent' = [l \in PlcLinks |-> IF silent[l] > LqWindow THEN silent[l] ELSE silent[l] + 1]
      /\ heard_now' = 0
      /\ UNCHANGED <<lq_algorithm, missed_hellos, lq_nlq, peerVars, quickstart>>

default_lq_hybrid_plc_timer ==
  lq_algorithm = "etx_hybrid_plc" /\ WindowTimer(default_lq_hybrid_plc_handle_lqchange(NewValues, NewQualities))
default_lq_ffeth_timer == lq_algorithm = "etx_ffeth" /\ WindowTimer(default_lq_ffeth_handle_lqchange(NewValues, NewQualities))
default_lq_ff_timer == lq_algorithm = "etx_ff" /\ WindowTimer(default_lq_ff_handle_lqchange(NewValues, NewQualities))

------------------------------------------------------------------------------
(* etx_fpm: the moving average of the HELLOs that came, in parts of 65535, *)
(* rounded up at each step.                                                *)
Aged(v, fresh, lost) ==
  LET value == (v * LqFpmMultiplier) \div 255
      old   == value + ((LqFpmMultiplier - 1 - value * fresh) \div LqFpmMultiplier)
      new   == IF lost THEN old ELSE old + fresh
  IN  (new * 255 + LqFpmMultiplier - 1) \div LqFpmMultiplier

(* A HELLO of the neighbor was missed, or came with the quality that the   *)
(* neighbor sees, 0 if it does not list us; the cost follows at once.      *)
default_lq_packet_loss_worker_fpm(l, lost, foreign) ==
  LET starting == quickstart[l] < QuickstartSteps
      value    == Aged(lq_value[l], IF starting THEN QuickstartAging ELSE LqAging, lost)
      nlq      == IF lost THEN lq_nlq[l] ELSE foreign      \* default_lq_memorize_foreign_hello_fpm
      new      == [value |-> value, nlq |-> nlq, quality |-> 0]
  IN  /\ lq_algorithm = "etx_fpm"
      /\ quickstart' = [quickstart EXCEPT ![l] = IF starting THEN @ + 1 ELSE @]
      /\ lq_value' = [lq_value EXCEPT ![l] = value]
      /\ lq_nlq' = [lq_nlq EXCEPT ![l] = nlq]
      /\ smoothed_lq' = [smoothed_lq EXCEPT ![l] = new]
      /\ linkcost' = [linkcost EXCEPT ![l] = CalcCost(l, new)]
      /\ silent' = [silent EXCEPT ![l] = IF ~lost THEN 0 ELSE IF @ > LossesToBreak THEN @ ELSE @ + 1]
      /\ UNCHANGED <<lq_algorithm, received, total, windowSize, activePtr, missed_hellos, perfect_eth,
                     lq_quality, peerVars, heard_now>>

------------------------------------------------------------------------------
(* The PLC adapters.                                                       *)

(* The own adapter answers: its address and the rates it has to others.    *)
(* A rate goes to the first peer with that address; the rates of addresses *)
(* that no peer has told are not kept.                                     *)
update_plc_data(rates) ==
  /\ lq_algorithm = "etx_hybrid_plc"                       \* no other reads them
  /\ own_mac_known' = TRUE
  /\ plc_rate' = [l \in PlcLinks |-> IF plc_mac[l] # NoMac /\ \A k \in PlcLinks : plc_mac[k] = plc_mac[l] => l <= k
                                 THEN rates[plc_mac[l]] ELSE plc_rate[l]]
  /\ UNCHANGED <<lq_algorithm, lqVars, plc_mac, quickstart, silent, heard_now>>

(* The message of a neighbor with the address of its adapter, which is     *)
(* kept only if none is known; it is read once the own one is.             *)
olsr_parse_plc_msg(l, mac) ==
  /\ lq_algorithm = "etx_hybrid_plc" /\ IfMode[l] = "plc" /\ own_mac_known
  /\ plc_mac' = [plc_mac EXCEPT ![l] = IF @ = NoMac THEN mac ELSE @]
  /\ UNCHANGED <<lq_algorithm, lqVars, plc_rate, own_mac_known, quickstart, silent, heard_now>>

------------------------------------------------------------------------------
WindowClear ==
  /\ received = [l \in PlcLinks |-> [s \in LqSlots |-> 0]]
  /\ total = [l \in PlcLinks |-> [s \in LqSlots |-> 3]]
  /\ windowSize = [l \in PlcLinks |-> QuickstartInit] /\ activePtr = [l \in PlcLinks |-> 0]
  /\ missed_hellos = [l \in PlcLinks |-> 0] /\ perfect_eth = [l \in PlcLinks |-> FALSE]
  /\ lq_value = [l \in PlcLinks |-> 0] /\ lq_nlq = [l \in PlcLinks |-> 0] /\ lq_quality = [l \in PlcLinks |-> 0]
  /\ smoothed_lq = [l \in PlcLinks |-> [value |-> 0, nlq |-> 0, quality |-> 0]]
  /\ linkcost = [l \in PlcLinks |-> LinkCostBroken]

default_lq_clear_hybrid_plc_hello == lq_algorithm = "etx_hybrid_plc" /\ WindowClear
default_lq_clear_ffeth_hello == lq_algorithm = "etx_ffeth" /\ WindowClear
default_lq_clear_ff_hello == lq_algorithm = "etx_ff" /\ WindowClear
default_lq_clear_fpm == lq_algorithm = "etx_fpm" /\ WindowClear /\ quickstart = [l \in PlcLinks |-> 0]

(* The handlers that init_lq_handler_tree registers, but for etx_float.    *)
init_lq_handler_tree ==
  lq_algorithm \in {"etx_hybrid_plc", "etx_ffeth", "etx_ff", "etx_fpm"}

PlcInit ==
  /\ init_lq_handler_tree
  /\ quickstart = [l \in PlcLinks |-> 0]
  /\ \/ default_lq_clear_hybrid_plc_hello \/ default_lq_clear_ffeth_hello
     \/ default_lq_clear_ff_hello \/ default_lq_clear_fpm
  /\ plc_mac = [l \in PlcLinks |-> NoMac] /\ plc_rate = [l \in PlcLinks |-> 0] /\ own_mac_known = FALSE
  /\ silent = [l \in PlcLinks |-> 0] /\ heard_now = 0

PlcNext ==
  \/ \E l \in PlcLinks, d \in SeqDistances, f \in ForeignLqs :
       \/ default_lq_parser_hybrid_plc(l, d, f) \/ default_lq_parser_hybrid_plc(l, d, lq_nlq[l])
       \/ default_lq_parser_ffeth(l, d, f) \/ default_lq_parser_ffeth(l, d, lq_nlq[l])
       \/ default_lq_parser_ff(l, d, f) \/ default_lq_parser_ff(l, d, lq_nlq[l])
  \/ \E l \in PlcLinks :
       \/ default_lq_packet_loss_worker_hybrid_plc(l)
       \/ default_lq_packet_loss_worker_ffeth(l)
       \/ default_lq_packet_loss_worker_ff(l)
  \/ default_lq_hybrid_plc_timer \/ default_lq_ffeth_timer \/ default_lq_ff_timer
  \/ \E l \in AgedLinks, lost \in BOOLEAN, f \in AgedForeignLqs : default_lq_packet_loss_worker_fpm(l, lost, f)
  \/ \E rates \in [Adapters -> PlcRates] : update_plc_data(rates)
  \/ \E l \in PlcLinks, mac \in Adapters : olsr_parse_plc_msg(l, mac)

PlcSpec == PlcInit /\ [][PlcNext]_plcVars

------------------------------------------------------------------------------
(* The cost of a link is always that of its smoothed quality, and neither  *)
(* 0 nor above that of a broken link.  The quality fits into the byte it   *)
(* is kept in: no more packets are counted than were sent, missed HELLOs   *)
(* take no more than were counted, if the HELLO intervals are as assumed   *)
(* above, and the moving average, though rounded up, stays in 0..255.  A   *)
(* link on which nothing was heard for a whole window is broken, except on *)
(* Ethernet, where the booster holds a quality that falls too fast at its  *)
(* best (lq_plugin_default_hybrid_plc.c:282); with etx_fpm it is broken    *)
(* after LossesToBreak missed HELLOs, though the rounding keeps a rest of  *)
(* the quality for ever (lq_plugin_default_fpm.c:189).                     *)
LinkQualitySound ==
  \A l \in PlcLinks :
    /\ linkcost[l] = CalcCost(l, smoothed_lq[l]) /\ linkcost[l] \in 1 .. LinkCostBroken
    /\ lq_algorithm # "etx_fpm" => LqRatio(l) \in 0 .. 255
    /\ lq_value[l] \in 0 .. 255
    /\ LET stays == lq_algorithm \in {"etx_hybrid_plc", "etx_ffeth"} /\ IfMode[l] = "ether"
           limit == IF lq_algorithm = "etx_fpm" THEN LossesToBreak ELSE LqWindow
       IN  silent[l] > limit /\ ~stays => linkcost[l] = LinkCostBroken
==============================================================================
