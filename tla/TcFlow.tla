-------------------------------- MODULE TcFlow --------------------------------
(***************************************************************************)
(* One originator and this node: the originator splits its advertised      *)
(* neighbors over TC messages (serialize_lq_tc in lq_packet.c), and the    *)
(* flooding delivers them, may lose them, deliver them twice and out of    *)
(* order, to the database of TcSet.                                        *)
(***************************************************************************)
EXTENDS TcSet, SequencesExt

CONSTANTS
  Orig,        \* the originator
  AdvSets,     \* the sets of neighbors it may advertise
  PerMessage,  \* addresses that fit into one message
  FirstSeq,    \* its first message sequence number
  RestartSeqs, \* the ones after a restart; {}: it does not restart
  Reorders, Loses,   \* what flooding does to messages
  Copies,      \* how often a message may be delivered
  MaxLag,      \* a message is not delayed beyond so many newer ones
  MaxChanges,  \* bound on the changes of the advertised set
  MaxSends,    \* bound on the TCs that are sent; 0: none
  MaxLosses,   \* bound on the messages lost in a row; 0: none
  MaxFlight    \* bound on the messages on their way

VARIABLES
  adv,             \* the neighbors Orig advertises
  local_ansn,      \* its ANSN
  seqno,           \* its message sequence number
  prev_empty,      \* its last TC was empty
  empty_tc_timer,  \* the timer for empty messages runs
  flight,          \* messages on their way, oldest first
  got,             \* history: the messages taken for the current ANSN
  changed,         \* how often the advertised set has changed
  restarted,       \* history: Orig has restarted
  sent,            \* how many TCs were sent, if that is bounded
  lost             \* how many were lost in a row, if that is bounded

sender   == <<adv, local_ansn, seqno, prev_empty, empty_tc_timer, changed, restarted, sent>>
flowVars == <<vars, sender, flight, got, lost>>

------------------------------------------------------------------------------
(* One more than the position of the highest bit in which two addresses    *)
(* differ; zero when they are the same.                                    *)
calculate_border_flag(lower, higher) ==
  IF lower = higher THEN 0
  ELSE 1 + Min({k \in 0 .. AddrBits : lower \div 2^(k + 1) = higher \div 2^(k + 1)})

AdvertisedOrder == SetToSortSeq(UNION AdvSets, <)

(* The parts of the sorted advertised set: each fills its message, and its *)
(* borders lie between its addresses and those of the parts next to it.    *)
(* The field "all" is for the properties.                                  *)
serialize_lq_tc(A, s) ==
  LET list  == SelectSeq(AdvertisedOrder, LAMBDA a : a \in A)
      n     == Len(list)
      parts == IF n = 0 THEN 1 ELSE (n + PerMessage - 1) \div PerMessage
      first(i) == (i - 1) * PerMessage + 1
      last(i)  == Min({i * PerMessage, n})
      flag(i)  == calculate_border_flag(list[last(i)], list[first(i + 1)])
  IN  [i \in 1 .. parts |->
         [orig |-> Orig, seq |-> (s + i - 1) % SeqSpace, ansn |-> local_ansn,
          dests |-> {list[j] : j \in first(i) .. last(i)},
          first |-> IF n = 0 THEN 0 ELSE list[first(i)], last |-> IF n = 0 THEN 0 ELSE list[last(i)],
          lower |-> IF i = 1 THEN OpenBorder ELSE flag(i - 1),
          upper |-> IF i = parts THEN OpenBorder ELSE flag(i), q |-> Max(Qualities),
          all |-> A]]

(* Empty messages are sent after another one, and then for a while.        *)
olsr_output_lq_tc ==
  LET ms == serialize_lq_tc(adv, seqno)
      seq == (seqno + Len(ms)) % SeqSpace
  IN  /\ adv # {} \/ ~prev_empty \/ empty_tc_timer
      /\ MaxSends = 0 \/ sent < MaxSends
      /\ Len(flight) + Len(ms) <= MaxFlight
      /\ \A i \in DOMAIN flight : Ahead(seq, flight[i].msg.seq) <= MaxLag
      /\ flight' = flight \o [i \in DOMAIN ms |-> [msg |-> ms[i], copies |-> Copies]]
      /\ seqno' = seq
      /\ prev_empty' = (adv = {})
      /\ empty_tc_timer' = (empty_tc_timer \/ (adv = {} /\ ~prev_empty))
      /\ sent' = Min({sent + 1, MaxSends})
      /\ UNCHANGED <<vars, adv, local_ansn, changed, restarted, got, lost>>

EmptyTimerExpires ==
  /\ empty_tc_timer
  /\ empty_tc_timer' = FALSE
  /\ UNCHANGED <<vars, adv, local_ansn, seqno, prev_empty, changed, restarted, sent, flight, got, lost>>

(* The advertised set of Orig changes, and its ANSN with it.               *)
ChangeAdvertised(A) ==
  /\ changed < MaxChanges
  /\ A # adv
  /\ adv' = A
  /\ local_ansn' = (local_ansn + 1) % SeqSpace
  /\ changed' = changed + 1
  /\ UNCHANGED <<vars, seqno, prev_empty, empty_tc_timer, restarted, sent, flight, got, lost>>

(* Orig restarts: its ANSN is zero, its sequence number a random one.      *)
Restart(A, s) ==
  /\ changed < MaxChanges
  /\ adv' = A /\ local_ansn' = 0 /\ seqno' = s
  /\ prev_empty' = TRUE /\ empty_tc_timer' = FALSE
  /\ changed' = changed + 1
  /\ restarted' = TRUE
  /\ flight' = <<>>
  /\ UNCHANGED <<vars, sent, got, lost>>

(* A message is taken or ignored; the parts taken so far count as long as  *)
(* the entry keeps them.                                                   *)
Deliver(i) ==
  LET m == flight[i].msg
  IN  /\ i = 1 \/ Reorders
      /\ olsr_input_tc(m)
      /\ got' = IF Ignored(Lsdb, m) THEN got
                ELSE {m} \cup {x \in got : x.ansn = m.ansn /\ Known(Lsdb, m)}
      /\ \/ flight' = RemoveAt(flight, i)
         \/ /\ flight[i].copies > 1
            /\ flight' = [flight EXCEPT ![i].copies = @ - 1]
      /\ lost' = 0
      /\ UNCHANGED sender

Lose(i) ==
  /\ Loses
  /\ MaxLosses = 0 \/ lost < MaxLosses
  /\ flight' = RemoveAt(flight, i)
  /\ lost' = Min({lost + 1, MaxLosses})
  /\ UNCHANGED <<vars, sender, got>>

Expire ==
  /\ olsr_expire_tc_entry(Orig)
  /\ got' = {}
  /\ UNCHANGED <<sender, flight, lost>>

NeighborComes ==
  /\ \E n \in Adjacent : SetNeighbor(n, "SYM")
  /\ UNCHANGED <<sender, flight, got, lost>>

FlowInit ==
  /\ olsr_init_tc
  /\ adv = {} /\ local_ansn = 0 /\ seqno = FirstSeq
  /\ prev_empty = TRUE /\ empty_tc_timer = FALSE
  /\ flight = <<>> /\ got = {} /\ changed = 0 /\ restarted = FALSE /\ sent = 0 /\ lost = 0

FlowNext ==
  \/ olsr_output_lq_tc \/ EmptyTimerExpires
  \/ \E A \in AdvSets : ChangeAdvertised(A)
  \/ \E A \in AdvSets, s \in RestartSeqs : Restart(A, s)
  \/ \E i \in DOMAIN flight : Deliver(i) \/ Lose(i)
  \/ Expire \/ NeighborComes

(* The neighbor is there, TC messages are generated periodically, and one  *)
(* that is not lost gets through.                                          *)
FlowSpec ==
  /\ FlowInit /\ [][FlowNext]_flowVars
  /\ WF_flowVars(NeighborComes) /\ WF_flowVars(olsr_output_lq_tc)
  /\ WF_flowVars(flight # <<>> /\ Deliver(1))

------------------------------------------------------------------------------
Advertised == {d \in Nodes : <<Orig, d>> \in edge_tree}

(* Numbers and counters are in their ranges, and a message on its way      *)
(* still can be delivered.                                                 *)
FlowTypeOK ==
  /\ TypeOK
  /\ adv \in AdvSets \cup {{}} /\ local_ansn \in Seqnos /\ seqno \in Seqnos
  /\ prev_empty \in BOOLEAN /\ empty_tc_timer \in BOOLEAN 
  /\ changed \in 0 .. MaxChanges /\ restarted \in BOOLEAN /\ sent \in 0 .. MaxSends /\ lost \in 0 .. MaxLosses
  /\ Len(flight) <= MaxFlight /\ \A i \in DOMAIN flight : flight[i].copies \in 1 .. Copies

(* When all parts of an advertised set have been taken, whatever was lost, *)
(* repeated or came in another order, the database has that set, and, if   *)
(* the originator has not restarted its ANSN, nothing else: tc_set.c:567   *)
(* "Delete all destinations that are inside the borders but not updated in *)
(* the last tc".                                                           *)
WholeSetExact ==
  FlowTypeOK /\ \A A \in AdvSets \cup {{}} :
    got # {} /\ (\A m \in got : m.all = A) /\ UNION {m.dests : m \in got} = A
      => A \subseteq Advertised /\ (restarted \/ Advertised = A)

(* As long as the originator has edges, a late message does not bring back *)
(* an older ANSN, around the wrap of the numbers as well, unless the       *)
(* originator itself has gone back.                                        *)
AnsnKept ==
  ~restarted /\ EdgesOf(Lsdb, Orig) # {} /\ EdgesOf(Lsdb, Orig)' # {}
    => (ansn'[Orig] - ansn[Orig]) % SeqSpace < HalfSeq

(* The database keeps coming back to what the originator advertises: after *)
(* entries time out, and after outages so long that the next number is     *)
(* beyond the window, but shorter than half the numbers (tc_set.c:863      *)
(* "Restart in all other cases. Ignore a single stray message.").          *)
ViewCatchesUp ==
  []<>(Advertised = adv)
==============================================================================
