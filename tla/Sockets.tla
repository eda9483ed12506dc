------------------------------ MODULE Sockets ------------------------------
(***************************************************************************)
(* The socket handlers of the main loop (src/scheduler.c).  Plugins,       *)
(* interfaces and the netlink code register a descriptor with a handler    *)
(* that is run once per round (poll_sockets) or at once (handle_fds).      *)
(* Handlers and timers add and remove registrations while the loop walks   *)
(* over the list, so a removal only marks the entry: the entry stays in    *)
(* the list, without handlers, until the end of handle_fds.  The walks     *)
(* remember the next entry before they run a handler.  A kernel hands out  *)
(* the lowest free descriptor, so a descriptor closed and opened again     *)
(* during a walk carries the readiness that was read for the old one.      *)
(***************************************************************************)
EXTENDS Naturals, Sequences, FiniteSets, SequencesExt

CONSTANTS
  Descriptors,   \* the descriptors of the process (a set of numbers)
  Directions,    \* the bits a caller may ask for: reading, writing
  MaxEntries,    \* bound on the length of the list
  MaxSelects     \* bound on the calls of select in one handle_fds

ASSUME SocketsAssumption == Descriptors \subseteq Nat /\ MaxEntries \in Nat /\ MaxSelects \in Nat

VARIABLES
  socket_head,     \* the list: [fd, handlers, flags]; handlers = {} when removed
  open_fds,        \* the descriptors that are open
  fd_ready,        \* Directions -> descriptors the kernel would report
  loop_at,         \* where the main loop is
  select_bits,     \* ibits and obits, as select left them
  next_entry,      \* the walk's saved next entry, 0 for the end of the list
  calling_entry,   \* the entry whose handler runs, 0 for none
  selects_left,    \* selects left before next_interval
  walk_reported,   \* history: entries select reported in this walk
  walk_called      \* history: entries whose handler this walk ran

socketVars == <<socket_head, open_fds, fd_ready, loop_at, select_bits, next_entry, calling_entry,
                selects_left,
                walk_reported, walk_called>>

Rates == {"pollrate", "immediate"}
NoBits == [d \in Directions |-> {}]
Walking == {"poll walk", "immediate walk"}
RateOf(w) == IF w = "poll walk" THEN "pollrate" ELSE "immediate"

SocketsTypeOK ==
  /\ socket_head \in Seq([fd: Descriptors, handlers: SUBSET Rates, flags: SUBSET Directions])
  /\ open_fds \subseteq Descriptors /\ fd_ready \in [Directions -> SUBSET open_fds]
  /\ loop_at \in {"poll", "timers", "select", "clean", "stopped"} \cup Walking
  /\ select_bits \in [Directions -> SUBSET Descriptors]
  /\ {next_entry, calling_entry} \subseteq 0..Len(socket_head) /\ selects_left \in 0..MaxSelects

SocketsInit ==
  /\ socket_head = <<>> /\ open_fds = {} /\ fd_ready = NoBits
  /\ loop_at = "timers" /\ select_bits = NoBits /\ next_entry = 0 /\ calling_entry = 0 /\ selects_left = 0
  /\ walk_reported = {} /\ walk_called = {}

----------------------------------------------------------------------------
(* What handlers and timers may do to the list.                            *)

UserCode == loop_at = "timers" \/ calling_entry # 0

SameEntry(i, fd, hs) == socket_head[i].fd = fd /\ socket_head[i].handlers = hs

\* A caller opens a descriptor and registers it; bogus entries are refused.
add_olsr_socket(hs, flags) ==
  LET fd == CHOOSE f \in Descriptors \ open_fds : \A g \in Descriptors \ open_fds : f <= g IN
  /\ UserCode /\ hs # {}
  /\ Descriptors # open_fds /\ Len(socket_head) < MaxEntries
  /\ open_fds' = open_fds \cup {fd}
  /\ socket_head' = Append(socket_head, [fd |-> fd, handlers |-> hs, flags |-> flags])
  /\ UNCHANGED <<fd_ready, loop_at, select_bits, next_entry, calling_entry, selects_left, walk_reported, walk_called>>

MarkedFlagsOnly(e) == [e EXCEPT !.flags = {}]

\* What remove_olsr_socket leaves of the entry it matched.
Marked(e) == [e EXCEPT !.handlers = {}, !.flags = {}]

\* A caller removes its registration and closes the descriptor.
remove_olsr_socket(fd, hs) ==
  /\ UserCode /\ hs # {}
  /\ \E i \in DOMAIN socket_head :
       /\ SameEntry(i, fd, hs) /\ \A j \in 1..(i - 1) : ~SameEntry(j, fd, hs)
       /\ socket_head' = [socket_head EXCEPT ![i] = Marked(@)]
  /\ open_fds' = open_fds \ {fd}
  /\ fd_ready' = [d \in Directions |-> fd_ready[d] \ {fd}]
  /\ UNCHANGED <<loop_at, select_bits, next_entry, calling_entry, selects_left, walk_reported, walk_called>>

SetFlags(fd, hs, F(_)) ==
  /\ UserCode
  /\ \E i \in DOMAIN socket_head : SameEntry(i, fd, hs)
  /\ socket_head' = [i \in DOMAIN socket_head |->
       IF SameEntry(i, fd, hs) THEN [socket_head[i] EXCEPT !.flags = F(@)] ELSE socket_head[i]]
  /\ UNCHANGED <<open_fds, fd_ready, loop_at, select_bits, next_entry, calling_entry, selects_left, walk_reported, walk_called>>

enable_olsr_socket(fd, hs, flags) == SetFlags(fd, hs, LAMBDA x : x \cup flags)
disable_olsr_socket(fd, hs, flags) == SetFlags(fd, hs, LAMBDA x : x \ flags)

----------------------------------------------------------------------------
(* The main loop.                                                          *)

Asked(rate) == [d \in Directions |->
  {socket_head[i].fd : i \in {j \in DOMAIN socket_head :
     rate \in socket_head[j].handlers /\ d \in socket_head[j].flags}}]

\* select: an error (a closed descriptor was asked for) and a timeout leave no walk to do.
Selected(ask) ==
  IF \E d \in Directions : ~(ask[d] \subseteq open_fds) THEN NoBits
  ELSE [d \in Directions |-> ask[d] \cap fd_ready[d]]

StartWalk(walk, sel, otherwise) ==
  IF sel = NoBits
  THEN loop_at' = otherwise /\ UNCHANGED <<select_bits, next_entry, walk_reported, walk_called>>
  ELSE /\ loop_at' = walk /\ select_bits' = sel /\ next_entry' = 1 /\ walk_called' = {}
       /\ walk_reported' = {i \in DOMAIN socket_head :
            /\ RateOf(walk) \in socket_head[i].handlers
            /\ \E d \in Directions : socket_head[i].fd \in sel[d]}

poll_sockets ==
  /\ loop_at = "poll"
  /\ StartWalk("poll walk", Selected(Asked("pollrate")), "timers")
  /\ UNCHANGED <<socket_head, open_fds, fd_ready, calling_entry, selects_left>>

\* walk_timers and olsr_process_changes are over, handle_fds computes its first timeout.
HandleFds ==
  /\ loop_at = "timers"
  /\ \E r \in 0..MaxSelects :
       /\ selects_left' = r
       /\ loop_at' = IF r = 0 /\ socket_head = <<>> THEN "poll" ELSE "select"
  /\ UNCHANGED <<socket_head, open_fds, fd_ready, select_bits, next_entry, calling_entry, walk_reported, walk_called>>

ImmediateSelect ==
  /\ loop_at = "select"
  /\ StartWalk("immediate walk", Selected(Asked("immediate")), "clean")
  /\ UNCHANGED <<socket_head, open_fds, fd_ready, calling_entry, selects_left>>

\* One entry of a walk: the next entry is read before the handler runs.
VisitEntry ==
  LET e == socket_head[next_entry]
      got == {d \in Directions : e.fd \in select_bits[d]}
      calls == RateOf(loop_at) \in e.handlers /\ got # {}
  IN
  /\ loop_at \in Walking /\ calling_entry = 0 /\ next_entry # 0
  /\ next_entry' = IF next_entry = Len(socket_head) THEN 0 ELSE next_entry + 1
  /\ calling_entry' = IF calls THEN next_entry ELSE 0
  /\ walk_called' = IF calls THEN walk_called \cup {next_entry} ELSE walk_called
  /\ fd_ready' = IF calls THEN [d \in Directions |-> IF d \in got THEN fd_ready[d] \ {e.fd} ELSE fd_ready[d]]
                ELSE fd_ready
  /\ UNCHANGED <<socket_head, open_fds, loop_at, select_bits, selects_left, walk_reported>>

HandlerReturns ==
  /\ calling_entry # 0 /\ calling_entry' = 0
  /\ UNCHANGED <<socket_head, open_fds, fd_ready, loop_at, select_bits, next_entry, selects_left, walk_reported, walk_called>>

WalkEnds ==
  /\ loop_at \in Walking /\ next_entry = 0 /\ calling_entry = 0
  /\ \/ loop_at = "poll walk" /\ loop_at' = "timers" /\ UNCHANGED selects_left
     \/ loop_at = "immediate walk" /\ selects_left <= 1 /\ loop_at' = "clean" /\ selects_left' = 0
     \/ loop_at = "immediate walk" /\ selects_left > 1 /\ loop_at' = "select" /\ selects_left' = selects_left - 1
  /\ UNCHANGED <<socket_head, open_fds, fd_ready, select_bits, next_entry, calling_entry, walk_reported, walk_called>>

\* The end of handle_fds frees what was removed, one entry after the other.
CleanUp ==
  LET removed == {i \in DOMAIN socket_head : socket_head[i].handlers = {}} IN
  /\ loop_at = "clean"
  /\ IF removed = {} THEN loop_at' = "poll" /\ UNCHANGED socket_head
     ELSE /\ UNCHANGED loop_at
          /\ \E i \in removed :
               (\A j \in removed : i <= j) /\ socket_head' = RemoveAt(socket_head, i)
  /\ select_bits' = NoBits /\ walk_reported' = {} /\ walk_called' = {}
  /\ UNCHANGED <<open_fds, fd_ready, next_entry, calling_entry, selects_left>>

\* A signal ends the daemon: every descriptor of the list is closed, marked entries too.
olsr_flush_sockets ==
  /\ loop_at # "stopped" /\ loop_at' = "stopped"
  /\ open_fds' = open_fds \ {socket_head[i].fd : i \in DOMAIN socket_head}
  /\ fd_ready' = [d \in Directions |-> fd_ready[d] \cap open_fds']
  /\ socket_head' = <<>> /\ select_bits' = NoBits /\ next_entry' = 0 /\ calling_entry' = 0
  /\ walk_reported' = {} /\ walk_called' = {}
  /\ UNCHANGED selects_left

\* The kernel has something for a descriptor.
Arrives(d, fd) ==
  /\ fd \in open_fds /\ fd \notin fd_ready[d]
  /\ fd_ready' = [fd_ready EXCEPT ![d] = @ \cup {fd}]
  /\ UNCHANGED <<socket_head, open_fds, loop_at, select_bits, next_entry, calling_entry, selects_left, walk_reported, walk_called>>

LoopStep == poll_sockets \/ HandleFds \/ ImmediateSelect \/ VisitEntry \/ HandlerReturns \/ WalkEnds \/ CleanUp

SocketsNext ==
  \/ LoopStep
  \/ \E r \in Rates, fl \in SUBSET Directions : add_olsr_socket({r}, fl)
  \/ \E fd \in Descriptors, r \in Rates : remove_olsr_socket(fd, {r})
  \/ \E fd \in Descriptors, r \in Rates, d \in Directions :
       enable_olsr_socket(fd, {r}, {d}) \/ disable_olsr_socket(fd, {r}, {d})
  \/ \E d \in Directions, fd \in Descriptors : Arrives(d, fd)
  \/ olsr_flush_sockets

SocketsSpec == SocketsInit /\ [][SocketsNext]_socketVars

----------------------------------------------------------------------------
(* What every step keeps: besides what is promised below, no descriptor is *)
(* registered twice, and an entry that select reported is either called or *)
(* still ahead of the walk, as long as it is registered.                   *)
Registered == {i \in DOMAIN socket_head : socket_head[i].handlers # {}}

OpenRegistered == {socket_head[i].fd : i \in Registered} = open_fds

RegisteredOnce == \A i, j \in Registered : socket_head[i].fd = socket_head[j].fd => i = j

LoopConsistent ==
  /\ loop_at \notin Walking => next_entry = 0 /\ calling_entry = 0
  /\ loop_at = "poll" => Registered = DOMAIN socket_head

WalkCovers ==
  loop_at \in Walking =>
    /\ walk_reported \subseteq DOMAIN socket_head
    /\ \A i \in walk_reported \cap Registered :
         /\ RateOf(loop_at) \in socket_head[i].handlers
         /\ \E d \in Directions : socket_head[i].fd \in select_bits[d]
         /\ i \in walk_called \/ (next_entry # 0 /\ next_entry <= i)

SocketsInv == SocketsTypeOK /\ OpenRegistered /\ RegisteredOnce /\ LoopConsistent /\ WalkCovers

(* A walk of poll_sockets or handle_fds, at its end, has run the handler   *)
(* of every entry that select reported and that no handler removed; no     *)
(* entry that was removed is left when a round begins, no registered       *)
(* descriptor is closed, and nothing stays open at the end of the daemon.  *)
WalksComplete ==
  /\ SocketsTypeOK
  /\ loop_at \in Walking /\ next_entry = 0 /\ calling_entry = 0 =>
       walk_reported \cap Registered \subseteq walk_called
  /\ loop_at = "poll" => Registered = DOMAIN socket_head
  /\ OpenRegistered

(* A handler is never run for a removed entry or for a closed descriptor,  *)
(* whatever the handlers before it in the same walk did to the list.       *)
CallsRegistered ==
  calling_entry = 0 /\ calling_entry' # 0 =>
    LET e == socket_head[calling_entry'] IN e.handlers # {} /\ e.fd \in open_fds

(* What the main loop owes to the users of sockets, at every step.         *)
SocketsServed == [][WalksComplete' /\ CallsRegistered]_socketVars
============================================================================
