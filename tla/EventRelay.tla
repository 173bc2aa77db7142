----------------------------- MODULE EventRelay -----------------------------
(***************************************************************************)
(* How a guest thread in poll() learns that a host descriptor became       *)
(* readable.  The backend's control thread reports files opened and closed *)
(* (nvidia/open.rs, take_watch_updates), sync_watches duplicates their     *)
(* descriptors and sends them to the event pump, the pump watches them and *)
(* fills buffers the guest posted on the event queue                       *)
(* (bin/vhost-user-nvgpu.rs), and the guest driver marks the file and      *)
(* wakes whoever polls it (driver/virtio_gpu_nv.c).                        *)
(*                                                                         *)
(* A file is opened once; its handle is the file itself.  Descriptor       *)
(* numbers are the backend process's and are reused at once.               *)
(***************************************************************************)
EXTENDS Naturals, Sequences, FiniteSets, FiniteSetsExt, SequencesExt

CONSTANTS
  Order,       \* every file once, in the order the pump's map iterates
  Buffers,     \* NVGPU_EVENT_BUFS
  Faults,      \* requests may fail to be queued, or be answered too late
  Nobody       \* the owner of a free descriptor number

Files == {Order[i] : i \in DOMAIN Order}

ASSUME EventRelayAssumption ==
  /\ Order \in Seq(Files)
  /\ Nobody \notin Files
  /\ Buffers \in Nat \ {0}
  /\ Faults \in BOOLEAN

VARIABLES
  guest,       \* the file in the guest: "none", "opening", "open", "closing", "closed"
  pending,     \* nvgpu_fd.pending of each file
  poll,        \* its polling thread: "none", "check" or "asleep"
  closes,      \* CLOSE requests on the control queue, by file
  numbers,     \* descriptor number -> file open under it in the backend
  added,       \* watch_added: <<file, number>> not handed over yet
  removed,     \* watch_removed
  channel,     \* from sync_watches to the pump
  watched,     \* the pump's map: [handle, file] of each duplicate it holds
  edges,       \* handles epoll will report
  turn,        \* next place in a sweep, 0 between sweeps
  readable,    \* host: files with something to report
  posted,      \* buffers of the guest on the event queue
  events       \* handles in buffers the pump filled

backend == <<numbers, added, removed>>
pump    == <<channel, watched, edges, turn>>
queue   == <<posted, events>>
vars    == <<guest, pending, poll, closes, backend, pump, readable, queue>>

Numbers == 1 .. Len(Order)

Init ==
  /\ guest = [f \in Files |-> "none"]
  /\ pending = {}
  /\ poll = [f \in Files |-> "none"]
  /\ closes = {}
  /\ numbers = [n \in Numbers |-> Nobody]
  /\ added = <<>>
  /\ removed = <<>>
  /\ channel = <<>>
  /\ watched = {}
  /\ edges = {}
  /\ turn = 0
  /\ readable = {}
  /\ posted = Buffers
  /\ events = <<>>

----------------------------------------------------------------------------
(* Opening and closing *)

\* handle_open: the host gives the lowest free number.
Open(f) ==
  LET n == Min({i \in Numbers : numbers[i] = Nobody}) IN
  /\ guest[f] = "none"
  /\ guest' = [guest EXCEPT ![f] = "opening"]
  /\ numbers' = [numbers EXCEPT ![n] = f]
  /\ added' = Append(added, <<f, n>>)
  /\ UNCHANGED <<pending, poll, closes, removed, pump, readable, queue>>

\* nvgpu_fd_register, once the answer is there.
Register(f) ==
  /\ guest[f] = "opening"
  /\ guest' = [guest EXCEPT ![f] = "open"]
  /\ UNCHANGED <<pending, poll, closes, backend, pump, readable, queue>>

\* nvgpu_open_common stops waiting: the backend has a file that nobody closes.
GiveUp(f) ==
  /\ Faults /\ guest[f] = "opening"
  /\ guest' = [guest EXCEPT ![f] = "closed"]
  /\ UNCHANGED <<pending, poll, closes, backend, pump, readable, queue>>

\* nvgpu_release, which goes on if CLOSE cannot be queued.  Nobody is polling a
\* released file.
Release(f) ==
  /\ guest[f] = "open" /\ poll[f] = "none"
  /\ guest' = [guest EXCEPT ![f] = "closing"]
  /\ closes' = closes \cup {f} \/ (Faults /\ UNCHANGED closes)
  /\ UNCHANGED <<pending, poll, backend, pump, readable, queue>>

\* handle_close, maybe after the guest has stopped waiting for it.
Close(f) ==
  /\ f \in closes
  /\ closes' = closes \ {f}
  /\ numbers' = [n \in Numbers |-> IF numbers[n] = f THEN Nobody ELSE numbers[n]]
  /\ removed' = Append(removed, f)
  /\ UNCHANGED <<guest, pending, poll, added, pump, readable, queue>>

\* nvgpu_fd_unregister: after the answer, a timeout or no request at all.
Unregister(f) ==
  /\ guest[f] = "closing" /\ (Faults \/ f \notin closes)
  /\ guest' = [guest EXCEPT ![f] = "closed"]
  /\ pending' = pending \ {f}
  /\ UNCHANGED <<poll, closes, backend, pump, readable, queue>>

----------------------------------------------------------------------------
(* sync_watches, at the end of a batch of requests: every number added is    *)
(* duplicated as it stands now - it may be free, or another file's - and     *)
(* additions are sent before removals.                                       *)
Additions ==
  LET Duplicate(a) == [op |-> "add", handle |-> a[1], file |-> numbers[a[2]]]
      sent[i \in 0 .. Len(added)] ==
        IF i = 0 THEN <<>>
        ELSE IF numbers[added[i][2]] = Nobody THEN sent[i - 1]
        ELSE Append(sent[i - 1], Duplicate(added[i]))
  IN  sent[Len(added)]

Removals == [i \in DOMAIN removed |-> [op |-> "remove", handle |-> removed[i]]]

\* Mutant: removals are sent first.
SyncWatches_RemovalsFirst ==
  /\ added \o removed # <<>>
  /\ channel' = channel \o Removals \o Additions
  /\ added' = <<>>
  /\ removed' = <<>>
  /\ UNCHANGED <<guest, pending, poll, closes, numbers, watched, edges, turn, readable, queue>>

\* Mutant: the pump is not told of files closed.
SyncWatches_AddsOnly ==
  /\ added \o removed # <<>>
  /\ channel' = channel \o Additions
  /\ added' = <<>>
  /\ removed' = <<>>
  /\ UNCHANGED <<guest, pending, poll, closes, numbers, watched, edges, turn, readable, queue>>

SyncWatches ==
  /\ added \o removed # <<>>
  /\ channel' = channel \o Additions \o Removals
  /\ added' = <<>>
  /\ removed' = <<>>
  /\ UNCHANGED <<guest, pending, poll, closes, numbers, watched, edges, turn, readable, queue>>

----------------------------------------------------------------------------
(* The event pump *)

\* push_event: without a buffer to fill, the event is dropped.
Push(h) ==
  IF posted > 0
  THEN posted' = posted - 1 /\ events' = Append(events, h)
  ELSE UNCHANGED queue

(* The control channel is drained between rounds.  A descriptor readable      *)
(* when it is added is reported by an edge, or that edge is missed.          *)
ReceiveAdd(w) ==
  /\ w.op = "add"
  /\ watched' = watched \cup {[handle |-> w.handle, file |-> w.file]}
  /\ \/ w.file \in readable /\ edges' = edges \cup {w.handle}
     \/ UNCHANGED edges

ReceiveRemove(w) ==
  /\ w.op = "remove"
  /\ watched' = {x \in watched : x.handle # w.handle}
  /\ edges' = edges \ {w.handle}

Receive ==
  /\ turn = 0 /\ channel # <<>>
  /\ ReceiveAdd(Head(channel)) \/ ReceiveRemove(Head(channel))
  /\ channel' = Tail(channel)
  /\ UNCHANGED <<guest, pending, poll, closes, backend, turn, readable, queue>>

(* Every millisecond the sweep asks every watched descriptor, in the order   *)
(* of the map, and notifies again for those that are readable.  The guest    *)
(* is taken to serve its interrupt within that millisecond, so a sweep       *)
(* starts with every buffer posted.                                          *)
StartSweep ==
  /\ turn = 0 /\ channel = <<>>
  /\ events = <<>>
  /\ watched # {}
  /\ turn' = 1
  /\ UNCHANGED <<guest, pending, poll, closes, backend, channel, watched, edges, readable, queue>>

\* Mutant: the sweep ends before the last descriptor.
Sweep_OffByOne ==
  /\ turn > 0
  /\ IF turn < Len(Order) /\ \E w \in watched : w.handle = Order[turn] /\ w.file \in readable
     THEN Push(Order[turn])
     ELSE UNCHANGED queue
  /\ turn' = IF turn = Len(Order) THEN 0 ELSE turn + 1
  /\ UNCHANGED <<guest, pending, poll, closes, backend, channel, watched, edges, readable>>

Sweep ==
  /\ turn > 0
  /\ IF \E w \in watched : w.handle = Order[turn] /\ w.file \in readable
     THEN Push(Order[turn])
     ELSE UNCHANGED queue
  /\ turn' = IF turn = Len(Order) THEN 0 ELSE turn + 1
  /\ UNCHANGED <<guest, pending, poll, closes, backend, channel, watched, edges, readable>>

\* epoll_wait reports an edge.
Edge(h) ==
  /\ turn = 0 /\ h \in edges
  /\ edges' = edges \ {h}
  /\ Push(h)
  /\ UNCHANGED <<guest, pending, poll, closes, backend, channel, watched, turn, readable>>

\* The host has something to report on a file: an edge for whoever watches it.
Fire(f) ==
  /\ \E n \in Numbers : numbers[n] = f
  /\ f \notin readable
  /\ readable' = readable \cup {f}
  /\ edges' = edges \cup {w.handle : w \in {x \in watched : x.file = f}}
  /\ UNCHANGED <<guest, pending, poll, closes, backend, channel, watched, turn, queue>>

----------------------------------------------------------------------------
(* The guest *)

Registered(f) == guest[f] \in {"open", "closing"}

\* Mutant: the buffer of a file that is not registered is not posted again.
EventInterrupt_LosesUnknown ==
  LET named == {f \in Files : Registered(f) /\ \E i \in DOMAIN events : events[i] = f} IN
  /\ events # <<>>
  /\ pending' = pending \cup named
  /\ poll' = [f \in Files |-> IF f \in named /\ poll[f] = "asleep" THEN "check" ELSE poll[f]]
  /\ events' = <<>>
  /\ posted' = posted + Cardinality({i \in DOMAIN events : events[i] \in named})
  /\ UNCHANGED <<guest, closes, backend, pump, readable>>

(* nvgpu_event_vq_cb: every filled buffer is taken, its file found by handle *)
(* and marked, whoever polls it woken, and the buffer posted again.          *)
EventInterrupt ==
  LET named == {f \in Files : Registered(f) /\ \E i \in DOMAIN events : events[i] = f} IN
  /\ events # <<>>
  /\ pending' = pending \cup named
  /\ poll' = [f \in Files |-> IF f \in named /\ poll[f] = "asleep" THEN "check" ELSE poll[f]]
  /\ events' = <<>>
  /\ posted' = posted + Len(events)
  /\ UNCHANGED <<guest, closes, backend, pump, readable>>

\* poll(): the thread is on the wait queue before it looks at pending.
StartPoll(f) ==
  /\ guest[f] = "open" /\ poll[f] = "none"
  /\ poll' = [poll EXCEPT ![f] = "check"]
  /\ UNCHANGED <<guest, pending, closes, backend, pump, readable, queue>>

\* atomic_xchg(&nfd->pending, 0)
CheckPending(f) ==
  /\ poll[f] = "check"
  /\ poll' = [poll EXCEPT ![f] = IF f \in pending THEN "none" ELSE "asleep"]
  /\ pending' = pending \ {f}
  /\ UNCHANGED <<guest, closes, backend, pump, readable, queue>>

\* An ioctl of the guest takes what the host had to report.
Consume(f) ==
  /\ guest[f] = "open" /\ poll[f] = "none"
  /\ f \in readable
  /\ readable' = readable \ {f}
  /\ edges' = edges \ {w.handle : w \in {x \in watched : x.file = f}}
  /\ UNCHANGED <<guest, pending, poll, closes, backend, channel, watched, turn, queue>>

----------------------------------------------------------------------------
Next ==
  \/ \E f \in Files :
       \/ Open(f) \/ Register(f) \/ GiveUp(f)
       \/ Release(f) \/ Close(f) \/ Unregister(f)
       \/ StartPoll(f) \/ CheckPending(f) \/ Consume(f)
       \/ Fire(f) \/ Edge(f)
  \/ SyncWatches \/ Receive \/ StartSweep \/ Sweep
  \/ EventInterrupt

(* The backend's two threads run and the guest's interrupt is served; a      *)
(* thread of the guest that is inside a call of the driver goes on.  The     *)
(* pump passes the sweep's timer in every round of its loop, so a sweep that *)
(* is due again and again starts (SF).                                       *)
Fairness ==
  /\ WF_vars(SyncWatches)
  /\ WF_vars(Receive) /\ SF_vars(StartSweep) /\ WF_vars(Sweep)
  /\ WF_vars(EventInterrupt)
  /\ \A f \in Files :
       /\ WF_vars(Close(f))
       /\ WF_vars(Register(f)) /\ WF_vars(Unregister(f)) /\ WF_vars(CheckPending(f))

Spec == Init /\ [][Next]_vars /\ Fairness

----------------------------------------------------------------------------
(* Every variable holds what its comment says it does, and no buffer of    *)
(* the event queue is lost.                                                *)
TypeOK ==
  /\ guest \in [Files -> {"none", "opening", "open", "closing", "closed"}]
  /\ pending \subseteq Files
  /\ poll \in [Files -> {"none", "check", "asleep"}]
  /\ closes \subseteq Files
  /\ numbers \in [Numbers -> Files \cup {Nobody}]
  /\ watched \subseteq [handle : Files, file : Files]
  /\ edges \subseteq Files /\ readable \subseteq Files
  /\ turn \in 0 .. Len(Order)
  /\ posted \in 0 .. Buffers /\ posted + Len(events) = Buffers

(* WatchesOwnFile: "a watch holding the same number would then be watching *)
(* whatever opened next" (sync_watches) - once the pump has caught up, it  *)
(* watches exactly the open files, each under its own handle, although     *)
(* numbers are duplicated after the batch and may have changed hands.      *)
CaughtUp == added = <<>> /\ removed = <<>> /\ channel = <<>>

OpenFiles == {numbers[n] : n \in Numbers} \ {Nobody}

WatchesOwnFile == CaughtUp => watched = {[handle |-> f, file |-> f] : f \in OpenFiles}

(* WaiterIsWoken: "the host re-sends while the descriptor stays readable,  *)
(* so a lost one costs a millisecond rather than a hang"                   *)
(* (nvgpu_event_deliver) - whatever the order of opening, watching,        *)
(* becoming readable, posting and polling.                                 *)
WaiterIsWoken ==
  \A f \in Files :
    (poll[f] # "none" /\ f \in readable) ~> (poll[f] = "none" \/ f \notin readable)

(* WatchEnds: a file the backend was asked to close is let go of by the    *)
(* pump and not watched again, although it may have been opened and closed *)
(* in one batch, and the guest has stopped waiting; the pump's duplicate   *)
(* keeps the host's file open as long as it is there.  (A file whose CLOSE *)
(* was never queued is open on the backend, and watched, for ever.)        *)
WatchEnds ==
  \A f \in Files :
    f \in closes ~> [](\A w \in watched : w.handle # f /\ w.file # f)

=============================================================================
