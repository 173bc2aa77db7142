----------------------------- MODULE CtrlQueue -----------------------------
(***************************************************************************)
(* The control queue between the guest driver and the backend.             *)
(*                                                                         *)
(* Guest (driver/virtio_gpu_nv.c): nvgpu_send_recv puts a token of its own *)
(* on the ring, sleeps or spins for the answer, and may leave before it    *)
(* comes; the interrupt and every spinning caller take answers off the     *)
(* ring under vq_lock.                                                     *)
(* Backend (device/bin/vhost-user-nvgpu.rs): handle_event drains the ring  *)
(* with notifications off, turns them on again, and signals once at the    *)
(* end.  The ring itself and its notification flags are the virtio         *)
(* library's.                                                              *)
(*                                                                         *)
(* A token is a piece of memory: once freed it is given out again.  What   *)
(* is done under vq_lock, or by one call of the virtio library, is one     *)
(* step.                                                                   *)
(***************************************************************************)
EXTENDS Naturals, Sequences, FiniteSets

CONSTANTS
  Callers,    \* threads of the guest
  Tokens,     \* pieces of memory a token can be
  RingSize,   \* requests the ring has room for
  MaxCalls,   \* bound on the calls of each thread
  None        \* no token, no answer

Requests == Callers \X (Nat \ {0})

\* struct nvgpu_req: the request, whether it was answered, whether its caller left.
Cell == [req : Requests, done : BOOLEAN, abandoned : BOOLEAN, answer : {None} \cup Requests]

ASSUME CtrlQueueAssumption ==
  /\ RingSize \in Nat \ {0}
  /\ MaxCalls \in [Callers -> Nat]
  /\ None \notin Tokens /\ None \notin Requests /\ None \notin Cell

VARIABLES
  pc,       \* where each caller is in nvgpu_send_recv
  made,     \* calls each caller has begun
  token,    \* the token of a caller's call
  heap,     \* what each token holds, None when it is not allocated
  told,     \* the answer each caller's last call returned, None for an error
  avail,    \* ring: tokens the backend has not taken
  used,     \* ring: tokens answered and not taken back
  quiet,    \* ring: the backend asks for no notification
  kicked,   \* the backend has a notification to look at
  irq,      \* the guest has an interrupt to serve
  dev,      \* where the backend is in handle_event
  idx       \* VIRTIO_RING_F_EVENT_IDX was negotiated: the same for ever

guest == <<pc, made, token, heap, told>>
vars  == <<guest, avail, used, quiet, kicked, irq, dev, idx>>

Elems(s) == {s[i] : i \in DOMAIN s}

Init ==
  /\ pc = [c \in Callers |-> "idle"]
  /\ made = [c \in Callers |-> 0]
  /\ token = [c \in Callers |-> None]
  /\ heap = [t \in Tokens |-> None]
  /\ told = [c \in Callers |-> None]
  /\ avail = <<>>
  /\ used = <<>>
  /\ quiet = FALSE
  /\ kicked = FALSE
  /\ irq = FALSE
  /\ dev = "idle"
  /\ idx \in BOOLEAN

----------------------------------------------------------------------------
(* Guest *)

\* Mutant: an answered request that is still on the ring counts as room.
Room_Unserved == Len(avail) < RingSize

Room == Len(avail) + Len(used) < RingSize

(* virtqueue_add_sgs and virtqueue_kick_prepare, under vq_lock.              *)
Send(c) ==
  /\ pc[c] = "idle" /\ made[c] < MaxCalls[c]
  /\ Room
  /\ \E t \in Tokens :
       /\ heap[t] = None
       /\ heap' = [heap EXCEPT ![t] =
                    [req |-> <<c, made[c] + 1>>, done |-> FALSE, abandoned |-> FALSE,
                     answer |-> None]]
       /\ token' = [token EXCEPT ![c] = t]
       /\ avail' = Append(avail, t)
  /\ made' = [made EXCEPT ![c] = @ + 1]
  /\ pc' = [pc EXCEPT ![c] = IF quiet THEN "waiting" ELSE "notify"]
  /\ UNCHANGED <<told, used, quiet, kicked, irq, dev, idx>>

\* The ring is full: the token is freed and the call fails.
SendFails(c) ==
  /\ pc[c] = "idle" /\ made[c] < MaxCalls[c]
  /\ ~ Room
  /\ made' = [made EXCEPT ![c] = @ + 1]
  /\ told' = [told EXCEPT ![c] = None]
  /\ UNCHANGED <<pc, token, heap, avail, used, quiet, kicked, irq, dev, idx>>

\* virtqueue_notify, after vq_lock is released.
Notify(c) ==
  /\ pc[c] = "notify"
  /\ kicked' = TRUE
  /\ pc' = [pc EXCEPT ![c] = "waiting"]
  /\ UNCHANGED <<made, token, heap, told, avail, used, quiet, irq, dev, idx>>

\* nvgpu_ctrl_drain: every answered token leaves the ring; an abandoned one is
\* freed, the others' callers are woken.
Drained ==
  [t \in Tokens |->
    IF t \notin Elems(used) THEN heap[t]
    ELSE IF heap[t].abandoned THEN None
    ELSE [heap[t] EXCEPT !.done = TRUE]]

\* A pass of nvgpu_ctrl_spin.
Spin(c) ==
  /\ pc[c] = "waiting"
  /\ used # <<>>
  /\ heap' = Drained
  /\ used' = <<>>
  /\ UNCHANGED <<pc, made, token, told, avail, quiet, kicked, irq, dev, idx>>

\* nvgpu_ctrl_vq_cb
Interrupt ==
  /\ irq
  /\ irq' = FALSE
  /\ heap' = Drained
  /\ used' = <<>>
  /\ UNCHANGED <<pc, made, token, told, avail, quiet, kicked, dev, idx>>

\* The wait ends, because the answer is there or before it is: ten seconds
\* have gone by or the caller is being killed.
Wake(c) ==
  /\ pc[c] = "waiting"
  /\ heap[token[c]].done
  /\ pc' = [pc EXCEPT ![c] = "woken"]
  /\ UNCHANGED <<made, token, heap, told, avail, used, quiet, kicked, irq, dev, idx>>

\* Mutant: the wait has no timeout and no kill.
StopWaiting_Never(c) ==
  /\ pc[c] = "waiting"
  /\ heap[token[c]].done
  /\ pc' = [pc EXCEPT ![c] = "late"]
  /\ UNCHANGED <<made, token, heap, told, avail, used, quiet, kicked, irq, dev, idx>>

StopWaiting(c) ==
  /\ pc[c] = "waiting"
  /\ pc' = [pc EXCEPT ![c] = "late"]
  /\ UNCHANGED <<made, token, heap, told, avail, used, quiet, kicked, irq, dev, idx>>

\* Mutant: a caller that stopped waiting frees its token.
Settle_Frees(c) ==
  /\ pc[c] \in {"woken", "late"}
  /\ IF pc[c] = "late" /\ ~ heap[token[c]].done
     THEN /\ heap' = [heap EXCEPT ![token[c]] = None]
          /\ told' = [told EXCEPT ![c] = None]
          /\ token' = [token EXCEPT ![c] = None]
          /\ pc' = [pc EXCEPT ![c] = "idle"]
     ELSE /\ pc' = [pc EXCEPT ![c] = "copy"]
          /\ UNCHANGED <<heap, told, token>>
  /\ UNCHANGED <<made, avail, used, quiet, kicked, irq, dev, idx>>

(* The end of the wait, under vq_lock: a caller that stopped waiting looks   *)
(* once more, and leaves its token to the drain if there is still no answer. *)
Settle(c) ==
  /\ pc[c] \in {"woken", "late"}
  /\ IF pc[c] = "late" /\ ~ heap[token[c]].done
     THEN /\ heap' = [heap EXCEPT ![token[c]].abandoned = TRUE]
          /\ told' = [told EXCEPT ![c] = None]
          /\ token' = [token EXCEPT ![c] = None]
          /\ pc' = [pc EXCEPT ![c] = "idle"]
     ELSE /\ pc' = [pc EXCEPT ![c] = "copy"]
          /\ UNCHANGED <<heap, told, token>>
  /\ UNCHANGED <<made, avail, used, quiet, kicked, irq, dev, idx>>

\* The answer is copied out and the token freed, without the lock.
Finish(c) ==
  /\ pc[c] = "copy"
  /\ told' = [told EXCEPT ![c] = heap[token[c]].answer]
  /\ heap' = [heap EXCEPT ![token[c]] = None]
  /\ token' = [token EXCEPT ![c] = None]
  /\ pc' = [pc EXCEPT ![c] = "idle"]
  /\ UNCHANGED <<made, avail, used, quiet, kicked, irq, dev, idx>>

----------------------------------------------------------------------------
(* Backend: handle_event for the control queue *)

TakeKick ==
  /\ dev = "idle" /\ kicked
  /\ kicked' = FALSE
  /\ quiet' = idx             \* disable_notification
  /\ dev' = "drain"
  /\ UNCHANGED <<guest, avail, used, irq, idx>>

\* Mutant: the newest request is served first.
Process_Newest ==
  /\ dev = "drain" /\ avail # <<>>
  /\ LET t == avail[Len(avail)] IN
       /\ heap' = [heap EXCEPT ![t].answer = heap[t].req]
       /\ avail' = SubSeq(avail, 1, Len(avail) - 1)
       /\ used' = Append(used, t)
  /\ UNCHANGED <<pc, made, token, told, quiet, kicked, irq, dev, idx>>

\* One turn of the loop in process(): dispatch and add_used.
Process ==
  /\ dev = "drain" /\ avail # <<>>
  /\ LET t == Head(avail) IN
       /\ heap' = [heap EXCEPT ![t].answer = heap[t].req]
       /\ avail' = Tail(avail)
       /\ used' = Append(used, t)
  /\ UNCHANGED <<pc, made, token, told, quiet, kicked, irq, dev, idx>>

(* The host call never returns, and the backend with it; or process()        *)
(* returns with an error, and the thread that calls handle_event ends: no    *)
(* answer for this request, and no signal for those before it.               *)
Hang ==
  /\ dev = "drain" /\ avail # <<>>
  /\ dev' = "hung"
  /\ UNCHANGED <<guest, avail, used, quiet, kicked, irq, idx>>

\* process() finds the ring empty.
Empty ==
  /\ dev = "drain" /\ avail = <<>>
  /\ dev' = IF idx THEN "rearm" ELSE "signal"
  /\ UNCHANGED <<guest, avail, used, quiet, kicked, irq, idx>>

\* Mutant: the answer of enable_notification is not looked at.
Rearm_Once ==
  /\ dev = "rearm"
  /\ quiet' = FALSE
  /\ dev' = "signal"
  /\ UNCHANGED <<guest, avail, used, kicked, irq, idx>>

(* enable_notification turns notifications on and then says whether requests *)
(* came in meanwhile; if so notifications go off again for another round.    *)
Rearm ==
  /\ dev = "rearm"
  /\ quiet' = (avail # <<>>)
  /\ dev' = IF avail # <<>> THEN "drain" ELSE "signal"
  /\ UNCHANGED <<guest, avail, used, kicked, irq, idx>>

\* Mutant: the guest is not signalled.
Signal_Silent ==
  /\ dev = "signal"
  /\ dev' = "idle"
  /\ UNCHANGED <<guest, avail, used, quiet, kicked, irq, idx>>

\* signal_used_queue, the last thing handle_event does.
Signal ==
  /\ dev = "signal"
  /\ irq' = TRUE
  /\ dev' = "idle"
  /\ UNCHANGED <<guest, avail, used, quiet, kicked, idx>>

----------------------------------------------------------------------------
Next ==
  \/ \E c \in Callers :
       \/ Send(c) \/ SendFails(c) \/ Notify(c) \/ Spin(c)
       \/ Wake(c) \/ StopWaiting(c) \/ Settle(c) \/ Finish(c)
  \/ Interrupt
  \/ TakeKick \/ Process \/ Hang \/ Empty \/ Rearm \/ Signal

(* Threads of the guest run, and the timer of a sleeping one goes off; the   *)
(* backend's thread runs; an interrupt raised is served.  Nobody is made to  *)
(* call, to spin or to hang.                                                 *)
Fairness ==
  /\ \A c \in Callers :
       /\ WF_vars(Notify(c))
       /\ WF_vars(Wake(c) \/ StopWaiting(c))
       /\ WF_vars(Settle(c))
       /\ WF_vars(Finish(c))
  /\ WF_vars(Interrupt)
  /\ WF_vars(TakeKick \/ Process \/ Empty \/ Rearm \/ Signal)

Spec == Init /\ [][Next]_vars /\ Fairness

----------------------------------------------------------------------------
Callings == {"idle", "notify", "waiting", "woken", "late", "copy"}

(* Every variable holds what its comment says it does.                     *)
TypeOK ==
  /\ pc \in [Callers -> Callings]
  /\ made \in [Callers -> Nat] /\ \A c \in Callers : made[c] <= MaxCalls[c]
  /\ token \in [Callers -> Tokens \cup {None}]
  /\ heap \in [Tokens -> Cell \cup {None}]
  /\ told \in [Callers -> Requests \cup {None}]
  /\ avail \in Seq(Tokens) /\ used \in Seq(Tokens) /\ Len(avail) + Len(used) <= RingSize
  /\ {quiet, kicked, irq, idx} \subseteq BOOLEAN
  /\ dev \in {"idle", "drain", "rearm", "signal", "hung"}

(* OneOwner: "Still the device's.  The callback frees it when it comes     *)
(* back." - a token is allocated exactly as long as the ring holds it or a *)
(* caller does, so nobody writes to or frees memory that was given out     *)
(* again, and none is lost.                                                *)
OnRing == Elems(avail) \cup Elems(used)

Held == {token[c] : c \in Callers} \ {None}

OneOwner ==
  /\ {t \in Tokens : heap[t] # None} = OnRing \cup Held
  /\ \A t \in OnRing : heap[t].abandoned <=> t \notin Held
  /\ \A b, c \in Callers : b # c /\ token[b] # None => token[b] # token[c]
  /\ \A i, j \in DOMAIN (avail \o used) : i # j => (avail \o used)[i] # (avail \o used)[j]

(* AnsweredReachesCaller: an answer on the used ring is taken off it, also *)
(* when nobody spins: the backend's single signal at the end of a batch    *)
(* covers every answer of the batch.                                       *)
AnsweredReachesCaller ==
  \A t \in Tokens : (t \in Elems(used)) ~> (t \notin Elems(used) \/ dev = "hung")

(* RequestsAreTaken: "re-arm and drain again rather than waiting for a     *)
(* kick that will not come" - a request put on the ring while              *)
(* notifications are off is served all the same.                           *)
RequestsAreTaken ==
  \A t \in Tokens : (t \in Elems(avail)) ~> (t \notin Elems(avail) \/ dev = "hung")

(* CallsReturn: no caller waits for ever, even for a backend that hangs.   *)
CallsReturn == \A c \in Callers : (pc[c] # "idle") ~> (pc[c] = "idle")

(* ImplementsRpc: a call that succeeds returns its own answer, and calls   *)
(* are served once and in order, also those whose caller has left.         *)
Calls == INSTANCE Rpc WITH
  busy  <- {c \in Callers : pc[c] # "idle"},
  line  <- [i \in DOMAIN avail |-> heap[avail[i]].req],
  ready <- {heap[t].req : t \in {u \in Tokens : heap[u] # None /\ heap[u].answer # None}}

ImplementsRpc == Calls!Spec

=============================================================================
