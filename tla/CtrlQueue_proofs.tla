-------------------------- MODULE CtrlQueue_proofs --------------------------
(***************************************************************************)
(* The control queue for any number of threads, tokens and calls, on a     *)
(* ring of any size: a token has one owner at a time, and the queue is a   *)
(* sequence of remote calls (Rpc).                                         *)
(***************************************************************************)
EXTENDS CtrlQueue, SequenceTheorems, TLAPS

Distinct(s) == \A i, j \in DOMAIN s : i # j => s[i] # s[j]

Allocated == {t \in Tokens : heap[t] # None}

\* The ring holds a token once, on one of its sides.
RingInv == Distinct(avail) /\ Distinct(used) /\ Elems(avail) \cap Elems(used) = {}

\* A token is allocated as long as the ring or a caller has it, and no two
\* callers have the same.
OwnerInv ==
  /\ Allocated = OnRing \cup Held
  /\ \A b, c \in Callers : b # c /\ token[b] # None => token[b] # token[c]

\* What a token holds follows from where it is.
CellInv ==
  \A t \in Allocated :
    /\ t \in Elems(avail) => heap[t].answer = None
    /\ t \notin Elems(avail) => heap[t].answer = heap[t].req
    /\ heap[t].done <=> t \notin OnRing
    /\ heap[t].abandoned <=> t \notin Held

\* No two tokens are for the same call, and none for a call not yet begun.
CallInv ==
  /\ \A t, u \in Allocated : t # u => heap[t].req # heap[u].req
  /\ \A t \in Allocated : heap[t].req[2] <= made[heap[t].req[1]]

\* A caller inside a call has a token for it, and has been woken for a reason.
CallerInv ==
  \A c \in Callers :
    /\ pc[c] = "idle" <=> token[c] = None
    /\ token[c] # None => heap[token[c]].req = <<c, made[c]>>
    /\ pc[c] \in {"woken", "copy"} => heap[token[c]].done

QueueInv == TypeOK /\ RingInv /\ OwnerInv /\ CellInv /\ CallInv /\ CallerInv

----------------------------------------------------------------------------
(* virtqueue_add_sgs and add_used put an element behind the others.        *)
LEMMA AppendElems ==
  ASSUME NEW S, NEW s \in Seq(S), NEW e \in S
  PROVE  /\ Append(s, e) \in Seq(S)
         /\ Len(Append(s, e)) = Len(s) + 1
         /\ Elems(Append(s, e)) = Elems(s) \cup {e}
         /\ Distinct(s) /\ e \notin Elems(s) => Distinct(Append(s, e))
<1>1. /\ Append(s, e) \in Seq(S)
      /\ Len(Append(s, e)) = Len(s) + 1 /\ Len(s) \in Nat
      /\ \A i \in 1 .. Len(s) : Append(s, e)[i] = s[i]
      /\ Append(s, e)[Len(s) + 1] = e
      /\ DOMAIN s = 1 .. Len(s) /\ DOMAIN Append(s, e) = 1 .. Len(s) + 1
  BY AppendProperties, LenProperties
<1>2. Elems(Append(s, e)) = Elems(s) \cup {e}
  BY <1>1 DEF Elems
<1>3. ASSUME Distinct(s), e \notin Elems(s)
      PROVE  Distinct(Append(s, e))
  BY <1>1, <1>3 DEF Distinct, Elems
<1> QED
  BY <1>1, <1>2, <1>3

(* process() takes the oldest element off the others.                      *)
LEMMA TailElems ==
  ASSUME NEW S, NEW s \in Seq(S), s # <<>>
  PROVE  /\ Head(s) \in S /\ Head(s) \in Elems(s)
         /\ Tail(s) \in Seq(S)
         /\ Len(s) \in Nat /\ Len(Tail(s)) = Len(s) - 1
         /\ Distinct(s) => Distinct(Tail(s)) /\ Elems(Tail(s)) = Elems(s) \ {Head(s)}
<1>1. /\ Head(s) \in S /\ Tail(s) \in Seq(S)
      /\ Len(Tail(s)) = Len(s) - 1 /\ Len(s) \in Nat \ {0}
      /\ \A i \in 1 .. Len(s) - 1 : Tail(s)[i] = s[i + 1]
      /\ Head(s) = s[1]
      /\ DOMAIN s = 1 .. Len(s) /\ DOMAIN Tail(s) = 1 .. Len(s) - 1
  BY HeadTailProperties, LenProperties, EmptySeq
<1>2. Head(s) \in Elems(s)
  BY <1>1 DEF Elems
<1>3. ASSUME Distinct(s) PROVE Distinct(Tail(s))
  BY <1>1, <1>3 DEF Distinct
<1>4. ASSUME Distinct(s) PROVE Elems(Tail(s)) = Elems(s) \ {Head(s)}
  <2>1. ASSUME NEW e \in Elems(Tail(s)) PROVE e \in Elems(s) \ {Head(s)}
    BY <1>1, <1>4, <2>1 DEF Distinct, Elems
  <2>2. ASSUME NEW e \in Elems(s) \ {Head(s)} PROVE e \in Elems(Tail(s))
    <3>1. PICK i \in 1 .. Len(s) : e = s[i]
      BY <1>1 DEF Elems
    <3>2. i # 1 /\ i - 1 \in 1 .. Len(s) - 1 /\ Tail(s)[i - 1] = s[i]
      BY <1>1, <3>1
    <3> QED
      BY <1>1, <3>1, <3>2 DEF Elems
  <2> QED
    BY <2>1, <2>2
<1> QED
  BY <1>1, <1>2, <1>3, <1>4

(* An empty ring has no elements.                                          *)
LEMMA ElemsEmpty == Elems(<<>>) = {} /\ Distinct(<<>>) /\ \A S : <<>> \in Seq(S)
BY EmptySeq DEF Elems, Distinct

(* Each token of a ring that holds them once is in one place of it.        *)
LEMMA OneOwnerHolds == QueueInv => OneOwner
<1> SUFFICES ASSUME QueueInv PROVE OneOwner
  OBVIOUS
<1> USE DEF QueueInv
<1>1. OnRing \subseteq Allocated
  BY DEF OwnerInv
<1>2. ASSUME NEW i \in DOMAIN (avail \o used), NEW j \in DOMAIN (avail \o used), i # j
      PROVE  (avail \o used)[i] # (avail \o used)[j]
  <2>1. /\ Len(avail) \in Nat /\ Len(used) \in Nat
        /\ DOMAIN avail = 1 .. Len(avail) /\ DOMAIN used = 1 .. Len(used)
        /\ DOMAIN (avail \o used) = 1 .. Len(avail) + Len(used)
        /\ \A k \in 1 .. Len(avail) + Len(used) :
             (avail \o used)[k] = IF k <= Len(avail) THEN avail[k] ELSE used[k - Len(avail)]
    BY ConcatProperties, LenProperties DEF TypeOK
  <2>2. /\ \A k, l \in 1 .. Len(avail) : k # l => avail[k] # avail[l]
        /\ \A k, l \in 1 .. Len(used) : k # l => used[k] # used[l]
    BY <2>1 DEF RingInv, Distinct
  <2>3. /\ \A k \in 1 .. Len(avail) : avail[k] \in Elems(avail)
        /\ \A k \in 1 .. Len(used) : used[k] \in Elems(used)
        /\ Elems(avail) \cap Elems(used) = {}
    BY <2>1 DEF RingInv, Elems
  <2>4. \A k \in 1 .. Len(avail), l \in 1 .. Len(used) : avail[k] # used[l]
    BY <2>3
  <2> QED
    BY <1>2, <2>1, <2>2, <2>4
<1> QED
  BY <1>1, <1>2 DEF OneOwner, OwnerInv, CellInv, Allocated

(* At first no token is allocated and nobody is in a call.                 *)
LEMMA InitQueue == Init => QueueInv
<1> SUFFICES ASSUME Init PROVE QueueInv
  OBVIOUS
<1> USE CtrlQueueAssumption, ElemsEmpty DEF Init
<1>1. TypeOK
  <2>1. /\ pc \in [Callers -> Callings] /\ token \in [Callers -> Tokens \cup {None}]
        /\ heap \in [Tokens -> Cell \cup {None}] /\ told \in [Callers -> Requests \cup {None}]
    BY DEF Callings
  <2>2. made \in [Callers -> Nat] /\ \A c \in Callers : made[c] <= MaxCalls[c]
    OBVIOUS
  <2>3. avail \in Seq(Tokens) /\ used \in Seq(Tokens) /\ Len(avail) + Len(used) <= RingSize
    OBVIOUS
  <2>4. {quiet, kicked, irq, idx} \subseteq BOOLEAN /\ dev \in {"idle", "drain", "rearm", "signal", "hung"}
    OBVIOUS
  <2> QED
    BY <2>1, <2>2, <2>3, <2>4 DEF TypeOK
<1>2. Allocated = {} /\ OnRing = {} /\ Held = {}
  BY DEF Allocated, OnRing, Held
<1>3. RingInv /\ OwnerInv /\ CellInv /\ CallInv /\ CallerInv
  BY <1>2 DEF RingInv, OwnerInv, CellInv, CallInv, CallerInv
<1> QED
  BY <1>1, <1>3 DEF QueueInv
----------------------------------------------------------------------------
(* handle_event, apart from process(), touches neither memory nor ring.    *)
LEMMA BackendKeeps ==
  ASSUME QueueInv, TakeKick \/ Hang \/ Empty \/ Rearm \/ Signal \/ UNCHANGED vars
  PROVE  QueueInv'
<1> USE DEF QueueInv
<1>1. UNCHANGED <<pc, made, token, heap, told, avail, used>>
  BY DEF TakeKick, Hang, Empty, Rearm, Signal, vars, guest
<1>2. TypeOK'
  <2>1. /\ {quiet', kicked', irq', idx'} \subseteq BOOLEAN
        /\ dev' \in {"idle", "drain", "rearm", "signal", "hung"}
    BY DEF TypeOK, TakeKick, Hang, Empty, Rearm, Signal, vars, guest
  <2> QED
    BY <1>1, <2>1 DEF TypeOK
<1>3. (RingInv /\ OwnerInv /\ CellInv /\ CallInv /\ CallerInv)'
  BY <1>1 DEF RingInv, OwnerInv, CellInv, CallInv, CallerInv, Allocated, OnRing, Held
<1> QED
  BY <1>2, <1>3

(* A request put on the ring has a token to itself and is for a call that  *)
(* no token was for before.                                                *)
LEMMA SendKeeps ==
  ASSUME QueueInv, NEW c \in Callers, Send(c)
  PROVE  QueueInv'
<1> USE CtrlQueueAssumption DEF QueueInv
<1> DEFINE call == <<c, made[c] + 1>>
           cell == [req |-> call, done |-> FALSE, abandoned |-> FALSE, answer |-> None]
<1>1. PICK t \in Tokens : /\ heap[t] = None
                          /\ heap' = [heap EXCEPT ![t] = cell]
                          /\ token' = [token EXCEPT ![c] = t]
                          /\ avail' = Append(avail, t)
  BY DEF Send
<1>2. /\ made' = [made EXCEPT ![c] = @ + 1]
      /\ pc' = [pc EXCEPT ![c] = IF quiet THEN "waiting" ELSE "notify"]
      /\ UNCHANGED <<told, used, quiet, kicked, irq, dev, idx>>
      /\ pc[c] = "idle" /\ made[c] < MaxCalls[c] /\ Room
  BY DEF Send
<1>3. call \in Requests /\ cell \in Cell /\ cell # None
  <2>1. made[c] + 1 \in Nat \ {0}
    BY DEF TypeOK
  <2>2. call \in Requests
    BY <2>1 DEF Requests
  <2>3. cell \in Cell
    BY <2>2 DEF Cell
  <2> QED
    BY <2>2, <2>3
<1>4. TypeOK'
  <2>1. /\ pc' \in [Callers -> Callings] /\ token' \in [Callers -> Tokens \cup {None}]
        /\ told' \in [Callers -> Requests \cup {None}]
    BY <1>1, <1>2 DEF TypeOK, Callings
  <2>2. heap' \in [Tokens -> Cell \cup {None}]
    BY <1>1, <1>3 DEF TypeOK
  <2>3. made' \in [Callers -> Nat] /\ \A d \in Callers : made'[d] <= MaxCalls[d]
    BY <1>2 DEF TypeOK
  <2>4. avail' \in Seq(Tokens) /\ used' \in Seq(Tokens) /\ Len(avail') + Len(used') <= RingSize
    BY <1>1, <1>2, AppendElems, LenProperties DEF TypeOK, Room
  <2> QED
    BY <1>2, <2>1, <2>2, <2>3, <2>4 DEF TypeOK
<1>5. token[c] = None /\ t \notin Allocated /\ t \notin OnRing /\ t \notin Held
  BY <1>1, <1>2 DEF OwnerInv, CallerInv, Allocated
<1>6. /\ Elems(avail') = Elems(avail) \cup {t} /\ Elems(used') = Elems(used)
      /\ Distinct(avail') /\ Distinct(used')
  BY <1>1, <1>2, <1>5, AppendElems DEF TypeOK, RingInv, OnRing
<1>7. RingInv'
  BY <1>5, <1>6 DEF RingInv, OnRing
<1>8. /\ Allocated' = Allocated \cup {t} /\ OnRing' = OnRing \cup {t}
      /\ heap'[t] = cell /\ \A u \in Allocated : u # t /\ heap'[u] = heap[u]
  <2>1. OnRing' = OnRing \cup {t}
    BY <1>6 DEF OnRing
  <2>2. heap'[t] = cell /\ \A u \in Tokens : u # t => heap'[u] = heap[u]
    BY <1>1 DEF TypeOK
  <2> QED
    BY <1>3, <1>5, <2>1, <2>2 DEF Allocated
<1>9. /\ token'[c] = t /\ \A d \in Callers : d # c => token'[d] = token[d]
      /\ Held' = Held \cup {t}
  <2>1. token'[c] = t /\ \A d \in Callers : d # c => token'[d] = token[d]
    BY <1>1 DEF TypeOK
  <2> QED
    BY <1>5, <2>1 DEF Held
<1>10. OwnerInv'
  BY <1>5, <1>8, <1>9 DEF OwnerInv, Held
<1>11. CellInv'
  BY <1>5, <1>6, <1>8, <1>9 DEF CellInv, OwnerInv, OnRing
<1>12. CallInv'
  <2>1. /\ made'[c] = made[c] + 1 /\ made[c] \in Nat
        /\ \A d \in Callers : d # c => made'[d] = made[d]
    BY <1>2 DEF TypeOK
  <2>2. \A u \in Allocated : heap[u].req \in Callers \X (Nat \ {0})
    BY DEF TypeOK, Allocated, Cell, Requests
  <2>3. ASSUME NEW u \in Allocated, heap[u].req = call PROVE FALSE
    <3>1. call[1] = c /\ call[2] = made[c] + 1
      OBVIOUS
    <3>2. heap[u].req[2] <= made[heap[u].req[1]]
      BY DEF CallInv
    <3> QED
      BY <2>1, <2>3, <3>1, <3>2
  <2> QED
    BY <1>8, <2>1, <2>2, <2>3 DEF CallInv
<1>13. CallerInv'
  <2>1. /\ made'[c] = made[c] + 1 /\ pc'[c] \in {"waiting", "notify"}
        /\ \A d \in Callers : d # c => made'[d] = made[d] /\ pc'[d] = pc[d]
    BY <1>2 DEF TypeOK
  <2>2. \A d \in Callers : token[d] # None => token[d] \in Allocated
    BY DEF OwnerInv, Held
  <2>3. ASSUME NEW d \in Callers, d # c
        PROVE  /\ pc'[d] = "idle" <=> token'[d] = None
               /\ token'[d] # None => heap'[token'[d]].req = <<d, made'[d]>>
               /\ pc'[d] \in {"woken", "copy"} => heap'[token'[d]].done
    BY <1>8, <1>9, <2>1, <2>2, <2>3 DEF CallerInv
  <2>4. heap'[token'[c]].req = <<c, made'[c]>> /\ token'[c] # None
    BY <1>1, <1>8, <1>9, <2>1
  <2> QED
    BY <2>1, <2>3, <2>4 DEF CallerInv
<1> QED
  BY <1>4, <1>7, <1>10, <1>11, <1>12, <1>13

(* The steps of a caller that touch neither its token nor the ring.        *)
LEMMA CallerWaits ==
  ASSUME QueueInv, NEW c \in Callers,
         SendFails(c) \/ Notify(c) \/ Wake(c) \/ StopWaiting(c)
  PROVE  QueueInv'
<1> USE CtrlQueueAssumption DEF QueueInv
<1>1. UNCHANGED <<token, heap, avail, used, quiet, irq, dev, idx>>
  BY DEF SendFails, Notify, Wake, StopWaiting
<1>2. \/ /\ pc[c] = "idle" /\ UNCHANGED <<pc, kicked>>
         /\ made[c] < MaxCalls[c] /\ made' = [made EXCEPT ![c] = @ + 1]
         /\ told' = [told EXCEPT ![c] = None]
      \/ /\ UNCHANGED <<made, told>> /\ kicked' \in {kicked, TRUE}
         /\ pc[c] \in {"notify", "waiting"}
         /\ \E p \in {"waiting", "late", "woken"} :
              /\ pc' = [pc EXCEPT ![c] = p]
              /\ p = "woken" => heap[token[c]].done
  BY DEF SendFails, Notify, Wake, StopWaiting
<1>3. TypeOK'
  <2>1. pc' \in [Callers -> Callings] /\ told' \in [Callers -> Requests \cup {None}] /\ kicked' \in BOOLEAN
    BY <1>2 DEF TypeOK, Callings
  <2>2. made' \in [Callers -> Nat] /\ \A d \in Callers : made'[d] <= MaxCalls[d]
    <3>1. made \in [Callers -> Nat] /\ MaxCalls \in [Callers -> Nat]
          /\ \A d \in Callers : made[d] <= MaxCalls[d]
      BY DEF TypeOK
    <3>2. made' = made \/ (made[c] < MaxCalls[c] /\ made' = [made EXCEPT ![c] = @ + 1])
      BY <1>2
    <3> QED
      BY <3>1, <3>2
  <2> QED
    BY <1>1, <2>1, <2>2 DEF TypeOK
<1>4. (RingInv /\ OwnerInv /\ CellInv)'
  BY <1>1 DEF RingInv, OwnerInv, CellInv, Allocated, OnRing, Held
<1>5. \A d \in Callers : made[d] \in Nat /\ made'[d] \in Nat /\ made[d] <= made'[d]
  <2>1. made \in [Callers -> Nat] /\ (made' = made \/ made' = [made EXCEPT ![c] = @ + 1])
    BY <1>2 DEF TypeOK
  <2> QED
    BY <2>1
<1>6. CallInv'
  <2>1. \A u \in Allocated : heap[u].req[1] \in Callers /\ heap[u].req[2] \in Nat
    BY DEF TypeOK, Allocated, Cell, Requests
  <2> QED
    BY <1>1, <1>5, <2>1 DEF CallInv, Allocated
<1>7. CallerInv'
  <2> SUFFICES ASSUME NEW d \in Callers
               PROVE  /\ pc'[d] = "idle" <=> token[d] = None
                      /\ token[d] # None => heap[token[d]].req = <<d, made'[d]>>
                      /\ pc'[d] \in {"woken", "copy"} => heap[token[d]].done
    BY <1>1 DEF CallerInv
  <2>1. CASE d # c
    BY <1>2, <2>1 DEF CallerInv, TypeOK
  <2>2. CASE d = c
    BY <1>2, <2>2 DEF CallerInv, TypeOK
  <2> QED
    BY <2>1, <2>2
<1> QED
  BY <1>3, <1>4, <1>6, <1>7

(* nvgpu_ctrl_drain takes every answered token off the ring; those nobody  *)
(* holds any more are freed.                                               *)
LEMMA DrainKeeps ==
  ASSUME QueueInv, heap' = Drained, used' = <<>>,
         UNCHANGED <<pc, made, token, told, avail, quiet, kicked, dev, idx>>, irq' \in BOOLEAN
  PROVE  /\ QueueInv'
         /\ Allocated' = Allocated \ {t \in Elems(used) : heap[t].abandoned}
         /\ \A t \in Allocated' : heap'[t].req = heap[t].req /\ heap'[t].answer = heap[t].answer
<1> USE CtrlQueueAssumption DEF QueueInv
<1> DEFINE left == {t \in Elems(used) : heap[t].abandoned}
<1>1. \A t \in Allocated : heap[t] \in Cell
  BY DEF Allocated, TypeOK
<1>2. /\ \A t \in Tokens \ Elems(used) : heap'[t] = heap[t]
      /\ \A t \in left : t \in Tokens => heap'[t] = None
      /\ \A t \in (Elems(used) \ left) \cap Tokens : heap'[t] = [heap[t] EXCEPT !.done = TRUE]
  BY DEF Drained
<1>3. Elems(used) \subseteq Allocated /\ Allocated \subseteq Tokens
  BY DEF OwnerInv, OnRing, Allocated
<1>4. \A t \in Elems(used) \ left :
        /\ heap'[t] \in Cell /\ heap'[t].done
        /\ heap'[t].req = heap[t].req /\ heap'[t].answer = heap[t].answer
        /\ heap'[t].abandoned = heap[t].abandoned
  <2> SUFFICES ASSUME NEW t \in Elems(used) \ left
               PROVE  /\ heap'[t] \in Cell /\ heap'[t].done
                      /\ heap'[t].req = heap[t].req /\ heap'[t].answer = heap[t].answer
                      /\ heap'[t].abandoned = heap[t].abandoned
    OBVIOUS
  <2>1. heap[t] \in Cell /\ heap'[t] = [heap[t] EXCEPT !.done = TRUE]
    BY <1>1, <1>2, <1>3
  <2> QED
    BY <2>1 DEF Cell
<1>5. Allocated' = Allocated \ left
  BY <1>2, <1>3, <1>4 DEF Allocated
<1>6. \A t \in Allocated' :
        /\ heap'[t].req = heap[t].req /\ heap'[t].answer = heap[t].answer
        /\ heap'[t].abandoned = heap[t].abandoned
        /\ t \in Elems(used) => heap'[t].done
        /\ t \notin Elems(used) => heap'[t] = heap[t]
  BY <1>2, <1>3, <1>4, <1>5
<1>7. /\ OnRing' = Elems(avail) /\ Held' = Held
      /\ Elems(used') = {} /\ Elems(avail') = Elems(avail)
      /\ left \cap Held = {} /\ left \cap Elems(avail) = {}
  BY <1>3, ElemsEmpty DEF OnRing, Held, CellInv, RingInv
<1>8. TypeOK'
  <2>1. heap' \in [Tokens -> Cell \cup {None}]
    <3>1. \A t \in Tokens : heap'[t] \in Cell \cup {None}
      BY <1>2, <1>4 DEF TypeOK
    <3> QED
      BY <3>1 DEF Drained
  <2>2. used' \in Seq(Tokens) /\ Len(avail') + Len(used') <= RingSize
    BY LenProperties, EmptySeq DEF TypeOK
  <2> QED
    BY <2>1, <2>2 DEF TypeOK
<1>9. RingInv'
  BY ElemsEmpty DEF RingInv
<1>10. OwnerInv'
  <2>1. Allocated' = OnRing' \cup Held'
    <3>1. Elems(used) \ left \subseteq Held
      BY <1>3 DEF CellInv
    <3> QED
      BY <1>5, <1>7, <3>1 DEF OwnerInv, OnRing
  <2> QED
    BY <2>1 DEF OwnerInv
<1>11. CellInv'
  <2> SUFFICES ASSUME NEW t \in Allocated'
               PROVE  /\ t \in Elems(avail) => heap'[t].answer = None
                      /\ t \notin Elems(avail) => heap'[t].answer = heap'[t].req
                      /\ heap'[t].done <=> t \notin Elems(avail)
                      /\ heap'[t].abandoned <=> t \notin Held
    BY <1>7 DEF CellInv
  <2>1. t \in Allocated
    BY <1>5
  <2>2. CASE t \in Elems(used)
    BY <1>6, <2>1, <2>2 DEF CellInv, RingInv
  <2>3. CASE t \notin Elems(used)
    BY <1>6, <2>1, <2>3 DEF CellInv, OnRing
  <2> QED
    BY <2>2, <2>3
<1>12. CallInv'
  BY <1>5, <1>6 DEF CallInv
<1>13. CallerInv'
  <2>1. \A d \in Callers : token[d] # None => token[d] \in Allocated'
    BY <1>5, <1>7 DEF OwnerInv, Held
  <2>2. \A d \in Callers : token[d] # None /\ heap[token[d]].done => heap'[token[d]].done
    BY <1>6, <2>1
  <2> QED
    BY <1>6, <2>1, <2>2 DEF CallerInv
<1> QED
  BY <1>5, <1>6, <1>8, <1>9, <1>10, <1>11, <1>12, <1>13

(* The oldest request moves to the other side of the ring, with its answer. *)
LEMMA ProcessKeeps ==
  ASSUME QueueInv, Process
  PROVE  /\ QueueInv'
         /\ Head(avail) \in Allocated /\ Allocated' = Allocated
         /\ \A t \in Allocated :
              /\ heap'[t].req = heap[t].req
              /\ heap'[t].answer = IF t = Head(avail) THEN heap[t].req ELSE heap[t].answer
<1> USE CtrlQueueAssumption DEF QueueInv
<1> DEFINE h == Head(avail)
<1>1. /\ heap' = [heap EXCEPT ![h].answer = heap[h].req]
      /\ avail' = Tail(avail) /\ used' = Append(used, h) /\ avail # <<>>
      /\ UNCHANGED <<pc, made, token, told, quiet, kicked, irq, dev, idx>>
  BY DEF Process
<1>2. /\ h \in Tokens /\ h \in Elems(avail) /\ avail' \in Seq(Tokens)
      /\ Len(avail') = Len(avail) - 1 /\ Len(avail) \in Nat
      /\ Distinct(avail') /\ Elems(avail') = Elems(avail) \ {h}
  BY <1>1, TailElems DEF TypeOK, RingInv
<1>3. h \notin Elems(used) /\ h \in Allocated
  BY <1>2 DEF RingInv, OwnerInv, OnRing
<1>4. /\ used' \in Seq(Tokens) /\ Len(used') = Len(used) + 1 /\ Len(used) \in Nat
      /\ Distinct(used') /\ Elems(used') = Elems(used) \cup {h}
  BY <1>1, <1>2, <1>3, AppendElems, LenProperties DEF TypeOK, RingInv
<1>5. \A t \in Allocated : heap[t] \in Cell
  BY DEF Allocated, TypeOK
<1>6. /\ heap'[h] \in Cell /\ heap'[h].answer = heap[h].req /\ heap'[h].req = heap[h].req
      /\ heap'[h].done = heap[h].done /\ heap'[h].abandoned = heap[h].abandoned
      /\ \A t \in Tokens \ {h} : heap'[t] = heap[t]
  <2>1. /\ heap'[h] = [heap[h] EXCEPT !.answer = heap[h].req]
        /\ \A t \in Tokens \ {h} : heap'[t] = heap[t]
    BY <1>1, <1>2 DEF TypeOK
  <2>2. heap[h] \in Cell
    BY <1>3, <1>5
  <2> QED
    BY <2>1, <2>2 DEF Cell
<1>7. Allocated' = Allocated
  BY <1>2, <1>3, <1>5, <1>6 DEF Allocated
<1>8. OnRing' = OnRing /\ Held' = Held
  BY <1>1, <1>2, <1>4 DEF OnRing, Held
<1>9. TypeOK'
  <2>1. heap' \in [Tokens -> Cell \cup {None}]
    BY <1>1, <1>2, <1>6 DEF TypeOK
  <2>2. Len(avail') + Len(used') <= RingSize
    BY <1>2, <1>4 DEF TypeOK
  <2> QED
    BY <1>1, <1>2, <1>4, <2>1, <2>2 DEF TypeOK
<1>10. RingInv'
  BY <1>2, <1>4 DEF RingInv
<1>11. OwnerInv'
  BY <1>1, <1>7, <1>8 DEF OwnerInv
<1>12. \A t \in Allocated :
         /\ heap'[t].req = heap[t].req
         /\ heap'[t].done = heap[t].done /\ heap'[t].abandoned = heap[t].abandoned
         /\ heap'[t].answer = IF t = h THEN heap[t].req ELSE heap[t].answer
  BY <1>6 DEF Allocated
<1> HIDE DEF h
<1>13. CellInv'
  BY <1>2, <1>7, <1>8, <1>12 DEF CellInv
<1>14. CallInv'
  BY <1>1, <1>7, <1>12 DEF CallInv
<1>15. CallerInv'
  <2>1. \A d \in Callers : token[d] # None => token[d] \in Allocated
    BY DEF OwnerInv, Held
  <2>2. \A d \in Callers :
          token[d] # None => /\ heap'[token[d]].req = heap[token[d]].req
                             /\ heap'[token[d]].done = heap[token[d]].done
    BY <1>12, <2>1
  <2>3. \A d \in Callers : pc[d] \in {"woken", "copy"} => token[d] # None
    BY DEF CallerInv
  <2> QED
    BY <1>1, <2>2, <2>3 DEF CallerInv
<1> QED
  BY <1>3, <1>7, <1>9, <1>10, <1>11, <1>12, <1>13, <1>14, <1>15 DEF h

(* A caller whose answer is there goes on to copy it; one that has none    *)
(* leaves its token on the ring.                                           *)
LEMMA SettleKeeps ==
  ASSUME QueueInv, NEW c \in Callers, Settle(c)
  PROVE  /\ QueueInv'
         /\ Allocated' = Allocated
         /\ \A t \in Allocated : heap'[t].req = heap[t].req /\ heap'[t].answer = heap[t].answer
<1> USE CtrlQueueAssumption DEF QueueInv
<1> DEFINE t == token[c]
<1>1. /\ UNCHANGED <<made, avail, used, quiet, kicked, irq, dev, idx>>
      /\ pc[c] \in {"woken", "late"}
  BY DEF Settle
<1>2. t \in Allocated /\ t \in Tokens /\ t # None /\ t \in Held
  BY <1>1 DEF CallerInv, OwnerInv, Allocated, Held
<1>3. ASSUME pc[c] = "late" /\ ~ heap[t].done
      PROVE  /\ QueueInv'
             /\ Allocated' = Allocated
             /\ \A u \in Allocated : heap'[u].req = heap[u].req /\ heap'[u].answer = heap[u].answer
  <2>1. /\ heap' = [heap EXCEPT ![t].abandoned = TRUE]
        /\ told' = [told EXCEPT ![c] = None]
        /\ token' = [token EXCEPT ![c] = None]
        /\ pc' = [pc EXCEPT ![c] = "idle"]
    BY <1>3 DEF Settle
  <2>2. \A u \in Allocated : heap[u] \in Cell
    BY DEF Allocated, TypeOK
  <2>3. /\ heap'[t] \in Cell /\ heap'[t].answer = heap[t].answer /\ heap'[t].req = heap[t].req
        /\ heap'[t].done = heap[t].done /\ heap'[t].abandoned
        /\ \A u \in Tokens \ {t} : heap'[u] = heap[u]
    <3>1. /\ heap'[t] = [heap[t] EXCEPT !.abandoned = TRUE]
          /\ \A u \in Tokens \ {t} : heap'[u] = heap[u]
      BY <1>2, <2>1 DEF TypeOK
    <3>2. heap[t] \in Cell
      BY <1>2, <2>2
    <3> QED
      BY <3>1, <3>2 DEF Cell
  <2>4. Allocated' = Allocated
    BY <1>2, <2>2, <2>3 DEF Allocated
  <2>5. /\ token'[c] = None /\ \A d \in Callers : d # c => token'[d] = token[d]
        /\ Held' = Held \ {t}
    <3>1. token'[c] = None /\ \A d \in Callers : d # c => token'[d] = token[d]
      BY <2>1 DEF TypeOK
    <3>2. \A d \in Callers : d # c => token[d] # t
      BY <1>2 DEF OwnerInv
    <3> QED
      BY <1>2, <3>1, <3>2 DEF Held
  <2>6. OnRing' = OnRing /\ t \in OnRing
    BY <1>1, <1>2, <1>3 DEF OnRing, CellInv
  <2>7. TypeOK'
    <3>1. heap' \in [Tokens -> Cell \cup {None}]
      BY <1>2, <2>1, <2>3 DEF TypeOK
    <3>2. /\ pc' \in [Callers -> Callings] /\ token' \in [Callers -> Tokens \cup {None}]
          /\ told' \in [Callers -> Requests \cup {None}]
      BY <2>1 DEF TypeOK, Callings
    <3> QED
      BY <1>1, <3>1, <3>2 DEF TypeOK
  <2>8. RingInv'
    BY <1>1 DEF RingInv
  <2>9. \A u \in Allocated :
          /\ heap'[u].req = heap[u].req /\ heap'[u].answer = heap[u].answer
          /\ heap'[u].done = heap[u].done
          /\ u # t => heap'[u].abandoned = heap[u].abandoned
    BY <2>3 DEF Allocated
  <2> HIDE DEF t
  <2>10. OwnerInv'
    BY <1>2, <2>4, <2>5, <2>6 DEF OwnerInv
  <2>11. CellInv'
    BY <1>1, <2>3, <2>4, <2>5, <2>6, <2>9 DEF CellInv
  <2>12. CallInv'
    BY <1>1, <2>4, <2>9 DEF CallInv
  <2>13. CallerInv'
    <3>1. \A d \in Callers : token[d] # None => token[d] \in Allocated
      BY DEF OwnerInv, Held
    <3>2. pc'[c] = "idle" /\ \A d \in Callers : d # c => pc'[d] = pc[d]
      BY <2>1 DEF TypeOK
    <3>3. \A d \in Callers :
            token[d] # None => /\ heap'[token[d]].req = heap[token[d]].req
                               /\ heap'[token[d]].done = heap[token[d]].done
      BY <2>9, <3>1
    <3>4. \A d \in Callers : pc[d] \in {"woken", "copy"} => token[d] # None
      BY DEF CallerInv
    <3> QED
      BY <1>1, <2>5, <3>2, <3>3, <3>4 DEF CallerInv
  <2> QED
    BY <2>4, <2>7, <2>8, <2>9, <2>10, <2>11, <2>12, <2>13
<1>4. ASSUME ~ (pc[c] = "late" /\ ~ heap[t].done)
      PROVE  QueueInv' /\ UNCHANGED heap
  <2>1. pc' = [pc EXCEPT ![c] = "copy"] /\ UNCHANGED <<heap, told, token>>
    BY <1>4 DEF Settle
  <2>2. heap[t].done
    BY <1>1, <1>4 DEF CallerInv
  <2>3. pc'[c] = "copy" /\ \A d \in Callers : d # c => pc'[d] = pc[d]
    BY <2>1 DEF TypeOK
  <2>4. TypeOK'
    BY <1>1, <2>1 DEF TypeOK, Callings
  <2>5. (RingInv /\ OwnerInv /\ CellInv /\ CallInv)'
    BY <1>1, <2>1 DEF RingInv, OwnerInv, CellInv, CallInv, Allocated, OnRing, Held
  <2>6. CallerInv'
    BY <1>1, <1>2, <2>1, <2>2, <2>3 DEF CallerInv
  <2> QED
    BY <2>1, <2>4, <2>5, <2>6
<1> QED
  BY <1>3, <1>4 DEF Allocated

(* The caller frees the token it was woken with, which the ring let go of. *)
LEMMA FinishKeeps ==
  ASSUME QueueInv, NEW c \in Callers, Finish(c)
  PROVE  /\ QueueInv'
         /\ token[c] \in Allocated /\ Allocated' = Allocated \ {token[c]}
         /\ heap[token[c]].answer = <<c, made[c]>> /\ heap[token[c]].req = <<c, made[c]>>
         /\ token[c] \notin OnRing
         /\ \A t \in Allocated' : heap'[t] = heap[t]
<1> USE CtrlQueueAssumption DEF QueueInv
<1> DEFINE t == token[c]
<1>1. /\ pc[c] = "copy"
      /\ told' = [told EXCEPT ![c] = heap[t].answer]
      /\ heap' = [heap EXCEPT ![t] = None]
      /\ token' = [token EXCEPT ![c] = None]
      /\ pc' = [pc EXCEPT ![c] = "idle"]
      /\ UNCHANGED <<made, avail, used, quiet, kicked, irq, dev, idx>>
  BY DEF Finish
<1>2. t \in Allocated /\ t \in Tokens /\ t # None /\ t \in Held /\ heap[t].done
  BY <1>1 DEF CallerInv, OwnerInv, Allocated, Held
<1>3. t \notin OnRing /\ heap[t].req = <<c, made[c]>> /\ heap[t].answer = heap[t].req
  BY <1>2 DEF CellInv, CallerInv, OnRing
<1>4. heap'[t] = None /\ \A u \in Tokens \ {t} : heap'[u] = heap[u]
  BY <1>1, <1>2 DEF TypeOK
<1>5. Allocated' = Allocated \ {t}
  BY <1>2, <1>4 DEF Allocated
<1>6. /\ token'[c] = None /\ \A d \in Callers : d # c => token'[d] = token[d] /\ token[d] # t
      /\ Held' = Held \ {t}
  <2>1. token'[c] = None /\ \A d \in Callers : d # c => token'[d] = token[d]
    BY <1>1 DEF TypeOK
  <2>2. \A d \in Callers : d # c => token[d] # t
    BY <1>2 DEF OwnerInv
  <2> QED
    BY <1>2, <2>1, <2>2 DEF Held
<1>7. TypeOK'
  <2>1. heap[t].answer \in Requests \cup {None}
    BY <1>2 DEF TypeOK, Allocated, Cell
  <2>2. /\ pc' \in [Callers -> Callings] /\ token' \in [Callers -> Tokens \cup {None}]
        /\ told' \in [Callers -> Requests \cup {None}]
    BY <1>1, <2>1 DEF TypeOK, Callings
  <2>3. heap' \in [Tokens -> Cell \cup {None}]
    BY <1>1 DEF TypeOK
  <2> QED
    BY <1>1, <2>2, <2>3 DEF TypeOK
<1>8. RingInv' /\ OnRing' = OnRing
  BY <1>1 DEF RingInv, OnRing
<1>9. \A u \in Allocated' : u \in Allocated /\ u # t /\ heap'[u] = heap[u]
  BY <1>4, <1>5 DEF Allocated
<1> HIDE DEF t
<1>10. OwnerInv'
  BY <1>2, <1>3, <1>5, <1>6, <1>8 DEF OwnerInv
<1>11. CellInv'
  BY <1>1, <1>5, <1>6, <1>8, <1>9 DEF CellInv
<1>12. CallInv'
  BY <1>1, <1>9 DEF CallInv
<1>13. CallerInv'
  <2>1. \A d \in Callers : d # c /\ token[d] # None => token[d] \in Allocated'
    BY <1>5, <1>6 DEF OwnerInv, Held
  <2>2. pc'[c] = "idle" /\ \A d \in Callers : d # c => pc'[d] = pc[d]
    BY <1>1 DEF TypeOK
  <2> QED
    BY <1>1, <1>6, <1>9, <2>1, <2>2 DEF CallerInv
<1> QED
  BY <1>2, <1>3, <1>5, <1>7, <1>8, <1>9, <1>10, <1>11, <1>12, <1>13 DEF t

(* Every step of the guest and of the backend keeps the invariant.         *)
LEMMA StepKeepsQueue == QueueInv /\ [Next]_vars => QueueInv'
<1> SUFFICES ASSUME QueueInv, [Next]_vars PROVE QueueInv'
  OBVIOUS
<1>1. ASSUME NEW c \in Callers, Spin(c) PROVE QueueInv'
  BY <1>1, DrainKeeps DEF Spin, QueueInv, TypeOK
<1>2. CASE Interrupt
  BY <1>2, DrainKeeps DEF Interrupt
<1> QED
  BY <1>1, <1>2, BackendKeeps, SendKeeps, CallerWaits, ProcessKeeps, SettleKeeps, FinishKeeps
  DEF Next

(* For any number of callers and tokens, what lies on the ring and in each *)
(* token follows from who has it.                                          *)
THEOREM QueueInvariant == Spec => []QueueInv
BY InitQueue, StepKeepsQueue, PTL DEF Spec

(* Every variable holds what it should, whoever leaves when.               *)
THEOREM QueueTypeCorrect == Spec => []TypeOK
<1>1. QueueInv => TypeOK
  BY DEF QueueInv
<1> QED
  BY <1>1, QueueInvariant, PTL

(* A token has one owner, the ring or a caller or both, until it is freed, *)
(* and it is freed once (nvgpu_send_recv, nvgpu_ctrl_drain).               *)
THEOREM TokensHaveOneOwner == Spec => []OneOwner
BY QueueInvariant, OneOwnerHolds, PTL

----------------------------------------------------------------------------
(* The queue as a sequence of calls *)

Busy == {c \in Callers : pc[c] # "idle"}
Line == [i \in DOMAIN avail |-> heap[avail[i]].req]
Ready == {heap[t].req : t \in {u \in Tokens : heap[u] # None /\ heap[u].answer # None}}

\* The answers kept are those of the tokens the backend is through with.
ReadyInv == Ready = {heap[t].req : t \in Allocated \ Elems(avail)}

(* An answer is kept for each token that was allocated and taken.          *)
LEMMA ReadyIsServed == QueueInv => ReadyInv
<1> SUFFICES ASSUME QueueInv PROVE ReadyInv
  OBVIOUS
<1>1. \A t \in Allocated : heap[t].answer # None <=> t \notin Elems(avail)
  BY CtrlQueueAssumption DEF QueueInv, CellInv, Allocated, TypeOK, Cell
<1> QED
  BY <1>1 DEF Ready, ReadyInv, Allocated
LineInv ==
  /\ Line \in Seq(Requests) /\ Len(Line) = Len(avail) /\ Len(avail) \in Nat
  /\ \A i \in 1 .. Len(avail) :
       avail[i] \in Elems(avail) /\ avail[i] \in Allocated /\ Line[i] = heap[avail[i]].req

(* The line is the requests of the tokens the backend has not taken.       *)
LEMMA LineIsSeq == QueueInv => LineInv
<1> SUFFICES ASSUME QueueInv PROVE LineInv
  OBVIOUS
<1>1. DOMAIN avail = 1 .. Len(avail) /\ Len(avail) \in Nat
  BY LenProperties DEF QueueInv, TypeOK
<1>2. \A i \in 1 .. Len(avail) : avail[i] \in Elems(avail) /\ avail[i] \in Allocated
  BY <1>1 DEF Elems, QueueInv, OwnerInv, OnRing
<1>3. \A i \in 1 .. Len(avail) : heap[avail[i]].req \in Requests
  BY <1>2 DEF QueueInv, TypeOK, Allocated, Cell
<1>4. Line \in [1 .. Len(avail) -> Requests]
  BY <1>1, <1>3 DEF Line
<1>5. Line \in Seq(Requests)
  BY <1>1, <1>4, SeqDef
<1>6. Len(Line) = Len(avail)
  BY <1>1, <1>4, <1>5, LenProperties
<1> QED
  BY <1>1, <1>2, <1>5, <1>6 DEF Line, LineInv

(* ... which nothing but Send and Process changes.                         *)
LEMMA LineStays ==
  ASSUME QueueInv, UNCHANGED avail,
         \A t \in Elems(avail) : heap'[t].req = heap[t].req
  PROVE  UNCHANGED Line
BY LineIsSeq DEF LineInv, Line, Elems

(* A request put on the ring begins a call.                                *)
LEMMA SendBegins ==
  ASSUME QueueInv, QueueInv', NEW c \in Callers, Send(c)
  PROVE  Calls!Begin(c)
<1>1. PICK t \in Tokens :
        /\ heap[t] = None
        /\ heap' = [heap EXCEPT ![t] = [req |-> <<c, made[c] + 1>>, done |-> FALSE,
                                        abandoned |-> FALSE, answer |-> None]]
        /\ avail' = Append(avail, t)
  BY DEF Send
<1>2. /\ pc[c] = "idle" /\ made' = [made EXCEPT ![c] = @ + 1]
      /\ pc' = [pc EXCEPT ![c] = IF quiet THEN "waiting" ELSE "notify"]
      /\ UNCHANGED told
  BY DEF Send
<1>3. /\ heap'[t].req = <<c, made'[c]>> /\ heap'[t].answer = None
      /\ \A u \in Tokens : u # t => heap'[u] = heap[u]
  BY <1>1, <1>2 DEF QueueInv, TypeOK
<1>4. c \notin Busy /\ Busy' = Busy \cup {c}
  BY <1>2 DEF Busy, QueueInv, TypeOK
<1>5. Line' = Append(Line, <<c, made'[c]>>)
  <2> DEFINE q == <<c, made'[c]>>
  <2>1. /\ Len(avail') = Len(avail) + 1 /\ avail'[Len(avail) + 1] = t
        /\ \A i \in 1 .. Len(avail) : avail'[i] = avail[i]
    BY <1>1, AppendProperties DEF QueueInv, TypeOK
  <2>2. /\ Line \in Seq(Requests) /\ Len(Line) = Len(avail) /\ Len(avail) \in Nat
        /\ \A i \in 1 .. Len(avail) : avail[i] \in Allocated /\ Line[i] = heap[avail[i]].req
    BY LineIsSeq DEF LineInv
  <2>3. /\ Line' \in Seq(Requests) /\ Len(Line') = Len(avail')
        /\ \A i \in 1 .. Len(avail') : Line'[i] = heap'[avail'[i]].req
    <3>1. LineInv'
      BY LineIsSeq, PTL
    <3> QED
      BY <3>1 DEF LineInv
  <2>4. q \in Requests
    BY <1>2 DEF Requests, QueueInv, TypeOK
  <2> HIDE DEF q
  <2>5. /\ Append(Line, q) \in Seq(Requests) /\ Len(Append(Line, q)) = Len(Line) + 1
        /\ \A i \in 1 .. Len(Line) : Append(Line, q)[i] = Line[i]
        /\ Append(Line, q)[Len(Line) + 1] = q
    BY <2>2, <2>4, AppendProperties
  <2>6. ASSUME NEW i \in 1 .. Len(avail') PROVE Line'[i] = Append(Line, q)[i]
    <3>1. CASE i = Len(avail) + 1
      BY <1>3, <2>1, <2>2, <2>3, <2>5, <3>1 DEF q
    <3>2. CASE i \in 1 .. Len(avail)
      <4>1. avail'[i] = avail[i] /\ avail[i] \in Allocated
        BY <2>1, <2>2, <3>2
      <4>2. heap'[avail[i]] = heap[avail[i]]
        BY <1>1, <1>3, <4>1 DEF Allocated
      <4> QED
        BY <2>2, <2>3, <2>5, <3>2, <4>1, <4>2
    <3> QED
      BY <2>1, <2>2, <3>1, <3>2
  <2>7. Line' = Append(Line, q)
    BY <2>1, <2>2, <2>3, <2>5, <2>6, SeqEqual
  <2> QED
    BY <2>7 DEF q
<1>6. Ready' = Ready
  BY <1>1, <1>3 DEF Ready
<1> QED
  BY <1>2, <1>4, <1>5, <1>6 DEF Calls!Begin, Busy, Line, Ready

(* The backend serves the request that is first in line.                   *)
LEMMA ProcessServes ==
  ASSUME QueueInv, QueueInv', Process
  PROVE  Calls!Serve
<1> DEFINE h == Head(avail)
<1>1. /\ avail # <<>> /\ avail' = Tail(avail) /\ UNCHANGED <<made, pc, told>>
      /\ avail \in Seq(Tokens) /\ Distinct(avail)
  BY DEF Process, QueueInv, TypeOK, RingInv
<1>2. /\ Len(avail) \in Nat \ {0} /\ Len(avail') = Len(avail) - 1
      /\ h = avail[1] /\ \A i \in 1 .. Len(avail') : avail'[i] = avail[i + 1]
      /\ h \in Elems(avail) /\ Elems(avail') = Elems(avail) \ {h}
  BY <1>1, HeadTailProperties, EmptySeq, TailElems
<1>3. /\ Allocated' = Allocated /\ h \in Allocated
      /\ \A t \in Allocated : heap'[t].req = heap[t].req
  BY ProcessKeeps
<1>4. LineInv /\ LineInv'
  BY LineIsSeq, PTL
<1>5. Line # <<>> /\ Head(Line) = heap[h].req
  BY <1>2, <1>4, EmptySeq DEF LineInv
<1>6. Line' = Tail(Line)
  <2>1. /\ Tail(Line) \in Seq(Requests) /\ Len(Tail(Line)) = Len(avail) - 1
        /\ \A i \in 1 .. Len(avail) - 1 : Tail(Line)[i] = Line[i + 1]
    BY <1>4, <1>5, HeadTailProperties DEF LineInv
  <2>2. \A i \in 1 .. Len(avail) - 1 : Line'[i] = Line[i + 1]
    BY <1>2, <1>3, <1>4 DEF LineInv
  <2> QED
    BY <1>2, <1>4, <2>1, <2>2, SeqEqual DEF LineInv
<1>7. Ready' = Ready \cup {Head(Line)}
  <2>1. Allocated' \ Elems(avail') = (Allocated \ Elems(avail)) \cup {h}
    BY <1>2, <1>3
  <2>2. ReadyInv
    BY ReadyIsServed
  <2>3. ReadyInv'
    BY ReadyIsServed, PTL
  <2> QED
    BY <1>3, <1>5, <2>1, <2>2, <2>3 DEF ReadyInv
<1> QED
  BY <1>1, <1>5, <1>6, <1>7 DEF Calls!Serve, Line, Ready

(* A caller that is woken has the answer to its own call.                  *)
LEMMA FinishSucceeds ==
  ASSUME QueueInv, QueueInv', NEW c \in Callers, Finish(c)
  PROVE  Calls!Succeed(c)
<1> DEFINE k == token[c]
           q == <<c, made[c]>>
<1>1. /\ pc[c] = "copy" /\ UNCHANGED <<made, avail>>
      /\ told' = [told EXCEPT ![c] = heap[k].answer]
      /\ pc' = [pc EXCEPT ![c] = "idle"]
  BY DEF Finish
<1>2. /\ k \in Allocated /\ Allocated' = Allocated \ {k} /\ k \notin OnRing
      /\ heap[k].answer = q /\ heap[k].req = q
      /\ \A u \in Allocated' : heap'[u] = heap[u]
  BY FinishKeeps
<1>3. c \in Busy /\ Busy' = Busy \ {c}
  BY <1>1 DEF Busy, QueueInv, TypeOK
<1>4. Line' = Line
  <2>1. \A u \in Elems(avail) : u \in Allocated'
    BY <1>2 DEF QueueInv, OwnerInv, OnRing
  <2> QED
    BY <1>1, <1>2, <2>1, LineStays
<1>5. q \in Ready /\ Ready' = Ready \ {q}
  <2>1. ReadyInv
    BY ReadyIsServed
  <2>2. ReadyInv'
    BY ReadyIsServed, PTL
  <2>3. \A u \in Allocated : u # k => heap[u].req # q
    BY <1>2 DEF QueueInv, CallInv
  <2> HIDE DEF k, q
  <2> QED
    BY <1>1, <1>2, <2>1, <2>2, <2>3 DEF ReadyInv, OnRing
<1> QED
  BY <1>1, <1>2, <1>3, <1>4, <1>5 DEF Calls!Succeed, Busy, Line, Ready

(* A caller that leaves fails, or goes on to copy its answer.              *)
LEMMA SettleFails ==
  ASSUME QueueInv, QueueInv', NEW c \in Callers, Settle(c)
  PROVE  Calls!Fail(c) \/ UNCHANGED <<made, Busy, Line, Ready, told>>
<1>1. /\ UNCHANGED <<made, avail>>
      /\ pc[c] \in {"woken", "late"}
      /\ \/ pc' = [pc EXCEPT ![c] = "idle"] /\ told' = [told EXCEPT ![c] = None]
         \/ pc' = [pc EXCEPT ![c] = "copy"] /\ UNCHANGED told
  BY DEF Settle
<1>2. /\ Allocated' = Allocated
      /\ \A t \in Allocated : heap'[t].req = heap[t].req /\ heap'[t].answer = heap[t].answer
  BY SettleKeeps
<1>3. Line' = Line
  BY <1>1, <1>2, LineStays DEF QueueInv, OwnerInv, OnRing
<1>4. Ready' = Ready
  BY <1>2 DEF Ready, Allocated
<1>5. c \in Busy
  BY <1>1 DEF Busy
<1>6. CASE pc' = [pc EXCEPT ![c] = "idle"] /\ told' = [told EXCEPT ![c] = None]
  <2>1. Busy' = Busy \ {c}
    BY <1>1, <1>6 DEF Busy, QueueInv, TypeOK
  <2> QED
    BY <1>1, <1>3, <1>4, <1>5, <1>6, <2>1 DEF Calls!Fail, Busy, Line, Ready
<1>7. CASE pc' = [pc EXCEPT ![c] = "copy"] /\ UNCHANGED told
  <2>1. Busy' = Busy
    BY <1>1, <1>7 DEF Busy, QueueInv, TypeOK
  <2> QED
    BY <1>1, <1>3, <1>4, <1>7, <2>1
<1> QED
  BY <1>1, <1>6, <1>7

(* The answers that the drain frees are those of callers that have left.   *)
LEMMA DrainDrops ==
  ASSUME QueueInv, QueueInv', heap' = Drained, used' = <<>>,
         UNCHANGED <<pc, made, token, told, avail, quiet, kicked, dev, idx>>, irq' \in BOOLEAN
  PROVE  Calls!Drop
<1> DEFINE left == {t \in Elems(used) : heap[t].abandoned}
           R == {heap[t].req : t \in left}
<1>1. /\ Allocated' = Allocated \ left
      /\ \A t \in Allocated' : heap'[t].req = heap[t].req
  BY DrainKeeps
<1>2. left \subseteq Allocated \ Elems(avail)
  BY DEF QueueInv, OwnerInv, OnRing, RingInv
<1>3. Line' = Line
  <2>1. \A t \in Elems(avail) : t \in Allocated'
    BY <1>1, <1>2 DEF QueueInv, OwnerInv, OnRing
  <2> QED
    BY <1>1, <2>1, LineStays
<1>4. Ready' = Ready \ R /\ R \subseteq Ready
  <2>1. ReadyInv
    BY ReadyIsServed
  <2>2. ReadyInv'
    BY ReadyIsServed, PTL
  <2>3. \A t, u \in Allocated : t # u => heap[t].req # heap[u].req
    BY DEF QueueInv, CallInv
  <2> QED
    BY <1>1, <1>2, <2>1, <2>2, <2>3 DEF ReadyInv
<1>5. ASSUME NEW c \in Busy PROVE <<c, made[c]>> \notin R
  <2>1. token[c] \in Held /\ token[c] \in Allocated /\ heap[token[c]].req = <<c, made[c]>>
    BY DEF Busy, QueueInv, CallerInv, OwnerInv, Held
  <2>2. token[c] \notin left
    BY <1>2, <2>1 DEF QueueInv, CellInv
  <2> QED
    BY <1>2, <2>1, <2>2 DEF QueueInv, CallInv
<1>6. Busy' = Busy
  BY DEF Busy
<1>7. UNCHANGED <<made, told>>
  OBVIOUS
<1> HIDE DEF R
<1> QED
  BY <1>3, <1>4, <1>5, <1>6, <1>7 DEF Calls!Drop, Busy, Line, Ready

(* Every step of the queue is one of Rpc's, or none.                       *)
LEMMA StepIsCall ==
  ASSUME QueueInv, QueueInv', [Next]_vars
  PROVE  [Calls!Next]_<<made, Busy, Line, Ready, told>>
<1> DEFINE abs == <<made, Busy, Line, Ready, told>>
<1>1. ASSUME NEW c \in Callers, Send(c) \/ Finish(c) PROVE Calls!Next
  BY <1>1, SendBegins, FinishSucceeds DEF Calls!Next
<1>2. ASSUME NEW c \in Callers, Settle(c) PROVE [Calls!Next]_abs
  BY <1>2, SettleFails DEF Calls!Next
<1>3. ASSUME NEW c \in Callers, SendFails(c) PROVE Calls!Next
  <2>1. Line' = Line
    BY <1>3, LineStays DEF SendFails
  <2>2. Busy' = Busy /\ Ready' = Ready /\ c \notin Busy
    BY <1>3 DEF SendFails, Busy, Ready
  <2>3. Calls!Refuse(c)
    BY <1>3, <2>1, <2>2 DEF SendFails, Calls!Refuse, Busy, Line, Ready
  <2> QED
    BY <2>3 DEF Calls!Next
<1>4. ASSUME NEW c \in Callers, Notify(c) \/ Wake(c) \/ StopWaiting(c) PROVE UNCHANGED abs
  <2>1. UNCHANGED <<made, heap, avail, told>>
    BY <1>4 DEF Notify, Wake, StopWaiting
  <2>2. Busy' = Busy
    BY <1>4 DEF Notify, Wake, StopWaiting, Busy, QueueInv, TypeOK
  <2> QED
    BY <2>1, <2>2, LineStays DEF Ready
<1>5. ASSUME (\E c \in Callers : Spin(c)) \/ Interrupt PROVE Calls!Next
  <2>1. /\ heap' = Drained /\ used' = <<>> /\ irq' \in BOOLEAN
        /\ UNCHANGED <<pc, made, token, told, avail, quiet, kicked, dev, idx>>
    BY <1>5 DEF Spin, Interrupt, QueueInv, TypeOK
  <2> QED
    BY <2>1, DrainDrops DEF Calls!Next
<1>6. CASE Process
  BY <1>6, ProcessServes DEF Calls!Next
<1>7. ASSUME TakeKick \/ Hang \/ Empty \/ Rearm \/ Signal \/ UNCHANGED vars PROVE UNCHANGED abs
  <2>1. UNCHANGED <<pc, made, heap, avail, told>>
    BY <1>7 DEF TakeKick, Hang, Empty, Rearm, Signal, vars, guest
  <2> QED
    BY <2>1, LineStays DEF Ready, Busy
<1> QED
  BY <1>1, <1>2, <1>3, <1>4, <1>5, <1>6, <1>7 DEF Next

(* A call that succeeds returns its own answer, and calls are served once  *)
(* and in order, also those whose caller has left.                         *)
THEOREM QueueImplementsRpc == Spec => ImplementsRpc
<1>1. Init => Calls!Init
  <2> SUFFICES ASSUME Init PROVE Calls!Init
    OBVIOUS
  <2>1. Line = <<>> /\ Busy = {} /\ Ready = {}
    BY DEF Init, Line, Busy, Ready
  <2> QED
    BY <2>1 DEF Init, Calls!Init, Line, Busy, Ready
<1>2. QueueInv /\ QueueInv' /\ [Next]_vars => [Calls!Next]_Calls!vars
  BY StepIsCall DEF Calls!vars, Busy, Line, Ready
<1> QED
  BY <1>1, <1>2, QueueInvariant, PTL DEF Spec, ImplementsRpc, Calls!Spec

=============================================================================
