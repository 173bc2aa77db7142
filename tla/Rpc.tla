-------------------------------- MODULE Rpc --------------------------------
(***************************************************************************)
(* What the guest driver's nvgpu_send_recv promises its callers: a call    *)
(* that succeeds returns the answer to that very call.  One that fails may *)
(* never have been made, or may be made after its caller has left; calls   *)
(* are made once at most and in the order they were put in line.           *)
(***************************************************************************)
EXTENDS Naturals, Sequences

CONSTANTS
  Callers,
  None      \* an error

VARIABLES
  made,    \* calls each caller has begun
  busy,    \* callers inside a call
  line,    \* requests <<caller, number>> not served yet
  ready,   \* requests served whose answer is still kept
  told     \* the answer each caller's last call returned, None for an error

vars == <<made, busy, line, ready, told>>

Init ==
  /\ made = [c \in Callers |-> 0]
  /\ busy = {}
  /\ line = <<>>
  /\ ready = {}
  /\ told = [c \in Callers |-> None]

Begin(c) ==
  /\ c \notin busy
  /\ made' = [made EXCEPT ![c] = @ + 1]
  /\ busy' = busy \cup {c}
  /\ line' = Append(line, <<c, made'[c]>>)
  /\ UNCHANGED <<ready, told>>

Refuse(c) ==
  /\ c \notin busy
  /\ made' = [made EXCEPT ![c] = @ + 1]
  /\ told' = [told EXCEPT ![c] = None]
  /\ UNCHANGED <<busy, line, ready>>

Serve ==
  /\ line # <<>>
  /\ line' = Tail(line)
  /\ ready' = ready \cup {Head(line)}
  /\ UNCHANGED <<made, busy, told>>

Succeed(c) ==
  /\ c \in busy
  /\ <<c, made[c]>> \in ready
  /\ told' = [told EXCEPT ![c] = <<c, made[c]>>]
  /\ busy' = busy \ {c}
  /\ ready' = ready \ {<<c, made[c]>>}
  /\ UNCHANGED <<made, line>>

Fail(c) ==
  /\ c \in busy
  /\ told' = [told EXCEPT ![c] = None]
  /\ busy' = busy \ {c}
  /\ UNCHANGED <<made, line, ready>>

\* Answers that nobody waits for are dropped.
Drop ==
  \E R \in SUBSET ready :
    /\ \A c \in busy : <<c, made[c]>> \notin R
    /\ ready' = ready \ R
    /\ UNCHANGED <<made, busy, line, told>>

Next ==
  \/ \E c \in Callers : Begin(c) \/ Refuse(c) \/ Succeed(c) \/ Fail(c)
  \/ Serve
  \/ Drop

Spec == Init /\ [][Next]_vars

=============================================================================
