----------------------------- MODULE ExtentPool -----------------------------
(***************************************************************************)
(* What a zone of the shared window promises its callers, whatever its     *)
(* free list looks like: a byte is handed out to one caller at a time, and *)
(* a caller gives back exactly what it was given.  A request is refused    *)
(* only when no run of bytes that nobody holds is long enough for it.      *)
(***************************************************************************)
EXTENDS Extents

CONSTANT Size   \* bytes in the pool

VARIABLES
  live,   \* the extents callers hold
  asked,  \* bytes the last request asked for, 0 if something was given back
  told    \* what it was told

Init == live = {} /\ asked = 0 /\ told = "none"

\* Nobody holds any byte of e.
Vacant(e) == End(e) <= Size /\ \A l \in live : Apart(e, l)

Grant(e) ==
  /\ Vacant(e)
  /\ live' = live \cup {e}
  /\ asked' = e.len
  /\ told' = "granted"

Refuse(want) ==
  /\ want # 0 => \A start \in 0 .. Size : ~ Vacant([start |-> start, len |-> want])
  /\ asked' = want
  /\ told' = "refused"
  /\ UNCHANGED live

Release(e) ==
  /\ live' = live \ {e}
  /\ asked' = 0
  /\ told' = "released"

\* Somebody tried to give back what is not theirs.
Reject ==
  /\ asked' = 0
  /\ told' = "rejected"
  /\ UNCHANGED live

Next ==
  \/ \E start \in 0 .. Size, len \in 1 .. Size : Grant([start |-> start, len |-> len])
  \/ \E want \in 0 .. WordSize - 1 : Refuse(want)
  \/ \E e \in live : Release(e)
  \/ Reject

Spec == Init /\ [][Next]_<<live, asked, told>>

=============================================================================
