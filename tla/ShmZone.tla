------------------------------- MODULE ShmZone -------------------------------
(***************************************************************************)
(* One page-protection zone of the shared window in use                    *)
(* (device/src/shm.rs): callers are handed regions by ShmAllocator::alloc  *)
(* and give them back through ShmAllocator::free.  A region keeps the      *)
(* length it was asked with; the zone rounds it to whole pages on the way  *)
(* in and, again, on the way out.                                          *)
(*                                                                         *)
(* Offsets are relative to the base of the zone.                           *)
(***************************************************************************)
EXTENDS Extents, FiniteSets

CONSTANTS
  Size,      \* bytes in the zone
  Lengths    \* lengths callers ask for: any u64

ASSUME ShmZoneAssumption ==
  /\ Size \in Nat
  /\ Size < WordSize
  /\ Lengths \subseteq 0 .. WordSize - 1

VARIABLES
  free,    \* the zone's free list
  live,    \* regions callers hold
  last,    \* the region most recently given back, if a caller still names it
  asked,   \* bytes in the whole pages the last call asked for, 0 if it gave back
  reply    \* what the last call answered

vars == <<free, live, last, asked, reply>>

Region == [start : Nat, len : Nat]

\* The whole pages a region stands for.
Pages(r) == [start |-> r.start, len |-> AlignUp(r.len)]

Init ==
  /\ free = IF Size > 0 THEN {[start |-> 0, len |-> Size]} ELSE {}
  /\ live = {}
  /\ last = {}
  /\ asked = 0
  /\ reply = "none"

\* Mutant: the length is not rounded to whole pages.
Alloc_Unrounded(len) ==
  /\ CanAlloc(free, len)
  /\ free' = AfterAlloc(free, len)
  /\ live' = live \cup {[start |-> AllocStart(free, len), len |-> len]}
  /\ asked' = len
  /\ reply' = "granted"
  /\ UNCHANGED last

\* ShmAllocator::alloc finds room.
Alloc(len) ==
  /\ CanAlloc(free, AlignUp(len))
  /\ free' = AfterAlloc(free, AlignUp(len))
  /\ live' = live \cup {[start |-> AllocStart(free, AlignUp(len)), len |-> len]}
  /\ asked' = AlignUp(len)
  /\ reply' = "granted"
  /\ UNCHANGED last

\* ShmAllocator::alloc reports OutOfMemory.
AllocFails(len) ==
  /\ ~ CanAlloc(free, AlignUp(len))
  /\ asked' = AlignUp(len)
  /\ reply' = "refused"
  /\ UNCHANGED <<free, live, last>>

\* ShmAllocator::free by the region's holder.
Free(r) ==
  /\ r \in live
  /\ LET want == AlignUp(r.len) IN
     IF CanFree(free, Size, r.start, want)
     THEN free' = AfterFree(free, r.start, want) /\ reply' = "released"
     ELSE UNCHANGED free /\ reply' = "rejected"
  /\ live' = live \ {r}
  /\ last' = {r}
  /\ asked' = 0

\* ShmAllocator::free again, by a caller that no longer holds the region and
\* before all of its pages have been handed out once more.
FreeAgain(r) ==
  /\ r \in last
  /\ \E e \in free : ~ Apart(e, Pages(r))
  /\ LET want == AlignUp(r.len) IN
     IF CanFree(free, Size, r.start, want)
     THEN free' = AfterFree(free, r.start, want) /\ reply' = "released"
     ELSE UNCHANGED free /\ reply' = "rejected"
  /\ last' = {}
  /\ asked' = 0
  /\ UNCHANGED live

Next ==
  \/ \E len \in Lengths : Alloc(len) \/ AllocFails(len)
  \/ \E r \in live : Free(r)
  \/ \E r \in last : FreeAgain(r)

Spec == Init /\ [][Next]_vars

----------------------------------------------------------------------------
(* Every extent of the free list and every region held lies in the zone.   *)
TypeOK ==
  /\ free \subseteq Extent
  /\ \A e \in free : End(e) <= Size
  /\ live \subseteq Region
  /\ \A r \in live : Pages(r).len # 0 /\ End(Pages(r)) <= Size
  /\ last \subseteq Region
  /\ asked \in Nat
  /\ reply \in {"none", "granted", "refused", "released", "rejected"}

(* Exclusive: no byte is free and held, or held twice.  Alloc splits an    *)
(* extent and free_extent joins up to three; a length rounded one way in   *)
(* the first and another way in the second would break it.                 *)
Exclusive ==
  /\ Disjoint(free)
  /\ \A r \in live, e \in free : Apart(Pages(r), e)
  /\ \A r, s \in live : r # s => Apart(Pages(r), Pages(s))

(* NothingLost: every byte of the zone is free or held.  The bump          *)
(* allocator this replaced broke it: pages of a region given back were     *)
(* never seen again.                                                       *)
NothingLost ==
  \A b \in 0 .. Size - 1 :
    \/ \E e \in free : Covers(e, b)
    \/ \E r \in live : Covers(Pages(r), b)

(* Coalesced: no two free extents touch, which is what "kept disjoint and  *)
(* coalesced" on Zone.free says.                                           *)
Coalesced == Separated(free)

(* NoFragmentation: free_extent's merging leaves no trace of the order in  *)
(* which regions came and went - whenever a run of bytes long enough for a *)
(* request is held by nobody, one entry of the free list satisfies it.     *)
NoFragmentation ==
  \A want \in 1 .. Size, start \in 0 .. Size :
    (/\ start + want <= Size
     /\ \A r \in live : Apart([start |-> start, len |-> want], Pages(r)))
    => Fitting(free, want) # {}

(* HolderIsHeard: the holder of a region is never told that it is out of   *)
(* range or already free.                                                  *)
HolderIsHeard == [][\A r \in live : Free(r) => reply' = "released"]_vars

(* DoubleFreeRefused: giving back pages of which any is already free       *)
(* changes nothing, however the pages round them were split and merged     *)
(* since.                                                                  *)
DoubleFreeRefused ==
  [][\A r \in last : FreeAgain(r) => reply' = "rejected" /\ UNCHANGED free]_vars

(* ImplementsPool: first fit over a coalesced list is one way to keep the  *)
(* pool's promise.                                                         *)
Pool == INSTANCE ExtentPool WITH live <- {Pages(r) : r \in live}, told <- reply

ImplementsPool == Pool!Spec

=============================================================================
