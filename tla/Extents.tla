------------------------------ MODULE Extents ------------------------------
(***************************************************************************)
(* The free list of one page-protection zone of the shared window          *)
(* (device/src/shm.rs, struct Zone): a BTreeMap from the start of a free   *)
(* extent to its length, both in bytes and relative to the zone's base.    *)
(* A free list is represented by the set of its entries.                   *)
(*                                                                         *)
(* The module has no state: ShmZone puts one zone into motion, WindowMaps  *)
(* uses the same operators for the zones of the whole window.              *)
(***************************************************************************)
EXTENDS Integers

CONSTANTS
  PageSize,   \* bytes in a page: every extent handed out covers whole pages
  WordSize    \* 2^64 in the program: u64 arithmetic wraps modulo WordSize

ASSUME ExtentsAssumption ==
  /\ PageSize \in Nat \ {0}
  /\ WordSize \in Nat \ {0}

Extent == [start : Nat, len : Nat \ {0}]

End(e) == e.start + e.len

\* No byte belongs to both extents.
Apart(e, f) == End(e) <= f.start \/ End(f) <= e.start

Covers(e, b) == e.start <= b /\ b < End(e)

Disjoint(F) == \A e, f \in F : e # f => Apart(e, f)

\* No extent ends where one starts.
Separated(F) == \A e, f \in F : End(e) # f.start

(***************************************************************************)
(* align_up(v, PAGE_SIZE): the addition is u64 addition, so a length in    *)
(* the last page of the word wraps round to zero.                          *)
(***************************************************************************)
AlignUp(v) ==
  LET sum == (v + (PageSize - 1)) % WordSize
  IN  sum - (sum % PageSize)

----------------------------------------------------------------------------
(* Zone::alloc *)

\* Mutant: only the first extent is tried.
Fitting_First(free, want) ==
  {e \in free : e.len >= want /\ \A f \in free : e.start <= f.start}

Fitting(free, want) == {e \in free : e.len >= want}

\* The BTreeMap is searched in the order of its keys.
Lowest(S) == CHOOSE e \in S : \A f \in S : e.start <= f.start

\* Mutant: a length of zero, or one that wrapped to it, is not refused.
CanAlloc_Zero(free, want) == Fitting(free, want) # {}

CanAlloc(free, want) == want # 0 /\ Fitting(free, want) # {}

AllocStart(free, want) == Lowest(Fitting(free, want)).start

\* Mutant: what is left of the extent is not put back.
Remainder_Dropped(e, want) == {}

\* What is left of extent e once its first `want` bytes are handed out.
Remainder(e, want) ==
  IF e.len > want
  THEN {[start |-> e.start + want, len |-> e.len - want]}
  ELSE {}

AfterAlloc(free, want) ==
  LET e == Lowest(Fitting(free, want))
  IN  (free \ {e}) \cup Remainder(e, want)

----------------------------------------------------------------------------
(* Zone::free_extent *)

\* range(..=b).next_back() and range(b..).next(), as sets of at most one entry.
LastUpTo(free, b) ==
  {e \in free : e.start <= b /\ \A f \in free : f.start <= b => f.start <= e.start}

FirstFrom(free, b) ==
  {e \in free : e.start >= b /\ \A f \in free : f.start >= b => e.start <= f.start}

\* Mutant: an extent that starts where the range ends counts as overlapping.
CanFree_Touching(free, size, start, want) ==
  /\ want # 0 /\ start >= 0 /\ start + want <= size
  /\ \A e \in LastUpTo(free, start) : End(e) <= start
  /\ \A e \in FirstFrom(free, start) : start + want < e.start

\* Mutant: only the extent after the range is looked at.
CanFree_AboveOnly(free, size, start, want) ==
  /\ want # 0 /\ start >= 0 /\ start + want <= size
  /\ \A e \in FirstFrom(free, start) : start + want <= e.start

CanFree(free, size, start, want) ==
  /\ want # 0
  /\ start >= 0                  \* offset >= base
  /\ start + want <= size
  /\ \A e \in LastUpTo(free, start) : End(e) <= start
  /\ \A e \in FirstFrom(free, start) : start + want <= e.start

\* Mutant: the range is merged with what follows it only.
Below_Ignored(free, start) == {}

\* The neighbours the freed range is merged with.
Below(free, start) == {e \in LastUpTo(free, start - 1) : End(e) = start}

Above(free, end) == {e \in FirstFrom(free, end) : e.start = end}

AfterFree(free, start, want) ==
  LET below  == Below(free, start)
      above  == Above(free, start + want)
      lo     == IF below = {} THEN start ELSE (CHOOSE e \in below : TRUE).start
      hi     == IF above = {} THEN start + want ELSE End(CHOOSE e \in above : TRUE)
  IN  (free \ (below \cup above)) \cup {[start |-> lo, len |-> hi - lo]}

=============================================================================
