--------------------------- MODULE ShmZone_proofs ---------------------------
(***************************************************************************)
(* One zone of the shared window, of any size and under any sequence of    *)
(* requests: nothing is handed out twice and nothing is lost.              *)
(***************************************************************************)
EXTENDS ShmZone, Extents_proofs

\* The pages of a region never leave the zone, never meet a free extent or
\* another region, and with the free list they make up the zone.
ZoneInv == TypeOK /\ Exclusive /\ Coalesced /\ NothingLost

(* A length asked for, and what align_up makes of it, are numbers of bytes. *)
LEMMA LengthsAreNat == \A len \in Lengths : len \in Nat /\ AlignUp(len) \in Nat
BY ShmZoneAssumption, ExtentsAssumption, AlignUpType

(* The pages a held region stands for are an extent like those of the free *)
(* list, so that Zone::alloc and free_extent can be spoken of with one     *)
(* vocabulary.                                                             *)
LEMMA PagesAreExtents ==
  ASSUME TypeOK
  PROVE  \A r \in live : /\ Pages(r) \in Extent
                         /\ Pages(r) = [start |-> r.start, len |-> AlignUp(r.len)]
                         /\ r.start \in Nat /\ AlignUp(r.len) \in Nat
                         /\ AlignUp(r.len) # 0
                         /\ r.start + AlignUp(r.len) <= Size
<1> SUFFICES ASSUME NEW r \in live
             PROVE  /\ Pages(r) \in Extent
                    /\ r.start \in Nat /\ AlignUp(r.len) \in Nat
                    /\ AlignUp(r.len) # 0
                    /\ r.start + AlignUp(r.len) <= Size
  BY DEF Pages
<1>1. r.start \in Nat /\ AlignUp(r.len) \in Nat
  BY AlignUpType DEF TypeOK, Region
<1> QED
  BY <1>1 DEF TypeOK, Pages, End, Extent

(* Zone::new: the whole zone is one free extent.                           *)
LEMMA InitZone == Init => ZoneInv
<1> SUFFICES ASSUME Init PROVE ZoneInv
  OBVIOUS
<1>1. free \subseteq Extent /\ \A e \in free : e = [start |-> 0, len |-> Size]
  BY ShmZoneAssumption DEF Init, Extent
<1>2. TypeOK
  BY <1>1, ShmZoneAssumption DEF Init, TypeOK, End
<1>3. Exclusive /\ Coalesced
  BY <1>1, ShmZoneAssumption DEF Init, Exclusive, Coalesced, Disjoint, Separated, End, Extent
<1>4. NothingLost
  <2> SUFFICES ASSUME NEW b \in 0 .. Size - 1
               PROVE  \E e \in free : Covers(e, b)
    BY DEF NothingLost
  <2>1. [start |-> 0, len |-> Size] \in free
    BY ShmZoneAssumption DEF Init
  <2>2. Covers([start |-> 0, len |-> Size], b)
    BY ShmZoneAssumption DEF Covers, End
  <2> QED
    BY <2>1, <2>2
<1> QED
  BY <1>2, <1>3, <1>4 DEF ZoneInv

(* ShmAllocator::alloc keeps the invariant: Zone::alloc cuts the region     *)
(* from the front of one free extent.                                      *)
LEMMA AllocStep ==
  ASSUME ZoneInv, NEW len \in Lengths, Alloc(len)
  PROVE  ZoneInv'
<1> DEFINE want == AlignUp(len)
           g == [start |-> AllocStart(free, want), len |-> want]
           r == [start |-> AllocStart(free, want), len |-> len]
<1> USE DEF ZoneInv
<1>1. len \in Nat /\ want \in Nat /\ want # 0 /\ CanAlloc(free, want)
  BY LengthsAreNat DEF Alloc, CanAlloc
<1>2. /\ g \in Extent
      /\ \E e \in free : e.start = g.start /\ want <= e.len
      /\ free' \in SUBSET Extent
      /\ Disjoint(free')
      /\ Separated(free')
      /\ \A h \in free' : Apart(h, g)
      /\ \A h \in free' : \E f \in free : f.start <= h.start /\ End(h) <= End(f)
      /\ \A b \in Nat : (\E f \in free : Covers(f, b))
                          => Covers(g, b) \/ \E h \in free' : Covers(h, b)
  <2>1. free \in SUBSET Extent /\ Disjoint(free) /\ Separated(free)
    BY DEF TypeOK, Exclusive, Coalesced
  <2>2. free' = AfterAlloc(free, want) /\ g = [start |-> AllocStart(free, want), len |-> want]
    BY DEF Alloc
  <2> HIDE DEF want, g
  <2> QED
    BY <1>1, <2>1, <2>2, AllocKeepsList
<1>3. live' = live \cup {r} /\ Pages(r) = g /\ r \in Region
  BY <1>1, <1>2 DEF Alloc, Pages, Region, Extent
<1>4. PICK e \in free : e.start = g.start /\ want <= e.len
  BY <1>2
<1>5. e \in Extent /\ End(g) <= Size /\ g.len # 0 /\ g.len = want
  BY <1>1, <1>4, ShmZoneAssumption DEF TypeOK, End, Extent
<1>6. \A s \in live : Apart(Pages(s), g) /\ Pages(s) \in Extent
  <2> SUFFICES ASSUME NEW s \in live PROVE Apart(Pages(s), g) /\ Pages(s) \in Extent
    OBVIOUS
  <2>1. Pages(s) \in Extent /\ Apart(Pages(s), e)
    BY PagesAreExtents DEF Exclusive
  <2> HIDE DEF g, want
  <2> QED
    BY <1>1, <1>2, <1>4, <1>5, <2>1 DEF Apart, End, Extent
<1>7. TypeOK'
  <2>1. \A h \in free' : End(h) <= Size
    BY <1>2, ShmZoneAssumption DEF TypeOK, End, Extent
  <2>2. \A s \in live' : Pages(s).len # 0 /\ End(Pages(s)) <= Size
    BY <1>3, <1>5 DEF TypeOK
  <2>3. asked' \in Nat
    BY <1>1 DEF Alloc
  <2> QED
    BY <1>2, <1>3, <2>1, <2>2, <2>3 DEF TypeOK, Alloc
<1>8. Exclusive'
  <2>1. \A s \in live, h \in free' : Apart(Pages(s), h)
    <3> SUFFICES ASSUME NEW s \in live, NEW h \in free' PROVE Apart(Pages(s), h)
      OBVIOUS
    <3>1. PICK f \in free : f.start <= h.start /\ End(h) <= End(f)
      BY <1>2
    <3>2. Apart(Pages(s), f) /\ f \in Extent /\ h \in Extent /\ Pages(s) \in Extent
      BY <1>2, <1>6 DEF Exclusive, TypeOK
    <3> QED
      BY <3>1, <3>2 DEF Apart, End, Extent
  <2>2. \A s \in live', h \in free' : Apart(Pages(s), h)
    BY <1>2, <1>3, <2>1 DEF Apart
  <2>3. \A s, t \in live' : s # t => Apart(Pages(s), Pages(t))
    BY <1>3, <1>6 DEF Exclusive, Apart
  <2> QED
    BY <1>2, <2>2, <2>3 DEF Exclusive
<1>9. NothingLost'
  BY <1>2, <1>3, ShmZoneAssumption DEF NothingLost
<1> QED
  BY <1>2, <1>7, <1>8, <1>9 DEF Coalesced

(* A region's holder passes both of free_extent's checks.                  *)
LEMMA HolderPasses ==
  ASSUME ZoneInv, NEW r \in live
  PROVE  CanFree(free, Size, r.start, AlignUp(r.len))
<1> DEFINE want == AlignUp(r.len)
<1>1. /\ Pages(r) = [start |-> r.start, len |-> want]
      /\ r.start \in Nat /\ want \in Nat /\ want # 0 /\ r.start + want <= Size
  BY PagesAreExtents DEF ZoneInv
<1>2. \A e \in free : Apart(e, [start |-> r.start, len |-> want])
  BY <1>1 DEF ZoneInv, Exclusive, Apart
<1>3. free \in SUBSET Extent /\ Disjoint(free)
  BY DEF ZoneInv, TypeOK, Exclusive
<1> QED
  BY <1>1, <1>2, <1>3, FreeCheckIsExact, ShmZoneAssumption

(* ShmAllocator::free by the holder keeps the invariant: the region's pages *)
(* go back to the list whole.                                              *)
LEMMA FreeStep ==
  ASSUME ZoneInv, NEW r \in live, Free(r)
  PROVE  ZoneInv'
<1> DEFINE want == AlignUp(r.len)
           g == Pages(r)
<1> USE DEF ZoneInv
<1>1. /\ g \in Extent
      /\ g = [start |-> r.start, len |-> want]
      /\ r.start \in Nat /\ want \in Nat /\ want # 0 /\ r.start + want <= Size
  BY PagesAreExtents
<1>2. free' = AfterFree(free, r.start, want) /\ live' = live \ {r}
  BY HolderPasses DEF Free
<1>3. free \in SUBSET Extent /\ Disjoint(free) /\ Separated(free)
  BY DEF TypeOK, Exclusive, Coalesced
<1>4. \A e \in free : Apart(e, g)
  BY DEF Exclusive, Apart
<1>5. /\ free' \in SUBSET Extent
      /\ Disjoint(free')
      /\ Separated(free')
      /\ \A b \in Nat : (\E h \in free' : Covers(h, b))
                          <=> (Covers(g, b) \/ \E f \in free : Covers(f, b))
      /\ \A x \in Extent : Apart(x, g) /\ (\A f \in free : Apart(x, f))
                             => \A h \in free' : Apart(x, h)
      /\ \A n \in Nat : End(g) <= n /\ (\A f \in free : End(f) <= n)
                          => \A h \in free' : End(h) <= n
  <2> HIDE DEF want, g
  <2> QED
    BY <1>1, <1>2, <1>3, <1>4, FreeKeepsList
<1>6. TypeOK'
  <2>1. \A h \in free' : End(h) <= Size
    BY <1>5, ShmZoneAssumption DEF TypeOK
  <2>2. last' \subseteq Region /\ asked' \in Nat /\ reply' \in {"released", "rejected"}
    BY DEF Free, TypeOK
  <2> QED
    BY <1>2, <1>5, <2>1, <2>2 DEF TypeOK
<1>7. Exclusive'
  <2>1. \A s \in live' : Pages(s) \in Extent /\ Apart(Pages(s), g)
    BY <1>2, PagesAreExtents DEF Exclusive
  <2>2. \A s \in live', h \in free' : Apart(Pages(s), h)
    BY <1>2, <1>5, <2>1 DEF Exclusive
  <2> QED
    BY <1>2, <1>5, <2>2 DEF Exclusive
<1>8. NothingLost'
  BY <1>2, <1>5, ShmZoneAssumption DEF NothingLost
<1> QED
  BY <1>5, <1>6, <1>7, <1>8 DEF Coalesced

(* Pages of which any is free already do not pass.                         *)
LEMMA FreedTwiceFails ==
  ASSUME ZoneInv, NEW r \in last, FreeAgain(r)
  PROVE  ~ CanFree(free, Size, r.start, AlignUp(r.len))
<1> DEFINE want == AlignUp(r.len)
<1>1. r.start \in Nat /\ want \in Nat
  BY AlignUpType DEF ZoneInv, TypeOK, Region
<1>2. PICK e \in free : ~ Apart(e, [start |-> r.start, len |-> want])
  BY DEF FreeAgain, Pages
<1>3. free \in SUBSET Extent /\ Disjoint(free)
  BY DEF ZoneInv, TypeOK, Exclusive
<1>4. CASE want # 0 /\ r.start + want <= Size
  BY <1>1, <1>2, <1>3, <1>4, FreeCheckIsExact, ShmZoneAssumption
<1>5. CASE ~ (want # 0 /\ r.start + want <= Size)
  BY <1>5 DEF CanFree
<1> QED
  BY <1>4, <1>5

(* ShmAllocator::free by a caller that no longer holds the region is        *)
(* refused and changes nothing.                                            *)
LEMMA FreeAgainStep ==
  ASSUME ZoneInv, NEW r \in last, FreeAgain(r)
  PROVE  UNCHANGED <<free, live>> /\ asked' = 0 /\ reply' = "rejected" /\ ZoneInv'
<1>1. UNCHANGED <<free, live>> /\ reply' = "rejected" /\ last' = {} /\ asked' = 0
  BY FreedTwiceFails DEF FreeAgain
<1> QED
  BY <1>1 DEF ZoneInv, TypeOK, Exclusive, Coalesced, NothingLost

(* Every call on the zone keeps the invariant.                             *)
LEMMA NextZone == ZoneInv /\ [Next]_vars => ZoneInv'
<1> SUFFICES ASSUME ZoneInv, [Next]_vars PROVE ZoneInv'
  OBVIOUS
<1>1. ASSUME NEW len \in Lengths, Alloc(len) PROVE ZoneInv'
  BY <1>1, AllocStep
<1>2. ASSUME NEW len \in Lengths, AllocFails(len) PROVE ZoneInv'
  BY <1>2, LengthsAreNat DEF AllocFails, ZoneInv, TypeOK, Exclusive, Coalesced, NothingLost
<1>3. ASSUME NEW r \in live, Free(r) PROVE ZoneInv'
  BY <1>3, FreeStep
<1>4. ASSUME NEW r \in last, FreeAgain(r) PROVE ZoneInv'
  BY <1>4, FreeAgainStep
<1>5. CASE UNCHANGED vars
  BY <1>5 DEF vars, ZoneInv, TypeOK, Exclusive, Coalesced, NothingLost
<1> QED
  BY <1>1, <1>2, <1>3, <1>4, <1>5 DEF Next

(* What ShmAllocator keeps true of a zone between any two calls.           *)
THEOREM ZoneInvariant == Spec => []ZoneInv
BY InitZone, NextZone, PTL DEF Spec

(* Type correctness of the zone.                                           *)
THEOREM ZoneTypeCorrect == Spec => []TypeOK
<1>1. ZoneInv => TypeOK
  BY DEF ZoneInv
<1> QED
  BY <1>1, ZoneInvariant, PTL

(* No byte of the zone is ever free and held, or held twice.               *)
THEOREM ZoneExclusive == Spec => []Exclusive
<1>1. ZoneInv => Exclusive
  BY DEF ZoneInv
<1> QED
  BY <1>1, ZoneInvariant, PTL

(* Every byte of the zone is always free or held.                          *)
THEOREM ZoneLosesNothing == Spec => []NothingLost
<1>1. ZoneInv => NothingLost
  BY DEF ZoneInv
<1> QED
  BY <1>1, ZoneInvariant, PTL

(* Merging leaves no trace: a request for a run of bytes nobody holds is   *)
(* satisfied.  The run starts in a free extent that, were it too short,    *)
(* would end where another free extent starts.                             *)
LEMMA CoalescedFits == ZoneInv => NoFragmentation
<1> SUFFICES ASSUME ZoneInv, NEW want \in 1 .. Size, NEW start \in 0 .. Size,
                    start + want <= Size,
                    \A r \in live : Apart([start |-> start, len |-> want], Pages(r))
             PROVE  \E e \in free : e.len >= want
  BY DEF NoFragmentation, Fitting
<1> USE ShmZoneAssumption
<1>1. \A b \in start .. start + want - 1 : \E e \in free : Covers(e, b)
  <2> SUFFICES ASSUME NEW b \in start .. start + want - 1,
                      NEW r \in live, Covers(Pages(r), b)
               PROVE  FALSE
    BY DEF ZoneInv, NothingLost
  <2> QED
    BY PagesAreExtents DEF ZoneInv, Covers, Apart, End, Extent
<1>2. PICK e \in free : Covers(e, start)
  BY <1>1
<1>3. e \in Extent
  BY DEF ZoneInv, TypeOK
<1>4. ASSUME e.len < want PROVE FALSE
  <2>1. End(e) \in start .. start + want - 1
    BY <1>2, <1>3, <1>4 DEF Covers, End, Extent
  <2>2. PICK f \in free : Covers(f, End(e))
    BY <1>1, <2>1
  <2>3. f \in Extent /\ f # e
    BY <1>3, <2>2 DEF ZoneInv, TypeOK, Covers, End, Extent
  <2>4. f.start = End(e)
    BY <1>2, <1>3, <2>2, <2>3 DEF ZoneInv, Exclusive, Disjoint, Apart, Covers, End, Extent
  <2> QED
    BY <2>4 DEF ZoneInv, Coalesced, Separated
<1> QED
  BY <1>3, <1>4 DEF Extent

(* A zone refuses a request only when no run of unheld bytes is long       *)
(* enough (Zone::alloc over the list free_extent coalesces).               *)
THEOREM ZoneNeverFragments == Spec => []NoFragmentation
BY CoalescedFits, ZoneInvariant, PTL

(* The holder of a region is never refused.                                *)
THEOREM ZoneHearsHolder == Spec => HolderIsHeard
<1>1. ZoneInv /\ [Next]_vars => [\A r \in live : Free(r) => reply' = "released"]_vars
  BY HolderPasses DEF Free
<1> QED
  BY <1>1, ZoneInvariant, PTL DEF Spec, HolderIsHeard

(* A second free is refused and changes nothing.                           *)
THEOREM ZoneRefusesDoubleFree == Spec => DoubleFreeRefused
<1>1. ZoneInv /\ [Next]_vars
        => [\A r \in last : FreeAgain(r) => reply' = "rejected" /\ UNCHANGED free]_vars
  BY FreeAgainStep
<1> QED
  BY <1>1, ZoneInvariant, PTL DEF Spec, DoubleFreeRefused

----------------------------------------------------------------------------
(* Every step of the zone is a step of the pool, whose extents are the     *)
(* pages of the regions held.                                              *)
LEMMA StepIsPoolStep == ZoneInv /\ [Next]_vars => [Pool!Next]_<<{Pages(r) : r \in live}, asked, reply>>
<1> DEFINE held == {Pages(r) : r \in live}
<1> SUFFICES ASSUME ZoneInv, Next PROVE Pool!Next
  BY DEF vars
<1> USE ShmZoneAssumption
<1>1. ASSUME NEW len \in Lengths, Alloc(len) PROVE Pool!Next
  <2> DEFINE want == AlignUp(len)
             g == [start |-> AllocStart(free, want), len |-> want]
  <2>1. len \in Nat /\ want \in Nat /\ want # 0
    BY <1>1, LengthsAreNat DEF Alloc, CanAlloc
  <2>2. PICK e \in free : e.start = g.start /\ want <= e.len
    <3>1. LET S == Fitting(free, want) IN S \in SUBSET Extent /\ S # {}
      BY <1>1 DEF Alloc, CanAlloc, Fitting, ZoneInv, TypeOK
    <3>2. Lowest(Fitting(free, want)) \in Fitting(free, want)
      BY <3>1, LowestIsMember
    <3> QED
      BY <3>2 DEF AllocStart, Fitting
  <2>3. e \in Extent /\ End(e) <= Size
    BY DEF ZoneInv, TypeOK
  <2>4. g.start \in 0 .. Size /\ g.len \in 1 .. Size /\ End(g) <= Size
    BY <2>1, <2>2, <2>3 DEF End, Extent
  <2>5. \A l \in held : Apart(g, l)
    <3> SUFFICES ASSUME NEW r \in live PROVE Apart(g, Pages(r))
      OBVIOUS
    <3>1. Pages(r) \in Extent /\ Apart(Pages(r), e)
      BY PagesAreExtents DEF ZoneInv, Exclusive
    <3>2. g.len = want
      OBVIOUS
    <3> HIDE DEF g, want
    <3> QED
      BY <2>1, <2>2, <2>3, <2>4, <3>1, <3>2 DEF Apart, End, Extent
  <2>6. held' = held \cup {g} /\ asked' = g.len /\ reply' = "granted"
    <3>1. PICK r : /\ live' = live \cup {r} /\ Pages(r) = g
                   /\ asked' = g.len /\ reply' = "granted"
      BY <1>1 DEF Alloc, Pages
    <3> HIDE DEF g
    <3> QED
      BY <3>1
  <2>7. Pool!Grant(g)
    BY <2>4, <2>5, <2>6 DEF Pool!Grant, Pool!Vacant, Pool!Apart, Pool!End, Apart, End
  <2>8. g = [start |-> g.start, len |-> g.len]
    OBVIOUS
  <2> HIDE DEF g
  <2> QED
    BY <2>4, <2>7, <2>8 DEF Pool!Next
<1>2. ASSUME NEW len \in Lengths, AllocFails(len) PROVE Pool!Next
  <2> DEFINE want == AlignUp(len)
  <2>1. want \in 0 .. WordSize - 1
    BY ExtentsAssumption, LengthsAreNat DEF AlignUp
  <2>2. ASSUME want # 0, NEW start \in 0 .. Size, Pool!Vacant([start |-> start, len |-> want])
        PROVE  FALSE
    <3>1. start + want <= Size /\ want \in 1 .. Size
      BY <2>1, <2>2 DEF Pool!Vacant, Pool!End
    <3>2. \A r \in live : Apart([start |-> start, len |-> want], Pages(r))
      BY <2>2 DEF Pool!Vacant, Pool!Apart, Pool!End, Apart, End
    <3>3. Fitting(free, want) # {}
      BY <3>1, <3>2, CoalescedFits DEF NoFragmentation
    <3> QED
      BY <1>2, <2>2, <3>3 DEF AllocFails, CanAlloc
  <2>3. Pool!Refuse(want)
    BY <1>2, <2>2 DEF AllocFails, Pool!Refuse
  <2> HIDE DEF want
  <2> QED
    BY <2>1, <2>3 DEF Pool!Next
<1>3. ASSUME NEW r \in live, Free(r) PROVE Pool!Next
  <2>1. live' = live \ {r} /\ asked' = 0 /\ reply' = "released"
    BY <1>3, HolderPasses DEF Free
  <2>2. \A s \in live : s # r => Pages(s) # Pages(r)
    BY PagesAreExtents DEF ZoneInv, Exclusive, Apart, End, Extent
  <2>3. held' = held \ {Pages(r)}
    BY <2>1, <2>2
  <2>4. Pages(r) \in held /\ Pool!Release(Pages(r))
    BY <2>1, <2>3 DEF Pool!Release
  <2> QED
    BY <2>4 DEF Pool!Next
<1>4. ASSUME NEW r \in last, FreeAgain(r) PROVE Pool!Next
  BY <1>4, FreeAgainStep DEF Pool!Next, Pool!Reject
<1> QED
  BY <1>1, <1>2, <1>3, <1>4 DEF Next

(* First fit over a coalesced free list implements the pool.               *)
THEOREM ZoneImplementsPool == Spec => ImplementsPool
<1>1. Init => Pool!Init
  BY DEF Init, Pool!Init
<1> QED
  BY <1>1, StepIsPoolStep, ZoneInvariant, PTL DEF Spec, ImplementsPool, Pool!Spec

=============================================================================
