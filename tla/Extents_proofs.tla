--------------------------- MODULE Extents_proofs ---------------------------
(***************************************************************************)
(* Facts about the free list of a zone: what Zone::alloc and               *)
(* Zone::free_extent of device/src/shm.rs do to any disjoint, coalesced    *)
(* list, of any size.                                                      *)
(***************************************************************************)
EXTENDS Extents, WellFoundedInduction, TLAPS

(* align_up returns a number of bytes, wrapped or not.                     *)
LEMMA AlignUpType ==
  ASSUME NEW v \in Nat
  PROVE  AlignUp(v) \in Nat
<1> DEFINE sum == (v + (PageSize - 1)) % WordSize
<1>1. sum \in Nat
  BY ExtentsAssumption
<1>2. sum % PageSize \in 0 .. PageSize - 1
  BY <1>1, ExtentsAssumption
<1>3. sum % PageSize <= sum
  BY <1>1, ExtentsAssumption
<1> QED
  BY <1>1, <1>2, <1>3 DEF AlignUp

(* The in-order search of the BTreeMap finds an entry whenever there is    *)
(* one, and no entry lies below it.                                        *)
LEMMA LowestIsMember ==
  ASSUME NEW S \in SUBSET Extent, S # {}
  PROVE  Lowest(S) \in S /\ \A f \in S : Lowest(S).start <= f.start
<1> DEFINE T == {e.start : e \in S}
<1>1. T \subseteq Nat /\ T # {}
  BY DEF Extent
<1>2. PICK n \in T : \A m \in T : ~ (<<m, n>> \in OpToRel(<, Nat))
  BY <1>1, NatLessThanWellFounded, WFMin
<1>3. PICK e \in S : e.start = n
  BY <1>2
<1>4. \A m \in T : n <= m
  <2> SUFFICES ASSUME NEW m \in T, m < n PROVE FALSE
    BY <1>1
  <2>1. <<m, n>> \in OpToRel(<, Nat)
    BY <1>1 DEF OpToRel
  <2> QED
    BY <1>2, <2>1
<1>5. \A f \in S : e.start <= f.start
  BY <1>3, <1>4
<1> QED
  BY <1>3, <1>5 DEF Lowest

----------------------------------------------------------------------------
(* Zone::alloc: what is handed out was one piece of a free extent, is in   *)
(* nobody's way afterwards, and everything else that was free still is.    *)
LEMMA AllocKeepsList ==
  ASSUME NEW F \in SUBSET Extent, Disjoint(F), Separated(F),
         NEW want \in Nat, CanAlloc(F, want),
         NEW g, g = [start |-> AllocStart(F, want), len |-> want],
         NEW G, G = AfterAlloc(F, want)
  PROVE  /\ g \in Extent
         /\ \E e \in F : e.start = g.start /\ want <= e.len
         /\ G \in SUBSET Extent
         /\ Disjoint(G)
         /\ Separated(G)
         /\ \A h \in G : Apart(h, g)
         /\ \A h \in G : \E f \in F : f.start <= h.start /\ End(h) <= End(f)
         /\ \A b \in Nat : (\E f \in F : Covers(f, b))
                             => Covers(g, b) \/ \E h \in G : Covers(h, b)
<1> DEFINE e == Lowest(Fitting(F, want))
           rest == [start |-> e.start + want, len |-> e.len - want]
<1>1. e \in F /\ e.len >= want /\ e \in Extent
  BY LowestIsMember DEF CanAlloc, Fitting
<1>2. want > 0
  BY DEF CanAlloc
<1>3. g.start = e.start /\ g.len = want /\ g \in Extent
  BY <1>1, <1>2 DEF AllocStart, Extent
<1>4. G = IF e.len > want THEN (F \ {e}) \cup {rest} ELSE F \ {e}
  BY DEF AfterAlloc, Remainder
<1>5. e.len > want => rest \in Extent
  BY <1>1 DEF Extent
<1>6. \A f \in F : f # e => End(f) <= e.start \/ End(e) <= f.start
  BY <1>1 DEF Disjoint, Apart
<1> HIDE DEF e
<1>7. G \in SUBSET Extent
  BY <1>4, <1>5
<1>8. Disjoint(G)
  BY <1>1, <1>2, <1>4, <1>6 DEF Disjoint, Apart, End, Extent
<1>9. Separated(G)
  BY <1>1, <1>2, <1>4, <1>6 DEF Separated, End, Extent
<1>10. \A h \in G : Apart(h, g)
  BY <1>1, <1>2, <1>3, <1>4, <1>6 DEF Apart, End, Extent
<1>11. \A h \in G : \E f \in F : f.start <= h.start /\ End(h) <= End(f)
  BY <1>1, <1>2, <1>4 DEF End, Extent
<1>12. ASSUME NEW b \in Nat, NEW f \in F, Covers(f, b)
       PROVE  Covers(g, b) \/ \E h \in G : Covers(h, b)
  <2>1. CASE f # e
    BY <1>4, <1>12, <2>1
  <2>2. CASE f = e /\ b < e.start + want
    BY <1>1, <1>3, <1>12, <2>2 DEF Covers, End, Extent
  <2>3. CASE f = e /\ b >= e.start + want
    <3>1. e.len > want /\ Covers(rest, b)
      BY <1>1, <1>12, <2>3 DEF Covers, End, Extent
    <3> QED
      BY <1>4, <3>1
  <2> QED
    BY <1>1, <2>1, <2>2, <2>3 DEF Extent
<1> QED
  BY <1>1, <1>3, <1>7, <1>8, <1>9, <1>10, <1>11, <1>12

----------------------------------------------------------------------------
(* Zone::free_extent's two overlap checks look at two entries only; on a   *)
(* disjoint list that decides for all of them.                             *)
LEMMA FreeCheckIsExact ==
  ASSUME NEW F \in SUBSET Extent, Disjoint(F), NEW size \in Nat,
         NEW start \in Nat, NEW want \in Nat, want # 0, start + want <= size
  PROVE  CanFree(F, size, start, want)
           <=> \A e \in F : Apart(e, [start |-> start, len |-> want])
<1> DEFINE g == [start |-> start, len |-> want]
<1>1. ASSUME \A e \in F : Apart(e, g)
      PROVE  CanFree(F, size, start, want)
  BY <1>1 DEF CanFree, LastUpTo, FirstFrom, Apart, End, Extent
<1>2. ASSUME CanFree(F, size, start, want), NEW e \in F, ~ Apart(e, g)
      PROVE  FALSE
  <2>1. CASE e.start <= start
    <3>1. e \in LastUpTo(F, start)
      BY <1>2, <2>1 DEF LastUpTo, Disjoint, Apart, End, Extent
    <3> QED
      BY <1>2, <3>1 DEF CanFree, Apart, End, Extent
  <2>2. CASE e.start > start
    <3> DEFINE later == {f \in F : f.start >= start}
    <3>1. e \in later
      BY <2>2 DEF Extent
    <3>2. Lowest(later) \in later /\ \A f \in later : Lowest(later).start <= f.start
      BY <3>1, LowestIsMember
    <3>3. Lowest(later) \in FirstFrom(F, start)
      BY <3>2 DEF FirstFrom
    <3>4. start + want <= Lowest(later).start
      BY <1>2, <3>3 DEF CanFree
    <3> QED
      BY <1>2, <3>1, <3>2, <3>4 DEF Apart, End, Extent
  <2> QED
    BY <2>1, <2>2 DEF Extent
<1> QED
  BY <1>1, <1>2

----------------------------------------------------------------------------
(* Zone::free_extent: the list stays disjoint and coalesced, holds what it *)
(* held and the bytes given back, and holds nothing else.                  *)
LEMMA FreeKeepsList ==
  ASSUME NEW F \in SUBSET Extent, Disjoint(F), Separated(F),
         NEW start \in Nat, NEW want \in Nat, want # 0,
         NEW g, g = [start |-> start, len |-> want],
         \A e \in F : Apart(e, g),
         NEW G, G = AfterFree(F, start, want)
  PROVE  /\ G \in SUBSET Extent
         /\ Disjoint(G)
         /\ Separated(G)
         /\ \A b \in Nat : (\E h \in G : Covers(h, b))
                             <=> (Covers(g, b) \/ \E f \in F : Covers(f, b))
         /\ \A x \in Extent : Apart(x, g) /\ (\A f \in F : Apart(x, f))
                                => \A h \in G : Apart(x, h)
         /\ \A n \in Nat : End(g) <= n /\ (\A f \in F : End(f) <= n)
                             => \A h \in G : End(h) <= n
<1> DEFINE below == Below(F, start)
           above == Above(F, start + want)
           lo == IF below = {} THEN start ELSE (CHOOSE e \in below : TRUE).start
           hi == IF above = {} THEN start + want ELSE End(CHOOSE e \in above : TRUE)
           m  == [start |-> lo, len |-> hi - lo]
<1>1. \A e \in F : e \in below <=> End(e) = start
  BY DEF Below, LastUpTo, Disjoint, Apart, End, Extent
<1>2. \A e \in F : e \in above <=> e.start = start + want
  BY DEF Above, FirstFrom, Extent
<1>3. below \subseteq F /\ above \subseteq F
  BY DEF Below, LastUpTo, Above, FirstFrom
<1>4. \/ below = {} /\ lo = start
      \/ \E e \in F : below = {e} /\ lo = e.start /\ End(e) = start
  <2>1. CASE below = {}
    BY <2>1
  <2>2. CASE below # {}
    <3>1. PICK e \in below : lo = e.start
      BY <2>2
    <3>2. \A f \in below : f = e
      BY <1>1, <1>3, <3>1 DEF Disjoint, Apart, End, Extent
    <3> QED
      BY <1>1, <1>3, <3>1, <3>2
  <2> QED
    BY <2>1, <2>2
<1>5. \/ above = {} /\ hi = start + want
      \/ \E e \in F : above = {e} /\ hi = End(e) /\ e.start = start + want
  <2>1. CASE above = {}
    BY <2>1
  <2>2. CASE above # {}
    <3>1. PICK e \in above : hi = End(e)
      BY <2>2
    <3>2. \A f \in above : f = e
      BY <1>2, <1>3, <3>1 DEF Disjoint, Apart, End, Extent
    <3> QED
      BY <1>2, <1>3, <3>1, <3>2
  <2> QED
    BY <2>1, <2>2
<1>6. G = (F \ (below \cup above)) \cup {m}
  BY DEF AfterFree
<1> HIDE DEF below, above, lo, hi
<1>7. /\ lo \in Nat /\ hi \in Nat /\ lo <= start /\ start + want <= hi
      /\ m \in Extent /\ m.start = lo /\ End(m) = hi
  BY <1>4, <1>5 DEF End, Extent
<1>8. \A f \in F : f \in below \cup above
                     \/ End(f) < lo \/ hi < f.start
  BY <1>1, <1>2, <1>4, <1>5 DEF Disjoint, Separated, Apart, End, Extent
<1>9. G \in SUBSET Extent
  BY <1>6, <1>7
<1>10. Disjoint(G)
  BY <1>6, <1>7, <1>8 DEF Disjoint, Apart, End, Extent
<1>11. Separated(G)
  BY <1>6, <1>7, <1>8 DEF Separated, End, Extent
<1>12. \A b \in Nat : Covers(m, b) <=> \/ Covers(g, b)
                                       \/ \E f \in below \cup above : Covers(f, b)
  BY <1>4, <1>5, <1>7 DEF Covers, End, Extent
<1>13. \A b \in Nat : (\E h \in G : Covers(h, b))
                        <=> (Covers(g, b) \/ \E f \in F : Covers(f, b))
  BY <1>3, <1>6, <1>12
<1>14. ASSUME NEW x \in Extent, Apart(x, g), \A f \in F : Apart(x, f)
       PROVE  Apart(x, m)
  BY <1>4, <1>5, <1>7, <1>14 DEF Apart, End, Extent
<1>15. ASSUME NEW n \in Nat, End(g) <= n, \A f \in F : End(f) <= n
       PROVE  End(m) <= n
  BY <1>5, <1>7, <1>15 DEF End
<1> QED
  BY <1>6, <1>9, <1>10, <1>11, <1>13, <1>14, <1>15

=============================================================================
