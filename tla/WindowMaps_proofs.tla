------------------------- MODULE WindowMaps_proofs -------------------------
(***************************************************************************)
(* The shared window under any number of files, memory objects, buffers    *)
(* and mappings, calls that fail half way and answers that are lost, files *)
(* that close before those that use their buffers: in a zone where no late *)
(* MUNMAP has struck, pages have one owner each, none is lost, and every   *)
(* mapping shows what it is for.                                           *)
(***************************************************************************)
EXTENDS WindowMaps, Extents_proofs, FiniteSetTheorems

(* Whole pages *)

\* Quotient and remainder.
LEMMA Division ==
  ASSUME NEW a \in Nat \ {0}, NEW n \in Nat
  PROVE  /\ n \div a \in Nat /\ n % a \in 0 .. a - 1
         /\ n = (n \div a) * a + (n % a)
OBVIOUS

\* A quotient and what is left of it determine each other.
LEMMA QuotientIs ==
  ASSUME NEW a \in Nat \ {0}, NEW m \in Nat, NEW t \in 0 .. a - 1
  PROVE  (m * a + t) \div a = m /\ (m * a + t) % a = t
<1> DEFINE q == (m * a + t) \div a
           r == (m * a + t) % a
<1>0. m * a + t \in Nat
  OBVIOUS
<1>1. q \in Nat /\ r \in 0 .. a - 1 /\ m * a + t = q * a + r
  BY <1>0, Division
<1> HIDE DEF q, r
<1>2. ~ (q < m)
  <2>1. SUFFICES ASSUME q + 1 <= m PROVE FALSE
    BY <1>1
  <2>2. (q + 1) * a <= m * a
    BY <1>1, <2>1
  <2> QED
    BY <1>1, <2>2
<1>3. ~ (q > m)
  <2>1. SUFFICES ASSUME m + 1 <= q PROVE FALSE
    BY <1>1
  <2>2. (m + 1) * a <= q * a
    BY <1>1, <2>1
  <2> QED
    BY <1>1, <2>2
<1>4. q = m
  BY <1>1, <1>2, <1>3
<1>5. r = t
  BY <1>1, <1>4
<1> QED
  BY <1>4, <1>5 DEF q, r

\* A multiple leaves nothing over.
LEMMA MultipleDivides ==
  ASSUME NEW a \in Nat \ {0}, NEW m \in Nat
  PROVE  (m * a) % a = 0 /\ (m * a) \div a = m
<1>1. (m * a + 0) \div a = m /\ (m * a + 0) % a = 0
  BY QuotientIs, 0 \in 0 .. a - 1
<1>2. m * a + 0 = m * a
  OBVIOUS
<1> QED
  BY <1>1, <1>2

Pages(n) == n % PageSize = 0

\* Whole pages are a number of pages.
LEMMA PagesCount ==
  ASSUME NEW n \in Nat, Pages(n)
  PROVE  n \div PageSize \in Nat /\ n = (n \div PageSize) * PageSize
BY Division, ExtentsAssumption DEF Pages

\* Whole pages add up page by page.
LEMMA PagesAdd ==
  ASSUME NEW m \in Nat, Pages(m), NEW n \in Nat, Pages(n)
  PROVE  Pages(m + n) /\ (m + n) \div PageSize = m \div PageSize + n \div PageSize
<1> DEFINE k == m \div PageSize
           l == n \div PageSize
<1>1. k \in Nat /\ l \in Nat /\ m = k * PageSize /\ n = l * PageSize
  BY PagesCount
<1> HIDE DEF k, l
<1>2. m + n = (k + l) * PageSize /\ k + l \in Nat
  BY <1>1, ExtentsAssumption
<1>3. (m + n) % PageSize = 0 /\ (m + n) \div PageSize = k + l
  BY <1>2, MultipleDivides, ExtentsAssumption
<1> QED
  BY <1>3 DEF Pages, k, l

\* What align_up returns is whole pages.
LEMMA AlignUpWhole ==
  ASSUME NEW v \in Nat
  PROVE  AlignUp(v) \in Nat /\ Pages(AlignUp(v)) /\ AlignUp(v) < WordSize
<1> DEFINE sum == (v + (PageSize - 1)) % WordSize
           q   == sum \div PageSize
           r   == sum % PageSize
<1>1. sum \in Nat /\ sum < WordSize
  BY ExtentsAssumption
<1>2. AlignUp(v) = sum - r
  BY DEF AlignUp
<1> HIDE DEF sum
<1>3. q \in Nat /\ r \in 0 .. PageSize - 1 /\ sum = q * PageSize + r
  BY <1>1, Division, ExtentsAssumption
<1> HIDE DEF q, r
<1>4. AlignUp(v) = q * PageSize /\ AlignUp(v) < WordSize
  BY <1>1, <1>2, <1>3, ExtentsAssumption
<1>5. q * PageSize \in Nat /\ (q * PageSize) % PageSize = 0
  BY <1>3, MultipleDivides, ExtentsAssumption
<1> QED
  BY <1>4, <1>5 DEF Pages

\* Whole pages that fit in a word are left as they are.
LEMMA AlignUpKeeps ==
  ASSUME NEW n \in Nat, Pages(n), n < WordSize, Pages(WordSize)
  PROVE  AlignUp(n) = n
<1> DEFINE k == n \div PageSize
           w == WordSize \div PageSize
<1>0. PageSize \in Nat \ {0} /\ WordSize \in Nat \ {0}
  BY ExtentsAssumption
<1>1. k \in Nat /\ w \in Nat /\ n = k * PageSize /\ WordSize = w * PageSize
  BY <1>0, PagesCount
<1> HIDE DEF k, w
<1>2. k < w
  <2>1. SUFFICES ASSUME w <= k PROVE FALSE
    BY <1>1
  <2>2. w * PageSize <= k * PageSize
    BY <1>0, <1>1, <2>1
  <2> QED
    BY <1>1, <2>2
<1>3. n + (PageSize - 1) < WordSize
  <2>1. (k + 1) * PageSize <= w * PageSize
    BY <1>0, <1>1, <1>2
  <2> QED
    BY <1>0, <1>1, <2>1
<1> DEFINE sum == (n + (PageSize - 1)) % WordSize
<1>4. sum = n + (PageSize - 1)
  BY <1>0, <1>3
<1>5. sum % PageSize = PageSize - 1
  <2>1. (k * PageSize + (PageSize - 1)) % PageSize = PageSize - 1
    BY <1>0, <1>1, QuotientIs, PageSize - 1 \in 0 .. PageSize - 1
  <2>2. sum = k * PageSize + (PageSize - 1)
    BY <1>1, <1>4
  <2> HIDE DEF sum
  <2> QED
    BY <2>1, <2>2
<1>6. AlignUp(n) = sum - (sum % PageSize)
  BY DEF AlignUp
<1> HIDE DEF sum
<1> QED
  BY <1>0, <1>4, <1>5, <1>6

----------------------------------------------------------------------------
(* The zones: A's regions and the free lists F share the zones of Q out     *)
(* among them, byte for byte, in whole pages.                              *)
Place == [zone : Zones, start : Nat, len : Nat \ {0}]

Fits(r) == r \in Place /\ Region(r) /\ AlignUp(r.len) # 0

ListFits(z, S) ==
  /\ S \subseteq Extent /\ Disjoint(S) /\ Separated(S)
  /\ \A x \in S : End(x) <= ZoneSize[z] /\ x.start % PageSize = 0 /\ End(x) % PageSize = 0

Lists(F) == DOMAIN F = Zones /\ \A z \in Zones : ListFits(z, F[z])

Books(F, A, Q) ==
  /\ Lists(F)
  /\ \A e \in A : Fits(e.region)
  /\ \A e, f \in A :
       e # f /\ e.region.zone = f.region.zone /\ e.region.zone \in Q =>
         Apart(Whole(e.region), Whole(f.region))
  /\ \A e \in A : e.region.zone \in Q =>
       \A x \in F[e.region.zone] : Apart(Whole(e.region), x)
  /\ \A z \in Q : \A b \in 0 .. ZoneSize[z] - 1 :
       \/ \E x \in F[z] : Covers(x, b)
       \/ \E e \in A : e.region.zone = z /\ Covers(Whole(e.region), b)

ShowsIn(s, r, obj) == \A p \in PagesOf(r) : s[r.zone][p] = obj

Shows(r, obj) == ShowsIn(shown, r, obj)

Up(f) == file[f] \in {"open", "closing"}

Keys == [fd : Files, off : Buffers \cup {None}]

Grounds(s) ==
  /\ DOMAIN s = Zones
  /\ \A z \in Zones : s[z] \in [0 .. (ZoneSize[z] \div PageSize) - 1 -> Objects \cup {None}]

Entry == [fd : Files, region : Place, id : Nat]

Live == [id : 1 .. MaxId, key : Keys, region : Place]

Vmas == [name : Mappings, file : Files, id : Nat, obj : Memories, zone : Zones,
         page : Nat, pages : 1 .. MaxPages, loose : BOOLEAN]

Gem == [state : {"none", "used", "dying", "freed"}, owner : Files \cup {None},
        users : SUBSET Files, by : Files \cup {None}, valid : BOOLEAN, id : Nat,
        region : Place \cup {None}]

\* What the backend's tables hold, and what the VMM shows.
TablesFit ==
  /\ active \subseteq Entry /\ IsFiniteSet(active) /\ leaked \subseteq Entry
  /\ live \subseteq Live /\ \A m \in live : Fits(m.region)
  /\ dri \subseteq [key : Keys, id : 1 .. MaxId]
  /\ nextId \in 1 .. MaxId + 1
  /\ struck \subseteq Zones
  /\ Grounds(shown)

Types ==
  /\ file \in [Files -> {"none", "open", "closing", "closed"}]
  /\ vmas \subseteq Vmas
  /\ gems \in [Buffers -> Gem]
  /\ armed \in [Files -> Memories \cup {None}]
  /\ TablesFit

BooksFit == Books(free, Held, Sound)

\* An entry is its open file's; a gpu or ctl file has one, showing its memory.
ActiveFits ==
  /\ \A e \in active :
       /\ Up(e.fd)
       /\ Kind[e.fd] # "dri" => armed[e.fd] # None
       /\ e.region.zone \in Sound =>
            e \notin leaked /\ (Kind[e.fd] # "dri" => Shows(e.region, armed[e.fd]))
  /\ \A e, f \in active : e.fd = f.fd /\ Kind[e.fd] # "dri" => e = f
  /\ \A e \in Held : e.id < nextId

OwnEntry(m) == [fd |-> m.key.fd, region |-> m.region, id |-> m.id]

\* The two tables of placements agree, and what holds an id's pages is its own.
IdsFit ==
  /\ \A m \in live : m.id < nextId /\ file[m.key.fd] # "none"
  /\ \A d \in dri : d.id < nextId
  /\ \A m, n \in live : m.id = n.id => m = n
  /\ \A c, d \in dri : c.key = d.key => c = d
  /\ \A m \in live : \A d \in dri : m.id = d.id => m.key = d.key
  /\ \A m \in live : [key |-> m.key, id |-> m.id] \in dri
  /\ \A m \in live : m.key.off = None <=> Kind[m.key.fd] # "dri"
  /\ \A m \in live : \A e \in Held : e.id = m.id => e = OwnEntry(m)

\* A placement has its entry as long as its file is there.
LiveFits ==
  \A m \in live : Up(m.key.fd) /\ m.region.zone \in Sound =>
    /\ OwnEntry(m) \in active
    /\ m.key.off # None => Shows(m.region, m.key.off)

VmaFits(v) ==
  /\ file[v.file] = "open" /\ Kind[v.file] # "dri"
  /\ v.obj = armed[v.file] /\ v.id < nextId
  /\ \A m \in live : m.id = v.id => m.key.fd = v.file

\* The entry a mapping shows.
Under(v, e) ==
  /\ e.fd = v.file /\ v.zone = e.region.zone
  /\ v.page = e.region.start \div PageSize
  /\ v.pages * PageSize <= AlignUp(e.region.len)

VmasFit ==
  /\ \A v \in vmas :
       VmaFits(v) /\ (~ v.loose /\ v.zone \in Sound => \E e \in active : Under(v, e))
  /\ \A v, w \in vmas : v # w /\ v.file = w.file => v.loose

Used(g) == g.state \in {"used", "dying"}

Placement(g, b) == [id |-> g.id, key |-> [fd |-> g.owner, off |-> b], region |-> g.region]

GemFits(b) == LET g == gems[b] IN
  /\ g.users # {} <=> g.state = "used"
  /\ Used(g) => g.owner \in Files /\ Kind[g.owner] = "dri"
  /\ g.valid => Used(g) /\ Placement(g, b) \in live

GemsFit == \A b \in Buffers : GemFits(b)

WindowInv ==
  Types /\ BooksFit /\ ActiveFits /\ IdsFit /\ LiveFits /\ VmasFit /\ GemsFit

----------------------------------------------------------------------------
(* Regions *)

\* The pages of a region are those that begin in it.
LEMMA PagesCovered ==
  ASSUME NEW r, r.start \in Nat, r.len \in Nat, Pages(r.start), NEW p \in Int
  PROVE  p \in PagesOf(r) <=> Covers(Whole(r), p * PageSize)
<1> DEFINE k == r.start \div PageSize
           n == AlignUp(r.len) \div PageSize
<1>0. PageSize \in Nat \ {0}
  BY ExtentsAssumption
<1>1. k \in Nat /\ n \in Nat /\ r.start = k * PageSize /\ AlignUp(r.len) = n * PageSize
  BY PagesCount, AlignUpWhole
<1>2. (r.start + AlignUp(r.len)) \div PageSize = k + n
  BY PagesAdd, AlignUpWhole
<1>3. p \in PagesOf(r) <=> k <= p /\ p < k + n
  BY <1>1, <1>2 DEF PagesOf
<1>4. Covers(Whole(r), p * PageSize) <=> k * PageSize <= p * PageSize /\ p * PageSize < (k + n) * PageSize
  BY <1>0, <1>1 DEF Covers, Whole, End
<1> HIDE DEF k, n
<1>5. k * PageSize <= p * PageSize <=> k <= p
  <2>1. k <= p => k * PageSize <= p * PageSize
    BY <1>0, <1>1
  <2>2. ASSUME p + 1 <= k PROVE p * PageSize < k * PageSize
    <3>1. (p + 1) * PageSize <= k * PageSize
      BY <1>0, <1>1, <2>2
    <3> QED
      BY <1>0, <1>1, <3>1
  <2> QED
    BY <1>0, <1>1, <2>1, <2>2
<1>6. p * PageSize < (k + n) * PageSize <=> p < k + n
  <2>1. ASSUME p + 1 <= k + n PROVE p * PageSize < (k + n) * PageSize
    <3>1. (p + 1) * PageSize <= (k + n) * PageSize
      BY <1>0, <1>1, <2>1
    <3> QED
      BY <1>0, <1>1, <3>1
  <2>2. k + n <= p => (k + n) * PageSize <= p * PageSize
    BY <1>0, <1>1
  <2> QED
    BY <1>0, <1>1, <2>1, <2>2
<1> QED
  BY <1>3, <1>4, <1>5, <1>6

\* The pages of a region are pages of its zone.
LEMMA RegionPages ==
  ASSUME NEW r, Region(r)
  PROVE  /\ r.zone \in Zones /\ r.start \in Nat /\ r.len \in Nat /\ Pages(r.start)
         /\ r.start \div PageSize \in Nat
         /\ PagesOf(r) \subseteq 0 .. (ZoneSize[r.zone] \div PageSize) - 1
         /\ PagesOf(r) \subseteq Nat
<1>1. r.zone \in Zones /\ r.start \in Nat /\ r.len \in Nat /\ Pages(r.start)
  BY DEF Region, Pages
<1>2. ZoneSize[r.zone] \in Nat /\ Pages(ZoneSize[r.zone])
  BY <1>1, WindowMapsAssumption DEF Pages
<1> DEFINE k == r.start \div PageSize
           m == (r.start + AlignUp(r.len)) \div PageSize
           z == ZoneSize[r.zone] \div PageSize
<1>3. k \in Nat /\ z \in Nat /\ m \in Nat
      /\ r.start + AlignUp(r.len) = m * PageSize /\ ZoneSize[r.zone] = z * PageSize
  <2>1. r.start + AlignUp(r.len) \in Nat /\ Pages(r.start + AlignUp(r.len))
    <3>1. AlignUp(r.len) \in Nat /\ Pages(AlignUp(r.len))
      BY <1>1, AlignUpWhole
    <3>2. Pages(r.start + AlignUp(r.len))
      BY <1>1, <3>1, PagesAdd
    <3> QED
      BY <1>1, <3>1, <3>2
  <2>2. k \in Nat
    BY <1>1, PagesCount
  <2>3. z \in Nat /\ ZoneSize[r.zone] = z * PageSize
    BY <1>2, PagesCount
  <2>4. m \in Nat /\ r.start + AlignUp(r.len) = m * PageSize
    BY <2>1, PagesCount
  <2> QED
    BY <2>2, <2>3, <2>4
<1>4. m * PageSize <= z * PageSize
  BY <1>3 DEF Region
<1>5. PagesOf(r) = k .. m - 1
  BY DEF PagesOf
<1> HIDE DEF k, m, z
<1>6. m <= z
  <2> SUFFICES ASSUME z + 1 <= m PROVE FALSE
    BY <1>3
  <2>1. (z + 1) * PageSize <= m * PageSize
    BY <1>3, ExtentsAssumption
  <2> QED
    BY <1>3, <1>4, <2>1, ExtentsAssumption
<1>7. PagesOf(r) \subseteq 0 .. z - 1 /\ PagesOf(r) \subseteq Nat
  BY <1>3, <1>5, <1>6
<1> QED
  BY <1>1, <1>3, <1>7 DEF k, z

\* Regions apart have no page in common.
LEMMA ApartPages ==
  ASSUME NEW r, Region(r), NEW s, Region(s), Apart(Whole(r), Whole(s))
  PROVE  PagesOf(r) \cap PagesOf(s) = {}
<1> SUFFICES ASSUME NEW p \in PagesOf(r), p \in PagesOf(s) PROVE FALSE
  OBVIOUS
<1>1. p \in Int
  BY RegionPages
<1>2. Covers(Whole(r), p * PageSize) /\ Covers(Whole(s), p * PageSize)
  BY <1>1, RegionPages, PagesCovered
<1>3. /\ r.start \in Nat /\ AlignUp(r.len) \in Nat /\ s.start \in Nat /\ AlignUp(s.len) \in Nat
      /\ p * PageSize \in Int
  BY <1>1, RegionPages, AlignUpWhole, ExtentsAssumption
<1> QED
  BY <1>2, <1>3 DEF Covers, Apart, Whole, End

\* What the VMM shows after window.place or window.withdraw, zone by zone.
LEMMA ShowIs ==
  ASSUME DOMAIN shown = Zones, NEW r, Region(r), NEW obj
  PROVE  /\ DOMAIN Show(r, obj) = Zones
         /\ \A z \in Zones : z # r.zone => Show(r, obj)[z] = shown[z]
         /\ Show(r, obj)[r.zone] =
              [p \in DOMAIN shown[r.zone] |-> IF p \in PagesOf(r) THEN obj ELSE shown[r.zone][p]]
BY RegionPages DEF Show

----------------------------------------------------------------------------
(* Handing a region out and taking it back *)

\* Zone::alloc leaves extents as they were, or one that begins where the region ends.
LEMMA AllocEnds ==
  ASSUME NEW F \in SUBSET Extent, NEW want \in Nat, CanAlloc(F, want)
  PROVE  \A h \in AfterAlloc(F, want) :
           \/ h \in F
           \/ h.start = AllocStart(F, want) + want /\ \E f \in F : End(h) = End(f)
<1> DEFINE e == Lowest(Fitting(F, want))
           rest == [start |-> e.start + want, len |-> e.len - want]
<1>1. e \in F /\ e \in Extent
  BY LowestIsMember DEF CanAlloc, Fitting
<1>2. AllocStart(F, want) = e.start
  BY DEF AllocStart
<1>3. AfterAlloc(F, want) = (F \ {e}) \cup (IF e.len > want THEN {rest} ELSE {})
  BY DEF AfterAlloc, Remainder
<1> HIDE DEF e
<1>4. End(rest) = End(e)
  BY <1>1 DEF End, Extent
<1> QED
  BY <1>1, <1>2, <1>3, <1>4

\* Zone::free_extent makes no ends but those of the region and its neighbours.
LEMMA FreeEnds ==
  ASSUME NEW F \in SUBSET Extent, NEW start \in Nat, NEW want \in Nat
  PROVE  \A h \in AfterFree(F, start, want) :
           /\ h.start = start \/ \E f \in F : h.start = f.start
           /\ End(h) = start + want \/ \E f \in F : End(h) = End(f)
<1> DEFINE below == Below(F, start)
           above == Above(F, start + want)
           lo == IF below = {} THEN start ELSE (CHOOSE e \in below : TRUE).start
           hi == IF above = {} THEN start + want ELSE End(CHOOSE e \in above : TRUE)
           m  == [start |-> lo, len |-> hi - lo]
<1>1. below \subseteq F /\ above \subseteq F
  BY DEF Below, LastUpTo, Above, FirstFrom
<1>2. AfterFree(F, start, want) = (F \ (below \cup above)) \cup {m}
  BY DEF AfterFree
<1> HIDE DEF below, above
<1>3. lo = start \/ \E f \in F : lo = f.start
  <2>1. below # {} => (CHOOSE e \in below : TRUE) \in F
    BY <1>1
  <2> QED
    BY <2>1
<1>4. hi = start + want \/ \E f \in F : hi = End(f)
  <2>1. above # {} => (CHOOSE e \in above : TRUE) \in F
    BY <1>1
  <2> QED
    BY <2>1
<1> HIDE DEF lo, hi
<1>5. lo \in Int /\ hi \in Int
  BY <1>3, <1>4 DEF Extent, End
<1>6. m.start = lo /\ End(m) = hi
  BY <1>5 DEF End
<1> QED
  BY <1>1, <1>2, <1>3, <1>4, <1>6

\* A region rounded up to pages is an extent of its zone.
LEMMA WholeIs ==
  ASSUME NEW r, Fits(r)
  PROVE  /\ Whole(r) \in Extent /\ Whole(r).start = r.start /\ Whole(r).len = AlignUp(r.len)
         /\ AlignUp(r.len) \in Nat \ {0} /\ r.start \in Nat /\ r.zone \in Zones
         /\ End(Whole(r)) = r.start + AlignUp(r.len) /\ End(Whole(r)) <= ZoneSize[r.zone]
         /\ Pages(r.start) /\ Pages(End(Whole(r)))
<1>1. r.start \in Nat /\ r.zone \in Zones /\ Pages(r.start) /\ r.start + AlignUp(r.len) <= ZoneSize[r.zone]
  BY DEF Fits, Region, Pages
<1>2. AlignUp(r.len) \in Nat \ {0} /\ Pages(AlignUp(r.len))
  BY AlignUpWhole DEF Fits, Place
<1>3. Pages(r.start + AlignUp(r.len))
  BY <1>1, <1>2, PagesAdd
<1> QED
  BY <1>1, <1>2, <1>3 DEF Whole, Extent, End

\* ShmAllocator::alloc: a region that is in nobody's way, and the books with it.
LEMMA PutKeeps ==
  ASSUME NEW F, NEW A, NEW Q \in SUBSET Zones, Books(F, A, Q), NEW z \in Zones, NEW len \in Nat \ {0},
         CanAlloc(F[z], AlignUp(len)),
         NEW e, e.region = [zone |-> z, start |-> AllocStart(F[z], AlignUp(len)), len |-> len],
         NEW G, DOMAIN G = Zones, G[z] = AfterAlloc(F[z], AlignUp(len)),
         \A y \in Zones : y # z => G[y] = F[y]
  PROVE  /\ Books(G, A \cup {e}, Q)
         /\ Fits(e.region)
         /\ z \in Q => /\ \A a \in A : a.region.zone = z => Apart(Whole(a.region), Whole(e.region))
                       /\ e \notin A
<1> DEFINE want == AlignUp(len)
           g == [start |-> AllocStart(F[z], want), len |-> want]
<1>1. want \in Nat /\ want # 0 /\ Pages(want) /\ CanAlloc(F[z], want)
  BY AlignUpWhole DEF CanAlloc
<1>2. F[z] \in SUBSET Extent /\ Disjoint(F[z]) /\ Separated(F[z]) /\ DOMAIN F = Zones
  BY DEF Books, Lists, ListFits
<1>3. PICK H : H = AfterAlloc(F[z], want)
  OBVIOUS
<1>4. /\ g \in Extent
      /\ \E f \in F[z] : f.start = g.start /\ want <= f.len
      /\ H \in SUBSET Extent /\ Disjoint(H) /\ Separated(H)
      /\ \A h \in H : Apart(h, g)
      /\ \A h \in H : \E f \in F[z] : f.start <= h.start /\ End(h) <= End(f)
      /\ \A b \in Nat : (\E f \in F[z] : Covers(f, b)) => Covers(g, b) \/ \E h \in H : Covers(h, b)
  <2> HIDE DEF want
  <2> QED
    BY <1>1, <1>2, <1>3, AllocKeepsList
<1>5. G[z] = H /\ DOMAIN G = Zones /\ \A y \in Zones : y # z => G[y] = F[y]
  BY <1>2, <1>3
<1>6. PICK s : s = AllocStart(F[z], want)
  OBVIOUS
<1>7. /\ e.region.zone = z /\ e.region.start = s /\ e.region.len = len
      /\ g = [start |-> s, len |-> want]
  BY <1>6
<1>8. PICK f \in F[z] : f.start = s /\ want <= f.len
  BY <1>4, <1>7
<1>9. f \in Extent /\ End(f) <= ZoneSize[z] /\ Pages(s)
  BY <1>8 DEF Books, Lists, ListFits, Pages
<1>10. e.region \in Place /\ Region(e.region)
  <2>1. s \in Nat /\ s + want <= ZoneSize[z]
    BY <1>1, <1>8, <1>9, WindowMapsAssumption DEF End, Extent
  <2>2. s % PageSize = 0
    BY <1>9 DEF Pages
  <2>3. e.region \in Place
    BY <1>6, <2>1 DEF Place
  <2> QED
    BY <1>7, <2>1, <2>2, <2>3 DEF Region
<1>11. Whole(e.region) = g
  BY <1>7 DEF Whole
<1> HIDE DEF want, g
<1>12. ASSUME NEW a \in A, a.region.zone = z, z \in Q
       PROVE  Apart(Whole(a.region), g)
  <2>1. Whole(a.region) \in Extent
    BY WholeIs DEF Books
  <2>2. Apart(Whole(a.region), f)
    BY <1>8, <1>12 DEF Books
  <2> QED
    BY <1>1, <1>4, <1>7, <1>8, <1>9, <2>1, <2>2 DEF Apart, End, Extent
<1>13. ListFits(z, H)
  <2>1. \A h \in H : h \in F[z] \/ (h.start = s + want /\ \E k \in F[z] : End(h) = End(k))
    BY <1>1, <1>2, <1>3, <1>6, AllocEnds DEF want
  <2>2. s \in Nat
    BY <1>8, <1>9 DEF Extent
  <2>3. Pages(s + want)
    BY <1>1, <1>9, <2>2, PagesAdd
  <2>4. \A h \in H : h.start % PageSize = 0 /\ End(h) % PageSize = 0
    BY <2>1, <2>3 DEF Books, Lists, ListFits, Pages
  <2>5. \A h \in H : End(h) <= ZoneSize[z]
    <3> SUFFICES ASSUME NEW h \in H PROVE End(h) <= ZoneSize[z]
      OBVIOUS
    <3>1. PICK k \in F[z] : End(h) <= End(k)
      BY <1>4
    <3>2. End(k) <= ZoneSize[z] /\ k \in Extent /\ h \in Extent /\ ZoneSize[z] \in Nat
      BY <1>4, <3>1, WindowMapsAssumption DEF Books, Lists, ListFits
    <3> QED
      BY <3>1, <3>2 DEF Extent, End
  <2> QED
    BY <1>4, <2>4, <2>5 DEF ListFits
<1>14. Books(G, A \cup {e}, Q)
  <2>1. Lists(G)
    BY <1>5, <1>13 DEF Books, Lists
  <2>2. \A a \in A \cup {e} : Fits(a.region)
    BY <1>1, <1>7, <1>10 DEF Books, Fits, want
  <2>3. \A a, b \in A \cup {e} : a # b /\ a.region.zone = b.region.zone /\ a.region.zone \in Q
                              => Apart(Whole(a.region), Whole(b.region))
    BY <1>7, <1>11, <1>12 DEF Books, Apart
  <2>4. \A a \in A \cup {e} : a.region.zone \in Q => \A x \in G[a.region.zone] : Apart(Whole(a.region), x)
    <3> SUFFICES ASSUME NEW a \in A \cup {e}, a.region.zone \in Q, NEW x \in G[a.region.zone]
                 PROVE  Apart(Whole(a.region), x)
      OBVIOUS
    <3>1. CASE a \notin A
      BY <1>4, <1>5, <1>7, <1>11, <3>1 DEF Apart
    <3>2. CASE a \in A /\ a.region.zone # z
      BY <1>5, <3>2 DEF Books, Fits, Place
    <3>3. CASE a \in A /\ a.region.zone = z
      <4>1. PICK k \in F[z] : k.start <= x.start /\ End(x) <= End(k)
        BY <1>4, <1>5, <3>3
      <4>2. Apart(Whole(a.region), k) /\ Whole(a.region) \in Extent /\ k \in Extent /\ x \in Extent
        BY <1>2, <1>4, <1>5, <3>3, <4>1, WholeIs DEF Books
      <4> QED
        BY <4>1, <4>2 DEF Apart, End, Extent
    <3> QED
      BY <3>1, <3>2, <3>3
  <2>5. ASSUME NEW y \in Q, NEW b \in 0 .. ZoneSize[y] - 1
        PROVE  \/ \E x \in G[y] : Covers(x, b)
               \/ \E a \in A \cup {e} : a.region.zone = y /\ Covers(Whole(a.region), b)
    <3>1. \/ \E x \in F[y] : Covers(x, b)
          \/ \E a \in A : a.region.zone = y /\ Covers(Whole(a.region), b)
      BY DEF Books
    <3>2. b \in Nat
      OBVIOUS
    <3>3. CASE y = z
      BY <1>4, <1>5, <1>7, <1>11, <3>1, <3>2, <3>3
    <3>4. CASE y # z
      BY <1>5, <3>1, <3>4
    <3> QED
      BY <3>3, <3>4
  <2> QED
    BY <1>5, <2>1, <2>2, <2>3, <2>4, <2>5 DEF Books
<1>15. z \in Q => e \notin A
  <2> SUFFICES ASSUME e \in A, z \in Q PROVE FALSE
    OBVIOUS
  <2>1. Apart(g, g)
    BY <1>7, <1>11, <1>12
  <2> QED
    BY <1>1, <1>4, <1>7, <2>1 DEF Apart, End, Extent
<1>16. Fits(e.region)
  BY <1>14 DEF Books
<1> QED
  BY <1>11, <1>12, <1>14, <1>15, <1>16

\* ShmAllocator::free of any region leaves lists, and lists of other zones as they were.
LEMMA GiveKeeps ==
  ASSUME NEW F, Lists(F), NEW r, Fits(r)
  PROVE  /\ Lists(GiveBack(r, F))
         /\ \A y \in Zones : y # r.zone => GiveBack(r, F)[y] = F[y]
<1> DEFINE z == r.zone
           want == AlignUp(r.len)
           g == Whole(r)
<1>1. CASE ~ CanFree(F[z], ZoneSize[z], r.start, want)
  BY <1>1 DEF GiveBack
<1>2. CASE CanFree(F[z], ZoneSize[z], r.start, want)
  <2>1. /\ g \in Extent /\ g = [start |-> r.start, len |-> want]
        /\ want \in Nat \ {0} /\ r.start \in Nat /\ z \in Zones
        /\ End(g) = r.start + want /\ End(g) <= ZoneSize[z] /\ Pages(r.start) /\ Pages(End(g))
    BY WholeIs DEF Whole
  <2>2. F[z] \in SUBSET Extent /\ Disjoint(F[z]) /\ Separated(F[z]) /\ DOMAIN F = Zones
        /\ ZoneSize[z] \in Nat
    BY <2>1, WindowMapsAssumption DEF Lists, ListFits
  <2>3. \A x \in F[z] : Apart(x, g)
    BY <1>2, <2>1, <2>2, FreeCheckIsExact
  <2>4. PICK G, H : G = GiveBack(r, F) /\ H = AfterFree(F[z], r.start, want)
    OBVIOUS
  <2>5. /\ H \in SUBSET Extent /\ Disjoint(H) /\ Separated(H)
        /\ \A n \in Nat : End(g) <= n /\ (\A f \in F[z] : End(f) <= n) => \A h \in H : End(h) <= n
    <3> HIDE DEF want, g, z
    <3> QED
      BY <2>1, <2>2, <2>3, <2>4, FreeKeepsList
  <2>6. DOMAIN G = Zones /\ G[z] = H /\ \A y \in Zones : y # z => G[y] = F[y]
    BY <1>2, <2>1, <2>2, <2>4 DEF GiveBack
  <2> HIDE DEF want, g
  <2>7. \A h \in H : /\ h.start = r.start \/ \E f \in F[z] : h.start = f.start
                     /\ End(h) = r.start + want \/ \E f \in F[z] : End(h) = End(f)
    BY <2>1, <2>2, <2>4, FreeEnds
  <2>8. \A h \in H : h.start % PageSize = 0 /\ End(h) % PageSize = 0
    BY <2>1, <2>7 DEF Lists, ListFits, Pages
  <2>9. \A h \in H : End(h) <= ZoneSize[z]
    BY <2>1, <2>2, <2>5 DEF Lists, ListFits
  <2>10. ListFits(z, H)
    BY <2>5, <2>8, <2>9 DEF ListFits
  <2> QED
    BY <2>4, <2>6, <2>10 DEF Lists
<1> QED
  BY <1>1, <1>2

\* ShmAllocator::free of an entry's region is not refused, and the books are
\* right without it.
LEMMA DropKeeps ==
  ASSUME NEW F, NEW A, NEW Q \in SUBSET Zones, Books(F, A, Q), NEW e \in A
  PROVE  Books(GiveBack(e.region, F), A \ {e}, Q)
<1> DEFINE r == e.region
           z == r.zone
           want == AlignUp(r.len)
           g == Whole(r)
<1>0. Fits(r) /\ Lists(F)
  BY DEF Books
<1>1. PICK G : G = GiveBack(r, F)
  OBVIOUS
<1>2. Lists(G) /\ \A y \in Zones : y # z => G[y] = F[y]
  BY <1>0, <1>1, GiveKeeps
<1>3. /\ g \in Extent /\ g = [start |-> r.start, len |-> want]
      /\ want \in Nat \ {0} /\ r.start \in Nat /\ z \in Zones
      /\ End(g) = r.start + want /\ End(g) <= ZoneSize[z] /\ Pages(r.start) /\ Pages(End(g))
  BY <1>0, WholeIs DEF Whole
<1>4. F[z] \in SUBSET Extent /\ Disjoint(F[z]) /\ Separated(F[z]) /\ DOMAIN F = Zones
      /\ ZoneSize[z] \in Nat
  BY <1>0, <1>3, WindowMapsAssumption DEF Lists, ListFits
<1>5. ASSUME z \in Q
      PROVE  \E H : /\ G[z] = H /\ H \in SUBSET Extent
                    /\ \A b \in Nat : (\E h \in H : Covers(h, b)) <=> (Covers(g, b) \/ \E f \in F[z] : Covers(f, b))
                    /\ \A x \in Extent : Apart(x, g) /\ (\A f \in F[z] : Apart(x, f)) => \A h \in H : Apart(x, h)
  <2>1. \A x \in F[z] : Apart(x, g)
    BY <1>5 DEF Books, Apart
  <2>2. CanFree(F[z], ZoneSize[z], r.start, want)
    BY <1>3, <1>4, <2>1, FreeCheckIsExact
  <2>3. PICK H : H = AfterFree(F[z], r.start, want)
    OBVIOUS
  <2>4. /\ H \in SUBSET Extent
        /\ \A b \in Nat : (\E h \in H : Covers(h, b)) <=> (Covers(g, b) \/ \E f \in F[z] : Covers(f, b))
        /\ \A x \in Extent : Apart(x, g) /\ (\A f \in F[z] : Apart(x, f)) => \A h \in H : Apart(x, h)
    <3> HIDE DEF want, g, z
    <3> QED
      BY <1>3, <1>4, <2>1, <2>3, FreeKeepsList
  <2>5. G[z] = H
    BY <1>1, <1>3, <1>4, <2>2, <2>3 DEF GiveBack
  <2> QED
    BY <2>4, <2>5
<1> HIDE DEF want, g
<1>6. \A a \in A : a # e /\ a.region.zone = z /\ z \in Q => Apart(Whole(a.region), g)
  BY DEF Books, g
<1>7. \A a \in A : Whole(a.region) \in Extent
  BY WholeIs DEF Books
<1>8. ASSUME NEW a \in A \ {e}, a.region.zone \in Q, NEW x \in G[a.region.zone]
      PROVE  Apart(Whole(a.region), x)
  <2>1. CASE a.region.zone # z
    BY <1>2, <1>8, <2>1 DEF Books
  <2>2. CASE a.region.zone = z
    <3>1. \A f \in F[z] : Apart(Whole(a.region), f)
      BY <1>8, <2>2 DEF Books
    <3>2. Apart(Whole(a.region), g) /\ Whole(a.region) \in Extent
      BY <1>6, <1>7, <1>8, <2>2
    <3> QED
      BY <1>5, <1>8, <2>2, <3>1, <3>2
  <2> QED
    BY <2>1, <2>2
<1>9. ASSUME NEW y \in Q, NEW b \in 0 .. ZoneSize[y] - 1
      PROVE  \/ \E x \in G[y] : Covers(x, b)
             \/ \E a \in A \ {e} : a.region.zone = y /\ Covers(Whole(a.region), b)
  <2>1. \/ \E x \in F[y] : Covers(x, b)
        \/ \E a \in A : a.region.zone = y /\ Covers(Whole(a.region), b)
    BY DEF Books
  <2>2. b \in Nat
    OBVIOUS
  <2>3. CASE y = z
    BY <1>5, <2>1, <2>2, <2>3 DEF g
  <2>4. CASE y # z
    BY <1>2, <2>1, <2>4
  <2> QED
    BY <2>3, <2>4
<1>10. /\ \A a \in A \ {e} : Fits(a.region)
       /\ \A a, b \in A \ {e} : a # b /\ a.region.zone = b.region.zone /\ a.region.zone \in Q =>
            Apart(Whole(a.region), Whole(b.region))
  BY DEF Books
<1> QED
  BY <1>1, <1>2, <1>8, <1>9, <1>10 DEF Books

\* A region begins with one of its pages.
LEMMA FirstPage ==
  ASSUME NEW r, Fits(r)
  PROVE  r.start \div PageSize \in PagesOf(r)
<1>1. /\ r.start \in Nat /\ r.len \in Nat /\ Pages(r.start) /\ r.start \div PageSize \in Nat
      /\ AlignUp(r.len) \in Nat \ {0} /\ Whole(r).start = r.start /\ Whole(r).len = AlignUp(r.len)
  BY WholeIs, RegionPages DEF Fits
<1>2. PICK p : p = r.start \div PageSize
  OBVIOUS
<1>3. p \in Nat /\ p * PageSize = r.start
  BY <1>1, <1>2, PagesCount
<1>4. Covers(Whole(r), p * PageSize)
  BY <1>1, <1>3 DEF Covers, End
<1> QED
  BY <1>1, <1>2, <1>3, <1>4, PagesCovered

\* Regions of one zone that have no page in common begin at different offsets.
LEMMA OtherStart ==
  ASSUME NEW r, Fits(r), NEW s, Fits(s), PagesOf(r) \cap PagesOf(s) = {}
  PROVE  r.start # s.start
BY FirstPage

\* ShmAllocator::free refuses a region none of whose pages any entry has.
LEMMA StaleRefused ==
  ASSUME NEW F, NEW A, NEW Q \in SUBSET Zones, Books(F, A, Q), NEW r, Fits(r), r.zone \in Q,
         \A e \in A : e.region.zone = r.zone => PagesOf(e.region) \cap PagesOf(r) = {}
  PROVE  GiveBack(r, F) = F
<1> DEFINE z == r.zone
           want == AlignUp(r.len)
           g == Whole(r)
<1>1. /\ g \in Extent /\ g = [start |-> r.start, len |-> want]
      /\ want \in Nat \ {0} /\ r.start \in Nat /\ z \in Zones
      /\ End(g) = r.start + want /\ End(g) <= ZoneSize[z]
  BY WholeIs DEF Whole
<1>2. F[z] \in SUBSET Extent /\ Disjoint(F[z]) /\ Separated(F[z]) /\ ZoneSize[z] \in Nat
  BY <1>1, WindowMapsAssumption DEF Books, Lists, ListFits
<1>3. SUFFICES ASSUME CanFree(F[z], ZoneSize[z], r.start, want) PROVE FALSE
  BY DEF GiveBack
<1>4. \A x \in F[z] : Apart(x, g)
  BY <1>1, <1>2, <1>3, FreeCheckIsExact
<1>5. r.start \in 0 .. ZoneSize[z] - 1
  BY <1>1, <1>2 
<1>6. ASSUME NEW x \in F[z], Covers(x, r.start) PROVE FALSE
  <2>1. Apart(x, g) /\ x \in Extent
    BY <1>2, <1>4
  <2> QED
    BY <1>1, <1>6, <2>1 DEF Apart, Covers, End, Extent
<1>7. ASSUME NEW e \in A, e.region.zone = z, Covers(Whole(e.region), r.start) PROVE FALSE
  <2>1. PICK s, p : s = e.region /\ p = r.start \div PageSize
    OBVIOUS
  <2>2. p \in PagesOf(r) /\ p \in Nat /\ p * PageSize = r.start
    BY <2>1, FirstPage, RegionPages, PagesCount DEF Fits
  <2>3. Fits(s)
    BY <2>1 DEF Books
  <2>4. s.start \in Nat /\ s.len \in Nat /\ Pages(s.start)
    BY <2>3, RegionPages DEF Fits
  <2>5. p \in PagesOf(s)
    BY <1>7, <2>1, <2>2, <2>4, PagesCovered
  <2> QED
    BY <1>7, <2>1, <2>2, <2>5
<1> QED
  BY <1>5, <1>6, <1>7 DEF Books

\* What the books of fewer zones say depends on the entries there.
LEMMA BooksAgree ==
  ASSUME NEW F, NEW A, NEW Q \in SUBSET Zones, Books(F, A, Q),
         NEW G, Lists(G), NEW B, \A e \in B : Fits(e.region),
         NEW R \in SUBSET Q, \A z \in R : G[z] = F[z],
         \A e \in A : e.region.zone \in R => e \in B,
         \A e \in B : e.region.zone \in R => e \in A
  PROVE  Books(G, B, R)
<1>1. \A e, f \in B : e # f /\ e.region.zone = f.region.zone /\ e.region.zone \in R =>
        Apart(Whole(e.region), Whole(f.region))
  BY DEF Books
<1>2. \A e \in B : e.region.zone \in R => \A x \in G[e.region.zone] : Apart(Whole(e.region), x)
  BY DEF Books
<1>3. ASSUME NEW z \in R, NEW b \in 0 .. ZoneSize[z] - 1
      PROVE  \/ \E x \in G[z] : Covers(x, b)
             \/ \E e \in B : e.region.zone = z /\ Covers(Whole(e.region), b)
  BY DEF Books
<1> QED
  BY <1>1, <1>2, <1>3 DEF Books

----------------------------------------------------------------------------
(* Closing a file gives all of its regions back *)

(* A set of numbers that is not empty has a least one.                     *)
LEMMA LeastExists ==
  ASSUME NEW S \in SUBSET Nat, S # {}
  PROVE  \E n \in S : \A m \in S : n <= m
<1>1. PICK n \in S : \A m \in S : ~ (<<m, n>> \in OpToRel(<, Nat))
  BY NatLessThanWellFounded, WFMin
<1>2. ASSUME NEW m \in S PROVE n <= m
  <2>1. n \in Nat /\ m \in Nat
    OBVIOUS
  <2>2. ~ (m < n)
    BY <1>1, <2>1 DEF OpToRel
  <2> QED
    BY <2>1, <2>2
<1> QED
  BY <1>2

\* A set of entries without one of them is smaller.
LEMMA OneLess ==
  ASSUME NEW s, IsFiniteSet(s), s # {}
  PROVE  /\ (CHOOSE x \in s : TRUE) \in s
         /\ IsFiniteSet(s \ {CHOOSE x \in s : TRUE})
         /\ Cardinality(s) \in Nat \ {0}
         /\ Cardinality(s \ {CHOOSE x \in s : TRUE}) = Cardinality(s) - 1
<1>1. PICK x : x = CHOOSE y \in s : TRUE
  OBVIOUS
<1>2. x \in s
  BY <1>1
<1>3. IsFiniteSet(s \ {x}) /\ Cardinality(s \ {x}) = Cardinality(s) - 1
  BY <1>2, FS_RemoveElement
<1>4. Cardinality(s) \in Nat /\ Cardinality(s) # 0
  BY FS_CardinalityType, FS_EmptySet
<1> QED
  BY <1>1, <1>2, <1>3, <1>4

\* handle_close gives back the region of every entry it takes, in whatever order.
LEMMA FoldGivesBack ==
  ASSUME NEW F, NEW A, NEW Q \in SUBSET Zones, Books(F, A, Q),
         NEW S \in SUBSET A, IsFiniteSet(S)
  PROVE  Books(FoldSet(LAMBDA e, H : GiveBack(e.region, H), F, S), A \ S, Q)
<1> DEFINE One(s) == CHOOSE x \in s : TRUE
           Step(g, s) == IF s = {} THEN F ELSE GiveBack(One(s).region, g[s \ {One(s)}])
           Upto(n) == {s \in SUBSET S : Cardinality(s) <= n}
           Folds(g, D) == g = [s \in D |-> Step(g, s)]
<1>1. \A s \in SUBSET S : IsFiniteSet(s) /\ Cardinality(s) \in Nat
  BY FS_Subset, FS_CardinalityType
<1>2. \A n \in Nat : \E g : Folds(g, Upto(n))
  <2> DEFINE Bad == {n \in Nat : ~ \E g : Folds(g, Upto(n))}
  <2> SUFFICES ASSUME Bad # {} PROVE FALSE
    OBVIOUS
  <2>0. Bad \in SUBSET Nat
    OBVIOUS
  <2>1. PICK n \in Bad : \A m \in Bad : n <= m
    <3> HIDE DEF Bad
    <3> QED
      BY <2>0, LeastExists
  <2>2. CASE n = 0
    <3>1. \A s \in Upto(0) : s = {}
      <4> SUFFICES ASSUME NEW s \in Upto(0) PROVE s = {}
        OBVIOUS
      <4>1. IsFiniteSet(s) /\ Cardinality(s) = 0
        BY <1>1
      <4> QED
        BY <4>1, FS_EmptySet
    <3>2. PICK g : g = [s \in Upto(0) |-> F]
      OBVIOUS
    <3>3. \A s \in Upto(0) : Step(g, s) = F
      BY <3>1
    <3>4. Folds(g, Upto(0))
      <4> HIDE DEF Step, Upto
      <4> QED
        BY <3>2, <3>3
    <3> HIDE DEF Folds, Upto
    <3> QED
      BY <2>1, <2>2, <3>4
  <2>3. CASE n > 0
    <3>1. n \in Nat /\ n - 1 \in Nat
      BY <2>0, <2>1, <2>3
    <3>2. PICK g : Folds(g, Upto(n - 1))
      <4>1. n - 1 \notin Bad
        <5> HIDE DEF Bad
        <5> QED
          BY <2>0, <2>1, <3>1
      <4> HIDE DEF Folds, Upto
      <4> QED
        BY <3>1, <4>1
    <3>3. PICK h : h = [s \in Upto(n) |-> Step(g, s)]
      OBVIOUS
    <3>4. ASSUME NEW s \in Upto(n) PROVE Step(h, s) = Step(g, s)
      <4>1. CASE s = {}
        BY <4>1
      <4>2. CASE s # {}
        <5>1. PICK t : t = s \ {One(s)}
          OBVIOUS
        <5>2. t \in Upto(n - 1) /\ t \in Upto(n)
          BY <1>1, <3>1, <4>2, <5>1, OneLess
        <5>3. h[t] = Step(g, t)
          <6> HIDE DEF Step, Upto
          <6> QED
            BY <3>3, <5>2
        <5>4. g[t] = Step(g, t)
          <6> HIDE DEF Step, Upto
          <6> QED
            BY <3>2, <5>2
        <5>5. h[t] = g[t]
          BY <5>3, <5>4
        <5>6. h[s \ {One(s)}] = g[s \ {One(s)}]
          <6> HIDE DEF One, Step, Upto, Folds
          <6> QED
            BY <5>1, <5>5
        <5> HIDE DEF One, Upto, Folds
        <5> QED
          BY <4>2, <5>6
      <4> QED
        BY <4>1, <4>2
    <3>5. Folds(h, Upto(n))
      <4> HIDE DEF Step, Upto
      <4> QED
        BY <3>3, <3>4
    <3> HIDE DEF Folds, Upto
    <3> QED
      BY <2>1, <3>1, <3>5
  <2> QED
    BY <2>0, <2>1, <2>2, <2>3
<1>3. \E g : Folds(g, SUBSET S)
  <2>1. PICK N \in Nat : N = Cardinality(S)
    BY <1>1
  <2>2. \A s \in SUBSET S : Cardinality(s) <= N
    BY <2>1, FS_Subset
  <2>3. Upto(N) = SUBSET S
    BY <2>2
  <2> HIDE DEF Folds, Upto
  <2> QED
    BY <1>2, <2>3
<1>4. PICK g : g = CHOOSE h : Folds(h, SUBSET S)
  OBVIOUS
<1>5. Folds(g, SUBSET S)
  <2> HIDE DEF Folds
  <2> QED
    BY <1>3, <1>4
<1>6. FoldSet(LAMBDA e, H : GiveBack(e.region, H), F, S) = g[S]
  BY <1>4 DEF FoldSet, MapThenFoldSet
<1>7. \A s \in SUBSET S : g[s] = Step(g, s)
  <2> HIDE DEF Step
  <2> QED
    BY <1>5
<1>8. \A n \in Nat : \A s \in Upto(n) : Books(g[s], A \ s, Q)
  <2> DEFINE Bad == {n \in Nat : ~ \A s \in Upto(n) : Books(g[s], A \ s, Q)}
  <2> SUFFICES ASSUME Bad # {} PROVE FALSE
    OBVIOUS
  <2>0. Bad \in SUBSET Nat
    OBVIOUS
  <2>1. PICK n \in Bad : \A m \in Bad : n <= m
    <3> HIDE DEF Bad
    <3> QED
      BY <2>0, LeastExists
  <2>2. PICK s \in Upto(n) : ~ Books(g[s], A \ s, Q)
    BY <2>1
  <2>3. CASE s = {}
    <3>1. g[s] = F /\ A \ s = A
      BY <1>7, <2>3
    <3> QED
      BY <2>2, <3>1
  <2>4. CASE s # {}
    <3>1. PICK x : x = One(s)
      OBVIOUS
    <3>2. x \in s /\ Cardinality(s \ {x}) = Cardinality(s) - 1 /\ Cardinality(s) \in Nat \ {0}
      BY <1>1, <2>2, <2>4, <3>1, OneLess
    <3>3. n - 1 \in Nat /\ s \ {x} \in Upto(n - 1)
      BY <1>1, <2>0, <2>1, <2>2, <3>2
    <3>4. n - 1 \notin Bad
      <4> HIDE DEF Bad, Upto
      <4> QED
        BY <2>0, <2>1, <3>3
    <3>5. Books(g[s \ {x}], A \ (s \ {x}), Q)
      <4> HIDE DEF Upto
      <4> QED
        BY <3>3, <3>4
    <3>6. x \in A \ (s \ {x}) /\ (A \ (s \ {x})) \ {x} = A \ s
      BY <2>2, <3>2
    <3>7. Books(GiveBack(x.region, g[s \ {x}]), A \ s, Q)
      <4>1. PICK B, H : B = A \ (s \ {x}) /\ H = g[s \ {x}]
        OBVIOUS
      <4>2. Books(H, B, Q) /\ Q \in SUBSET Zones /\ x \in B /\ B \ {x} = A \ s
        BY <3>5, <3>6, <4>1
      <4>3. Books(GiveBack(x.region, H), B \ {x}, Q)
        BY ONLY <4>2, DropKeeps, ExtentsAssumption, WindowMapsAssumption
      <4> QED
        BY <4>1, <4>2, <4>3
    <3>8. g[s] = GiveBack(x.region, g[s \ {x}])
      BY <1>7, <2>2, <2>4, <3>1
    <3> QED
      BY <2>2, <3>7, <3>8
  <2> QED
    BY <2>3, <2>4
<1>9. S \in Upto(Cardinality(S)) /\ Cardinality(S) \in Nat
  BY <1>1
<1> HIDE DEF Upto
<1> QED
  BY <1>6, <1>8, <1>9

\* A list that leaves nothing out is one extent.
LEMMA OneExtent ==
  ASSUME NEW F, NEW A, NEW Q \in SUBSET Zones, Books(F, A, Q), NEW z \in Q, ZoneSize[z] > 0,
         \A e \in A : e.region.zone # z
  PROVE  F[z] = {[start |-> 0, len |-> ZoneSize[z]]}
<1>1. ZoneSize[z] \in Nat \ {0}
  BY WindowMapsAssumption
<1>2. \A b \in 0 .. ZoneSize[z] - 1 : \E x \in F[z] : Covers(x, b)
  BY DEF Books
<1>3. F[z] \subseteq Extent /\ Disjoint(F[z]) /\ Separated(F[z]) /\ \A x \in F[z] : End(x) <= ZoneSize[z]
  BY DEF Books, Lists, ListFits
<1>4. PICK f \in F[z] : Covers(f, 0)
  <2>1. 0 \in 0 .. ZoneSize[z] - 1
    BY <1>1
  <2> QED
    BY <1>2, <2>1
<1>5. f \in Extent /\ f.start = 0 /\ End(f) = f.len /\ f.len \in Nat \ {0} /\ f.len <= ZoneSize[z]
  BY <1>3, <1>4 DEF Covers, Extent, End
<1>6. End(f) = ZoneSize[z]
  <2> SUFFICES ASSUME End(f) < ZoneSize[z] PROVE FALSE
    BY <1>1, <1>5
  <2>1. PICK x \in F[z] : Covers(x, End(f))
    BY <1>1, <1>2, <1>5
  <2>2. x \in Extent /\ x # f
    BY <1>3, <1>5, <2>1 DEF Covers, Extent, End
  <2>3. Apart(x, f)
    BY <1>3, <2>2 DEF Disjoint
  <2>4. x.start = End(f)
    BY <1>5, <2>1, <2>2, <2>3 DEF Apart, Covers, Extent, End
  <2> QED
    BY <1>3, <2>4 DEF Separated
<1>7. ASSUME NEW x \in F[z] PROVE x = f
  <2> SUFFICES ASSUME x # f PROVE FALSE
    OBVIOUS
  <2>1. Apart(x, f) /\ x \in Extent /\ End(x) <= ZoneSize[z]
    BY <1>3 DEF Disjoint
  <2> QED
    BY <1>1, <1>5, <1>6, <2>1 DEF Apart, Extent, End
<1>8. f = [start |-> 0, len |-> ZoneSize[z]]
  BY <1>5, <1>6 DEF Extent
<1> QED
  BY <1>4, <1>7, <1>8

----------------------------------------------------------------------------
(* What the VMM shows *)

\* Only the pages of the region that is placed or withdrawn change.
LEMMA ShowKeeps ==
  ASSUME Grounds(shown), NEW r, Region(r), NEW obj \in Objects \cup {None},
         NEW s, s = Show(r, obj)
  PROVE  /\ Grounds(s)
         /\ ShowsIn(s, r, obj)
         /\ \A q : Region(q) /\ (q.zone = r.zone => PagesOf(q) \cap PagesOf(r) = {})
                     => \A p \in PagesOf(q) : s[q.zone][p] = shown[q.zone][p]
<1>1. /\ DOMAIN s = Zones
      /\ \A z \in Zones : z # r.zone => s[z] = shown[z]
      /\ s[r.zone] = [p \in DOMAIN shown[r.zone] |-> IF p \in PagesOf(r) THEN obj ELSE shown[r.zone][p]]
  BY ShowIs DEF Grounds
<1>2. r.zone \in Zones
  BY RegionPages
<1>3. \A z \in Zones : DOMAIN shown[z] = 0 .. (ZoneSize[z] \div PageSize) - 1
  BY DEF Grounds
<1>4. Grounds(s)
  <2> SUFFICES ASSUME NEW z \in Zones
               PROVE  s[z] \in [0 .. (ZoneSize[z] \div PageSize) - 1 -> Objects \cup {None}]
    BY <1>1 DEF Grounds
  <2>1. CASE z # r.zone
    BY <1>1, <2>1 DEF Grounds
  <2>2. CASE z = r.zone
    <3>1. PICK D : D = 0 .. (ZoneSize[z] \div PageSize) - 1
      OBVIOUS
    <3>2. shown[z] \in [D -> Objects \cup {None}]
      BY <3>1 DEF Grounds
    <3>3. s[z] = [p \in D |-> IF p \in PagesOf(r) THEN obj ELSE shown[z][p]]
      BY <1>1, <1>3, <2>2, <3>1
    <3>4. s[z] \in [D -> Objects \cup {None}]
      BY <3>2, <3>3
    <3> QED
      BY <3>1, <3>4
  <2> QED
    BY <2>1, <2>2
<1>5. \A p \in PagesOf(r) : p \in DOMAIN shown[r.zone]
  BY <1>2, <1>3, RegionPages
<1>6. ShowsIn(s, r, obj)
  BY <1>1, <1>5 DEF ShowsIn
<1>7. ASSUME NEW q, Region(q), q.zone = r.zone => PagesOf(q) \cap PagesOf(r) = {},
             NEW p \in PagesOf(q)
      PROVE  s[q.zone][p] = shown[q.zone][p]
  <2>1. q.zone \in Zones /\ p \in DOMAIN shown[q.zone]
    BY <1>3, <1>7, RegionPages
  <2> QED
    BY <1>1, <1>7, <2>1
<1> QED
  BY <1>4, <1>6, <1>7

\* An entry stays, and the window shows what it did there.
Stays(a) ==
  a \in active' /\ \A x : Shows(a.region, x) => ShowsIn(shown', a.region, x)

\* Entries of a zone no late MUNMAP struck have no page in common.
LEMMA HeldApart ==
  ASSUME BooksFit, NEW a \in Held, NEW b \in Held, a # b,
         a.region.zone = b.region.zone, a.region.zone \in Sound
  PROVE  PagesOf(a.region) \cap PagesOf(b.region) = {}
<1>1. Apart(Whole(a.region), Whole(b.region)) /\ Fits(a.region) /\ Fits(b.region)
  BY DEF BooksFit, Books
<1>2. PICK r, q : r = a.region /\ q = b.region
  OBVIOUS
<1> QED
  BY <1>1, <1>2, ApartPages DEF Fits

(* Remove takes what is at the region's offset, and leaves what has none   *)
(* of its pages.                                                           *)
LEMMA RemoveKeeps ==
  ASSUME TablesFit, BooksFit, NEW r, Fits(r)
  PROVE  /\ Remove(r) \subseteq active /\ Remove(r) \subseteq Entry /\ IsFiniteSet(Remove(r))
         /\ \A a \in Remove(r) : a.region # r
         /\ \A a \in active : (a.region.zone = r.zone => PagesOf(a.region) \cap PagesOf(r) = {})
                              => a \in Remove(r)
<1>1. Remove(r) \subseteq active
  BY DEF Remove
<1>2. Remove(r) \subseteq Entry /\ IsFiniteSet(Remove(r))
  BY <1>1, FS_Subset DEF TablesFit
<1>3. ASSUME NEW a \in active, a.region.zone = r.zone => PagesOf(a.region) \cap PagesOf(r) = {}
      PROVE  a \in Remove(r)
  <2>1. CASE a.region.zone # r.zone
    BY <2>1 DEF Remove
  <2>2. CASE a.region.zone = r.zone
    <3>1. PICK q : q = a.region
      OBVIOUS
    <3>2. Fits(q)
      BY <3>1 DEF BooksFit, Books, Held
    <3>3. q.start # r.start
      BY <1>3, <2>2, <3>1, <3>2, OtherStart
    <3> QED
      BY <3>1, <3>3 DEF Remove
  <2> QED
    BY <2>1, <2>2
<1>4. \A a \in Remove(r) : a.region # r
  BY DEF Remove
<1> QED
  BY <1>1, <1>2, <1>3, <1>4

\* What is granted fits, and the books are right with it in them.
LEMMA GrantedFits ==
  ASSUME BooksFit, NEW z \in Zones, NEW len \in Nat \ {0}, CanAlloc(free[z], AlignUp(len)),
         NEW e, e.region = Granted(z, len)
  PROVE  /\ Books(Take(z, len), Held \cup {e}, Sound)
         /\ Fits(e.region) /\ e.region.zone = z
         /\ z \in Sound => /\ \A a \in Held : a.region.zone = z => PagesOf(a.region) \cap PagesOf(e.region) = {}
                           /\ e \notin Held
<1>1. e.region = [zone |-> z, start |-> AllocStart(free[z], AlignUp(len)), len |-> len]
  BY DEF Granted
<1>2. PICK F, A, Q, G : F = free /\ A = Held /\ Q = Sound /\ G = Take(z, len)
  OBVIOUS
<1>3. /\ Books(F, A, Q) /\ CanAlloc(F[z], AlignUp(len)) /\ z \in Zones /\ len \in Nat \ {0}
      /\ Q \in SUBSET Zones
      /\ DOMAIN G = Zones /\ G[z] = AfterAlloc(F[z], AlignUp(len))
      /\ \A y \in Zones : y # z => G[y] = F[y]
      /\ e.region = [zone |-> z, start |-> AllocStart(F[z], AlignUp(len)), len |-> len]
  BY <1>1, <1>2 DEF BooksFit, Books, Lists, Take, Sound
<1>4. Books(G, A \cup {e}, Q)
  BY ONLY <1>3, PutKeeps
<1>5. Fits(e.region)
  BY ONLY <1>3, <1>4, PutKeeps
<1>6. z \in Q => (\A a \in A : a.region.zone = z => Apart(Whole(a.region), Whole(e.region))) /\ e \notin A
  BY ONLY <1>3, <1>4, PutKeeps
<1>7. e.region.zone = z
  BY <1>1
<1>8. \A a \in Held : Fits(a.region)
  BY DEF BooksFit, Books
<1>9. ASSUME z \in Sound, NEW a \in Held, a.region.zone = z
      PROVE  PagesOf(a.region) \cap PagesOf(e.region) = {}
  <2>1. PICK r, q : r = a.region /\ q = e.region
    OBVIOUS
  <2>2. Fits(r) /\ Fits(q) /\ Apart(Whole(r), Whole(q))
    BY <1>2, <1>5, <1>6, <1>8, <1>9, <2>1
  <2> QED
    BY <2>1, <2>2, ApartPages DEF Fits
<1> QED
  BY <1>2, <1>4, <1>5, <1>6, <1>7, <1>9

(* A region is handed out, entered and shown.                              *)
LEMMA PutIs ==
  ASSUME TablesFit, BooksFit, NEW z \in Zones, NEW len \in Nat \ {0},
         CanAlloc(free[z], AlignUp(len)),
         NEW f \in Files, NEW id \in Nat,
         NEW e, e = [fd |-> f, region |-> Granted(z, len), id |-> id],
         NEW obj \in Objects,
         free' = Take(z, len), active' = Insert(e), shown' = Show(e.region, obj),
         UNCHANGED <<leaked, struck>>
  PROVE  /\ BooksFit'
         /\ active' \subseteq active \cup {e} /\ e \in active' /\ e \in Entry
         /\ active' \subseteq Entry /\ IsFiniteSet(active')
         /\ Fits(e.region) /\ e.region.zone = z
         /\ z \in Sound => e \notin Held
         /\ Grounds(shown') /\ ShowsIn(shown', e.region, obj)
         /\ \A a \in active : a.region.zone \in Sound => Stays(a) /\ a.region # e.region
<1>0. e.region = Granted(z, len)
  OBVIOUS
<1>1. /\ Books(Take(z, len), Held \cup {e}, Sound)
      /\ Fits(e.region) /\ e.region.zone = z
      /\ z \in Sound => /\ \A a \in Held : a.region.zone = z => PagesOf(a.region) \cap PagesOf(e.region) = {}
                        /\ e \notin Held
  BY <1>0, GrantedFits
<1>2. e \in Entry
  BY <1>1 DEF Entry, Fits
<1>3. active' \subseteq active \cup {e} /\ e \in active'
  BY DEF Insert
<1>4. active' \subseteq Entry /\ IsFiniteSet(active')
  <2>1. active \subseteq Entry /\ IsFiniteSet(active)
    BY DEF TablesFit
  <2>2. IsFiniteSet(active \cup {e})
    BY <2>1, FS_AddElement
  <2> QED
    BY <1>2, <1>3, <2>1, <2>2, FS_Subset
<1>5. Sound' = Sound /\ Held' \subseteq Held \cup {e}
  BY <1>3 DEF Sound, Held
<1>6. ASSUME NEW a \in active, a.region.zone \in Sound
      PROVE  (a.region.zone = z => PagesOf(a.region) \cap PagesOf(e.region) = {})
             /\ a \in active' /\ a.region # e.region /\ Fits(a.region)
  <2>1. PICK q, r : q = a.region /\ r = e.region
    OBVIOUS
  <2>2. Fits(q) /\ Fits(r)
    BY <1>1, <2>1 DEF BooksFit, Books, Held
  <2>3. a.region.zone = z => PagesOf(q) \cap PagesOf(r) = {}
    BY <1>1, <1>6, <2>1 DEF Held
  <2>4. a.region.zone = z => q.start # r.start
    BY <2>2, <2>3, OtherStart
  <2>5. <<q.zone, q.start>> # <<r.zone, r.start>>
    BY <1>1, <2>1, <2>4
  <2>6. a \in active' /\ a.region # e.region
    BY <2>1, <2>5 DEF Insert
  <2> QED
    BY <2>1, <2>2, <2>3, <2>6
<1>7. BooksFit'
  <2>1. \A a \in Held \cup {e} : a.region.zone \in Sound => a \in Held'
    BY <1>3, <1>6 DEF Held
  <2>2. \A a \in Held' : Fits(a.region)
    BY <1>1, <1>5 DEF Books
  <2>3. PICK F, A, Q, B : F = free' /\ A = Held \cup {e} /\ Q = Sound /\ B = Held'
    OBVIOUS
  <2>4. /\ Books(F, A, Q) /\ Q \in SUBSET Zones /\ Lists(F) /\ \A a \in B : Fits(a.region)
        /\ \A a \in A : a.region.zone \in Q => a \in B
        /\ \A a \in B : a.region.zone \in Q => a \in A
    BY <1>1, <1>5, <2>1, <2>2, <2>3 DEF Books, Sound
  <2>5. Books(F, B, Q)
    BY ONLY <2>4, BooksAgree
  <2> QED
    BY <1>5, <2>3, <2>5 DEF BooksFit
<1>8. PICK r : r = e.region
  OBVIOUS
<1>9. /\ Grounds(shown') /\ ShowsIn(shown', r, obj)
      /\ \A q : Region(q) /\ (q.zone = r.zone => PagesOf(q) \cap PagesOf(r) = {})
                    => \A p \in PagesOf(q) : shown'[q.zone][p] = shown[q.zone][p]
  <2>1. Grounds(shown) /\ Region(r) /\ obj \in Objects \cup {None} /\ shown' = Show(r, obj)
    BY <1>1, <1>8 DEF TablesFit, Fits
  <2> QED
    BY <2>1, ShowKeeps
<1>10. ASSUME NEW a \in active, a.region.zone \in Sound
       PROVE  Stays(a)
  <2>1. PICK q : q = a.region
    OBVIOUS
  <2>2. Region(q) /\ (q.zone = r.zone => PagesOf(q) \cap PagesOf(r) = {}) /\ a \in active'
    BY <1>1, <1>6, <1>8, <1>10, <2>1 DEF Fits
  <2>3. \A x : ShowsIn(shown, q, x) => ShowsIn(shown', q, x)
    BY <1>9, <2>2 DEF ShowsIn
  <2> QED
    BY <2>1, <2>2, <2>3 DEF Stays, Shows
<1> QED
  BY <1>1, <1>2, <1>3, <1>4, <1>6, <1>7, <1>8, <1>9, <1>10

(* A region is handed out, and then neither entered nor given back.        *)
LEMMA WithheldIs ==
  ASSUME TablesFit, BooksFit, ActiveFits, NEW z \in Zones, NEW len \in Nat \ {0},
         CanAlloc(free[z], AlignUp(len)),
         NEW f \in Files, Withheld(f, Granted(z, len)), UNCHANGED struck
  PROVE  /\ BooksFit' /\ leaked' \subseteq Entry
         /\ \A a \in leaked' : a \in leaked \/ a.id = 0
         /\ \A a \in active : a.region.zone \in Sound => a \notin leaked'
         /\ UNCHANGED <<active, shown>>
<1>1. PICK r, e : r = Granted(z, len) /\ e = [fd |-> f, region |-> r, id |-> 0]
  OBVIOUS
<1>2. e.region = Granted(z, len) /\ e.id = 0 /\ e.fd = f
  BY <1>1
<1>3. /\ Books(Take(z, len), Held \cup {e}, Sound)
      /\ Fits(e.region) /\ e.region.zone = z
      /\ z \in Sound => e \notin Held
  BY <1>2, GrantedFits
<1>4. leaked' = leaked \cup {e} /\ free' = Take(z, len) /\ UNCHANGED <<active, shown>>
  <2>1. r.zone = z /\ r.len = len
    BY <1>1 DEF Granted
  <2>2. Withheld(f, r)
    BY <1>1
  <2> QED
    BY <1>1, <2>1, <2>2 DEF Withheld
<1>5. Held' = Held \cup {e} /\ Sound' = Sound
  BY <1>4 DEF Held, Sound
<1>6. BooksFit'
  BY <1>3, <1>4, <1>5 DEF BooksFit
<1>7. e \in Entry
  <2>1. r \in Place
    BY <1>1, <1>2, <1>3 DEF Fits
  <2> QED
    BY <1>1, <2>1 DEF Entry
<1>8. \A a \in active : a.region.zone \in Sound => a \notin leaked'
  BY <1>3, <1>4 DEF ActiveFits, Held
<1>9. leaked' \subseteq Entry
  BY <1>4, <1>7 DEF TablesFit
<1> QED
  BY <1>2, <1>4, <1>6, <1>8, <1>9

(* What MUNMAP of an id does when there is a placement under it: its own   *)
(* entry goes, and in the zones that no MUNMAP has struck nothing else.    *)
Unplaced(m) ==
  /\ live' = live \ {m} /\ dri' = {d \in dri : d.key # m.key} /\ nextId' = nextId
  /\ active' \subseteq active /\ IsFiniteSet(active') /\ Held' \subseteq Held
  /\ leaked' \subseteq leaked \cup {OwnEntry(m)}
  /\ struck \subseteq struck' /\ struck' \subseteq Zones
  /\ BooksFit' /\ Grounds(shown')
  /\ \A a \in active' : a.id # m.id
  /\ \A a \in active : a.id # m.id /\ a.region.zone \in Sound' => Stays(a)

LEMMA MunmapIs ==
  ASSUME TablesFit, BooksFit, IdsFit, NEW id, Munmap(id)
  PROVE  UNCHANGED backend \/ \E m \in live : m.id = id /\ Unplaced(m)
<1>1. CASE \A m \in live : m.id # id
  BY <1>1 DEF Munmap
<1>2. CASE ~ \A m \in live : m.id # id
  <2>1. PICK m : m = CHOOSE n \in live : n.id = id
    OBVIOUS
  <2>2. m \in live /\ m.id = id
    BY <1>2, <2>1
  <2>3. /\ live' = live \ {m}
        /\ dri' = {d \in dri : d.key # m.key}
        /\ active' = Remove(m.region)
        /\ \/ free' = GiveBack(m.region, free) /\ leaked' = leaked \ Own(m)
           \/ leaked' = leaked \cup Own(m) /\ UNCHANGED free
        /\ shown' = Show(m.region, None) \/ UNCHANGED shown
        /\ struck' = IF Own(m) = {} /\ InUse(m.region)
                     THEN struck \cup {m.region.zone} ELSE struck
        /\ nextId' = nextId
    BY <1>2, <2>1 DEF Munmap
  <2>4. PICK r, o, z : r = m.region /\ o = OwnEntry(m) /\ z = r.zone
    OBVIOUS
  <2>5. Fits(r) /\ o.region = r /\ o.id = id /\ z \in Zones
    BY <2>2, <2>4 DEF TablesFit, OwnEntry, Fits, Place
  <2>6. Own(m) \subseteq {o} /\ Own(m) \subseteq Held
    BY <2>2, <2>4 DEF IdsFit, Own, Held
  <2>7. \A a \in Held : a.id = id => a = o
    BY <2>2, <2>4 DEF IdsFit
  <2>8. struck \subseteq struck' /\ struck' \subseteq Zones /\ Sound' \subseteq Sound /\ Sound \subseteq Zones
    BY <2>3, <2>4, <2>5 DEF Sound, TablesFit
  <2>9. /\ active' \subseteq active /\ IsFiniteSet(active')
        /\ \A a \in active' : a.region # r
        /\ \A a \in active : (a.region.zone = z => PagesOf(a.region) \cap PagesOf(r) = {})
                             => a \in active'
    BY <2>3, <2>4, <2>5, RemoveKeeps
  <2>10. ASSUME NEW a \in Held, a.region.zone = z, z \in Sound', a # o
         PROVE  PagesOf(a.region) \cap PagesOf(r) = {}
    <3>1. z \in Sound
      BY <2>8, <2>10
    <3>2. CASE Own(m) # {}
      <4>1. o \in Held
        BY <2>6, <3>2
      <4> QED
        BY <2>4, <2>5, <2>10, <3>1, <4>1, HeldApart
    <3>3. CASE Own(m) = {}
      <4>1. ~ InUse(r)
        BY <2>3, <2>4, <2>10, <3>3 DEF Sound
      <4> QED
        BY <2>4, <2>10, <4>1 DEF InUse, Held
    <3> QED
      BY <3>2, <3>3
  <2>11. leaked' \subseteq leaked \cup {o} /\ Held' \subseteq Held
    BY <2>3, <2>6, <2>9 DEF Held
  <2>12. \A a \in active' : a.id # id
    BY <2>5, <2>7, <2>9 DEF Held
  <2>13. \A a \in Held : Fits(a.region)
    BY DEF BooksFit, Books
  <2>14. BooksFit'
    <3>1. \A a \in Held' : Fits(a.region)
      BY <2>11, <2>13
    <3>2. PICK F, A, Q, G, B, R : /\ F = free /\ A = Held /\ Q = Sound
                                  /\ G = free' /\ B = Held' /\ R = Sound'
      OBVIOUS
    <3>3. Books(F, A, Q) /\ Lists(F) /\ Q \in SUBSET Zones /\ R \in SUBSET Q
          /\ (\A a \in B : Fits(a.region)) /\ B \subseteq A
      BY <2>8, <2>11, <3>1, <3>2 DEF BooksFit, Books
    <3>4. \A a \in A : a.region.zone \in R /\ a # o => a \in active' \/ a \in leaked
      BY <2>9, <2>10, <3>2 DEF Held
    <3>5. CASE leaked' = leaked \cup Own(m) /\ UNCHANGED free
      <4>1. \A a \in A : a.region.zone \in R => a \in B
        <5>1. o \in A => o \in leaked'
          BY <2>2, <2>5, <3>2, <3>5 DEF Own, Held
        <5> QED
          BY <3>2, <3>4, <3>5, <5>1 DEF Held
      <4>2. /\ \A y \in R : G[y] = F[y] 
            /\ \A a \in B : a.region.zone \in R => a \in A
        BY <3>2, <3>3, <3>5
      <4>3. Lists(G)
        BY <3>2, <3>3, <3>5
      <4>4. Books(G, B, R)
        BY ONLY <3>3, <4>1, <4>2, <4>3, BooksAgree
      <4> QED
        BY <3>2, <4>4 DEF BooksFit
    <3>6. CASE free' = GiveBack(r, free) /\ leaked' = leaked \ Own(m) /\ Own(m) # {}
      <4>1. o \in A /\ Own(m) = {o}
        BY <2>6, <3>2, <3>6
      <4>2. G = GiveBack(o.region, F)
        BY <2>5, <3>2, <3>6
      <4>3. Books(G, A \ {o}, Q)
        BY ONLY <3>3, <4>1, <4>2, DropKeeps
      <4>4. \A a \in A \ {o} : a.region.zone \in R => a \in B
        BY <3>2, <3>4, <3>6, <4>1 DEF Held
      <4>5. \A a \in B : a \in A \ {o}
        BY <2>5, <2>9, <3>2, <3>3, <3>6, <4>1 DEF Held
      <4>6. Lists(G)
        BY <4>3 DEF Books
      <4>7. PICK C : C = A \ {o}
        OBVIOUS
      <4>8. /\ Books(G, C, Q) /\ Lists(G) /\ Q \in SUBSET Zones /\ R \in SUBSET Q
            /\ (\A a \in B : Fits(a.region))
            /\ \A a \in C : a.region.zone \in R => a \in B
            /\ \A a \in B : a.region.zone \in R => a \in C
        BY <3>3, <4>3, <4>4, <4>5, <4>6, <4>7
      <4>9. Books(G, B, R)
        BY ONLY <4>8, BooksAgree
      <4> QED
        BY <3>2, <4>9 DEF BooksFit
    <3>7. CASE free' = GiveBack(r, free) /\ leaked' = leaked \ Own(m) /\ Own(m) = {}
      <4>1. Lists(G) /\ \A y \in Zones : y # z => G[y] = F[y]
        BY <2>4, <2>5, <3>2, <3>3, <3>7, GiveKeeps
      <4>2. ASSUME z \in R PROVE G = F
        <5>1. o \notin A
          BY <2>2, <2>5, <3>2, <3>7 DEF Own, Held
        <5>2. \A a \in A : a.region.zone = r.zone => PagesOf(a.region) \cap PagesOf(r) = {}
          BY <2>4, <2>10, <3>2, <4>2, <5>1
        <5>3. r.zone \in Q /\ Fits(r)
          BY <2>4, <2>5, <3>3, <4>2
        <5>4. GiveBack(r, F) = F
          BY ONLY <3>3, <5>2, <5>3, StaleRefused
        <5> QED
          BY <3>2, <3>7, <5>4
      <4>3. \A y \in R : G[y] = F[y]
        BY <3>3, <4>1, <4>2
      <4>4. \A a \in A : a.region.zone \in R => a \in B
        <5>1. o \notin A
          BY <2>2, <2>5, <3>2, <3>7 DEF Own, Held
        <5> QED
          BY <3>2, <3>4, <3>7, <5>1 DEF Held
      <4>5. Books(G, B, R)
        BY ONLY <3>3, <4>1, <4>3, <4>4, BooksAgree
      <4> QED
        BY <3>2, <4>5 DEF BooksFit
    <3> QED
      BY <2>3, <2>4, <3>5, <3>6, <3>7
  <2>15. /\ Grounds(shown')
         /\ \A q : Region(q) /\ (q.zone = z => PagesOf(q) \cap PagesOf(r) = {})
                     => \A p \in PagesOf(q) : shown'[q.zone][p] = shown[q.zone][p]
    <3>1. CASE shown' = Show(r, None)
      <4>1. Grounds(shown) /\ Region(r) /\ None \in Objects \cup {None}
        BY <2>5 DEF TablesFit, Fits
      <4> QED
        BY <2>4, <3>1, <4>1, ShowKeeps
    <3>2. CASE UNCHANGED shown
      BY <3>2 DEF TablesFit
    <3> QED
      BY <2>3, <2>4, <3>1, <3>2
  <2>16. ASSUME NEW a \in active, a.id # id, a.region.zone \in Sound'
         PROVE  Stays(a)
    <3>1. PICK q : q = a.region
      OBVIOUS
    <3>2. a \in Held /\ a # o
      BY <2>5, <2>16 DEF Held
    <3>3. q.zone = z => PagesOf(q) \cap PagesOf(r) = {}
      BY <2>10, <2>16, <3>1, <3>2
    <3>4. Region(q)
      BY <2>13, <3>1, <3>2 DEF Fits
    <3>5. a \in active'
      BY <2>9, <3>1, <3>3
    <3>6. \A x : ShowsIn(shown, q, x) => ShowsIn(shown', q, x)
      BY <2>15, <3>3, <3>4 DEF ShowsIn
    <3> QED
      BY <3>1, <3>5, <3>6 DEF Stays, Shows
  <2> QED
    BY <2>2, <2>3, <2>4, <2>8, <2>9, <2>11, <2>12, <2>14, <2>15, <2>16 DEF Unplaced
<1> QED
  BY <1>1, <1>2

----------------------------------------------------------------------------
(* What a step leaves as it was *)

\* The backend does nothing; files open or begin to close.
LEMMA BackendKeeps ==
  ASSUME TablesFit, BooksFit, ActiveFits, IdsFit, LiveFits, UNCHANGED <<armed, backend>>,
         \A f \in Files : file[f] # "none" => (Up(f)' <=> Up(f)) /\ file'[f] # "none"
  PROVE  TablesFit' /\ BooksFit' /\ ActiveFits' /\ IdsFit' /\ LiveFits'
<1>1. UNCHANGED <<armed, free, active, leaked, live, dri, nextId, shown, struck>>
  BY DEF backend, maps, store
<1>2. TablesFit' /\ BooksFit'
  BY <1>1 DEF TablesFit, BooksFit, Books, Held, Sound
<1>3. \A e \in active : e.fd \in Files
  BY DEF TablesFit, Entry
<1>4. \A m \in live : m.key.fd \in Files
  BY DEF TablesFit, Live, Keys
<1>5. ActiveFits'
  <2>1. \A e \in active : Up(e.fd)'
    BY <1>3 DEF ActiveFits, Up
  <2> QED
    BY <1>1, <2>1 DEF ActiveFits, Held, Sound, Shows, ShowsIn
<1>6. IdsFit'
  <2>1. \A m \in live : m.id < nextId' /\ file'[m.key.fd] # "none"
    BY <1>1, <1>4 DEF IdsFit
  <2> QED
    BY <1>1, <2>1 DEF IdsFit, Held, OwnEntry
<1>7. LiveFits'
  <2>1. \A m \in live : Up(m.key.fd)' => Up(m.key.fd)
    BY <1>4 DEF IdsFit
  <2> QED
    BY <1>1, <2>1 DEF LiveFits, Sound, OwnEntry, Shows, ShowsIn
<1> QED
  BY <1>2, <1>5, <1>6, <1>7

\* Mappings may go; those that stay keep their file, its memory and its entry.
LEMMA VmasFrame ==
  ASSUME VmasFit, vmas \subseteq Vmas, nextId \in Nat, nextId' \in Nat, nextId <= nextId',
         vmas' \subseteq vmas, Sound' \subseteq Sound,
         \A v \in vmas' : file'[v.file] = "open" /\ armed'[v.file] = armed[v.file],
         \A m \in live' : m \in live \/ m.id = nextId,
         \A v \in vmas' : \A e \in active :
           ~ v.loose /\ e.fd = v.file /\ e.region.zone \in Sound' => e \in active'
  PROVE  VmasFit'
<1>1. ASSUME NEW v \in vmas'
      PROVE  VmaFits(v)'
  <2>1. v \in vmas /\ v.id \in Nat
    BY DEF Vmas
  <2>2. /\ Kind[v.file] # "dri" /\ v.obj = armed[v.file] /\ v.id < nextId
        /\ \A m \in live : m.id = v.id => m.key.fd = v.file
    BY <2>1 DEF VmasFit, VmaFits
  <2> QED
    BY <2>1, <2>2 DEF VmaFits
<1>2. ASSUME NEW v \in vmas', ~ v.loose, v.zone \in Sound'
      PROVE  \E e \in active' : Under(v, e)
  <2>1. PICK e \in active : Under(v, e)
    BY <1>2 DEF VmasFit
  <2>2. e \in active'
    BY <1>2, <2>1 DEF Under
  <2> QED
    BY <2>1, <2>2
<1>3. \A v, w \in vmas' : v # w /\ v.file = w.file => v.loose
  BY DEF VmasFit
<1> QED
  BY <1>1, <1>2, <1>3 DEF VmasFit

\* An object and the placement behind it stay as they are.
LEMMA GemFrame ==
  ASSUME NEW b \in Buffers, GemFits(b), gems'[b] = gems[b],
         \A m \in live : gems[b].valid /\ m.id = gems[b].id /\ m.key.off = b => m \in live'
  PROVE  GemFits(b)'
<1>1. PICK g : g = gems[b]
  OBVIOUS
<1>2. PICK m : m = Placement(g, b)
  OBVIOUS
<1>3. m.id = g.id /\ m.key.off = b
  BY <1>2 DEF Placement
<1>4. g.valid => m \in live'
  BY <1>1, <1>2, <1>3 DEF GemFits
<1> QED
  BY <1>1, <1>2, <1>4 DEF GemFits, Used

\* A mapping joins the others of its file.
LEMMA JoinKeeps ==
  ASSUME VmasFit, vmas \subseteq Vmas, nextId \in Nat, nextId' \in Nat, nextId <= nextId',
         file' = file, armed' = armed, Sound' \subseteq Sound,
         NEW n \in Vmas, vmas' = Joined(n),
         file[n.file] = "open" /\ Kind[n.file] # "dri",
         n.obj = armed[n.file] /\ n.id < nextId',
         \A m \in live' : m.id = n.id => m.key.fd = n.file,
         (\A w \in vmas : w.file # n.file) /\ n.zone \in Sound' => \E e \in active' : Under(n, e),
         \A m \in live' : m \in live \/ m.id = nextId,
         \A e \in active : e.region.zone \in Sound' => e \in active'
  PROVE  VmasFit' /\ vmas' \subseteq Vmas
<1> DEFINE twins == {w \in vmas : w.file = n.file}
           marked == {[w EXCEPT !.loose = TRUE] : w \in twins}
           new == [n EXCEPT !.loose = (twins # {})]
<1>1. vmas' = (vmas \ twins) \cup marked \cup {new}
  BY DEF Joined
<1>2. /\ new \in Vmas /\ new.file = n.file /\ new.id = n.id /\ new.obj = n.obj /\ new.zone = n.zone
      /\ new.page = n.page /\ new.pages = n.pages /\ new.loose = (twins # {})
  BY DEF Vmas
<1>3. ASSUME NEW v \in marked
      PROVE  /\ v \in Vmas /\ v.loose /\ v.file = n.file
             /\ \E w \in twins : v.id = w.id /\ v.obj = w.obj
  <2>1. PICK w \in twins : v = [w EXCEPT !.loose = TRUE]
    OBVIOUS
  <2>2. w \in Vmas /\ w.file = n.file
    BY <2>1
  <2>3. v \in Vmas /\ v.loose /\ v.file = w.file /\ v.id = w.id /\ v.obj = w.obj
    BY <2>1, <2>2 DEF Vmas
  <2> QED
    BY <2>1, <2>2, <2>3
<1>4. vmas' \subseteq Vmas
  BY <1>1, <1>2, <1>3
<1>5. \A w \in vmas : /\ file'[w.file] = "open" /\ Kind[w.file] # "dri"
                      /\ w.obj = armed'[w.file] /\ w.id \in Nat /\ w.id < nextId
                      /\ \A m \in live' : m.id = w.id => m.key.fd = w.file
  <2> SUFFICES ASSUME NEW w \in vmas
               PROVE  /\ file'[w.file] = "open" /\ Kind[w.file] # "dri"
                      /\ w.obj = armed'[w.file] /\ w.id \in Nat /\ w.id < nextId
                      /\ \A m \in live' : m.id = w.id => m.key.fd = w.file
    OBVIOUS
  <2>1. w.id \in Nat
    BY DEF Vmas
  <2>2. /\ file[w.file] = "open" /\ Kind[w.file] # "dri" /\ w.obj = armed[w.file] /\ w.id < nextId
        /\ \A m \in live : m.id = w.id => m.key.fd = w.file
    BY DEF VmasFit, VmaFits
  <2> QED
    BY <2>1, <2>2
<1>6. ASSUME NEW v \in vmas'
      PROVE  VmaFits(v)'
  <2>1. CASE v \in vmas
    <3>1. v.id < nextId'
      BY <1>5, <2>1
    <3> QED
      BY <1>5, <2>1, <3>1 DEF VmaFits
  <2>2. CASE v = new
    BY <1>2, <2>2 DEF VmaFits
  <2>3. CASE v \in marked
    <3>1. PICK w \in twins : v.file = n.file /\ v.id = w.id /\ v.obj = w.obj
      BY <1>3, <2>3
    <3>2. w \in vmas /\ w.file = n.file
      OBVIOUS
    <3>3. v.id < nextId'
      BY <1>5, <3>1, <3>2
    <3> QED
      BY <1>5, <3>1, <3>2, <3>3 DEF VmaFits
  <2> HIDE DEF marked, new, twins
  <2> QED
    BY <1>1, <2>1, <2>2, <2>3
<1>7. ASSUME NEW v \in vmas', ~ v.loose, v.zone \in Sound'
      PROVE  \E e \in active' : Under(v, e)
  <2>1. CASE v \in vmas
    <3>1. PICK e \in active : Under(v, e)
      BY <1>7, <2>1 DEF VmasFit
    <3>2. e \in active'
      BY <1>7, <3>1 DEF Under
    <3> QED
      BY <3>1, <3>2
  <2>2. CASE v = new
    <3>1. twins = {}
      BY <1>2, <1>7, <2>2
    <3>2. \A w \in vmas : w.file # n.file
      BY <3>1
    <3>3. PICK e \in active' : Under(n, e)
      BY <1>2, <1>7, <2>2, <3>2
    <3>4. Under(v, e)
      <4> HIDE DEF new
      <4> QED
        BY <1>2, <2>2, <3>3 DEF Under
    <3> QED
      BY <3>4
  <2> HIDE DEF marked, new, twins
  <2> QED
    BY <1>1, <1>3, <1>7, <2>1, <2>2
<1>8. ASSUME NEW v \in vmas', NEW w \in vmas', v # w, v.file = w.file PROVE v.loose
  <2>1. CASE v \in vmas \ twins
    <3>1. w \in vmas \ twins
      <4>1. v.file # n.file
        BY <2>1
      <4> HIDE DEF marked, new
      <4> QED
        BY <1>1, <1>2, <1>3, <1>8, <4>1
    <3> QED
      BY <1>8, <2>1, <3>1 DEF VmasFit
  <2>2. CASE v = new
    <3>1. w \in marked
      <4> HIDE DEF marked, new
      <4> QED
        BY <1>1, <1>2, <1>8, <2>2
    <3>2. twins # {}
      BY <3>1
    <3> HIDE DEF marked, new, twins
    <3> QED
      BY <1>2, <2>2, <3>2
  <2> HIDE DEF marked, new, twins
  <2> QED
    BY <1>1, <1>3, <2>1, <2>2
<1> QED
  BY <1>4, <1>6, <1>7, <1>8 DEF VmasFit

\* The guest's mappings change, and nothing else.
LEMMA MappingsOnly ==
  ASSUME WindowInv, UNCHANGED <<file, gems, armed, backend>>, VmasFit', vmas' \subseteq Vmas
  PROVE  WindowInv'
<1> USE DEF WindowInv
<1>1. TablesFit' /\ BooksFit' /\ ActiveFits' /\ IdsFit' /\ LiveFits'
  <2>1. \A f \in Files : file[f] # "none" => (Up(f)' <=> Up(f)) /\ file'[f] # "none"
    BY DEF Up
  <2> QED
    BY <2>1, BackendKeeps DEF Types
<1>2. GemsFit'
  BY DEF GemsFit, GemFits, Used, backend, maps
<1> QED
  BY <1>1, <1>2 DEF Types

\* The guest's objects change, and nothing else.
LEMMA ObjectsOnly ==
  ASSUME WindowInv, UNCHANGED <<file, vmas, armed, backend>>,
         gems' \in [Buffers -> Gem], GemsFit'
  PROVE  WindowInv'
<1> USE DEF WindowInv
<1>1. TablesFit' /\ BooksFit' /\ ActiveFits' /\ IdsFit' /\ LiveFits'
  <2>1. \A f \in Files : file[f] # "none" => (Up(f)' <=> Up(f)) /\ file'[f] # "none"
    BY DEF Up
  <2> QED
    BY <2>1, BackendKeeps DEF Types
<1>2. VmasFit'
  BY DEF VmasFit, VmaFits, backend, maps, store, Sound
<1> QED
  BY <1>1, <1>2 DEF Types

\* Something is armed, or extents stay out; nothing else changes.
LEMMA QuietKeeps ==
  ASSUME WindowInv, UNCHANGED <<guest, maps, active, shown, struck>>,
         leaked' \subseteq Entry, BooksFit',
         \A a \in active : a.region.zone \in Sound => a \notin leaked',
         \A a \in leaked' : a \in leaked \/ a.id = 0,
         armed' \in [Files -> Memories \cup {None}],
         \A f \in Files : armed[f] # None => armed'[f] = armed[f]
  PROVE  WindowInv'
<1> USE DEF WindowInv
<1>1. UNCHANGED <<file, vmas, gems, live, dri, nextId, active, shown, struck>>
  BY DEF guest, maps
<1>2. Types'
  BY <1>1 DEF Types, TablesFit
<1>3. Sound' = Sound /\ \A e \in Held' : e \in Held \/ e.id = 0
  BY <1>1 DEF Sound, Held
<1>4. nextId \in Nat \ {0} /\ \A m \in live : m.id # 0
  BY WindowMapsAssumption DEF Types, TablesFit, Live
<1>5. ActiveFits'
  <2>1. ASSUME NEW e \in active
        PROVE  /\ Up(e.fd)'
               /\ Kind[e.fd] # "dri" => armed'[e.fd] # None
               /\ e.region.zone \in Sound =>
                    e \notin leaked' /\ (Kind[e.fd] # "dri" => ShowsIn(shown', e.region, armed'[e.fd]))
    <3>1. /\ Up(e.fd) /\ e.fd \in Files
          /\ Kind[e.fd] # "dri" => armed[e.fd] # None
          /\ e.region.zone \in Sound => (Kind[e.fd] # "dri" => ShowsIn(shown, e.region, armed[e.fd]))
      BY DEF ActiveFits, Shows, Types, TablesFit, Entry
    <3>2. Kind[e.fd] # "dri" => armed'[e.fd] = armed[e.fd]
      BY <3>1
    <3>3. Up(e.fd)'
      BY <1>1, <3>1 DEF Up
    <3> QED
      BY <1>1, <3>1, <3>2, <3>3
  <2>2. \A e \in Held' : e.id < nextId'
    BY <1>1, <1>3, <1>4 DEF ActiveFits
  <2>3. \A e, f \in active : e.fd = f.fd /\ Kind[e.fd] # "dri" => e = f
    BY DEF ActiveFits
  <2> QED
    BY <1>1, <1>3, <2>1, <2>2, <2>3 DEF ActiveFits, Shows
<1>6. IdsFit'
  <2>1. \A m \in live : \A e \in Held' : e.id = m.id => e = OwnEntry(m)
    BY <1>3, <1>4 DEF IdsFit
  <2> QED
    BY <1>1, <2>1 DEF IdsFit, OwnEntry
<1>7. LiveFits'
  BY <1>1, <1>3 DEF LiveFits, OwnEntry, Up, Shows, ShowsIn
<1>8. VmasFit'
  <2>1. ASSUME NEW v \in vmas PROVE armed'[v.file] = armed[v.file]
    <3>1. v.file \in Files /\ v.obj \in Memories /\ v.obj = armed[v.file]
      BY DEF VmasFit, VmaFits, Types, Vmas
    <3>2. armed[v.file] # None
      BY <3>1, WindowMapsAssumption
    <3> QED
      BY <3>1, <3>2
  <2>2. \A v \in vmas : VmaFits(v)'
    BY <1>1, <2>1 DEF VmasFit, VmaFits
  <2> QED
    BY <1>1, <1>3, <2>2 DEF VmasFit, Under
<1>9. GemsFit'
  BY <1>1 DEF GemsFit, GemFits, Used
<1> QED
  BY <1>2, <1>5, <1>6, <1>7, <1>8, <1>9

----------------------------------------------------------------------------
(* Placements that come and go *)

\* map_unrecorded places a key it does not know.
LEMMA PlaceKeeps ==
  ASSUME WindowInv, file' = file, armed' = armed,
         NEW key \in Keys, NEW size \in Nat \ {0}, NEW obj \in Objects,
         Up(key.fd), key.off = None <=> Kind[key.fd] # "dri",
         key.off # None => obj = key.off,
         key.off = None => obj = armed[key.fd] /\ Carried(key.fd) = {},
         Placed(key) = {}, nextId <= MaxId,
         CanAlloc(free[ZoneOf(key.fd)], AlignUp(size)),
         NEW r, r = Granted(ZoneOf(key.fd), size),
         NEW e, e = [fd |-> key.fd, region |-> r, id |-> nextId],
         NEW n, n = [id |-> nextId, key |-> key, region |-> r],
         free' = Take(ZoneOf(key.fd), size),
         active' = Insert(e),
         live' = live \cup {n},
         dri' = {d \in dri : d.key # key} \cup {[key |-> key, id |-> nextId]},
         nextId' = nextId + 1,
         shown' = Show(r, obj),
         UNCHANGED <<leaked, struck>>
  PROVE  /\ TablesFit' /\ BooksFit' /\ ActiveFits' /\ IdsFit' /\ LiveFits'
         /\ \A a \in active : a.region.zone \in Sound => a \in active'
         /\ e \in active' /\ Fits(r) /\ Sound' = Sound
         /\ \A m \in live' : m \in live \/ m.id = nextId
<1> USE DEF WindowInv
<1>1. key.fd \in Files /\ ZoneOf(key.fd) \in Zones /\ nextId \in 1 .. MaxId /\ nextId + 1 \in 1 .. MaxId + 1
  <2>1. key.fd \in Files
    BY DEF Keys
  <2>2. ZoneOf(key.fd) \in Zones
    BY WindowMapsAssumption DEF ZoneOf
  <2>3. nextId \in 1 .. MaxId + 1 /\ MaxId \in Nat
    BY WindowMapsAssumption DEF Types, TablesFit
  <2> QED
    BY <2>1, <2>2, <2>3
<1>2. e.region = r /\ e.fd = key.fd /\ e.id = nextId
  OBVIOUS
<1>3. PICK z : z = ZoneOf(key.fd)
  OBVIOUS
<1>4. /\ BooksFit'
      /\ active' \subseteq active \cup {e} /\ e \in active' /\ e \in Entry
      /\ active' \subseteq Entry /\ IsFiniteSet(active')
      /\ Fits(e.region) /\ e.region.zone = z
      /\ z \in Sound => e \notin Held
      /\ Grounds(shown') /\ ShowsIn(shown', e.region, obj)
      /\ \A a \in active : a.region.zone \in Sound => Stays(a) /\ a.region # e.region
  <2>1. PICK f, id : f = key.fd /\ id = nextId
    OBVIOUS
  <2>2. /\ z \in Zones /\ CanAlloc(free[z], AlignUp(size)) /\ f \in Files /\ id \in Nat
        /\ e = [fd |-> f, region |-> Granted(z, size), id |-> id]
        /\ free' = Take(z, size) /\ active' = Insert(e) /\ shown' = Show(e.region, obj)
        /\ UNCHANGED <<leaked, struck>>
        /\ size \in Nat \ {0} /\ obj \in Objects /\ TablesFit /\ BooksFit
    BY <1>1, <1>2, <1>3, <2>1 DEF Types
  <2> QED
    BY ONLY <2>2, PutIs
<1>5. n.id = nextId /\ n.key = key /\ n.region = r /\ OwnEntry(n) = e
  BY DEF OwnEntry
<1>6. Sound' = Sound /\ Held' \subseteq Held \cup {e}
  BY <1>4 DEF Sound, Held
<1>7. r \in Place
  BY <1>2, <1>4 DEF Fits
<1>8. TablesFit'
  <2>1. live' \subseteq Live
    BY <1>1, <1>7 DEF Live, TablesFit, Types
  <2>2. \A m \in live' : Fits(m.region)
    BY <1>2, <1>4, <1>5 DEF TablesFit, Types
  <2>3. dri' \subseteq [key : Keys, id : 1 .. MaxId]
    BY <1>1 DEF TablesFit, Types
  <2> QED
    BY <1>1, <1>4, <2>1, <2>2, <2>3 DEF TablesFit, Types
<1>9. nextId \in Nat /\ \A a \in Held : a.id < nextId /\ a.id \in Nat
  BY <1>1 DEF ActiveFits, Held, Types, TablesFit, Entry
<1>10. ActiveFits'
  <2>1. ASSUME NEW a \in active'
        PROVE  /\ Up(a.fd)'
               /\ Kind[a.fd] # "dri" => armed'[a.fd] # None
               /\ a.region.zone \in Sound =>
                    a \notin leaked' /\ (Kind[a.fd] # "dri" => ShowsIn(shown', a.region, armed'[a.fd]))
    <3>1. CASE a \in active
      BY <1>4, <3>1 DEF ActiveFits, Up, Stays
    <3>2. CASE a = e
      BY <1>2, <1>3, <1>4, <3>2, WindowMapsAssumption DEF Up, Objects, Held
    <3> QED
      BY <1>4, <3>1, <3>2
  <2>2. ASSUME NEW a \in active', NEW b \in active', a.fd = b.fd, Kind[a.fd] # "dri"
        PROVE  a = b
    <3>1. \A x \in active : Kind[key.fd] # "dri" => x.fd # key.fd
      BY DEF Carried
    <3> QED
      BY <1>2, <1>4, <2>2, <3>1 DEF ActiveFits
  <2>3. \A a \in Held' : a.id < nextId'
    BY <1>2, <1>6, <1>9
  <2> QED
    BY <1>6, <2>1, <2>2, <2>3 DEF ActiveFits, Shows
<1>11. \A m \in live : m.id \in Nat /\ m.id < nextId /\ m.id # nextId
  BY <1>9 DEF IdsFit, Types, TablesFit, Live
<1>12. \A d \in dri : d.id < nextId /\ d.id \in Nat /\ d.id # nextId
  BY <1>9 DEF IdsFit, Types, TablesFit
<1>13. \A m \in live : m.key # key
  <2> SUFFICES ASSUME NEW m \in live, m.key = key PROVE FALSE
    OBVIOUS
  <2>1. PICK d : d = [key |-> m.key, id |-> m.id]
    OBVIOUS
  <2>2. d \in dri /\ d.key = key /\ d.id = m.id
    BY <2>1 DEF IdsFit
  <2> QED
    BY <2>2 DEF Placed
<1>14. IdsFit'
  <2>1. \A m \in live' : m.id < nextId' /\ file'[m.key.fd] # "none"
    <3>1. \A m \in live : m.id < nextId' /\ file'[m.key.fd] # "none"
      BY <1>9, <1>11 DEF IdsFit
    <3>2. n.id < nextId' /\ file'[n.key.fd] # "none"
      BY <1>5, <1>9 DEF Up
    <3> QED
      BY <3>1, <3>2
  <2>2. \A d \in dri' : d.id < nextId'
    BY <1>9, <1>12
  <2>3. \A x, y \in live' : x.id = y.id => x = y
    <3>1. \A x, y \in live : x.id = y.id => x = y
      BY DEF IdsFit
    <3> QED
      BY <1>5, <1>11, <3>1
  <2>4. \A c, d \in dri' : c.key = d.key => c = d
    BY DEF IdsFit
  <2>5. \A m \in live' : \A d \in dri' : m.id = d.id => m.key = d.key
    <3>1. \A m \in live : \A d \in dri : m.id = d.id => m.key = d.key
      BY DEF IdsFit
    <3> QED
      BY <1>5, <1>11, <1>12, <3>1
  <2>6. \A m \in live' : [key |-> m.key, id |-> m.id] \in dri'
    <3>1. ASSUME NEW m \in live PROVE [key |-> m.key, id |-> m.id] \in dri'
      <4>1. PICK d : d = [key |-> m.key, id |-> m.id]
        OBVIOUS
      <4>2. d \in dri /\ d.key # key
        BY <1>13, <4>1 DEF IdsFit
      <4> QED
        BY <4>1, <4>2
    <3>2. [key |-> n.key, id |-> n.id] \in dri'
      BY <1>5
    <3> QED
      BY <3>1, <3>2
  <2>7. \A m \in live' : m.key.off = None <=> Kind[m.key.fd] # "dri"
    <3>1. \A m \in live : m.key.off = None <=> Kind[m.key.fd] # "dri"
      BY DEF IdsFit
    <3> QED
      BY <1>5, <3>1
  <2>8. ASSUME NEW m \in live', NEW a \in Held', a.id = m.id PROVE a = OwnEntry(m)
    <3>1. CASE m = n
      BY <1>5, <1>6, <1>9, <2>8, <3>1
    <3>2. CASE m \in live
      <4>1. a \in Held
        BY <1>2, <1>6, <1>11, <2>8, <3>2
      <4> QED
        BY <2>8, <3>2, <4>1 DEF IdsFit
    <3> QED
      BY <3>1, <3>2
  <2> QED
    BY <2>1, <2>2, <2>3, <2>4, <2>5, <2>6, <2>7, <2>8 DEF IdsFit, OwnEntry
<1>15. ASSUME NEW m \in live', Up(m.key.fd)', m.region.zone \in Sound
       PROVE  OwnEntry(m) \in active' /\ (m.key.off # None => ShowsIn(shown', m.region, m.key.off))
  <2>1. CASE m = n
    BY <1>2, <1>4, <1>5, <2>1
  <2>2. CASE m \in live
    <3>1. PICK o : o = OwnEntry(m)
      OBVIOUS
    <3>2. o.region = m.region
      BY <3>1 DEF OwnEntry
    <3>3. o \in active /\ (m.key.off # None => Shows(m.region, m.key.off))
      BY <1>15, <2>2, <3>1 DEF LiveFits, Up
    <3>4. Stays(o)
      BY <1>4, <1>15, <3>2, <3>3
    <3> QED
      BY <3>1, <3>2, <3>3, <3>4 DEF Stays
  <2> QED
    BY <2>1, <2>2
<1>16. LiveFits'
  BY <1>6, <1>15 DEF LiveFits, Shows, OwnEntry
<1>17. \A a \in active : a.region.zone \in Sound => a \in active'
  BY <1>4 DEF Stays
<1> QED
  BY <1>2, <1>4, <1>6, <1>8, <1>10, <1>14, <1>16, <1>17

\* MUNMAP takes the placement away, and in zones none has struck nothing else.
LEMMA UnplaceKeeps ==
  ASSUME WindowInv, file' = file, armed' = armed, NEW id, Munmap(id)
  PROVE  /\ TablesFit' /\ BooksFit' /\ ActiveFits' /\ IdsFit' /\ LiveFits'
         /\ nextId' = nextId /\ live' \subseteq live /\ Sound' \subseteq Sound
         /\ \A m \in live : m.id # id => m \in live'
         /\ \A a \in active :
              a.region.zone \in Sound' /\ (\A m \in live : m.id = id => m.key.fd # a.fd) => a \in active'
<1> USE DEF WindowInv
<1>1. CASE UNCHANGED backend
  <2>1. TablesFit' /\ BooksFit' /\ ActiveFits' /\ IdsFit' /\ LiveFits'
    <3>1. \A f \in Files : file[f] # "none" => (Up(f)' <=> Up(f)) /\ file'[f] # "none"
      BY DEF Up
    <3> QED
      BY <1>1, <3>1, BackendKeeps DEF Types
  <2> QED
    BY <1>1, <2>1 DEF backend, maps, store, Sound
<1>2. ASSUME NEW m \in live, m.id = id, Unplaced(m)
      PROVE  /\ TablesFit' /\ BooksFit' /\ ActiveFits' /\ IdsFit' /\ LiveFits'
             /\ nextId' = nextId /\ live' \subseteq live /\ Sound' \subseteq Sound
             /\ \A k \in live : k.id # id => k \in live'
             /\ \A a \in active :
                  a.region.zone \in Sound' /\ (\A k \in live : k.id = id => k.key.fd # a.fd) => a \in active'
  <2>1. /\ live' = live \ {m} /\ dri' = {d \in dri : d.key # m.key} /\ nextId' = nextId
        /\ active' \subseteq active /\ IsFiniteSet(active') /\ Held' \subseteq Held
        /\ leaked' \subseteq leaked \cup {OwnEntry(m)}
        /\ struck \subseteq struck' /\ struck' \subseteq Zones
        /\ BooksFit' /\ Grounds(shown')
        /\ \A a \in active' : a.id # id
        /\ \A a \in active : a.id # id /\ a.region.zone \in Sound' => Stays(a)
    BY <1>2 DEF Unplaced
  <2>2. Sound' \subseteq Sound /\ OwnEntry(m).id = id /\ OwnEntry(m).fd = m.key.fd
    BY <1>2, <2>1 DEF Sound, OwnEntry
  <2>3. TablesFit'
    <3>1. Held \subseteq Entry
      BY DEF Types, TablesFit, Held
    <3>2. active' \subseteq Entry /\ leaked' \subseteq Entry
      BY <2>1, <3>1 DEF Held
    <3> QED
      BY <2>1, <3>2 DEF Types, TablesFit
  <2>4. ActiveFits'
    <3>1. ASSUME NEW a \in active'
          PROVE  /\ Up(a.fd)'
                 /\ Kind[a.fd] # "dri" => armed'[a.fd] # None
                 /\ a.region.zone \in Sound' =>
                      a \notin leaked' /\ (Kind[a.fd] # "dri" => ShowsIn(shown', a.region, armed'[a.fd]))
      <4>1. a \in active /\ a.id # id
        BY <2>1
      <4>2. a.region.zone \in Sound' => a \notin leaked'
        BY <2>1, <2>2, <4>1 DEF ActiveFits
      <4>3. a.region.zone \in Sound' /\ Kind[a.fd] # "dri" => ShowsIn(shown', a.region, armed'[a.fd])
        BY <2>1, <2>2, <4>1 DEF ActiveFits, Stays
      <4> QED
        BY <4>1, <4>2, <4>3 DEF ActiveFits, Up
    <3>2. \A a, b \in active' : a.fd = b.fd /\ Kind[a.fd] # "dri" => a = b
      BY <2>1 DEF ActiveFits
    <3>3. \A a \in Held' : a.id < nextId'
      BY <2>1 DEF ActiveFits
    <3> QED
      BY <3>1, <3>2, <3>3 DEF ActiveFits, Shows
  <2>5. \A k \in live' : k \in live /\ k.id # id
    BY <1>2, <2>1 DEF IdsFit
  <2>6. \A k \in live' : k.key # m.key
    <3> SUFFICES ASSUME NEW k \in live', k.key = m.key PROVE FALSE
      OBVIOUS
    <3>1. PICK c, d : c = [key |-> k.key, id |-> k.id] /\ d = [key |-> m.key, id |-> m.id]
      OBVIOUS
    <3>2. c \in dri /\ d \in dri /\ c.key = d.key /\ c.id = k.id /\ d.id = m.id
      BY <2>5, <3>1 DEF IdsFit
    <3>3. c = d
      BY <3>2 DEF IdsFit
    <3> QED
      BY <1>2, <2>5, <3>2, <3>3
  <2>7. IdsFit'
    <3>1. /\ \A k \in live' : k.id < nextId' /\ file'[k.key.fd] # "none"
          /\ \A d \in dri' : d.id < nextId'
          /\ \A k, l \in live' : k.id = l.id => k = l
          /\ \A c, d \in dri' : c.key = d.key => c = d
          /\ \A k \in live' : \A d \in dri' : k.id = d.id => k.key = d.key
          /\ \A k \in live' : k.key.off = None <=> Kind[k.key.fd] # "dri"
      BY <2>1 DEF IdsFit
    <3>2. ASSUME NEW k \in live' PROVE [key |-> k.key, id |-> k.id] \in dri'
      <4>1. PICK d : d = [key |-> k.key, id |-> k.id]
        OBVIOUS
      <4>2. d \in dri /\ d.key # m.key
        BY <2>5, <2>6, <4>1 DEF IdsFit
      <4> QED
        BY <2>1, <4>1, <4>2
    <3>3. \A k \in live' : \A e \in Held' : e.id = k.id => e = OwnEntry(k)
      BY <2>1 DEF IdsFit
    <3> QED
      BY <3>1, <3>2, <3>3 DEF IdsFit, OwnEntry
  <2>8. LiveFits'
    <3>1. ASSUME NEW k \in live', Up(k.key.fd)', k.region.zone \in Sound'
          PROVE  OwnEntry(k) \in active' /\ (k.key.off # None => ShowsIn(shown', k.region, k.key.off))
      <4>1. PICK o : o = OwnEntry(k)
        OBVIOUS
      <4>2. o.region = k.region /\ o.id = k.id
        BY <4>1 DEF OwnEntry
      <4>3. o \in active /\ (k.key.off # None => Shows(k.region, k.key.off))
        BY <2>2, <2>5, <3>1, <4>1 DEF LiveFits, Up
      <4>4. Stays(o)
        BY <2>1, <2>5, <3>1, <4>2, <4>3
      <4> QED
        BY <4>1, <4>2, <4>3, <4>4 DEF Stays
    <3> QED
      BY <3>1 DEF LiveFits, Shows, OwnEntry
  <2>9. ASSUME NEW a \in active, a.region.zone \in Sound', \A k \in live : k.id = id => k.key.fd # a.fd
        PROVE  a \in active'
    <3>1. a.id # id
      <4> SUFFICES ASSUME a.id = id PROVE FALSE
        OBVIOUS
      <4>1. a = OwnEntry(m)
        BY <1>2 DEF IdsFit, Held
      <4> QED
        BY <1>2, <2>2, <2>9, <4>1
    <3> QED
      BY <2>1, <2>9, <3>1 DEF Stays
  <2>10. live' \subseteq live /\ \A k \in live : k.id # id => k \in live'
    BY <1>2, <2>1
  <2> QED
    BY <2>1, <2>2, <2>3, <2>4, <2>7, <2>8, <2>9, <2>10
<1>3. UNCHANGED backend \/ \E m \in live : m.id = id /\ Unplaced(m)
  BY MunmapIs DEF Types
<1> QED
  BY <1>1, <1>2, <1>3

----------------------------------------------------------------------------
(* One lemma for each action *)

\* Opening a file.
LEMMA OpenKeeps ==
  ASSUME WindowInv, NEW f \in Files, Open(f)
  PROVE  WindowInv'
<1> USE DEF WindowInv
<1>1. /\ file[f] = "none" /\ file' = [file EXCEPT ![f] = "open"]
      /\ UNCHANGED <<vmas, gems, armed, backend>>
  BY DEF Open
<1>2. /\ file' \in [Files -> {"none", "open", "closing", "closed"}] /\ file'[f] = "open"
      /\ \A g : g # f => file'[g] = file[g]
  BY <1>1 DEF Types
<1>3. TablesFit' /\ BooksFit' /\ ActiveFits' /\ IdsFit' /\ LiveFits'
  <2>1. \A g \in Files : file[g] # "none" => (Up(g)' <=> Up(g)) /\ file'[g] # "none"
    BY <1>1, <1>2 DEF Up
  <2> QED
    BY <1>1, <2>1, BackendKeeps DEF Types
<1>4. VmasFit'
  BY <1>1, <1>2 DEF VmasFit, VmaFits, backend, maps, store, Sound
<1>5. GemsFit'
  BY <1>1 DEF GemsFit, GemFits, Used, backend, maps
<1> QED
  BY <1>1, <1>2, <1>3, <1>4, <1>5 DEF Types

\* The last reference goes: buffers nobody else uses are dying.
LEMMA BeginCloseKeeps ==
  ASSUME WindowInv, NEW f \in Files, BeginClose(f)
  PROVE  WindowInv'
<1> USE DEF WindowInv
<1>1. /\ file[f] = "open" /\ file' = [file EXCEPT ![f] = "closing"]
      /\ \A v \in vmas : v.file # f
      /\ UNCHANGED <<vmas, armed, backend>>
  BY DEF BeginClose
<1>2. /\ file' \in [Files -> {"none", "open", "closing", "closed"}] /\ file'[f] = "closing"
      /\ \A g : g # f => file'[g] = file[g]
  BY <1>1 DEF Types
<1>3. TablesFit' /\ BooksFit' /\ ActiveFits' /\ IdsFit' /\ LiveFits'
  <2>1. \A g \in Files : file[g] # "none" => (Up(g)' <=> Up(g)) /\ file'[g] # "none"
    BY <1>1, <1>2 DEF Up
  <2> QED
    BY <1>1, <2>1, BackendKeeps DEF Types
<1>4. ASSUME NEW b \in Buffers
      PROVE  gems'[b] \in Gem /\ GemFits(b)'
  <2>1. PICK g, h : g = gems[b] /\ h = gems'[b]
    OBVIOUS
  <2>2. /\ g \in Gem /\ GemFits(b)
        /\ \/ f \notin g.users /\ h = g
           \/ g.users = {f} /\ h = [g EXCEPT !.users = {}, !.state = "dying", !.by = f]
           \/ f \in g.users /\ g.users # {f} /\ h = [g EXCEPT !.users = g.users \ {f}]
    BY <2>1 DEF BeginClose, Types, GemsFit
  <2>3. g.users # {} <=> g.state = "used"
    BY <2>1, <2>2 DEF GemFits
  <2>4. /\ h \in Gem /\ h.owner = g.owner /\ h.valid = g.valid /\ h.id = g.id /\ h.region = g.region
        /\ h.users # {} <=> h.state = "used"
        /\ Used(h) <=> Used(g)
    <3>1. CASE f \notin g.users /\ h = g
      BY <2>2, <2>3, <3>1
    <3>2. CASE g.users = {f} /\ h = [g EXCEPT !.users = {}, !.state = "dying", !.by = f]
      <4>1. /\ h \in Gem /\ h.owner = g.owner /\ h.valid = g.valid /\ h.id = g.id
            /\ h.region = g.region /\ h.users = {} /\ h.state = "dying"
        BY <2>2, <3>2 DEF Gem
      <4>2. g.state = "used"
        BY <2>3, <3>2
      <4> QED
        BY <4>1, <4>2 DEF Used
    <3>3. CASE f \in g.users /\ g.users # {f} /\ h = [g EXCEPT !.users = g.users \ {f}]
      <4>1. /\ h \in Gem /\ h.owner = g.owner /\ h.valid = g.valid /\ h.id = g.id
            /\ h.region = g.region /\ h.users = g.users \ {f} /\ h.state = g.state
        BY <2>2, <3>3 DEF Gem
      <4>2. h.users # {} /\ g.state = "used"
        BY <2>3, <3>3, <4>1
      <4> QED
        BY <4>1, <4>2 DEF Used
    <3> QED
      BY <2>2, <3>1, <3>2, <3>3
  <2>5. live' = live
    BY <1>1 DEF backend, maps
  <2>6. Placement(h, b) = Placement(g, b)
    BY <2>4 DEF Placement
  <2> QED
    BY <2>1, <2>2, <2>4, <2>5, <2>6 DEF GemFits
<1>5. gems' \in [Buffers -> Gem]
  <2>1. gems' = [b \in Buffers |-> gems'[b]]
    BY DEF BeginClose
  <2> QED
    BY <1>4, <2>1
<1>6. VmasFit'
  BY <1>1, <1>2 DEF VmasFit, VmaFits, backend, maps, store, Sound
<1> QED
  BY <1>1, <1>2, <1>3, <1>4, <1>5, <1>6 DEF Types, GemsFit

\* handle_close gives back the entries of the file and of no other.
LEMMA CloseKeeps ==
  ASSUME WindowInv, NEW f \in Files, Close(f)
  PROVE  WindowInv'
<1> USE DEF WindowInv
<1>1. PICK T, out : /\ T = Carried(f) /\ out \in SUBSET T
                    /\ leaked' = leaked \cup out
                    /\ free' = FoldSet(LAMBDA e, H : GiveBack(e.region, H), free, T \ out)
                    /\ active' = active \ T
  BY DEF Close, Taken
<1>2. /\ file[f] = "closing" /\ file' = [file EXCEPT ![f] = "closed"]
      /\ UNCHANGED <<vmas, gems, armed, live, dri, nextId, shown, struck>>
  BY DEF Close, maps
<1>3. /\ file' \in [Files -> {"none", "open", "closing", "closed"}] /\ file'[f] = "closed"
      /\ \A g : g # f => file'[g] = file[g]
  BY <1>2 DEF Types
<1>4. T \subseteq active /\ \A e \in active' : e \in active /\ e.fd # f
  BY <1>1 DEF Carried
<1>5. \A g : g # f => (Up(g)' <=> Up(g))
  BY <1>3 DEF Up
<1>6. ~ Up(f)' /\ Sound' = Sound /\ Held' \subseteq Held
  BY <1>1, <1>2, <1>3, <1>4 DEF Up, Sound, Held
<1>7. TablesFit'
  <2>1. IsFiniteSet(active')
    BY <1>1, FS_Subset DEF Types, TablesFit
  <2> QED
    BY <1>1, <1>2, <1>4, <2>1 DEF Types, TablesFit
<1>8. BooksFit'
  <2>1. PICK S : S = T \ out
    OBVIOUS
  <2>2. IsFiniteSet(S) /\ S \in SUBSET Held
    BY <1>4, <2>1, FS_Subset DEF Types, TablesFit, Held
  <2>3. PICK F, A, Q, G, B : F = free /\ A = Held /\ Q = Sound /\ G = free' /\ B = Held'
    OBVIOUS
  <2>4. Books(F, A, Q) /\ Q \in SUBSET Zones /\ IsFiniteSet(S) /\ S \in SUBSET A
        /\ G = FoldSet(LAMBDA e, H : GiveBack(e.region, H), F, S)
    BY <1>1, <2>1, <2>2, <2>3 DEF BooksFit, Sound
  <2>5. Books(G, A \ S, Q)
    BY <2>4, FoldGivesBack
  <2>6. PICK C : C = A \ S
    OBVIOUS
  <2>7. \A a \in C : a \in B
    BY <1>1, <2>1, <2>3, <2>6 DEF Held
  <2>8. \A a \in B : a.region.zone \in Q => a \in C
    <3>1. \A a \in S : a.region.zone \in Q => a \notin leaked
      BY <1>4, <2>1, <2>3 DEF ActiveFits
    <3> QED
      BY <1>1, <1>4, <2>1, <2>3, <2>6, <3>1 DEF Held
  <2>9. /\ Books(G, C, Q) /\ Lists(G) /\ Q \in SUBSET Q
        /\ \A a \in B : Fits(a.region)
    BY <1>6, <2>3, <2>4, <2>5, <2>6 DEF Books
  <2>10. Books(G, B, Q)
    BY ONLY <2>4, <2>7, <2>8, <2>9, BooksAgree
  <2> QED
    BY <1>6, <2>3, <2>10 DEF BooksFit
<1>9. ActiveFits'
  <2>1. ASSUME NEW e \in active'
        PROVE  /\ Up(e.fd)'
               /\ Kind[e.fd] # "dri" => armed'[e.fd] # None
               /\ e.region.zone \in Sound =>
                    e \notin leaked' /\ (Kind[e.fd] # "dri" => ShowsIn(shown', e.region, armed'[e.fd]))
    <3>1. e \notin out
      BY <1>1
    <3> QED
      BY <1>1, <1>2, <1>4, <1>5, <3>1 DEF ActiveFits, Shows
  <2>2. \A a, b \in active' : a.fd = b.fd /\ Kind[a.fd] # "dri" => a = b
    BY <1>4 DEF ActiveFits
  <2>3. \A a \in Held' : a.id < nextId'
    BY <1>2, <1>6 DEF ActiveFits
  <2> QED
    BY <1>6, <2>1, <2>2, <2>3 DEF ActiveFits, Shows
<1>10. IdsFit'
  <2>1. \A m \in live : m.id < nextId /\ file'[m.key.fd] # "none"
    BY <1>3 DEF IdsFit
  <2>2. \A m \in live : \A e \in Held' : e.id = m.id => e = OwnEntry(m)
    BY <1>6 DEF IdsFit
  <2> QED
    BY <1>2, <2>1, <2>2 DEF IdsFit, OwnEntry
<1>11. LiveFits'
  <2>1. ASSUME NEW m \in live, Up(m.key.fd)', m.region.zone \in Sound
        PROVE  OwnEntry(m) \in active' /\ (m.key.off # None => Shows(m.region, m.key.off))
    <3>1. m.key.fd # f /\ Up(m.key.fd)
      BY <1>5, <1>6, <2>1
    <3>2. PICK o : o = OwnEntry(m)
      OBVIOUS
    <3>3. o \in active /\ o.fd # f /\ (m.key.off # None => Shows(m.region, m.key.off))
      BY <2>1, <3>1, <3>2 DEF LiveFits, OwnEntry
    <3> QED
      BY <1>1, <3>2, <3>3 DEF Carried
  <2> QED
    BY <1>2, <1>6, <2>1 DEF LiveFits, Shows, ShowsIn, OwnEntry
<1>12. VmasFit'
  <2>1. \A v \in vmas' : v.file # f /\ file'[v.file] = "open"
    BY <1>2, <1>3 DEF VmasFit, VmaFits
  <2>2. nextId \in Nat /\ vmas \subseteq Vmas
    BY WindowMapsAssumption DEF Types, TablesFit
  <2>3. \A v \in vmas' : \A e \in active : e.fd = v.file => e \in active'
    BY <1>1, <2>1 DEF Carried
  <2> QED
    BY <1>2, <1>6, <2>1, <2>2, <2>3, VmasFrame
<1>13. GemsFit'
  BY <1>2 DEF GemsFit, GemFits, Used
<1> QED
  BY <1>2, <1>3, <1>7, <1>8, <1>9, <1>10, <1>11, <1>12, <1>13 DEF Types

\* NV_ESC_RM_ALLOC_MEMORY arms a file.
LEMMA AllocMemoryKeeps ==
  ASSUME WindowInv, NEW f \in Files, NEW o \in Memories, AllocMemory(f, o)
  PROVE  WindowInv'
<1>1. armed[f] = None /\ armed' = [armed EXCEPT ![f] = o] /\ UNCHANGED <<guest, backend>>
  BY DEF AllocMemory
<1>2. UNCHANGED <<guest, maps, free, active, leaked, shown, struck>>
  BY <1>1 DEF backend, store
<1>3. /\ armed' \in [Files -> Memories \cup {None}]
      /\ \A g \in Files : armed[g] # None => armed'[g] = armed[g]
  BY <1>1 DEF WindowInv, Types
<1>4. leaked' \subseteq Entry /\ BooksFit'
  BY <1>2 DEF WindowInv, Types, TablesFit, BooksFit, Held, Sound, Books
<1>5. \A a \in active : a.region.zone \in Sound => a \notin leaked'
  BY <1>2 DEF WindowInv, ActiveFits
<1> QED
  BY <1>2, <1>3, <1>4, <1>5, QuietKeeps

\* NV_ESC_RM_MAP_MEMORY.
LEMMA MapMemoryKeeps ==
  ASSUME WindowInv, NEW f \in Files, NEW o \in Memories, MapMemory(f, o)
  PROVE  WindowInv'
<1> USE DEF WindowInv
<1>1. PICK z, len, r, e : /\ z = CacheOf[o] /\ len = Length[o] /\ r = Granted(z, len)
                          /\ e = [fd |-> f, region |-> r, id |-> 0]
  OBVIOUS
<1>2. /\ file[f] = "open" /\ Kind[f] # "dri" /\ armed[f] = None
      /\ armed' = [armed EXCEPT ![f] = o]
      /\ UNCHANGED <<guest, maps, struck>>
      /\ \/ /\ CanAlloc(free[z], AlignUp(len))
            /\ \/ /\ free' = Take(z, len) /\ active' = Insert(e) /\ shown' = Show(r, o)
                  /\ UNCHANGED leaked
               \/ Withheld(f, r)
         \/ UNCHANGED <<store, shown>>
  BY <1>1 DEF MapMemory
<1>3. z \in Zones /\ len \in Nat \ {0} /\ o # None /\ o \in Objects
  BY <1>1, WindowMapsAssumption DEF Objects
<1>4. /\ armed' \in [Files -> Memories \cup {None}] /\ armed'[f] = o
      /\ \A g : g # f => armed'[g] = armed[g]
      /\ \A g \in Files : armed[g] # None => armed'[g] = armed[g]
  BY <1>2 DEF Types
<1>5. CASE UNCHANGED <<store, shown>>
  <2>1. UNCHANGED <<free, active, leaked>>
    BY <1>5 DEF store
  <2>2. leaked' \subseteq Entry /\ BooksFit'
    BY <1>2, <2>1 DEF Types, TablesFit, BooksFit, Held, Sound, Books
  <2>3. \A a \in active : a.region.zone \in Sound => a \notin leaked'
    BY <2>1 DEF ActiveFits
  <2> QED
    BY <1>2, <1>4, <1>5, <2>1, <2>2, <2>3, QuietKeeps
<1>6. CASE CanAlloc(free[z], AlignUp(len)) /\ Withheld(f, r)
  <2>1. /\ BooksFit' /\ leaked' \subseteq Entry
        /\ \A a \in leaked' : a \in leaked \/ a.id = 0
        /\ \A a \in active : a.region.zone \in Sound => a \notin leaked'
        /\ UNCHANGED <<active, shown>>
    <3>1. Withheld(f, Granted(z, len)) /\ UNCHANGED struck /\ TablesFit
      BY <1>1, <1>2, <1>6 DEF Types
    <3> QED
      BY <1>3, <1>6, <3>1, WithheldIs
  <2> QED
    BY <1>2, <1>4, <2>1, QuietKeeps
<1>7. CASE /\ CanAlloc(free[z], AlignUp(len))
           /\ free' = Take(z, len) /\ active' = Insert(e) /\ shown' = Show(r, o)
           /\ UNCHANGED leaked
  <2>1. e = [fd |-> f, region |-> Granted(z, len), id |-> 0] /\ e.fd = f /\ e.id = 0 /\ e.region = r
    BY <1>1
  <2>2. /\ BooksFit'
        /\ active' \subseteq active \cup {e} /\ e \in active' /\ e \in Entry
        /\ active' \subseteq Entry /\ IsFiniteSet(active')
        /\ e.region.zone = z
        /\ z \in Sound => e \notin Held
        /\ Grounds(shown') /\ ShowsIn(shown', e.region, o)
        /\ \A a \in active : a.region.zone \in Sound => Stays(a)
    <3>1. TablesFit /\ BooksFit /\ 0 \in Nat /\ UNCHANGED <<leaked, struck>> /\ shown' = Show(e.region, o)
      BY <1>2, <1>7, <2>1 DEF Types
    <3> QED
      BY <1>3, <1>7, <2>1, <3>1, PutIs
  <2>3. /\ UNCHANGED <<file, vmas, gems, live, dri, nextId>>
        /\ Sound' = Sound /\ Held' \subseteq Held \cup {e}
    BY <1>2, <1>7, <2>2 DEF guest, maps, Sound, Held
  <2>4. nextId \in Nat \ {0} /\ vmas \subseteq Vmas /\ \A m \in live : m.id # 0
    BY WindowMapsAssumption DEF Types, TablesFit, Live
  <2>5. TablesFit' /\ Types'
    BY <1>2, <1>4, <1>7, <2>2, <2>3 DEF Types, TablesFit
  <2>6. \A a \in active : Kind[a.fd] # "dri" => a.fd # f
    BY <1>2 DEF ActiveFits
  <2>7. ActiveFits'
    <3>1. ASSUME NEW a \in active'
          PROVE  /\ Up(a.fd)'
                 /\ Kind[a.fd] # "dri" => armed'[a.fd] # None
                 /\ a.region.zone \in Sound =>
                      a \notin leaked' /\ (Kind[a.fd] # "dri" => ShowsIn(shown', a.region, armed'[a.fd]))
      <4>1. CASE a = e
        <5>1. Up(f)'
          BY <1>2, <2>3 DEF Up
        <5> QED
          BY <1>3, <1>4, <1>7, <2>1, <2>2, <4>1, <5>1 DEF Held
      <4>2. CASE a \in active
        <5>1. /\ Up(a.fd) /\ (Kind[a.fd] # "dri" => armed[a.fd] # None)
              /\ a.region.zone \in Sound =>
                   a \notin leaked /\ (Kind[a.fd] # "dri" => Shows(a.region, armed[a.fd]))
          BY <4>2 DEF ActiveFits
        <5>2. Kind[a.fd] # "dri" => armed'[a.fd] = armed[a.fd]
          BY <1>4, <2>6, <4>2
        <5>3. Up(a.fd)'
          BY <2>3, <5>1 DEF Up
        <5>4. a.region.zone \in Sound => Stays(a)
          BY <2>2, <4>2
        <5> QED
          BY <1>7, <5>1, <5>2, <5>3, <5>4 DEF Stays
      <4> QED
        BY <2>2, <4>1, <4>2
    <3>2. \A a, b \in active' : a.fd = b.fd /\ Kind[a.fd] # "dri" => a = b
      BY <2>1, <2>2, <2>6 DEF ActiveFits
    <3>3. \A a \in Held' : a.id < nextId'
      BY <2>1, <2>3, <2>4 DEF ActiveFits
    <3> QED
      BY <2>3, <3>1, <3>2, <3>3 DEF ActiveFits, Shows
  <2>8. IdsFit'
    <3>1. \A m \in live : \A a \in Held' : a.id = m.id => a = OwnEntry(m)
      BY <2>1, <2>3, <2>4 DEF IdsFit
    <3> QED
      BY <2>3, <3>1 DEF IdsFit, OwnEntry
  <2>9. LiveFits'
    <3>1. ASSUME NEW m \in live, Up(m.key.fd)', m.region.zone \in Sound
          PROVE  OwnEntry(m) \in active' /\ (m.key.off # None => ShowsIn(shown', m.region, m.key.off))
      <4>1. PICK a : a = OwnEntry(m)
        OBVIOUS
      <4>2. Up(m.key.fd) /\ a.region = m.region
        BY <2>3, <3>1, <4>1 DEF Up, OwnEntry
      <4>3. a \in active /\ (m.key.off # None => Shows(m.region, m.key.off))
        BY <3>1, <4>1, <4>2 DEF LiveFits
      <4>4. Stays(a)
        BY <2>2, <3>1, <4>2, <4>3
      <4> QED
        BY <4>1, <4>2, <4>3, <4>4 DEF Stays
    <3> QED
      BY <2>3, <3>1 DEF LiveFits, Shows, OwnEntry
  <2>10. VmasFit'
    <3>1. \A v \in vmas : v.file # f
      BY <1>2, WindowMapsAssumption DEF VmasFit, VmaFits, Types, Vmas
    <3>2. \A v \in vmas' : file'[v.file] = "open" /\ armed'[v.file] = armed[v.file]
      BY <1>4, <2>3, <3>1 DEF VmasFit, VmaFits
    <3>3. \A a \in active : a.region.zone \in Sound => a \in active'
      BY <2>2 DEF Stays
    <3> QED
      BY <2>3, <2>4, <3>2, <3>3, VmasFrame
  <2>11. GemsFit'
    BY <2>3 DEF GemsFit, GemFits, Used
  <2> QED
    BY <2>2, <2>5, <2>7, <2>8, <2>9, <2>10, <2>11
<1> QED
  BY <1>2, <1>5, <1>6, <1>7

\* NV_ESC_RM_UNMAP_MEMORY: the entry is no placement's, and what its file has mapped is loose.
LEMMA UnmapMemoryKeeps ==
  ASSUME WindowInv, NEW e \in active, UnmapMemory(e)
  PROVE  WindowInv'
<1> USE DEF WindowInv
<1>1. /\ e.id = 0
      /\ vmas' = {IF v.file = e.fd THEN [v EXCEPT !.loose = TRUE] ELSE v : v \in vmas}
      /\ active' = Remove(e.region)
      /\ \/ free' = GiveBack(e.region, free) /\ leaked' = leaked
         \/ leaked' = leaked \cup {e} /\ free' = free
      /\ UNCHANGED <<file, gems, armed, live, dri, nextId, shown, struck>>
  BY DEF UnmapMemory, maps
<1>2. PICK r : r = e.region
  OBVIOUS
<1>3. Fits(r) /\ e \in Held /\ e \in Entry
  BY <1>2 DEF BooksFit, Books, Held, Types, TablesFit
<1>4. /\ active' \subseteq active /\ active' \subseteq Entry /\ IsFiniteSet(active') /\ e \notin active'
      /\ \A a \in active : (a.region.zone = r.zone => PagesOf(a.region) \cap PagesOf(r) = {})
                           => a \in active'
  <2>1. active' = Remove(r) /\ TablesFit /\ BooksFit
    BY <1>1, <1>2 DEF Types
  <2>2. \A a \in active' : a.region # r
    BY <1>3, <2>1, RemoveKeeps
  <2>3. e \notin active'
    BY <1>2, <2>2
  <2> QED
    BY <1>3, <2>1, <2>3, RemoveKeeps
<1>5. ASSUME NEW a \in active, a # e, a.region.zone \in Sound PROVE a \in active'
  <2>1. a.region.zone = r.zone => PagesOf(a.region) \cap PagesOf(r) = {}
    <3>1. a \in Held
      BY DEF Held
    <3> QED
      BY <1>2, <1>3, <1>5, <3>1, HeldApart
  <2> QED
    BY <1>4, <2>1
<1>6. Sound' = Sound /\ Held' \subseteq Held /\ leaked' \subseteq leaked \cup {e}
  BY <1>1, <1>3, <1>4 DEF Sound, Held
<1>7. TablesFit'
  BY <1>1, <1>3, <1>4 DEF Types, TablesFit
<1>8. BooksFit'
  <2>1. PICK F, A, Q, G, B : F = free /\ A = Held /\ Q = Sound /\ G = free' /\ B = Held'
    OBVIOUS
  <2>2. /\ Books(F, A, Q) /\ Q \in SUBSET Zones /\ Lists(F) /\ e \in A /\ B \subseteq A
        /\ \A a \in B : Fits(a.region)
    BY <1>3, <1>6, <2>1 DEF BooksFit, Books, Sound
  <2>3. \A a \in A : a.region.zone \in Q /\ a # e => a \in B
    BY <1>1, <1>5, <2>1 DEF Held
  <2>4. CASE free' = GiveBack(e.region, free) /\ leaked' = leaked
    <3>1. G = GiveBack(e.region, F)
      BY <2>1, <2>4
    <3>2. Books(G, A \ {e}, Q)
      BY ONLY <2>2, <3>1, DropKeeps
    <3>3. PICK C : C = A \ {e}
      OBVIOUS
    <3>4. \A a \in B : a.region.zone \in Q => a \in C
      <4>1. e.region.zone \in Sound => e \notin leaked
        BY DEF ActiveFits
      <4>2. e.region.zone \in Q => e \notin B
        BY <1>4, <2>1, <2>4, <4>1 DEF Held
      <4> QED
        BY <2>2, <3>3, <4>2
    <3>5. /\ Books(G, C, Q) /\ Lists(G) /\ \A a \in C : a.region.zone \in Q => a \in B
          /\ Q \in SUBSET Q /\ \A z \in Q : G[z] = G[z]
      BY <2>3, <3>2, <3>3 DEF Books
    <3>6. Books(G, B, Q)
      BY ONLY <2>2, <3>4, <3>5, BooksAgree
    <3> QED
      BY <1>6, <2>1, <3>6 DEF BooksFit
  <2>5. CASE leaked' = leaked \cup {e} /\ free' = free
    <3>1. e \in B
      BY <2>1, <2>5 DEF Held
    <3>2. /\ \A a \in A : a.region.zone \in Q => a \in B
          /\ \A a \in B : a.region.zone \in Q => a \in A
          /\ Q \in SUBSET Q /\ \A z \in Q : F[z] = F[z]
      BY <2>2, <2>3, <3>1
    <3>3. Books(F, B, Q)
      BY ONLY <2>2, <3>2, BooksAgree
    <3> QED
      BY <1>6, <2>1, <2>5, <3>3 DEF BooksFit
  <2> QED
    BY <1>1, <2>4, <2>5
<1>9. ActiveFits'
  <2>1. ASSUME NEW a \in active'
        PROVE  /\ Up(a.fd)'
               /\ Kind[a.fd] # "dri" => armed'[a.fd] # None
               /\ a.region.zone \in Sound =>
                    a \notin leaked' /\ (Kind[a.fd] # "dri" => ShowsIn(shown', a.region, armed'[a.fd]))
    <3>1. a \in active /\ a # e
      BY <1>4
    <3> QED
      BY <1>1, <1>6, <3>1 DEF ActiveFits, Up, Shows
  <2>2. \A a, b \in active' : a.fd = b.fd /\ Kind[a.fd] # "dri" => a = b
    BY <1>4 DEF ActiveFits
  <2>3. \A a \in Held' : a.id < nextId'
    BY <1>1, <1>6 DEF ActiveFits
  <2> QED
    BY <1>6, <2>1, <2>2, <2>3 DEF ActiveFits, Shows
<1>10. IdsFit'
  <2>1. \A m \in live : \A a \in Held' : a.id = m.id => a = OwnEntry(m)
    BY <1>6 DEF IdsFit
  <2> QED
    BY <1>1, <2>1 DEF IdsFit, OwnEntry
<1>11. LiveFits'
  <2>1. \A m \in live : m.id # 0
    BY DEF Types, TablesFit, Live
  <2>2. ASSUME NEW m \in live, Up(m.key.fd)', m.region.zone \in Sound
        PROVE  OwnEntry(m) \in active' /\ (m.key.off # None => Shows(m.region, m.key.off))
    <3>1. PICK o : o = OwnEntry(m)
      OBVIOUS
    <3>2. o.id = m.id /\ o.region = m.region /\ Up(m.key.fd)
      BY <1>1, <2>2, <3>1 DEF OwnEntry, Up
    <3>3. o \in active /\ o # e /\ (m.key.off # None => Shows(m.region, m.key.off))
      BY <1>1, <2>1, <2>2, <3>1, <3>2 DEF LiveFits
    <3>4. o \in active'
      BY <1>5, <2>2, <3>2, <3>3
    <3> QED
      BY <3>1, <3>3, <3>4
  <2> QED
    BY <1>1, <1>6, <2>2 DEF LiveFits, Shows, ShowsIn, OwnEntry
<1>12. ASSUME NEW w \in vmas'
       PROVE  \E v \in vmas : /\ w \in Vmas /\ w.file = v.file /\ w.id = v.id /\ w.obj = v.obj
                              /\ w.zone = v.zone /\ w.page = v.page /\ w.pages = v.pages
                              /\ v.loose => w.loose
                              /\ w.name = v.name
                              /\ w.loose = (v.file = e.fd \/ v.loose)
  <2>1. PICK v \in vmas : w = IF v.file = e.fd THEN [v EXCEPT !.loose = TRUE] ELSE v
    BY <1>1
  <2>2. v \in Vmas
    BY DEF Types
  <2> QED
    BY <2>1, <2>2 DEF Vmas
<1>13. vmas' \subseteq Vmas
  BY <1>12
<1>14. VmasFit'
  <2>1. ASSUME NEW w \in vmas' PROVE VmaFits(w)'
    <3>1. PICK v \in vmas : w.file = v.file /\ w.id = v.id /\ w.obj = v.obj
      BY <1>12
    <3> QED
      BY <1>1, <3>1 DEF VmasFit, VmaFits
  <2>2. ASSUME NEW w \in vmas', ~ w.loose, w.zone \in Sound
        PROVE  \E a \in active' : Under(w, a)
    <3>1. PICK v \in vmas : /\ w.file = v.file /\ w.zone = v.zone /\ w.page = v.page /\ w.pages = v.pages
                            /\ w.loose = (v.file = e.fd \/ v.loose)
      BY <1>12
    <3>2. PICK a \in active : Under(v, a)
      BY <2>2, <3>1 DEF VmasFit
    <3>3. a.fd = v.file /\ v.zone = a.region.zone
      BY <3>2 DEF Under
    <3>4. a \in active'
      BY <1>5, <2>2, <3>1, <3>3
    <3>5. Under(w, a)
      BY <3>1, <3>2 DEF Under
    <3> QED
      BY <3>4, <3>5
  <2>3. ASSUME NEW u \in vmas', NEW w \in vmas', u # w, u.file = w.file PROVE u.loose
    <3>1. PICK x \in vmas : u = IF x.file = e.fd THEN [x EXCEPT !.loose = TRUE] ELSE x
      BY <1>1
    <3>2. PICK y \in vmas : w = IF y.file = e.fd THEN [y EXCEPT !.loose = TRUE] ELSE y
      BY <1>1
    <3>3. x \in Vmas /\ y \in Vmas
      BY DEF Types
    <3>4. u.file = x.file /\ w.file = y.file /\ x # y /\ (u.loose = (x.file = e.fd \/ x.loose))
      BY <2>3, <3>1, <3>2, <3>3 DEF Vmas
    <3> QED
      BY <2>3, <3>4 DEF VmasFit
  <2> QED
    BY <1>6, <2>1, <2>2, <2>3 DEF VmasFit
<1>15. GemsFit'
  BY <1>1 DEF GemsFit, GemFits, Used
<1> QED
  BY <1>1, <1>7, <1>8, <1>9, <1>10, <1>11, <1>13, <1>14, <1>15 DEF Types

\* handle_mmap on a file that active_maps knows.
LEMMA MmapRecordedKeeps ==
  ASSUME WindowInv, NEW f \in Files, NEW v \in Mappings, NEW pages \in 1 .. MaxPages,
         file[f] = "open", Kind[f] # "dri", MmapRecorded(f, v, pages)
  PROVE  WindowInv'
<1> USE DEF WindowInv
<1>1. UNCHANGED <<file, gems, armed, backend>>
  BY DEF MmapRecorded
<1>2. PICK e \in active : /\ e.fd = f /\ pages * PageSize <= AlignUp(e.region.len)
                          /\ Receive(Vma(v, f, 0, e.region, pages))
  BY DEF MmapRecorded, Carried
<1>3. PICK n, r : n = Vma(v, f, 0, r, pages) /\ r = e.region
  OBVIOUS
<1>4. Region(r) /\ r.zone \in Zones /\ r.start \div PageSize \in Nat
  <2>1. Fits(r)
    BY <1>3 DEF BooksFit, Books, Held
  <2> QED
    BY <2>1, RegionPages DEF Fits
<1>5. armed[f] \in Memories
  BY <1>2 DEF ActiveFits, Types
<1>6. /\ n.file = f /\ n.id = 0 /\ n.obj = armed[f] /\ n.zone = r.zone
      /\ n.page = r.start \div PageSize /\ n.pages = pages
  BY <1>3 DEF Vma
<1>7. n \in Vmas
  BY <1>3, <1>4, <1>5 DEF Vma, Vmas
<1>8. nextId \in Nat /\ 0 < nextId /\ vmas \subseteq Vmas /\ nextId' = nextId /\ live' = live /\ active' = active
      /\ Sound' = Sound
  BY <1>1, WindowMapsAssumption DEF Types, TablesFit, backend, maps, store, Sound
<1>9. \A m \in live : m.id # 0
  BY DEF Types, TablesFit, Live
<1>10. CASE vmas' = Joined(n)
  <2>1. /\ n.id < nextId' /\ file' = file /\ armed' = armed
        /\ file[n.file] = "open" /\ Kind[n.file] # "dri" /\ n.obj = armed[n.file]
        /\ \A m \in live' : m.id = n.id => m.key.fd = n.file
        /\ \A m \in live' : m \in live \/ m.id = nextId
        /\ Under(n, e) /\ e \in active'
        /\ \A a \in active : a.region.zone \in Sound' => a \in active'
    BY <1>1, <1>2, <1>3, <1>6, <1>8, <1>9 DEF Under
  <2>2. VmasFit' /\ vmas' \subseteq Vmas
    BY <1>7, <1>8, <1>10, <2>1, JoinKeeps
  <2> QED
    BY <1>1, <2>2, MappingsOnly
<1>11. CASE UNCHANGED vmas
  <2>1. VmasFit' /\ vmas' \subseteq Vmas
    BY <1>1, <1>8, <1>11 DEF VmasFit, VmaFits
  <2> QED
    BY <1>1, <2>1, MappingsOnly
<1> QED
  BY <1>2, <1>3, <1>10, <1>11 DEF Receive

\* A forked mapping is loose, like its parent.
LEMMA ForkKeeps ==
  ASSUME WindowInv, NEW w \in vmas, NEW v \in Mappings, Fork(w, v)
  PROVE  WindowInv'
<1> USE DEF WindowInv
<1>1. /\ UNCHANGED <<file, gems, armed, backend>>
      /\ vmas' = Joined([w EXCEPT !.name = v])
  BY DEF Fork
<1>2. PICK n : n = [w EXCEPT !.name = v]
  OBVIOUS
<1>3. w \in Vmas /\ vmas \subseteq Vmas /\ nextId \in Nat
  BY WindowMapsAssumption DEF Types, TablesFit
<1>4. n \in Vmas /\ n.file = w.file /\ n.id = w.id /\ n.obj = w.obj
  BY <1>2, <1>3 DEF Vmas
<1>5. /\ file[w.file] = "open" /\ Kind[w.file] # "dri" /\ w.obj = armed[w.file] /\ w.id < nextId
      /\ \A m \in live : m.id = w.id => m.key.fd = w.file
  BY DEF VmasFit, VmaFits
<1>6. nextId' = nextId /\ live' = live /\ active' = active /\ Sound' = Sound
  BY <1>1 DEF backend, maps, store, Sound
<1>7. VmasFit' /\ vmas' \subseteq Vmas
  <2>1. /\ n.id < nextId' /\ file' = file /\ armed' = armed
        /\ file[n.file] = "open" /\ Kind[n.file] # "dri" /\ n.obj = armed[n.file]
        /\ \A m \in live' : m.id = n.id => m.key.fd = n.file
        /\ \A m \in live' : m \in live \/ m.id = nextId
        /\ \A a \in active : a.region.zone \in Sound' => a \in active'
        /\ vmas' = Joined(n)
    BY <1>1, <1>2, <1>3, <1>4, <1>5, <1>6
  <2>2. ~ \A x \in vmas : x.file # n.file
    BY <1>4
  <2> QED
    BY <1>3, <1>4, <1>6, <2>1, <2>2, JoinKeeps
<1> QED
  BY <1>1, <1>7, MappingsOnly

\* The window will not take what map_unrecorded was granted.
LEMMA PlaceFailsKeeps ==
  ASSUME WindowInv, NEW key \in Keys, NEW size \in Nat \ {0}, PlaceFails(key, size),
         UNCHANGED <<guest, armed>>
  PROVE  WindowInv'
<1> USE DEF WindowInv
<1>1. PICK z, f : z = ZoneOf(key.fd) /\ f = key.fd
  OBVIOUS
<1>2. /\ CanAlloc(free[z], AlignUp(size)) /\ Withheld(f, Granted(z, size)) /\ UNCHANGED <<maps, struck>>
      /\ f \in Files /\ z \in Zones
  BY <1>1, WindowMapsAssumption DEF PlaceFails, ZoneOf, Keys
<1>3. /\ BooksFit' /\ leaked' \subseteq Entry
      /\ \A a \in leaked' : a \in leaked \/ a.id = 0
      /\ \A a \in active : a.region.zone \in Sound => a \notin leaked'
      /\ UNCHANGED <<active, shown>>
  BY <1>2, WithheldIs DEF Types
<1>4. /\ armed' \in [Files -> Memories \cup {None}]
      /\ \A g \in Files : armed[g] # None => armed'[g] = armed[g]
  BY DEF Types
<1> QED
  BY <1>2, <1>3, <1>4, QuietKeeps

\* A known key names its placement, which has an entry if its zone is sound.
LEMMA PlacedIs ==
  ASSUME WindowInv, NEW key \in Keys, NEW size, Placed(key) # {}
  PROVE  \E m \in live : /\ m.key = key /\ Answer(key, size) = [id |-> m.id, region |-> m.region]
                         /\ Fits(m.region) /\ m.id < nextId
                         /\ \A k \in live : k.id = m.id => k.key = key
                         /\ Up(key.fd) /\ m.region.zone \in Sound => OwnEntry(m) \in active
<1> USE DEF WindowInv
<1>1. PICK m : m = CHOOSE n \in Placed(key) : TRUE
  OBVIOUS
<1>2. m \in Placed(key) /\ Answer(key, size) = [id |-> m.id, region |-> m.region]
  BY <1>1 DEF Answer
<1>3. PICK d \in dri : d.key = key /\ d.id = m.id
  BY <1>2 DEF Placed
<1>4. m \in live /\ m.key = key
  BY <1>2, <1>3 DEF Placed, IdsFit
<1>5. Fits(m.region) /\ m.id < nextId /\ \A k \in live : k.id = m.id => k.key = key
  BY <1>4 DEF Types, TablesFit, IdsFit
<1>6. Up(key.fd) /\ m.region.zone \in Sound => OwnEntry(m) \in active
  BY <1>4 DEF LiveFits
<1> QED
  BY <1>2, <1>4, <1>5, <1>6

\* handle_mmap on a file that active_maps does not know.
LEMMA MmapUnrecordedKeeps ==
  ASSUME WindowInv, NEW f \in Files, NEW v \in Mappings, NEW pages \in 1 .. MaxPages,
         file[f] = "open", Kind[f] # "dri", MmapUnrecorded(f, v, pages)
  PROVE  WindowInv'
<1> USE DEF WindowInv
<1>1. PICK key, size, obj : key = [fd |-> f, off |-> None] /\ size = pages * PageSize /\ obj = armed[f]
  OBVIOUS
<1>2. /\ Carried(f) = {}
      /\ \/ /\ obj # None
            /\ size <= AlignUp(Length[obj])
            /\ MapUnrecorded(key, size, obj)
            /\ Receive(Vma(v, f, Answer(key, size).id, Answer(key, size).region, pages))
         \/ PlaceFails(key, size) /\ UNCHANGED vmas
      /\ UNCHANGED <<file, gems, armed>>
  BY <1>1 DEF MmapUnrecorded
<1>3. key \in Keys /\ key.fd = f /\ key.off = None /\ Up(f)
  BY <1>1 DEF Keys, Up
<1>4. size \in Nat \ {0} /\ Pages(size)
  <2>1. pages \in Nat \ {0} /\ PageSize \in Nat \ {0}
    BY WindowMapsAssumption, ExtentsAssumption
  <2> QED
    BY <1>1, <2>1, MultipleDivides DEF Pages
<1>5. CASE PlaceFails(key, size) /\ UNCHANGED vmas
  <2>1. UNCHANGED <<guest, armed>>
    BY <1>2, <1>5 DEF guest
  <2> QED
    BY <1>3, <1>4, <1>5, <2>1, PlaceFailsKeeps
<1>6. CASE /\ obj # None /\ size <= AlignUp(Length[obj]) /\ MapUnrecorded(key, size, obj)
           /\ Receive(Vma(v, f, Answer(key, size).id, Answer(key, size).region, pages))
           /\ Placed(key) # {}
  <2>1. PICK m \in live : /\ m.key = key /\ Answer(key, size) = [id |-> m.id, region |-> m.region]
                          /\ Fits(m.region) /\ m.id < nextId
                          /\ \A k \in live : k.id = m.id => k.key = key
                          /\ Up(key.fd) /\ m.region.zone \in Sound => OwnEntry(m) \in active
    BY <1>3, <1>6, PlacedIs
  <2>2. PICK n, r : n = Vma(v, f, m.id, r, pages) /\ r = m.region
    OBVIOUS
  <2>3. UNCHANGED backend /\ (vmas' = Joined(n) \/ UNCHANGED vmas)
    BY <1>6, <2>1, <2>2 DEF MapUnrecorded, Receive
  <2>4. r.zone \notin Sound
    <3>1. OwnEntry(m).fd = f
      BY <1>3, <2>1 DEF OwnEntry
    <3> QED
      BY <1>2, <1>3, <2>1, <2>2, <3>1 DEF Carried
  <2>5. nextId \in Nat /\ vmas \subseteq Vmas /\ nextId' = nextId /\ live' = live /\ active' = active
        /\ Sound' = Sound /\ m.id \in Nat
    BY <2>3, WindowMapsAssumption DEF Types, TablesFit, Live, backend, maps, store, Sound
  <2>6. /\ n.file = f /\ n.id = m.id /\ n.obj = armed[f] /\ n.zone = r.zone
    BY <2>2 DEF Vma
  <2>7. n \in Vmas
    <3>1. r.zone \in Zones /\ r.start \div PageSize \in Nat
      BY <2>1, <2>2, RegionPages DEF Fits
    <3>2. armed[f] \in Memories
      BY <1>1, <1>6 DEF Types
    <3> QED
      BY <2>2, <2>5, <3>1, <3>2 DEF Vma, Vmas
  <2>8. VmasFit' /\ vmas' \subseteq Vmas
    <3>1. CASE vmas' = Joined(n)
      <4>1. /\ n.id < nextId' /\ file' = file /\ armed' = armed
            /\ file[n.file] = "open" /\ Kind[n.file] # "dri" /\ n.obj = armed[n.file]
            /\ \A k \in live' : k.id = n.id => k.key.fd = n.file
            /\ \A k \in live' : k \in live \/ k.id = nextId
            /\ n.zone \notin Sound'
            /\ \A a \in active : a.region.zone \in Sound' => a \in active'
        BY <1>2, <1>3, <2>1, <2>4, <2>5, <2>6
      <4> QED
        BY <2>5, <2>7, <3>1, <4>1, JoinKeeps
    <3>2. CASE UNCHANGED vmas
      BY <1>2, <2>5, <3>2 DEF VmasFit, VmaFits
    <3> QED
      BY <2>3, <3>1, <3>2
  <2> QED
    BY <1>2, <2>3, <2>8, MappingsOnly
<1>7. CASE /\ obj # None /\ size <= AlignUp(Length[obj]) /\ MapUnrecorded(key, size, obj)
           /\ Receive(Vma(v, f, Answer(key, size).id, Answer(key, size).region, pages))
           /\ Placed(key) = {}
  <2>1. obj \in Memories /\ size < WordSize /\ AlignUp(size) = size
    <3>1. obj \in Memories
      BY <1>1, <1>7 DEF Types
    <3>2. Length[obj] \in Nat
      BY <3>1, WindowMapsAssumption
    <3>3. AlignUp(Length[obj]) \in Nat /\ AlignUp(Length[obj]) < WordSize
      BY <3>2, AlignUpWhole
    <3>4. size < WordSize
      BY <1>4, <1>7, <3>3, ExtentsAssumption
    <3> QED
      BY <1>4, <3>1, <3>4, AlignUpKeeps, WindowMapsAssumption DEF Pages
  <2>2. PICK r : r = Granted(ZoneOf(key.fd), size)
    OBVIOUS
  <2>3. PICK e, p : e = [fd |-> key.fd, region |-> r, id |-> nextId] /\ p = [id |-> nextId, key |-> key, region |-> r]
    OBVIOUS
  <2>4. /\ nextId <= MaxId
        /\ CanAlloc(free[ZoneOf(key.fd)], AlignUp(size))
        /\ free' = Take(ZoneOf(key.fd), size)
        /\ active' = Insert(e)
        /\ live' = live \cup {p}
        /\ dri' = {d \in dri : d.key # key} \cup {[key |-> key, id |-> nextId]}
        /\ nextId' = nextId + 1
        /\ shown' = Show(r, obj)
        /\ UNCHANGED <<leaked, struck>>
    BY <1>7, <2>2, <2>3 DEF MapUnrecorded
  <2>5. Answer(key, size) = [id |-> nextId, region |-> r]
    BY <1>7, <2>2 DEF Answer
  <2>6. /\ TablesFit' /\ BooksFit' /\ ActiveFits' /\ IdsFit' /\ LiveFits'
        /\ \A a \in active : a.region.zone \in Sound => a \in active'
        /\ e \in active' /\ Fits(r) /\ Sound' = Sound
        /\ \A m \in live' : m \in live \/ m.id = nextId
    <3>1. obj \in Objects /\ (key.off = None <=> Kind[key.fd] # "dri") /\ Up(key.fd)
          /\ (key.off # None => obj = key.off)
          /\ (key.off = None => obj = armed[key.fd] /\ Carried(key.fd) = {})
          /\ file' = file /\ armed' = armed
      BY <1>1, <1>2, <1>3, <2>1 DEF Objects
    <3> QED
      BY ONLY WindowInv, <1>3, <1>4, <1>7, <2>2, <2>3, <2>4, <3>1, PlaceKeeps
  <2>7. PICK n : n = Vma(v, f, nextId, r, pages)
    OBVIOUS
  <2>8. /\ n.file = f /\ n.id = nextId /\ n.obj = armed[f] /\ n.zone = r.zone
        /\ n.page = r.start \div PageSize /\ n.pages = pages
    BY <2>7 DEF Vma
  <2>9. nextId \in Nat /\ nextId' \in Nat /\ nextId < nextId' /\ vmas \subseteq Vmas
    BY <2>4, WindowMapsAssumption DEF Types, TablesFit
  <2>10. n \in Vmas
    <3>1. r.zone \in Zones /\ r.start \div PageSize \in Nat
      BY <2>6, RegionPages DEF Fits
    <3> QED
      BY <1>1, <2>1, <2>7, <2>9, <3>1 DEF Vma, Vmas
  <2>11. VmasFit' /\ vmas' \subseteq Vmas
    <3>1. CASE vmas' = Joined(n)
      <4>1. \A m \in live' : m.id = n.id => m.key.fd = n.file
        <5>1. \A m \in live : m.id # nextId
          BY <2>9 DEF IdsFit, Types, TablesFit, Live
        <5>2. p.key = key
          BY <2>3
        <5> QED
          BY <1>3, <2>4, <2>8, <5>1, <5>2
      <4>2. /\ n.id < nextId' /\ nextId <= nextId' /\ file' = file /\ armed' = armed
            /\ file[n.file] = "open" /\ Kind[n.file] # "dri" /\ n.obj = armed[n.file]
        BY <1>2, <2>8, <2>9
      <4>3. Under(n, e)
        <5>1. e.fd = f /\ e.region = r /\ r.len = size
          BY <1>3, <2>2, <2>3 DEF Granted
        <5>2. n.pages * PageSize <= AlignUp(r.len)
          BY <1>1, <1>4, <2>1, <2>8, <5>1
        <5> QED
          BY <2>8, <5>1, <5>2 DEF Under
      <4> QED
        BY <2>6, <2>9, <2>10, <3>1, <4>1, <4>2, <4>3, JoinKeeps
    <3>2. CASE UNCHANGED vmas
      <4>1. \A x \in vmas' : file'[x.file] = "open" /\ armed'[x.file] = armed[x.file]
        BY <1>2, <3>2 DEF VmasFit, VmaFits
      <4>2. \A x \in vmas' : \A a \in active :
              ~ x.loose /\ a.fd = x.file /\ a.region.zone \in Sound' => a \in active'
        BY <2>6
      <4>3. VmasFit'
        BY <2>6, <2>9, <3>2, <4>1, <4>2, VmasFrame
      <4> QED
        BY <2>9, <3>2, <4>3
    <3> QED
      BY <1>7, <2>5, <2>7, <3>1, <3>2 DEF Receive
  <2>12. Types'
    BY <1>2, <2>6, <2>11 DEF Types
  <2>13. GemsFit'
    <3> SUFFICES ASSUME NEW b \in Buffers PROVE GemFits(b)'
      BY DEF GemsFit
    <3>1. GemFits(b) /\ \A m \in live : m \in live'
      BY <2>4 DEF GemsFit
    <3> QED
      BY <1>2, <3>1, GemFrame
  <2> QED
    BY <2>6, <2>11, <2>12, <2>13
<1> QED
  BY <1>2, <1>5, <1>6, <1>7

\* nvgpu_vma_close: what it gives back is its own file's.
LEMMA VmaCloseKeeps ==
  ASSUME WindowInv, NEW w \in vmas, VmaClose(w)
  PROVE  WindowInv'
<1> USE DEF WindowInv
<1>1. /\ vmas' = vmas \ {w} /\ UNCHANGED <<file, gems, armed>>
      /\ Munmap(w.id) \/ UNCHANGED backend
  BY DEF VmaClose
<1>2. nextId \in Nat /\ vmas \subseteq Vmas
  BY WindowMapsAssumption DEF Types, TablesFit
<1>3. \A v \in vmas' : file'[v.file] = "open" /\ armed'[v.file] = armed[v.file]
  BY <1>1 DEF VmasFit, VmaFits
<1>4. CASE Munmap(w.id)
  <2>1. file[w.file] = "open" /\ Kind[w.file] # "dri" /\ \A m \in live : m.id = w.id => m.key.fd = w.file
    BY DEF VmasFit, VmaFits
  <2>2. /\ TablesFit' /\ BooksFit' /\ ActiveFits' /\ IdsFit' /\ LiveFits'
        /\ nextId' = nextId /\ live' \subseteq live /\ Sound' \subseteq Sound
        /\ \A m \in live : m.id # w.id => m \in live'
        /\ \A a \in active :
             a.region.zone \in Sound' /\ (\A m \in live : m.id = w.id => m.key.fd # a.fd) => a \in active'
    <3>1. PICK id : id = w.id
      OBVIOUS
    <3>2. Munmap(id) /\ file' = file /\ armed' = armed
      BY <1>1, <1>4, <3>1
    <3>3. /\ TablesFit' /\ BooksFit' /\ ActiveFits' /\ IdsFit' /\ LiveFits'
          /\ nextId' = nextId /\ live' \subseteq live /\ Sound' \subseteq Sound
          /\ \A m \in live : m.id # id => m \in live'
          /\ \A a \in active :
               a.region.zone \in Sound' /\ (\A m \in live : m.id = id => m.key.fd # a.fd) => a \in active'
      BY <3>2, UnplaceKeeps
    <3> QED
      BY <3>1, <3>3
  <2>3. VmasFit'
    <3>1. ASSUME NEW v \in vmas', NEW a \in active, ~ v.loose, a.fd = v.file, a.region.zone \in Sound'
          PROVE  a \in active'
      <4>1. v.file # w.file
        BY <1>1, <3>1 DEF VmasFit
      <4> QED
        BY <2>1, <2>2, <3>1, <4>1
    <3>2. /\ vmas' \subseteq vmas /\ nextId' \in Nat /\ nextId <= nextId'
          /\ \A m \in live' : m \in live \/ m.id = nextId
      BY <1>1, <1>2, <2>2
    <3> QED
      BY <1>2, <1>3, <2>2, <3>1, <3>2, VmasFrame
  <2>4. Types'
    BY <1>1, <1>2, <2>2 DEF Types
  <2>5. GemsFit'
    <3> SUFFICES ASSUME NEW b \in Buffers PROVE GemFits(b)'
      BY DEF GemsFit
    <3>1. GemFits(b)
      BY DEF GemsFit
    <3>2. ASSUME NEW m \in live, m.key.off = b PROVE m.id # w.id
      <4>1. m.key.off # None
        BY <3>2, WindowMapsAssumption
      <4> QED
        BY <2>1, <4>1 DEF IdsFit
    <3> QED
      BY <1>1, <2>2, <3>1, <3>2, GemFrame
  <2> QED
    BY <2>2, <2>3, <2>4, <2>5
<1>5. CASE UNCHANGED backend
  <2>1. nextId' = nextId /\ live' = live /\ active' = active /\ Sound' = Sound
    BY <1>5 DEF backend, maps, store, Sound
  <2>2. VmasFit'
    <3>1. vmas' \subseteq vmas
      BY <1>1
    <3> QED
      BY <1>2, <1>3, <2>1, <3>1, VmasFrame
  <2> QED
    BY <1>1, <1>2, <1>5, <2>2, MappingsOnly
<1> QED
  BY <1>1, <1>4, <1>5

\* nvgpu_gem_proxy_create.
LEMMA GemCreateKeeps ==
  ASSUME WindowInv, NEW f \in Files, NEW b \in Buffers, GemCreate(f, b)
  PROVE  WindowInv'
<1> USE DEF WindowInv
<1>1. /\ file[f] = "open" /\ Kind[f] = "dri" /\ gems[b].state = "none"
      /\ gems' = [gems EXCEPT ![b].state = "used", ![b].owner = f, ![b].users = {f}]
      /\ UNCHANGED <<file, vmas, armed, backend>> /\ live' = live
  BY DEF GemCreate, backend, maps
<1>2. gems \in [Buffers -> Gem]
  BY DEF Types
<1>3. PICK g, h : g = gems[b] /\ h = [g EXCEPT !.state = "used", !.owner = f, !.users = {f}]
  OBVIOUS
<1>4. gems' = [gems EXCEPT ![b] = h]
  BY <1>1, <1>2, <1>3
<1>5. g \in Gem /\ GemFits(b)
  BY <1>2, <1>3 DEF GemsFit
<1>6. /\ h \in Gem /\ h.state = "used" /\ h.owner = f /\ h.users = {f} /\ h.valid = g.valid
  BY <1>3, <1>5 DEF Gem
<1>7. ~ g.valid
  BY <1>1, <1>3, <1>5 DEF GemFits, Used
<1>8. gems' \in [Buffers -> Gem] /\ gems'[b] = h /\ \A c \in Buffers : c # b => gems'[c] = gems[c]
  BY <1>2, <1>4, <1>6
<1>9. GemFits(b)'
  BY <1>1, <1>6, <1>7, <1>8 DEF GemFits, Used
<1>10. \A c \in Buffers : c # b => GemFits(c)'
  BY <1>1, <1>8 DEF GemsFit, GemFits, Used
<1> QED
  BY <1>1, <1>8, <1>9, <1>10, ObjectsOnly DEF GemsFit

\* nvgpu_gem_prime_import.
LEMMA GemImportKeeps ==
  ASSUME WindowInv, NEW f \in Files, NEW b \in Buffers, GemImport(f, b)
  PROVE  WindowInv'
<1> USE DEF WindowInv
<1>1. /\ gems[b].state = "used" /\ f \notin gems[b].users
      /\ gems' = [gems EXCEPT ![b].users = @ \cup {f}]
      /\ UNCHANGED <<file, vmas, armed, backend>> /\ live' = live
  BY DEF GemImport, backend, maps
<1>2. gems \in [Buffers -> Gem]
  BY DEF Types
<1>3. PICK g, h : g = gems[b] /\ h = [g EXCEPT !.users = g.users \cup {f}]
  OBVIOUS
<1>4. gems' = [gems EXCEPT ![b] = h]
  BY <1>1, <1>2, <1>3
<1>5. g \in Gem /\ GemFits(b)
  BY <1>2, <1>3 DEF GemsFit
<1>6. /\ h \in Gem /\ h.users # {} /\ h.state = g.state /\ h.owner = g.owner /\ h.by = g.by
      /\ h.valid = g.valid /\ h.id = g.id /\ h.region = g.region
  BY <1>3, <1>5 DEF Gem
<1>7. gems' \in [Buffers -> Gem] /\ gems'[b] = h /\ \A c \in Buffers : c # b => gems'[c] = gems[c]
  BY <1>2, <1>4, <1>6
<1>8. GemFits(b)'
  BY <1>1, <1>3, <1>5, <1>6, <1>7 DEF GemFits, Used, Placement
<1>9. \A c \in Buffers : c # b => GemFits(c)'
  BY <1>1, <1>7 DEF GemsFit, GemFits, Used
<1> QED
  BY <1>1, <1>7, <1>8, <1>9, ObjectsOnly DEF GemsFit

\* GEM_CLOSE: the last user starts nvgpu_gem_free.
LEMMA GemCloseKeeps ==
  ASSUME WindowInv, NEW f \in Files, NEW b \in Buffers, GemClose(f, b)
  PROVE  WindowInv'
<1> USE DEF WindowInv
<1>1. /\ f \in gems[b].users
      /\ gems' = IF gems[b].users = {f}
                 THEN [gems EXCEPT ![b].users = {}, ![b].state = "dying", ![b].by = f]
                 ELSE [gems EXCEPT ![b].users = @ \ {f}]
      /\ UNCHANGED <<file, vmas, armed, backend>> /\ live' = live
  BY DEF GemClose, backend, maps
<1>2. gems \in [Buffers -> Gem]
  BY DEF Types
<1>3. PICK g : g = gems[b]
  OBVIOUS
<1>4. PICK h : h = IF g.users = {f} THEN [g EXCEPT !.users = {}, !.state = "dying", !.by = f]
                   ELSE [g EXCEPT !.users = g.users \ {f}]
  OBVIOUS
<1>5. gems' = [gems EXCEPT ![b] = h]
  <2>1. CASE g.users = {f}
    <3>1. h = [g EXCEPT !.users = {}, !.state = "dying", !.by = f]
      BY <1>4, <2>1
    <3>2. gems' = [gems EXCEPT ![b].users = {}, ![b].state = "dying", ![b].by = f]
      BY <1>1, <1>3, <2>1
    <3> QED
      BY <1>2, <1>3, <3>1, <3>2
  <2>2. CASE g.users # {f}
    BY <1>1, <1>2, <1>3, <1>4, <2>2
  <2> QED
    BY <2>1, <2>2
<1>6. g \in Gem /\ GemFits(b) /\ f \in g.users
  BY <1>1, <1>2, <1>3 DEF GemsFit
<1>7. g.state = "used"
  BY <1>3, <1>6 DEF GemFits
<1>8. /\ h \in Gem /\ h.owner = g.owner /\ h.valid = g.valid /\ h.id = g.id /\ h.region = g.region
      /\ h.users # {} <=> h.state = "used"
      /\ h.state \in {"used", "dying"}
  <2>1. CASE g.users = {f}
    <3>1. h = [g EXCEPT !.users = {}, !.state = "dying", !.by = f]
      BY <1>4, <2>1
    <3> QED
      BY <1>6, <3>1 DEF Gem
  <2>2. CASE g.users # {f}
    <3>1. h = [g EXCEPT !.users = g.users \ {f}]
      BY <1>4, <2>2
    <3>2. g.users \ {f} # {}
      BY <1>6, <2>2
    <3> QED
      BY <1>6, <1>7, <3>1, <3>2 DEF Gem
  <2> QED
    BY <2>1, <2>2
<1>9. gems' \in [Buffers -> Gem] /\ gems'[b] = h /\ \A c \in Buffers : c # b => gems'[c] = gems[c]
  BY <1>2, <1>5, <1>8
<1>10. GemFits(b)'
  BY <1>1, <1>3, <1>6, <1>7, <1>8, <1>9 DEF GemFits, Used, Placement
<1>11. \A c \in Buffers : c # b => GemFits(c)'
  BY <1>1, <1>9 DEF GemsFit, GemFits, Used
<1> QED
  BY <1>1, <1>9, <1>10, <1>11, ObjectsOnly DEF GemsFit

\* nvgpu_gem_place_in_window: the object is where its key is placed.
LEMMA GemPlaceKeeps ==
  ASSUME WindowInv, NEW b \in Buffers, GemPlace(b)
  PROVE  WindowInv'
<1> USE DEF WindowInv
<1>1. PICK g, key, size, obj :
        g = gems[b] /\ key = [fd |-> g.owner, off |-> b] /\ size = PageSize /\ obj = b
  OBVIOUS
<1>2. PICK a : a = Answer(key, size)
  OBVIOUS
<1>3. /\ g.state = "used" /\ ~ g.valid /\ Up(g.owner)
      /\ \/ /\ MapUnrecorded(key, size, obj)
            /\ \/ gems' = [gems EXCEPT ![b].valid = TRUE, ![b].id = a.id, ![b].region = a.region]
               \/ UNCHANGED gems
         \/ PlaceFails(key, size) /\ UNCHANGED gems
      /\ UNCHANGED <<file, vmas, armed>>
  BY <1>1, <1>2 DEF GemPlace, Up
<1>4. gems \in [Buffers -> Gem] /\ g \in Gem /\ GemFits(b)
  BY <1>1 DEF GemsFit, Types
<1>5. g.owner \in Files /\ Kind[g.owner] = "dri"
  BY <1>1, <1>3, <1>4 DEF GemFits, Used
<1>6. /\ key \in Keys /\ key.fd = g.owner /\ key.off = b /\ b # None
      /\ size \in Nat \ {0} /\ obj \in Objects
  BY <1>1, <1>5, ExtentsAssumption, WindowMapsAssumption DEF Keys, Objects
<1>7. CASE PlaceFails(key, size) /\ UNCHANGED gems
  <2>1. UNCHANGED <<guest, armed>>
    BY <1>3, <1>7 DEF guest
  <2> QED
    BY <1>6, <1>7, <2>1, PlaceFailsKeeps
\* What the object keeps, once there is a placement for it.
<1>8. ASSUME a.id \in Nat, a.region \in Place, [id |-> a.id, key |-> key, region |-> a.region] \in live',
             gems' = [gems EXCEPT ![b].valid = TRUE, ![b].id = a.id, ![b].region = a.region] \/ UNCHANGED gems
      PROVE  gems' \in [Buffers -> Gem] /\ GemFits(b)' /\ \A c \in Buffers : c # b => gems'[c] = gems[c]
  <2>1. CASE gems' = [gems EXCEPT ![b].valid = TRUE, ![b].id = a.id, ![b].region = a.region]
    <3>1. PICK h : h = [g EXCEPT !.valid = TRUE, !.id = a.id, !.region = a.region]
      OBVIOUS
    <3>2. gems' = [gems EXCEPT ![b] = h]
      BY <1>1, <1>4, <2>1, <3>1
    <3>3. /\ h \in Gem /\ h.valid = TRUE /\ h.id = a.id /\ h.region = a.region
          /\ h.owner = g.owner /\ h.state = g.state /\ h.users = g.users /\ h.by = g.by
      BY <1>4, <1>8, <3>1 DEF Gem
    <3>4. gems' \in [Buffers -> Gem] /\ gems'[b] = h /\ \A c \in Buffers : c # b => gems'[c] = gems[c]
      BY <1>4, <3>2, <3>3
    <3>5. GemFits(b)'
      BY <1>1, <1>3, <1>4, <1>5, <1>8, <3>3, <3>4 DEF GemFits, Used, Placement
    <3> QED
      BY <3>4, <3>5
  <2>2. CASE UNCHANGED gems
    <3>1. GemFits(b)'
      BY <1>1, <1>3, <1>4, <2>2 DEF GemFits, Used
    <3> QED
      BY <1>4, <2>2, <3>1
  <2> QED
    BY <1>8, <2>1, <2>2
<1>9. CASE /\ MapUnrecorded(key, size, obj)
           /\ \/ gems' = [gems EXCEPT ![b].valid = TRUE, ![b].id = a.id, ![b].region = a.region]
              \/ UNCHANGED gems
           /\ Placed(key) # {}
  <2>1. UNCHANGED backend /\ live' = live
    BY <1>9 DEF MapUnrecorded, backend, maps
  <2>2. PICK m \in live : m.key = key /\ a = [id |-> m.id, region |-> m.region]
    BY <1>2, <1>6, <1>9, PlacedIs
  <2>3. m \in Live
    BY DEF Types, TablesFit
  <2>4. a.id \in Nat /\ a.region \in Place /\ [id |-> a.id, key |-> key, region |-> a.region] = m
    BY <2>2, <2>3 DEF Live
  <2>5. gems' \in [Buffers -> Gem] /\ GemFits(b)' /\ \A c \in Buffers : c # b => gems'[c] = gems[c]
    BY <1>8, <1>9, <2>1, <2>4
  <2>6. \A c \in Buffers : c # b => GemFits(c)'
    BY <2>1, <2>5 DEF GemsFit, GemFits, Used
  <2> QED
    BY <1>3, <2>1, <2>5, <2>6, ObjectsOnly DEF GemsFit
<1>10. CASE /\ MapUnrecorded(key, size, obj)
            /\ \/ gems' = [gems EXCEPT ![b].valid = TRUE, ![b].id = a.id, ![b].region = a.region]
               \/ UNCHANGED gems
            /\ Placed(key) = {}
  <2>1. PICK r : r = Granted(ZoneOf(key.fd), size)
    OBVIOUS
  <2>2. PICK e, p : e = [fd |-> key.fd, region |-> r, id |-> nextId] /\ p = [id |-> nextId, key |-> key, region |-> r]
    OBVIOUS
  <2>3. /\ nextId <= MaxId
        /\ CanAlloc(free[ZoneOf(key.fd)], AlignUp(size))
        /\ free' = Take(ZoneOf(key.fd), size)
        /\ active' = Insert(e)
        /\ live' = live \cup {p}
        /\ dri' = {d \in dri : d.key # key} \cup {[key |-> key, id |-> nextId]}
        /\ nextId' = nextId + 1
        /\ shown' = Show(r, obj)
        /\ UNCHANGED <<leaked, struck>>
    BY <1>10, <2>1, <2>2 DEF MapUnrecorded
  <2>4. a = [id |-> nextId, region |-> r]
    BY <1>2, <1>10, <2>1 DEF Answer
  <2>5. /\ TablesFit' /\ BooksFit' /\ ActiveFits' /\ IdsFit' /\ LiveFits'
        /\ \A x \in active : x.region.zone \in Sound => x \in active'
        /\ e \in active' /\ Fits(r) /\ Sound' = Sound
        /\ \A m \in live' : m \in live \/ m.id = nextId
    <3>1. /\ (key.off = None <=> Kind[key.fd] # "dri") /\ Up(key.fd)
          /\ (key.off # None => obj = key.off)
          /\ (key.off = None => obj = armed[key.fd] /\ Carried(key.fd) = {})
          /\ file' = file /\ armed' = armed
      BY <1>1, <1>3, <1>5, <1>6
    <3> QED
      BY ONLY WindowInv, <1>6, <1>10, <2>1, <2>2, <2>3, <3>1, PlaceKeeps
  <2>6. nextId \in Nat /\ nextId' \in Nat /\ nextId <= nextId' /\ vmas \subseteq Vmas
    BY <2>3, WindowMapsAssumption DEF Types, TablesFit
  <2>7. VmasFit'
    <3>1. \A x \in vmas' : file'[x.file] = "open" /\ armed'[x.file] = armed[x.file]
      BY <1>3 DEF VmasFit, VmaFits
    <3>2. /\ vmas' \subseteq vmas
          /\ \A x \in vmas' : \A y \in active :
               ~ x.loose /\ y.fd = x.file /\ y.region.zone \in Sound' => y \in active'
      BY <1>3, <2>5
    <3> QED
      BY <2>5, <2>6, <3>1, <3>2, VmasFrame
  <2>8. a.id \in Nat /\ a.region \in Place /\ [id |-> a.id, key |-> key, region |-> a.region] \in live'
    BY <2>2, <2>3, <2>4, <2>5, <2>6 DEF Fits
  <2>9. gems' \in [Buffers -> Gem] /\ GemFits(b)' /\ \A c \in Buffers : c # b => gems'[c] = gems[c]
    BY <1>8, <1>10, <2>8
  <2>10. GemsFit'
    <3> SUFFICES ASSUME NEW c \in Buffers, c # b PROVE GemFits(c)'
      BY <2>9 DEF GemsFit
    <3>1. GemFits(c) /\ gems'[c] = gems[c] /\ \A m \in live : m \in live'
      BY <2>3, <2>9 DEF GemsFit
    <3> QED
      BY <3>1, GemFrame
  <2>11. Types'
    BY <1>3, <2>5, <2>9 DEF Types
  <2> QED
    BY <2>5, <2>7, <2>10, <2>11
<1> QED
  BY <1>3, <1>7, <1>9, <1>10

\* nvgpu_gem_free: what it gives back is the object's own placement.
LEMMA GemFreeKeeps ==
  ASSUME WindowInv, NEW b \in Buffers, GemFree(b)
  PROVE  WindowInv'
<1> USE DEF WindowInv
<1>1. /\ gems[b].state = "dying"
      /\ gems' = [gems EXCEPT ![b].state = "freed", ![b].valid = FALSE]
      /\ UNCHANGED <<file, vmas, armed>>
      /\ \/ gems[b].valid /\ Munmap(gems[b].id)
         \/ UNCHANGED backend
  BY DEF GemFree
<1>2. gems \in [Buffers -> Gem] /\ GemFits(b)
  BY DEF GemsFit, Types
<1>3. PICK g, h : g = gems[b] /\ h = [g EXCEPT !.state = "freed", !.valid = FALSE]
  OBVIOUS
<1>4. gems' = [gems EXCEPT ![b] = h] /\ g \in Gem
  BY <1>1, <1>2, <1>3
<1>5. h \in Gem /\ h.state = "freed" /\ h.valid = FALSE /\ h.users = g.users
  BY <1>3, <1>4 DEF Gem
<1>6. gems' \in [Buffers -> Gem] /\ gems'[b] = h /\ \A c \in Buffers : c # b => gems'[c] = gems[c]
  BY <1>2, <1>4, <1>5
<1>7. GemFits(b)'
  BY <1>1, <1>2, <1>3, <1>5, <1>6 DEF GemFits, Used
<1>8. CASE UNCHANGED backend
  <2>1. \A c \in Buffers : c # b => GemFits(c)'
    BY <1>1, <1>6, <1>8 DEF GemsFit, GemFits, Used, backend, maps
  <2> QED
    BY <1>1, <1>6, <1>7, <1>8, <2>1, ObjectsOnly DEF GemsFit
<1>9. CASE gems[b].valid /\ Munmap(gems[b].id)
  <2>1. PICK id, p : id = g.id /\ p = Placement(g, b)
    OBVIOUS
  <2>2. p \in live /\ Kind[g.owner] = "dri"
    BY <1>2, <1>3, <1>9, <2>1 DEF GemFits
  <2>3. p.id = id /\ p.key.fd = g.owner /\ p.key.off = b
    BY <2>1 DEF Placement
  <2>4. \A m \in live : m.id = id => m = p
    BY <2>2, <2>3 DEF IdsFit
  <2>5. /\ TablesFit' /\ BooksFit' /\ ActiveFits' /\ IdsFit' /\ LiveFits'
        /\ nextId' = nextId /\ live' \subseteq live /\ Sound' \subseteq Sound
        /\ \A m \in live : m.id # id => m \in live'
        /\ \A a \in active :
             a.region.zone \in Sound' /\ (\A m \in live : m.id = id => m.key.fd # a.fd) => a \in active'
    <3>1. Munmap(id) /\ file' = file /\ armed' = armed
      BY <1>1, <1>3, <1>9, <2>1
    <3> QED
      BY <3>1, UnplaceKeeps
  <2>6. nextId \in Nat /\ vmas \subseteq Vmas
    BY WindowMapsAssumption DEF Types, TablesFit
  <2>7. VmasFit'
    <3>1. ASSUME NEW v \in vmas', NEW a \in active, a.fd = v.file, a.region.zone \in Sound'
          PROVE  a \in active'
      <4>1. Kind[v.file] # "dri"
        BY <1>1 DEF VmasFit, VmaFits
      <4> QED
        BY <2>2, <2>3, <2>4, <2>5, <3>1, <4>1
    <3>2. /\ vmas' \subseteq vmas /\ nextId' \in Nat /\ nextId <= nextId'
          /\ \A m \in live' : m \in live \/ m.id = nextId
          /\ \A x \in vmas' : file'[x.file] = "open" /\ armed'[x.file] = armed[x.file]
      BY <1>1, <2>5, <2>6 DEF VmasFit, VmaFits
    <3> QED
      BY <2>5, <2>6, <3>1, <3>2, VmasFrame
  <2>8. Types'
    BY <1>1, <1>6, <2>5 DEF Types
  <2>9. GemsFit'
    <3> SUFFICES ASSUME NEW c \in Buffers, c # b PROVE GemFits(c)'
      BY <1>7 DEF GemsFit
    <3>1. GemFits(c) /\ gems'[c] = gems[c]
      BY <1>6 DEF GemsFit
    <3>2. \A m \in live : m.key.off = c => m \in live'
      BY <2>3, <2>4, <2>5
    <3> QED
      BY <3>1, <3>2, GemFrame
  <2> QED
    BY <2>5, <2>7, <2>8, <2>9
<1> QED
  BY <1>1, <1>8, <1>9

----------------------------------------------------------------------------
(* The invariant, and what follows from it *)

\* The backend starts with each zone one free extent.
LEMMA InitWindowInv == Init => WindowInv
<1> SUFFICES ASSUME Init PROVE WindowInv
  OBVIOUS
<1> USE DEF Init
<1>1. Types
  <2>1. gems \in [Buffers -> Gem]
    BY DEF Gem
  <2>2. Grounds(shown)
    BY DEF Grounds
  <2>3. IsFiniteSet(active)
    BY FS_EmptySet
  <2>4. nextId \in 1 .. MaxId + 1
    BY WindowMapsAssumption
  <2>5. TablesFit
    BY <2>2, <2>3, <2>4 DEF TablesFit
  <2> QED
    BY <2>1, <2>5 DEF Types
<1>2. Held = {} /\ Sound = Zones
  BY DEF Held, Sound
<1>3. BooksFit
  <2>1. ASSUME NEW z \in Zones PROVE ListFits(z, free[z])
    <3>1. ZoneSize[z] \in Nat /\ ZoneSize[z] % PageSize = 0 /\ 0 % PageSize = 0
      BY WindowMapsAssumption, ExtentsAssumption
    <3>2. free[z] = IF ZoneSize[z] > 0 THEN {[start |-> 0, len |-> ZoneSize[z]]} ELSE {}
      OBVIOUS
    <3>3. \A x \in free[z] : x \in Extent /\ x.start = 0 /\ End(x) = ZoneSize[z] /\ ZoneSize[z] > 0
      BY <3>1, <3>2 DEF Extent, End
    <3>4. \A x, y \in free[z] : x = y
      BY <3>2
    <3> HIDE DEF Init
    <3> QED
      BY <3>1, <3>3, <3>4 DEF ListFits, Disjoint, Separated
  <2>2. ASSUME NEW z \in Zones, NEW b \in 0 .. ZoneSize[z] - 1
        PROVE  \E x \in free[z] : Covers(x, b)
    <3>1. ZoneSize[z] \in Nat
      BY WindowMapsAssumption
    <3>2. free[z] = {[start |-> 0, len |-> ZoneSize[z]]}
      BY <3>1
    <3>3. PICK x : x = [start |-> 0, len |-> ZoneSize[z]]
      OBVIOUS
    <3>4. x \in free[z] /\ x.start = 0 /\ End(x) = ZoneSize[z]
      BY <3>1, <3>2, <3>3 DEF End
    <3>5. Covers(x, b)
      BY <3>1, <3>4 DEF Covers
    <3> QED
      BY <3>4, <3>5
  <2>3. DOMAIN free = Zones
    OBVIOUS
  <2> HIDE DEF Init
  <2> QED
    BY <1>2, <2>1, <2>2, <2>3 DEF BooksFit, Books, Lists
<1>4. ActiveFits /\ IdsFit /\ LiveFits /\ VmasFit
  BY <1>2 DEF ActiveFits, IdsFit, LiveFits, VmasFit
<1>5. GemsFit
  BY DEF GemsFit, GemFits, Used
<1> QED
  BY <1>1, <1>3, <1>4, <1>5 DEF WindowInv

\* Every step keeps the invariant.
LEMMA NextWindowInv ==
  ASSUME WindowInv, [Next]_vars
  PROVE  WindowInv'
<1>1. CASE UNCHANGED vars
  <2>1. UNCHANGED <<file, vmas, gems, armed, backend>> /\ vmas' \subseteq Vmas
    BY <1>1 DEF vars, guest, WindowInv, Types
  <2>2. VmasFit'
    BY <2>1 DEF WindowInv, VmasFit, VmaFits, backend, maps, store, Sound
  <2> QED
    BY <2>1, <2>2, MappingsOnly
<1>2. ASSUME NEW f \in Files, Open(f) \/ BeginClose(f) \/ Close(f) PROVE WindowInv'
  BY <1>2, OpenKeeps, BeginCloseKeeps, CloseKeeps
<1>3. ASSUME NEW f \in Files, NEW m \in Memories, MapMemory(f, m) \/ AllocMemory(f, m)
      PROVE  WindowInv'
  BY <1>3, MapMemoryKeeps, AllocMemoryKeeps
<1>4. ASSUME NEW e \in active, UnmapMemory(e) PROVE WindowInv'
  BY <1>4, UnmapMemoryKeeps
<1>5. ASSUME NEW f \in Files, NEW v \in Mappings, NEW pages \in 1 .. MaxPages, Mmap(f, v, pages)
      PROVE  WindowInv'
  <2>1. file[f] = "open" /\ Kind[f] # "dri" /\ (MmapRecorded(f, v, pages) \/ MmapUnrecorded(f, v, pages))
    BY <1>5 DEF Mmap
  <2> QED
    BY <2>1, MmapRecordedKeeps, MmapUnrecordedKeeps
<1>6. ASSUME NEW w \in vmas, NEW v \in Mappings, Fork(w, v) PROVE WindowInv'
  BY <1>6, ForkKeeps
<1>7. ASSUME NEW w \in vmas, VmaClose(w) PROVE WindowInv'
  BY <1>7, VmaCloseKeeps
<1>8. ASSUME NEW f \in Files, NEW b \in Buffers, GemCreate(f, b) \/ GemImport(f, b) \/ GemClose(f, b)
      PROVE  WindowInv'
  BY <1>8, GemCreateKeeps, GemImportKeeps, GemCloseKeeps
<1>9. ASSUME NEW b \in Buffers, GemPlace(b) \/ GemFree(b) PROVE WindowInv'
  BY <1>9, GemPlaceKeeps, GemFreeKeeps
<1> QED
  BY <1>1, <1>2, <1>3, <1>4, <1>5, <1>6, <1>7, <1>8, <1>9 DEF Next

(* The inductive invariant.  In every zone that no late MUNMAP has struck, *)
(* the tables, the free lists, what is armed, what is mapped and what the  *)
(* window shows agree, through RM_MAP_MEMORY and RM_UNMAP_MEMORY, MMAP and *)
(* MUNMAP, files that close before their buffers' other users, and every   *)
(* failure between them; in the other zones the ids still do.              *)
THEOREM WindowInvariant == Spec => []WindowInv
<1>1. Init => WindowInv
  BY InitWindowInv
<1>2. WindowInv /\ [Next]_vars => WindowInv'
  BY NextWindowInv
<1> QED
  BY <1>1, <1>2, PTL DEF Spec

\* The invariant gives the types of the runs.
LEMMA InvTypeOK == WindowInv => TypeOK
<1> SUFFICES ASSUME WindowInv PROVE TypeOK
  OBVIOUS
<1> USE DEF WindowInv
<1>0. nextId \in 1 .. MaxId + 1 /\ MaxId \in Nat
  BY WindowMapsAssumption DEF Types, TablesFit
<1>1. \A v \in vmas :
       /\ v.name \in Mappings /\ v.file \in Files /\ v.id \in 0 .. MaxId
       /\ v.obj \in Memories /\ v.zone \in Zones /\ v.pages \in 1 .. MaxPages
       /\ v.loose \in BOOLEAN
  <2>1. \A v \in vmas : v \in Vmas /\ v.id < nextId
    BY DEF VmasFit, VmaFits, Types
  <2> QED
    BY <1>0, <2>1 DEF Vmas
<1>2. \A b \in Buffers :
       /\ gems[b].state \in {"none", "used", "dying", "freed"}
       /\ gems[b].users \subseteq Files
       /\ gems[b].valid => gems[b].owner \in Files /\ Region(gems[b].region)
  <2> SUFFICES ASSUME NEW b \in Buffers
               PROVE  /\ gems[b].state \in {"none", "used", "dying", "freed"}
                      /\ gems[b].users \subseteq Files
                      /\ gems[b].valid => gems[b].owner \in Files /\ Region(gems[b].region)
    OBVIOUS
  <2>1. gems[b] \in Gem /\ GemFits(b)
    BY DEF GemsFit, Types
  <2>2. PICK g, m : g = gems[b] /\ m = Placement(g, b)
    OBVIOUS
  <2>3. m.region = g.region
    BY <2>2 DEF Placement
  <2>4. ASSUME g.valid PROVE g.owner \in Files /\ Region(g.region)
    <3>1. m \in live /\ g.owner \in Files
      BY <2>1, <2>2, <2>4 DEF GemFits
    <3>2. Fits(m.region)
      BY <3>1 DEF Types, TablesFit
    <3> QED
      BY <2>3, <3>1, <3>2 DEF Fits
  <2> QED
    BY <2>1, <2>2, <2>4 DEF Gem
<1>3. \A z \in Zones : free[z] \subseteq Extent
  BY DEF BooksFit, Books, Lists, ListFits
<1>4. ASSUME NEW e \in active \cup leaked PROVE e.fd \in Files /\ Region(e.region) /\ e.id \in 0 .. MaxId
  <2>1. e \in Held /\ e \in Entry
    BY DEF Held, Types, TablesFit
  <2>2. e.id < nextId /\ Fits(e.region)
    BY <2>1 DEF ActiveFits, BooksFit, Books
  <2> QED
    BY <1>0, <2>1, <2>2 DEF Entry, Fits
<1>5. \A m \in live : m.id \in 1 .. MaxId /\ Region(m.region)
  BY DEF Types, TablesFit, Live, Fits
<1>6. \A d \in dri : d.id \in 1 .. MaxId
  BY DEF Types, TablesFit
<1>7. \A z \in Zones : \A p \in DOMAIN shown[z] : shown[z][p] \in Objects \cup {None}
  BY DEF Types, TablesFit, Grounds
<1>8. /\ file \in [Files -> {"none", "open", "closing", "closed"}]
      /\ armed \in [Files -> Memories \cup {None}] /\ struck \subseteq Zones
  BY DEF Types, TablesFit
<1> HIDE DEF WindowInv
<1> QED
  BY <1>0, <1>1, <1>2, <1>3, <1>4, <1>5, <1>6, <1>7, <1>8 DEF TypeOK

\* A mapping's pages are those of the entry under it, from the first on.
LEMMA UnderPages ==
  ASSUME WindowInv, NEW v \in vmas, NEW e \in active, Under(v, e),
         NEW k \in 0 .. MaxPages - 1, k < v.pages
  PROVE  /\ v.page + k \in PagesOf(e.region)
         /\ v.page + k \in DOMAIN shown[v.zone]
<1>1. PICK r : r = e.region
  OBVIOUS
<1>2. /\ v.zone = r.zone /\ v.page = r.start \div PageSize /\ v.pages * PageSize <= AlignUp(r.len)
  BY <1>1 DEF Under
<1>3. Region(r)
  BY <1>1 DEF WindowInv, BooksFit, Books, Held, Fits
<1>4. /\ r.zone \in Zones /\ r.start \in Nat /\ r.len \in Nat /\ Pages(r.start)
      /\ r.start \div PageSize \in Nat
      /\ PagesOf(r) \subseteq 0 .. (ZoneSize[r.zone] \div PageSize) - 1
  BY <1>3, RegionPages
<1>5. v.pages \in Nat /\ k \in Nat /\ k + 1 <= v.pages /\ v.page \in Nat /\ PageSize \in Nat \ {0}
  <2>1. v \in Vmas /\ MaxPages \in Nat
    BY WindowMapsAssumption DEF WindowInv, Types
  <2> QED
    BY <2>1, ExtentsAssumption DEF Vmas
<1>6. PICK n : n = AlignUp(r.len) \div PageSize
  OBVIOUS
<1>7. AlignUp(r.len) \in Nat /\ Pages(AlignUp(r.len)) /\ n \in Nat /\ AlignUp(r.len) = n * PageSize
  BY <1>4, <1>6, AlignUpWhole, PagesCount
<1>8. (r.start + AlignUp(r.len)) \div PageSize = v.page + n
  BY <1>2, <1>4, <1>6, <1>7, PagesAdd
<1>9. PagesOf(r) = v.page .. v.page + n - 1
  <2>1. PICK a, b : a = r.start \div PageSize /\ b = (r.start + AlignUp(r.len)) \div PageSize
    OBVIOUS
  <2>2. a = v.page /\ b = v.page + n
    BY <1>2, <1>8, <2>1
  <2>3. PagesOf(r) = a .. (b - 1)
    BY ONLY <2>1 DEF PagesOf
  <2> QED
    BY ONLY <1>5, <1>7, <2>2, <2>3
<1>10. k < n
  <2> SUFFICES ASSUME n <= k PROVE FALSE
    BY <1>5, <1>7
  <2>1. n + 1 <= v.pages
    BY <1>5, <1>7
  <2>2. (n + 1) * PageSize <= v.pages * PageSize
    BY <1>5, <1>7, <2>1
  <2>3. v.pages * PageSize <= n * PageSize
    BY <1>2, <1>7
  <2> QED
    BY <1>5, <1>7, <2>2, <2>3
<1>11. v.page + k \in PagesOf(r)
  BY <1>5, <1>7, <1>9, <1>10
<1>12. DOMAIN shown[r.zone] = 0 .. (ZoneSize[r.zone] \div PageSize) - 1
  BY <1>4 DEF WindowInv, Types, TablesFit, Grounds
<1> QED
  BY <1>1, <1>2, <1>4, <1>11, <1>12

\* The invariant gives what the runs check.
LEMMA InvShows ==
  WindowInv => /\ MappingShowsItsMemory /\ BufferKeepsItsPlacement
               /\ Exclusive /\ NothingLost /\ OneMappingPerFile /\ ReturnedWhole
<1> SUFFICES ASSUME WindowInv
             PROVE  /\ MappingShowsItsMemory /\ BufferKeepsItsPlacement
                    /\ Exclusive /\ NothingLost /\ OneMappingPerFile /\ ReturnedWhole
  OBVIOUS
<1> USE DEF WindowInv
<1>1. MappingShowsItsMemory
  <2> SUFFICES ASSUME NEW v \in vmas, NEW k \in 0 .. MaxPages - 1, v.zone \in Sound, ~ v.loose, k < v.pages
               PROVE  v.page + k \in DOMAIN shown[v.zone] /\ shown[v.zone][v.page + k] = v.obj
    BY DEF MappingShowsItsMemory
  <2>1. PICK e \in active : Under(v, e)
    BY DEF VmasFit
  <2>2. e.fd = v.file /\ v.zone = e.region.zone
    BY <2>1 DEF Under
  <2>3. Kind[v.file] # "dri" /\ v.obj = armed[v.file]
    BY DEF VmasFit, VmaFits
  <2>4. Shows(e.region, v.obj)
    BY <2>2, <2>3 DEF ActiveFits
  <2>5. v.page + k \in PagesOf(e.region) /\ v.page + k \in DOMAIN shown[v.zone]
    BY <2>1, UnderPages
  <2> QED
    BY <2>2, <2>4, <2>5 DEF Shows, ShowsIn
<1>2. BufferKeepsItsPlacement
  <2> SUFFICES ASSUME NEW b \in Buffers, gems[b].state = "used", gems[b].valid,
                      file[gems[b].owner] # "closed", gems[b].region.zone \in Sound
               PROVE  ShowsIn(shown, gems[b].region, b)
    BY DEF BufferKeepsItsPlacement, ShowsIn
  <2>1. PICK g, m : g = gems[b] /\ m = Placement(g, b)
    OBVIOUS
  <2>2. m.key.fd = g.owner /\ m.key.off = b /\ m.region = g.region
    BY <2>1 DEF Placement
  <2>3. m \in live /\ g.owner \in Files
    BY <2>1 DEF GemsFit, GemFits
  <2>4. Up(g.owner)
    BY <2>1, <2>2, <2>3 DEF IdsFit, Types, Up
  <2>5. b # None
    BY WindowMapsAssumption
  <2>6. Shows(m.region, m.key.off)
    BY <2>1, <2>2, <2>3, <2>4, <2>5 DEF LiveFits
  <2> QED
    BY <2>1, <2>2, <2>6 DEF Shows
<1>3. Exclusive
  BY DEF BooksFit, Books, Exclusive
<1>4. NothingLost
  <2> SUFFICES ASSUME NEW z \in Sound, NEW p \in DOMAIN shown[z]
               PROVE  \/ \E x \in free[z] : Covers(x, p * PageSize)
                      \/ \E e \in Held : e.region.zone = z /\ p \in PagesOf(e.region)
    BY DEF NothingLost
  <2>1. z \in Zones /\ ZoneSize[z] \in Nat /\ Pages(ZoneSize[z]) /\ PageSize \in Nat \ {0}
    BY WindowMapsAssumption, ExtentsAssumption DEF Pages, Sound
  <2>2. PICK n : n = ZoneSize[z] \div PageSize
    OBVIOUS
  <2>3. n \in Nat /\ ZoneSize[z] = n * PageSize
    BY <2>1, <2>2, PagesCount
  <2>4. p \in 0 .. n - 1
    BY <2>1, <2>2 DEF Types, TablesFit, Grounds
  <2>5. PICK b : b = p * PageSize
    OBVIOUS
  <2>6. b \in 0 .. ZoneSize[z] - 1
    <3>1. p \in Nat /\ p + 1 <= n
      BY <2>3, <2>4
    <3>2. (p + 1) * PageSize <= n * PageSize
      BY <2>1, <2>3, <3>1
    <3> QED
      BY <2>1, <2>3, <2>5, <3>1, <3>2
  <2>7. \/ \E x \in free[z] : Covers(x, b)
        \/ \E e \in Held : e.region.zone = z /\ Covers(Whole(e.region), b)
    BY <2>6 DEF BooksFit, Books
  <2>8. ASSUME NEW e \in Held, Covers(Whole(e.region), b) PROVE p \in PagesOf(e.region)
    <3>1. PICK r : r = e.region
      OBVIOUS
    <3>2. Region(r)
      BY <3>1 DEF BooksFit, Books, Fits
    <3>3. r.start \in Nat /\ r.len \in Nat /\ Pages(r.start) /\ p \in Int
      BY <2>3, <2>4, <3>2, RegionPages
    <3> QED
      BY <2>5, <2>8, <3>1, <3>3, PagesCovered
  <2> QED
    BY <2>5, <2>7, <2>8
<1>5. OneMappingPerFile
  <2> SUFFICES ASSUME NEW f \in Files, Kind[f] # "dri" PROVE Cardinality(Carried(f)) <= 1
    BY DEF OneMappingPerFile
  <2>1. \A a, b \in Carried(f) : a = b
    BY DEF ActiveFits, Carried
  <2>2. CASE Carried(f) = {}
    BY <2>2, FS_EmptySet
  <2>3. CASE Carried(f) # {}
    <3>1. PICK e \in Carried(f) : TRUE
      BY <2>3
    <3>2. Carried(f) = {e}
      BY <2>1, <3>1
    <3>3. Cardinality({e}) = 1
      BY FS_Singleton
    <3> QED
      BY <3>2, <3>3
  <2> QED
    BY <2>2, <2>3
<1>6. ReturnedWhole
  <2> SUFFICES ASSUME \A f \in Files : file[f] \in {"none", "closed"}, NEW z \in Sound, ZoneSize[z] > 0,
                      \A e \in leaked : e.region.zone # z
               PROVE  free[z] = {[start |-> 0, len |-> ZoneSize[z]]}
    BY DEF ReturnedWhole
  <2>1. active = {}
    BY DEF ActiveFits, Up, Types, TablesFit, Entry
  <2>2. PICK F, A, Q : F = free /\ A = Held /\ Q = Sound
    OBVIOUS
  <2>3. /\ Books(F, A, Q) /\ Q \in SUBSET Zones /\ z \in Q /\ ZoneSize[z] > 0
        /\ \A e \in A : e.region.zone # z
    BY <2>1, <2>2 DEF BooksFit, Held, Sound
  <2>4. F[z] = {[start |-> 0, len |-> ZoneSize[z]]}
    BY ONLY <2>3, OneExtent
  <2> QED
    BY <2>2, <2>4
<1> QED
  BY <1>1, <1>2, <1>3, <1>4, <1>5, <1>6

(* Types, and every region in its zone.                                    *)
THEOREM WindowTypeCorrect == Spec => []TypeOK
BY WindowInvariant, InvTypeOK, PTL

(* In a zone no late MUNMAP has struck, the window shows a process, at     *)
(* every page of a gpu or ctl file it has mapped, the memory armed on that *)
(* file (handle_mmap, handle_munmap).                                      *)
THEOREM MappingsShowTheirMemory == Spec => []MappingShowsItsMemory
BY WindowInvariant, InvShows, PTL

(* A buffer somebody uses stays where it was placed as long as the file    *)
(* that created it is there: all that hand it out name the same bytes      *)
(* (struct nvgpu_gem_object).                                              *)
THEOREM BuffersKeepTheirPlacement == Spec => []BufferKeepsItsPlacement
BY WindowInvariant, InvShows, PTL

(* No page of such a zone has two owners, whichever of the four handlers   *)
(* releases regions.                                                       *)
THEOREM PagesAreExclusive == Spec => []Exclusive
BY WindowInvariant, InvShows, PTL

(* No page of such a zone is lost: it is free, or the close of its file    *)
(* finds it in active_maps, or its free failed.                            *)
THEOREM NoPageIsLost == Spec => []NothingLost
BY WindowInvariant, InvShows, PTL

(* find_by_fd_handle finds the one entry of a gpu or ctl file, also in the *)
(* zones a late MUNMAP has struck.                                         *)
THEOREM FilesHaveOneMapping == Spec => []OneMappingPerFile
BY WindowInvariant, InvShows, PTL

(* When no file is open any more, each zone that no late MUNMAP has struck *)
(* and of which no free has failed is one free extent again.               *)
THEOREM ZonesComeBackWhole == Spec => []ReturnedWhole
BY WindowInvariant, InvShows, PTL

=============================================================================
