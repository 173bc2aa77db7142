--------------------------- MODULE FileLife_proofs ---------------------------
(***************************************************************************)
(* For any files, threads, memory, pools and bounds, and whatever is lost  *)
(* or given up.  The first part is Aperture's alone: pools never get in    *)
(* each other's way, for any aperture, any limits and any sequence of      *)
(* admissions and departures.  Then the aperture's books in the whole      *)
(* system are kept as Aperture says, so that its theorems hold of it, what *)
(* is stitched from runs shows the pages they were made of, and every      *)
(* reference a file, a mapping or a call holds leads to what it was made   *)
(* for.                                                                    *)
(***************************************************************************)
EXTENDS FileLife, FiniteSetTheorems, WellFoundedInduction, SequenceTheorems, TLAPS

----------------------------------------------------------------------------
(* The aperture *)

(* A multiple of PoolAlign is at most one multiple away from the next.     *)
LEMMA MultiplesAreApart ==
  ASSUME NEW a \in Nat \ {0}, NEW k \in Int, NEW m \in Int, k * a > (m - 1) * a
  PROVE  k * a >= m * a
<1>1. SUFFICES ASSUME k < m PROVE FALSE
  <2>1. k >= m => k * a >= m * a
    OBVIOUS
  <2> QED
    BY <1>1, <2>1
<1>2. k <= m - 1
  BY <1>1
<1>3. k * a <= (m - 1) * a
  BY <1>2
<1> QED
  BY <1>3

\* A multiple leaves no rest.
LEMMA MultipleHasNoRest ==
  ASSUME NEW a \in Nat \ {0}, NEW m \in Nat
  PROVE  (m * a) % a = 0
<1> DEFINE q == (m * a) \div a
           r == (m * a) % a
<1>1. q \in Nat /\ r \in 0 .. a - 1 /\ m * a = q * a + r
  BY m * a \in Nat
<1> HIDE DEF q, r
<1>2. ~ (q < m)
  <2>1. SUFFICES ASSUME q + 1 <= m PROVE FALSE
    BY <1>1
  <2>2. (q + 1) * a <= m * a
    BY <1>1, <2>1
  <2> QED
    BY <1>1, <2>2
<1>3. ~ (q > m)
  <2>1. SUFFICES ASSUME m + 1 <= q PROVE FALSE
    BY <1>1
  <2>2. (m + 1) * a <= q * a
    BY <1>1, <2>1
  <2> QED
    BY <1>1, <2>2
<1>4. r = 0
  BY <1>1, <1>2, <1>3
<1> QED
  BY <1>4 DEF r

(* div_ceil rounds up, to the next multiple and no further.                *)
LEMMA RoundUpIsNext ==
  ASSUME NEW n \in Nat
  PROVE  /\ RoundUp(n) \in Nat
         /\ RoundUp(n) % PoolAlign = 0
         /\ n <= RoundUp(n)
         /\ \A w \in Nat : w % PoolAlign = 0 /\ n <= w => RoundUp(n) <= w
<1> DEFINE m == (n + PoolAlign - 1) \div PoolAlign
<1>1. PoolAlign \in Nat \ {0}
  BY ApertureAssumption
<1>2. m \in Nat /\ m * PoolAlign <= n + PoolAlign - 1 /\ n + PoolAlign - 1 < m * PoolAlign + PoolAlign
  BY <1>1
<1>3. RoundUp(n) = m * PoolAlign
  BY DEF RoundUp
<1> HIDE DEF m
<1>4. RoundUp(n) \in Nat /\ n <= RoundUp(n)
  BY <1>1, <1>2, <1>3
<1>5. RoundUp(n) % PoolAlign = 0
  BY <1>1, <1>2, <1>3, MultipleHasNoRest
<1>6. ASSUME NEW w \in Nat, w % PoolAlign = 0, n <= w
      PROVE  RoundUp(n) <= w
  <2> DEFINE k == w \div PoolAlign
  <2>1. k \in Nat /\ w = k * PoolAlign
    BY <1>1, <1>6
  <2> HIDE DEF k
  <2>2. (m - 1) * PoolAlign < k * PoolAlign
    BY <1>1, <1>2, <1>6, <2>1
  <2> QED
    BY <1>1, <1>2, <1>3, <2>1, <2>2, MultiplesAreApart
<1> QED
  BY <1>4, <1>5, <1>6

(* A set of numbers that is not empty has a least one.                     *)
LEMMA LeastExists ==
  ASSUME NEW S \in SUBSET Nat, S # {}
  PROVE  \E n \in S : \A m \in S : n <= m
<1>1. PICK n \in S : \A m \in S : ~ (<<m, n>> \in OpToRel(<, Nat))
  BY NatLessThanWellFounded, WFMin
<1>2. ASSUME NEW m \in S PROVE n <= m
  <2>1. n \in Nat /\ m \in Nat
    OBVIOUS
  <2>2. ~ (m < n)
    BY <1>1, <2>1 DEF OpToRel
  <2> QED
    BY <2>1, <2>2
<1> QED
  BY <1>2

----------------------------------------------------------------------------
(* The invariant: pools lie apart because each starts on a boundary.       *)
ApertureInv == TypeOK /\ PoolsApart /\ StartsAligned

\* What the search tries are numbers.
LEMMA CandidatesType ==
  ASSUME TypeOK
  PROVE  Candidates \in SUBSET Nat
BY RoundUpIsNext DEF TypeOK, Pool, Candidates

(* The search settles on a gap, and on the first, if there is any.         *)
LEMMA AtIsFirstGap ==
  ASSUME TypeOK, NEW len \in Nat, Gaps(len) # {}
  PROVE  At(len) \in Gaps(len) /\ \A b \in Gaps(len) : At(len) <= b
<1>1. Gaps(len) \in SUBSET Nat
  BY CandidatesType DEF Gaps
<1> QED
  BY <1>1, LeastExists DEF At

(* A place for which some candidate exists is found: the highest candidate *)
(* not above it is a gap.  Zero is always one, so there is one.            *)
LEMMA GapBelow ==
  ASSUME ApertureInv, NEW len \in Nat \ {0}, NEW at \in Nat, at % PoolAlign = 0,
         \A p \in pools : OffsetsApart(p, [offset |-> at, len |-> len])
  PROVE  \E c \in Gaps(len) : c <= at
<1> DEFINE Below == {c \in Candidates : c <= at}
<1>1. Below \in SUBSET Nat /\ 0 \in Below
  BY CandidatesType DEF ApertureInv, Candidates
<1>2. PICK c \in Below : \A d \in Below : d <= c
  <2> DEFINE Dist == {at - d : d \in Below}
  <2>1. Dist \in SUBSET Nat /\ Dist # {}
    BY <1>1
  <2>2. PICK x \in Dist : \A y \in Dist : x <= y
    BY <2>1, LeastExists
  <2>3. PICK c \in Below : x = at - c
    BY <2>2
  <2>4. ASSUME NEW d \in Below PROVE d <= c
    <3>1. at - d \in Dist /\ d \in Nat /\ c \in Nat
      BY <1>1, <2>3
    <3>2. x <= at - d
      BY <2>2, <3>1
    <3> QED
      BY <2>3, <3>1, <3>2
  <2> QED
    BY <2>4
<1>3. ASSUME NEW p \in pools, c <= p.offset
      PROVE  c + len <= p.offset
  <2>1. p \in Pool
    BY DEF ApertureInv, TypeOK
  <2>2. p.offset + p.len <= at \/ at + len <= p.offset
    BY DEF OffsetsApart
  <2>3. ~ (p.offset + p.len <= at)
    <3>1. SUFFICES ASSUME p.offset + p.len <= at PROVE FALSE
      OBVIOUS
    <3> DEFINE b == RoundUp(p.offset + p.len)
    <3>2. b \in Nat /\ p.offset + p.len <= b /\ b <= at
      BY <2>1, <3>1, RoundUpIsNext DEF Pool
    <3>3. b \in Below
      BY <3>2 DEF Candidates
    <3> HIDE DEF b
    <3> QED
      BY <1>1, <1>2, <1>3, <2>1, <3>2, <3>3 DEF Pool
  <2> QED
    BY <1>1, <1>2, <2>1, <2>2, <2>3 DEF Pool
<1> QED
  BY <1>2, <1>3 DEF Gaps

(* The gap the search settles on overlaps no pool: what lies in front of a *)
(* boundary ends there or before.                                          *)
LEMMA GapIsFree ==
  ASSUME ApertureInv, NEW len \in Nat \ {0}, NEW at \in Gaps(len), NEW p \in pools
  PROVE  /\ at \in Nat /\ at % PoolAlign = 0
         /\ OffsetsApart(p, [offset |-> at, len |-> len])
<1>1. p \in Pool /\ at \in Nat
  BY CandidatesType DEF ApertureInv, TypeOK, Gaps
<1>2. at % PoolAlign = 0
  <2>1. CASE at = 0
    BY <2>1, ApertureAssumption
  <2>2. CASE \E q \in pools : at = RoundUp(q.offset + q.len)
    BY <2>2, RoundUpIsNext DEF ApertureInv, TypeOK, Pool
  <2> QED
    BY <2>1, <2>2 DEF Gaps, Candidates
<1>3. CASE at <= p.offset
  BY <1>1, <1>2, <1>3 DEF Gaps, OffsetsApart
<1>4. CASE p.offset < at
  <2>1. PICK q \in pools : at = RoundUp(q.offset + q.len)
    BY <1>1, <1>4 DEF Gaps, Candidates, Pool
  <2>2. q \in Pool /\ q.offset + q.len <= at
    BY <2>1, RoundUpIsNext DEF ApertureInv, TypeOK, Pool
  <2>3. p.offset + p.len <= at
    <3>1. CASE p = q
      BY <2>2, <3>1
    <3>2. CASE p # q /\ p.offset + p.len <= q.offset
      BY <1>1, <2>2, <3>2 DEF Pool
    <3>3. CASE p # q /\ q.offset + q.len <= p.offset
      <4>1. p.offset % PoolAlign = 0
        BY DEF ApertureInv, StartsAligned
      <4>2. at <= p.offset
        BY <1>1, <2>1, <2>2, <3>3, <4>1, RoundUpIsNext DEF Pool
      <4> QED
        BY <1>1, <1>4, <4>2 DEF Pool
    <3> QED
      BY <3>1, <3>2, <3>3 DEF ApertureInv, PoolsApart, OffsetsApart
  <2> QED
    BY <1>1, <1>2, <2>3 DEF OffsetsApart
<1> QED
  BY <1>1, <1>2, <1>3, <1>4 DEF Pool

(* Behind all pools there is always a gap, though perhaps not in the       *)
(* aperture any more.                                                      *)
LEMMA SearchSettles ==
  ASSUME ApertureInv, NEW len \in Nat \ {0}
  PROVE  At(len) \in Gaps(len) /\ \A b \in Gaps(len) : At(len) <= b
<1> DEFINE far == RoundUp(ApertureLen)
<1>1. far \in Nat /\ far % PoolAlign = 0 /\ ApertureLen <= far /\ ApertureLen \in Nat
  BY RoundUpIsNext, ApertureAssumption
<1> HIDE DEF far
<1>2. \A p \in pools : p.offset + p.len <= far
  BY <1>1 DEF ApertureInv, TypeOK, PoolsApart, Pool
<1>3. \A p \in pools : OffsetsApart(p, [offset |-> far, len |-> len])
  BY <1>2 DEF OffsetsApart
<1>4. Gaps(len) # {}
  BY <1>1, <1>3, GapBelow
<1> QED
  BY <1>4, AtIsFirstGap DEF ApertureInv

----------------------------------------------------------------------------
(* Entering a pool: its place is a gap, its address is free, and both lie  *)
(* inside the limits.                                                      *)
LEMMA EnterKeeps ==
  ASSUME ApertureInv, NEW id \in Ids, NEW handle \in Handles,
         NEW addr \in HvaMin .. HvaMax, NEW len \in 1 .. PoolMaxLen,
         Enter(id, handle, addr, len)
  PROVE  ApertureInv'
<1> DEFINE new == [id |-> id, handle |-> handle, addr |-> addr, offset |-> At(len), len |-> len]
<1>1. addr \in Nat /\ len \in Nat \ {0} /\ HvaMin \in Nat /\ HvaMax \in Nat
  BY ApertureAssumption
<1>2. At(len) \in Gaps(len)
  BY <1>1, SearchSettles
<1>3. /\ At(len) \in Nat
      /\ At(len) % PoolAlign = 0
      /\ \A p \in pools : OffsetsApart(p, [offset |-> At(len), len |-> len])
  <2>1. CASE pools = {}
    BY <1>2, <2>1, ApertureAssumption DEF Gaps, Candidates
  <2>2. CASE pools # {}
    BY <1>1, <1>2, <2>2, GapIsFree
  <2> QED
    BY <2>1, <2>2
<1>4. new \in Pool
  BY <1>1, <1>3 DEF Pool
<1>5. \A p \in pools : OffsetsApart(p, new) /\ AddressesApart(p, new)
  <2> SUFFICES ASSUME NEW p \in pools
               PROVE  OffsetsApart(p, new) /\ AddressesApart(p, new)
    OBVIOUS
  <2>1. p \in Pool
    BY DEF ApertureInv, TypeOK
  <2>2. OffsetsApart(p, new)
    BY <1>3 DEF OffsetsApart
  <2>3. AddressesApart(p, new)
    BY <1>1, <2>1 DEF Enter, Admits, AddressFree, AddressesApart, Pool
  <2> QED
    BY <2>2, <2>3
<1>6. new.offset + new.len <= ApertureLen /\ HvaMin <= new.addr /\ new.addr + new.len <= HvaMax
  BY DEF Enter, Admits, Acceptable, Fits
<1>7. pools' = {p \in pools : p.id # id} \cup {new}
  BY DEF Enter, Insert
<1>8. \A p, q : /\ OffsetsApart(p, q) <=> OffsetsApart(q, p)
               /\ AddressesApart(p, q) <=> AddressesApart(q, p)
  BY DEF OffsetsApart, AddressesApart
<1> HIDE DEF new
<1>9. TypeOK'
  <2>1. IsFiniteSet({p \in pools : p.id # id})
    BY FS_Subset, {p \in pools : p.id # id} \subseteq pools DEF ApertureInv, TypeOK
  <2> QED
    BY <1>4, <1>7, <2>1, FS_AddElement DEF ApertureInv, TypeOK
<1>10. PoolsApart'
  BY <1>5, <1>6, <1>7, <1>8 DEF ApertureInv, PoolsApart
<1>11. StartsAligned'
  BY <1>3, <1>7 DEF ApertureInv, StartsAligned, new
<1> QED
  BY <1>9, <1>10, <1>11 DEF ApertureInv

(* Pools that leave take nothing with them.                                *)
LEMMA LeaveKeeps == ApertureInv /\ Leave => ApertureInv'
<1> SUFFICES ASSUME ApertureInv, Leave PROVE ApertureInv'
  OBVIOUS
<1>1. pools' \subseteq pools
  BY DEF Leave
<1>2. TypeOK'
  BY <1>1, FS_Subset DEF ApertureInv, TypeOK
<1> QED
  BY <1>1, <1>2 DEF ApertureInv, PoolsApart, StartsAligned

(* The books of the aperture keep their invariant.                         *)
THEOREM ApertureInvariant == Spec => []ApertureInv
<1>1. Init => ApertureInv
  BY FS_EmptySet DEF Init, ApertureInv, TypeOK, PoolsApart, StartsAligned
<1>2. ApertureInv /\ [Next]_pools => ApertureInv'
  <2> SUFFICES ASSUME ApertureInv, [Next]_pools PROVE ApertureInv'
    OBVIOUS
  <2>1. CASE UNCHANGED pools
    BY <2>1 DEF ApertureInv, TypeOK, PoolsApart, StartsAligned
  <2>2. CASE Next
    BY <2>2, EnterKeeps, LeaveKeeps DEF Next
  <2> QED
    BY <2>1, <2>2
<1> QED
  BY <1>1, <1>2, PTL DEF Spec

(* Two pools never share a byte of the aperture or of the VMM's addresses  *)
(* (Aperture::admit), for every size of both and every limit.              *)
THEOREM PoolsStayApart == Spec => []PoolsApart
<1>1. ApertureInv => PoolsApart
  BY DEF ApertureInv
<1> QED
  BY <1>1, ApertureInvariant, PTL

(* Every pool starts on a boundary of APERTURE_ALIGN.                      *)
THEOREM PoolsStayAligned == Spec => []StartsAligned
<1>1. ApertureInv => StartsAligned
  BY DEF ApertureInv
<1> QED
  BY <1>1, ApertureInvariant, PTL

(* The search of admit, which looks only behind each pool, refuses a       *)
(* length only when no aligned place of the aperture is free for it.       *)
THEOREM SearchMissesNothing == Spec => []SearchIsExhaustive
<1>1. ApertureInv => SearchIsExhaustive
  <2> SUFFICES ASSUME ApertureInv, NEW len \in 1 .. PoolMaxLen,
                      NEW at \in 0 .. ApertureLen - len, at % PoolAlign = 0,
                      \A p \in pools : OffsetsApart(p, [offset |-> at, len |-> len])
               PROVE  Fits(len)
    BY DEF SearchIsExhaustive
  <2>1. len \in Nat \ {0} /\ at \in Nat /\ ApertureLen \in Nat /\ at + len <= ApertureLen
    BY ApertureAssumption
  <2>2. PICK c \in Gaps(len) : c <= at
    BY <2>1, GapBelow
  <2>3. At(len) \in Nat /\ c \in Nat /\ At(len) <= c
    BY <2>1, SearchSettles, CandidatesType DEF Gaps, ApertureInv
  <2> QED
    BY <2>1, <2>2, <2>3 DEF Fits
<1> QED
  BY <1>1, ApertureInvariant, PTL

----------------------------------------------------------------------------
(* The aperture in use *)

\* The next id is one.
IdCounts == nextId \in Nat \ {0}

(* A step leaves the pools alone, lets some of them go, or enters one.     *)
LEMMA StepKeepsBooks ==
  ASSUME IdCounts, [NextLife]_vars
  PROVE  IdCounts' /\ [Next]_pools
<1> USE DEF IdCounts
<1>1. ASSUME UNCHANGED <<pools, nextId>>
      PROVE  IdCounts' /\ [Next]_pools
  BY <1>1
<1>2. CASE UNCHANGED vars
  BY <1>1, <1>2 DEF vars
<1>3. ASSUME NEW f \in Files, Open(f)
      PROVE  IdCounts' /\ [Next]_pools
  BY <1>1, <1>3 DEF Open, uvm
<1>4. ASSUME NEW f \in CtlFiles, NEW c \in Clients, NewClient(f, c)
      PROVE  IdCounts' /\ [Next]_pools
  BY <1>1, <1>4 DEF NewClient, uvm
<1>5. ASSUME NEW r \in roots, NEW d \in Devices, NewDevice(r, d)
      PROVE  IdCounts' /\ [Next]_pools
  BY <1>1, <1>5 DEF NewDevice, uvm
<1>6. ASSUME NEW t \in Threads, NEW f \in CtlFiles \cup GpuFiles, NEW c \in Clients,
             \/ \E h \in Objects, parent \in Devices, region \in Regions :
                  Register(t, f, c, h, parent, region)
             \/ \E h \in Objects \cup Devices \cup {c} : Free(t, f, c, h)
      PROVE  IdCounts' /\ [Next]_pools
  BY <1>1, <1>6 DEF Register, Free, uvm
<1>7. ASSUME NEW t \in Threads, EndRegister(t) \/ EndFree(t) \/ EndPlain(t)
      PROVE  IdCounts' /\ [Next]_pools
  BY <1>1, <1>7 DEF EndRegister, EndFree, EndPlain, uvm
<1>8. ASSUME NEW t \in Threads, NEW f \in Files, BeginClose(t, f)
      PROVE  IdCounts' /\ [Next]_pools
  BY <1>1, <1>8 DEF BeginClose, uvm
<1>9. CASE ServeRegister \/ ServeFree
  BY <1>1, <1>9 DEF ServeRegister, ServeFree, uvm
<1>10. CASE ServeClose
  <2>1. pools' = pools \ {p \in pools : p.handle = Head(line).req.file}
        /\ UNCHANGED nextId
    BY <1>10 DEF ServeClose
  <2>2. Leave
    BY <2>1 DEF Leave
  <2> QED
    BY <2>1, <2>2 DEF Next
<1>11. ASSUME NEW f \in UvmFiles, NEW addr \in Addresses, NEW len \in 1 .. PoolMaxLen,
              MapPool(f, addr, len)
       PROVE  IdCounts' /\ [Next]_pools
  <2>1. /\ nextId <= MaxId /\ nextId' = nextId + 1
        /\ Placeable(addr, len) /\ pools' = Insert(nextId, f, addr, len)
    BY <1>11 DEF MapPool
  <2>2. nextId \in Ids /\ f \in Handles
    BY <2>1, FileLifeAssumption
  <2>3. Admits(addr, len)
    BY <2>1 DEF Placeable
  <2>4. addr \in HvaMin .. HvaMax
    <3>1. addr \in Nat /\ HvaMin \in Nat /\ HvaMax \in Nat /\ PoolMaxLen \in Nat
      BY FileLifeAssumption, ApertureAssumption
    <3>2. HvaMin <= addr /\ addr + len <= HvaMax
      BY <2>3 DEF Admits, Acceptable
    <3> QED
      BY <3>1, <3>2
  <2>5. Enter(nextId, f, addr, len)
    BY <2>1, <2>3 DEF Enter
  <2>6. Next
    BY <2>2, <2>4, <2>5 DEF Next
  <2> QED
    BY <2>1, <2>6
<1>12. ASSUME NEW v \in vmas, UnmapPool(v)
       PROVE  IdCounts' /\ [Next]_pools
  <2>1. UNCHANGED nextId /\ (pools' = pools \ PoolOf(v) \/ pools' = pools)
    BY <1>12 DEF UnmapPool
  <2>2. Leave
    BY <2>1 DEF Leave
  <2> QED
    BY <2>1, <2>2 DEF Next
<1>13. ASSUME NEW t \in Threads, NEW f \in DrmFiles,
              MakeGem(t, f) \/ \E o \in names[f] : ExportGem(t, f, o)
       PROVE  IdCounts' /\ [Next]_pools
  BY <1>1, <1>13 DEF MakeGem, ExportGem, rest, uvm
<1>14. ASSUME NEW t \in Threads, EndMakeGem(t) \/ CloseAgain(t)
       PROVE  IdCounts' /\ [Next]_pools
  BY <1>1, <1>14 DEF EndMakeGem, CloseAgain, rest, uvm
<1>15. ASSUME NEW x \in DOMAIN names, NEW y \in DOMAIN names,
              \E o \in names[x] \ names[y] : Pass(x, y, o)
       PROVE  IdCounts' /\ [Next]_pools
  BY <1>1, <1>15 DEF Pass, rest, uvm
<1>16. ASSUME NEW t \in Threads, NEW x \in DOMAIN names, \E o \in names[x] : DropName(t, x, o)
       PROVE  IdCounts' /\ [Next]_pools
  BY <1>1, <1>16 DEF DropName, rest, uvm
<1>17. CASE ServeMakeGem \/ ServeExport \/ ServeGemClose
  BY <1>1, <1>17 DEF ServeMakeGem, ServeExport, ServeGemClose, rest, uvm
<1>18. ASSUME NEW f \in lingers, LetGo(f)
       PROVE  IdCounts' /\ [Next]_pools
  BY <1>1, <1>18 DEF LetGo
<1> QED
  BY <1>2, <1>3, <1>4, <1>5, <1>6, <1>7, <1>8, <1>9, <1>10, <1>11, <1>12, <1>13, <1>14, <1>15,
     <1>16, <1>17, <1>18
  DEF NextLife

(* Opens, closes that are late or lost, calls given up and a VMM that      *)
(* keeps slots do nothing to the pools on the books that admit, insert,    *)
(* remove and take_for_handle (aperture.rs) would not do.                  *)
THEOREM FileLifeImplementsAperture == SpecLife => ImplementsAperture
<1>1. InitLife => Init /\ IdCounts
  BY DEF InitLife, Init, IdCounts
<1>2. IdCounts /\ [NextLife]_vars => IdCounts' /\ [Next]_pools
  BY StepKeepsBooks
<1> QED
  BY <1>1, <1>2, PTL DEF SpecLife, Spec, ImplementsAperture

(* Whatever happens to the files they belong to, pools never overlap.      *)
THEOREM PoolsApartInUse == SpecLife => []PoolsApart
  BY FileLifeImplementsAperture, PoolsStayApart, PTL DEF ImplementsAperture

----------------------------------------------------------------------------
(* The queue between the threads and the backend *)

Entry == [thread : Threads \cup {None}, req : Requests]

CallTypes == call \in [Threads -> Calls \cup {None}] /\ line \in Seq(Entry)

\* A thread whose call has no answer yet has one request in line, its own.
Matched ==
  /\ \A i \in 1 .. Len(line) :
       LET t == line[i].thread
       IN  t # None => call[t] # None /\ call[t].state = "sent" /\ call[t].req = line[i].req
  /\ \A i, j \in 1 .. Len(line) : i # j /\ line[i].thread # None => line[i].thread # line[j].thread
  /\ \A t \in Threads :
       call[t] # None /\ call[t].state = "sent" => \E i \in 1 .. Len(line) : line[i].thread = t

AskInv == CallTypes /\ Matched

(* nvgpu_send_recv puts its request behind the others.                     *)
LEMMA EnqueueAdds ==
  ASSUME AskInv, NEW t \in Threads, NEW q \in Requests, Enqueue(t, q),
         call[t] = None \/ call[t].state = "done"
  PROVE  /\ AskInv'
         /\ Len(line) \in Nat /\ Len(line') = Len(line) + 1
         /\ \A i \in 1 .. Len(line) : line'[i] = line[i]
         /\ line'[Len(line) + 1] = [thread |-> t, req |-> q]
         /\ call'[t] # None /\ call'[t].req = q /\ call'[t].state = "sent" /\ ~ call'[t].ok
         /\ \A u \in Threads : u # t => call'[u] = call[u]
<1> DEFINE c == [req |-> q, state |-> "sent", ok |-> FALSE, got |-> None]
           e == [thread |-> t, req |-> q]
<1>1. c \in Calls /\ e \in Entry /\ c # None
  <2>1. c \in Calls /\ e \in Entry
    BY DEF Calls, Entry
  <2> HIDE DEF c
  <2> QED
    BY <2>1, FileLifeAssumption
<1>2. call' = [call EXCEPT ![t] = c] /\ line' = Append(line, e)
  BY DEF Enqueue
<1>3. line \in Seq(Entry) /\ call \in [Threads -> Calls \cup {None}]
  BY DEF AskInv, CallTypes
<1>4. /\ line' \in Seq(Entry) /\ Len(line) \in Nat /\ Len(line') = Len(line) + 1
      /\ \A i \in 1 .. Len(line) : line'[i] = line[i]
      /\ line'[Len(line) + 1] = e
  <2> HIDE DEF e
  <2> QED
    BY <1>1, <1>2, <1>3, AppendProperties, LenProperties
<1>5. /\ call' \in [Threads -> Calls \cup {None}]
      /\ call'[t] = c /\ \A u \in Threads : u # t => call'[u] = call[u]
  <2> HIDE DEF c
  <2> QED
    BY <1>1, <1>2, <1>3
<1>6. c.req = q /\ c.state = "sent" /\ ~ c.ok /\ e.thread = t /\ e.req = q
  OBVIOUS
<1>7. \A i \in 1 .. Len(line) : line[i] \in Entry /\ line[i].thread # t
  <2>1. \A i \in 1 .. Len(line) : line[i] \in Entry
    BY <1>3, ElementOfSeq
  <2>2. None \notin Threads
    BY FileLifeAssumption
  <2> QED
    BY <2>1, <2>2 DEF AskInv, Matched
<1> HIDE DEF c, e
<1>8. \A i \in 1 .. Len(line') : i \in 1 .. Len(line) \/ i = Len(line) + 1
  BY <1>4
<1>9. \A i \in 1 .. Len(line') :
        line'[i].thread # None =>
          /\ call'[line'[i].thread] # None
          /\ call'[line'[i].thread].state = "sent"
          /\ call'[line'[i].thread].req = line'[i].req
  <2>1. ASSUME NEW i \in 1 .. Len(line), line[i].thread # None
        PROVE  line[i].thread \in Threads /\ call'[line[i].thread] = call[line[i].thread]
    BY <1>5, <1>7, <2>1 DEF Entry
  <2> QED
    BY <1>1, <1>4, <1>5, <1>6, <1>8, <2>1 DEF AskInv, Matched
<1>10. \A i, j \in 1 .. Len(line') :
         i # j /\ line'[i].thread # None => line'[i].thread # line'[j].thread
  BY <1>4, <1>6, <1>7, <1>8 DEF AskInv, Matched
<1>11. \A u \in Threads :
         call'[u] # None /\ call'[u].state = "sent" =>
           \E i \in 1 .. Len(line') : line'[i].thread = u
  <2>1. Len(line) + 1 \in 1 .. Len(line') /\ 1 .. Len(line) \subseteq 1 .. Len(line')
    BY <1>4
  <2> QED
    BY <1>4, <1>5, <1>6, <2>1 DEF AskInv, Matched
<1> QED
  BY <1>1, <1>4, <1>5, <1>6, <1>9, <1>10, <1>11 DEF AskInv, CallTypes, Matched, e

(* The backend takes the oldest request; a thread that waits for it has    *)
(* its answer.                                                             *)
LEMMA AnswerTakes ==
  ASSUME AskInv, line # <<>>, NEW ok \in BOOLEAN, NEW got \in HostGem \cup {None},
         AnswerWith(ok, got)
  PROVE  /\ AskInv'
         /\ Len(line) \in Nat \ {0} /\ Len(line') = Len(line) - 1
         /\ Head(line) = line[1] /\ line[1] \in Entry
         /\ \A i \in 1 .. Len(line') : line'[i] = line[i + 1]
         /\ \A t \in Threads :
              IF t = line[1].thread
              THEN /\ call[t] # None /\ call[t].req = line[1].req
                   /\ call'[t] # None /\ call'[t].req = call[t].req
                   /\ call'[t].state = "done" /\ call'[t].ok = ok /\ call'[t].got = got
              ELSE call'[t] = call[t]
<1>1. line \in Seq(Entry) /\ call \in [Threads -> Calls \cup {None}]
  BY DEF AskInv, CallTypes
<1>2. /\ line' \in Seq(Entry)
      /\ Len(line) \in Nat \ {0} /\ Len(line') = Len(line) - 1
      /\ Head(line) = line[1] /\ line[1] \in Entry
      /\ \A i \in 1 .. Len(line') : line'[i] = line[i + 1]
  <2>1. line' = Tail(line)
    BY DEF AnswerWith
  <2>2. Len(line) \in Nat \ {0} /\ Head(line) = line[1] /\ Head(line) \in Entry
    BY <1>1, HeadTailProperties, EmptySeq
  <2> QED
    BY <1>1, <2>1, <2>2, HeadTailProperties
<1> DEFINE h == line[1].thread
<1>3. \A t \in Threads : t = h =>
        call[t] \in Calls /\ call[t].state = "sent" /\ call[t].req = line[1].req
  BY <1>1, <1>2, FileLifeAssumption DEF AskInv, Matched
<1>4. \A t \in Threads :
        IF t = h
        THEN /\ call'[t] \in Calls /\ call'[t].req = call[t].req
             /\ call'[t].state = "done" /\ call'[t].ok = ok /\ call'[t].got = got
        ELSE call'[t] = call[t]
  <2> SUFFICES ASSUME NEW t \in Threads, t = h
               PROVE  /\ call'[t] \in Calls /\ call'[t].req = call[t].req
                      /\ call'[t].state = "done" /\ call'[t].ok = ok /\ call'[t].got = got
    BY <1>2 DEF AnswerWith
  <2>1. call'[t] = [call[t] EXCEPT !.state = "done", !.ok = ok, !.got = got]
    BY <1>2 DEF AnswerWith
  <2> QED
    BY <1>3, <2>1 DEF Calls
<1>5. call' \in [Threads -> Calls \cup {None}]
  <2>1. call' = [t \in Threads |-> call'[t]]
    BY DEF AnswerWith
  <2> QED
    BY <1>1, <1>4, <2>1
<1>6. \A i \in 1 .. Len(line') : i + 1 \in 1 .. Len(line) /\ line'[i] \in Entry /\ i + 1 # 1
  BY <1>2, ElementOfSeq
<1>7. \A i \in 1 .. Len(line') : line'[i].thread # None =>
        line'[i].thread \in Threads /\ line'[i].thread # h
  BY <1>2, <1>6 DEF AskInv, Matched, Entry
<1>8. \A i \in 1 .. Len(line') :
        line'[i].thread # None =>
          /\ call'[line'[i].thread] # None
          /\ call'[line'[i].thread].state = "sent"
          /\ call'[line'[i].thread].req = line'[i].req
  BY <1>2, <1>4, <1>6, <1>7 DEF AskInv, Matched
<1>9. \A i, j \in 1 .. Len(line') :
        i # j /\ line'[i].thread # None => line'[i].thread # line'[j].thread
  <2> SUFFICES ASSUME NEW i \in 1 .. Len(line'), NEW j \in 1 .. Len(line'), i # j,
                      line'[i].thread # None
               PROVE  line'[i].thread # line'[j].thread
    OBVIOUS
  <2>1. i + 1 # j + 1
    OBVIOUS
  <2>2. line[i + 1].thread # None => line[i + 1].thread # line[j + 1].thread
    BY <1>6, <2>1 DEF AskInv, Matched
  <2> QED
    BY <1>2, <2>2
<1>10. ASSUME NEW t \in Threads, call'[t] # None, call'[t].state = "sent"
       PROVE  \E i \in 1 .. Len(line') : line'[i].thread = t
  <2>1. t # h /\ call'[t] = call[t]
    BY <1>4, <1>10
  <2>2. PICK i \in 1 .. Len(line) : line[i].thread = t
    BY <1>10, <2>1 DEF AskInv, Matched
  <2>3. i # 1 /\ i - 1 \in 1 .. Len(line') /\ (i - 1) + 1 = i
    BY <1>2, <2>1, <2>2
  <2> QED
    BY <1>2, <2>2, <2>3
<1> QED
  BY <1>2, <1>3, <1>4, <1>5, <1>8, <1>9, <1>10, FileLifeAssumption DEF AskInv, CallTypes, Matched

(* A thread that gives its call up leaves the request in line.             *)
LEMMA GivenUpStays ==
  ASSUME AskInv, NEW t \in Threads, call[t] # None, call[t].state = "sent",
         line' = WithoutThread(t), call' \in [Threads -> Calls \cup {None}],
         call'[t] = None \/ call'[t].state = "done",
         \A u \in Threads : u # t => call'[u] = call[u]
  PROVE  /\ AskInv'
         /\ Len(line) \in Nat /\ Len(line') = Len(line)
         /\ \A i \in 1 .. Len(line) : line'[i].req = line[i].req
         /\ \E i \in 1 .. Len(line) : line[i].req = call[t].req
<1>1. /\ line \in Seq(Entry) /\ call \in [Threads -> Calls \cup {None}]
      /\ Len(line) \in Nat /\ DOMAIN line = 1 .. Len(line)
      /\ \A i \in 1 .. Len(line) : line[i] \in Entry
  BY LenProperties, ElementOfSeq DEF AskInv, CallTypes
<1>2. line' = [i \in DOMAIN line |->
                 IF line[i].thread = t THEN [line[i] EXCEPT !.thread = None] ELSE line[i]]
  BY DEF WithoutThread
<1>3. ASSUME NEW i \in 1 .. Len(line)
      PROVE  /\ line'[i] \in Entry /\ line'[i].req = line[i].req
             /\ line'[i].thread = IF line[i].thread = t THEN None ELSE line[i].thread
  BY <1>1, <1>2 DEF Entry
<1>4. line' \in [1 .. Len(line) -> Entry]
  BY <1>1, <1>2, <1>3
<1>5. line' \in Seq(Entry)
  BY <1>1, <1>4, SeqDef
<1>6. Len(line') = Len(line)
  BY <1>1, <1>4, <1>5, LenProperties
<1>7. PICK k \in 1 .. Len(line) : line[k].thread = t
  BY DEF AskInv, Matched
<1>8. line[k].req = call[t].req
  BY <1>7, FileLifeAssumption DEF AskInv, Matched
<1>9. \A i \in 1 .. Len(line') :
        line'[i].thread # None =>
          /\ line[i].thread = line'[i].thread /\ line'[i].thread \in Threads
          /\ line'[i].thread # t
  BY <1>1, <1>3, <1>6 DEF Entry
<1>10. ASSUME NEW u \in Threads, call'[u] # None, call'[u].state = "sent"
       PROVE  \E i \in 1 .. Len(line') : line'[i].thread = u
  <2>1. u # t /\ call'[u] = call[u]
    BY <1>10
  <2>2. PICK i \in 1 .. Len(line) : line[i].thread = u
    BY <1>10, <2>1 DEF AskInv, Matched
  <2> QED
    BY <1>3, <1>6, <2>1, <2>2
<1>11. \A i, j \in 1 .. Len(line') :
        i # j /\ line'[i].thread # None => line'[i].thread # line'[j].thread
  <2> SUFFICES ASSUME NEW i \in 1 .. Len(line'), NEW j \in 1 .. Len(line'), i # j,
                      line'[i].thread # None, line'[i].thread = line'[j].thread
               PROVE  FALSE
    OBVIOUS
  <2>1. line[i].thread = line'[i].thread /\ line[j].thread = line'[j].thread
    BY <1>9
  <2> QED
    BY <1>6, <2>1 DEF AskInv, Matched
<1>12. Matched'
  BY <1>3, <1>6, <1>9, <1>10, <1>11 DEF AskInv, Matched
<1> QED
  BY <1>1, <1>3, <1>5, <1>6, <1>7, <1>8, <1>12 DEF AskInv, CallTypes

(* A call ends with its answer, or is given up.                            *)
LEMMA ReturnEnds ==
  ASSUME AskInv, NEW t \in Threads, call[t] # None, Return(t)
  PROVE  /\ AskInv'
         /\ Len(line) \in Nat /\ Len(line') = Len(line)
         /\ \A i \in 1 .. Len(line) : line'[i].req = line[i].req
         /\ call'[t] = None /\ \A u \in Threads : u # t => call'[u] = call[u]
         /\ call[t].state = "done"
              \/ \E i \in 1 .. Len(line) : line[i].req = call[t].req
<1>1. /\ line \in Seq(Entry) /\ call \in [Threads -> Calls \cup {None}]
      /\ Len(line) \in Nat /\ DOMAIN line = 1 .. Len(line)
      /\ \A i \in 1 .. Len(line) : line[i] \in Entry
  BY LenProperties, ElementOfSeq DEF AskInv, CallTypes
<1>2. /\ call' \in [Threads -> Calls \cup {None}]
      /\ call'[t] = None /\ \A u \in Threads : u # t => call'[u] = call[u]
  BY <1>1 DEF Return
<1>3. CASE UNCHANGED line /\ call[t].state = "done"
  <2>1. \A i \in 1 .. Len(line) : line[i].thread # t
    BY <1>3, FileLifeAssumption DEF AskInv, Matched
  <2>2. Matched'
    BY <1>1, <1>2, <1>3, <2>1 DEF AskInv, Matched, Entry
  <2> QED
    BY <1>1, <1>2, <1>3, <2>2 DEF AskInv, CallTypes
<1>4. CASE call[t].state = "sent" /\ line' = WithoutThread(t)
  BY <1>2, <1>4, GivenUpStays
<1> QED
  BY <1>3, <1>4 DEF Return

(* What a request of each kind has in it.                                  *)
LEMMA RequestKinds ==
  /\ \A q \in Requests :
       /\ q.op \in {"register", "free", "close", "gem_make", "gem_export"} \cup Closings
       /\ q.op = "register" =>
            /\ q.file \in CtlFiles \cup GpuFiles /\ q.client \in Clients /\ q.handle \in Objects
            /\ q.parent \in Devices /\ q.region \in Regions /\ q.runs = Runs(q.region)
       /\ q.op = "free" =>
            /\ q.file \in CtlFiles \cup GpuFiles /\ q.client \in Clients
            /\ q.handle \in Objects \cup Devices \cup Clients
       /\ q.op = "close" => q.file \in Files
       /\ q.op = "gem_make" => q.file \in DrmFiles
       /\ q.op \in {"close", "gem_make", "gem_export"} \cup Closings => q.client = None
       /\ q.op \in {"gem_export"} \cup Closings =>
            /\ q.file \in DrmFiles \cup {None}
            /\ q.owner \in DrmFiles /\ q.host \in Nat \ {0} /\ q.obj \in Nat
       /\ q.op = "gem_first" => [q EXCEPT !.op = "gem_second"] \in Requests
  /\ \A f \in CtlFiles \cup GpuFiles, c \in Clients :
       /\ \A h \in Objects, parent \in Devices, region \in Regions :
            [op |-> "register", file |-> f, client |-> c, handle |-> h, parent |-> parent,
             region |-> region, runs |-> Runs(region)] \in Requests
       /\ \A h \in Objects \cup Devices \cup Clients :
            [op |-> "free", file |-> f, client |-> c, handle |-> h] \in Requests
  /\ \A f \in Files : [op |-> "close", file |-> f, client |-> None, handle |-> None] \in Requests
  /\ \A f \in DrmFiles :
       [op |-> "gem_make", file |-> f, client |-> None, handle |-> None] \in Requests
BY DEF Requests, Closings

Pin == [client : Clients, handle : Objects, region : Regions]

RmObject ==
  [client : Clients, handle : Objects \cup Devices, parent : Devices \cup Clients,
   file : CtlFiles \cup GpuFiles, region : Regions \cup {None}, owed : BOOLEAN]

Buffer == [obj : Nat, owner : DrmFiles, host : Nat \ {0}]

\* An answer about a buffer names it.
GotInv ==
  \A t \in Threads :
    call[t] # None /\ call[t].ok =>
      /\ call[t].state = "done"
      /\ call[t].req.op \in {"gem_make", "gem_export"} => call[t].got \in HostGem

FileTypes ==
  /\ file \in [Files -> {"none", "open", "closed"}]
  /\ pins \in [Files -> Seq(Pin)]
  /\ hosts \subseteq Files /\ lingers \subseteq Files
  /\ roots \subseteq [client : Clients, file : CtlFiles]
  /\ rm \subseteq RmObject

GemTypes ==
  /\ names \in [DrmFiles \cup {None} -> SUBSET Nat]
  /\ gems \subseteq Buffer
  /\ hostGems \subseteq HostGem /\ IsFiniteSet(hostGems)
  /\ nextGem \in Nat /\ taken \subseteq Nat
  /\ \A x \in DOMAIN names : \A o \in names[x] : \E p \in gems : p.obj = o

LifeInv == AskInv /\ GotInv /\ FileTypes /\ GemTypes

(* There is a proxy for every buffer that has a handle or a dma-buf.       *)
LEMMA ProxyStands ==
  ASSUME LifeInv, NEW x \in DOMAIN names, NEW o \in names[x]
  PROVE  Proxy(o) \in gems /\ Proxy(o).obj = o /\ o \in Nat /\ Proxy(o) \in Buffer
BY DEF LifeInv, GemTypes, Proxy, Buffer

(* A request about a buffer, on the number that its owner's file has for it. *)
LEMMA AboutIsRequest ==
  ASSUME NEW op \in {"gem_export"} \cup Closings, NEW f \in DrmFiles \cup {None}, NEW p \in Buffer
  PROVE  /\ About(op, f, p) \in Requests
         /\ About(op, f, p).op = op /\ About(op, f, p).file = f
         /\ About(op, f, p).client = None
         /\ About(op, f, p).owner = p.owner /\ About(op, f, p).host = p.host
         /\ About(op, f, p).obj = p.obj
BY DEF About, Requests, Buffer, Closings

(* The host's driver finds a number: a file that has k buffers leaves one  *)
(* of the first k + 1 free.                                                *)
LEMMA NumberIsFree ==
  ASSUME LifeInv, NEW f \in DrmFiles
  PROVE  /\ NumberFor(f) \in Nat \ {0}
         /\ \A g \in hostGems : ~ (g.file = f /\ g.handle = NumberFor(f))
<1> DEFINE k == Cardinality(hostGems)
           held == {g.handle : g \in hostGems}
           free == {n \in 1 .. k + 1 : \A g \in hostGems : ~ (g.file = f /\ g.handle = n)}
<1>1. k \in Nat /\ IsFiniteSet(held) /\ Cardinality(held) <= k
  <2> DEFINE number == [g \in hostGems |-> g.handle]
  <2>1. number \in Surjection(hostGems, held)
    BY DEF Surjection
  <2> QED
    BY <2>1, FS_CardinalityType, FS_Surjection DEF LifeInv, GemTypes
<1> HIDE DEF k, held
<1>2. IsFiniteSet(1 .. k + 1) /\ Cardinality(1 .. k + 1) = k + 1
  <2>1. k + 1 \in Int /\ 1 \in Int /\ 1 <= k + 1 /\ (k + 1) - 1 + 1 = k + 1
    BY <1>1
  <2> QED
    BY <2>1, FS_Interval
<1>3. ~ (1 .. k + 1 \subseteq held)
  <2> SUFFICES ASSUME 1 .. k + 1 \subseteq held PROVE FALSE
    OBVIOUS
  <2>1. Cardinality(1 .. k + 1) <= Cardinality(held) /\ Cardinality(held) \in Nat
    BY <1>1, FS_Subset, FS_CardinalityType
  <2> QED
    BY <1>1, <1>2, <2>1
<1>4. free # {} /\ free \in SUBSET Nat
  <2>1. PICK n \in 1 .. k + 1 : n \notin held
    BY <1>3
  <2> QED
    BY <1>1, <2>1 DEF held
<1>5. PICK n \in free : \A m \in free : n <= m
  BY <1>4, LeastExists
<1>6. NumberFor(f) \in free
  BY <1>5 DEF NumberFor, Min, k
<1> QED
  BY <1>1, <1>6

(* What the three primitives do to the answers.                            *)
LEMMA EnqueueKeeps ==
  ASSUME LifeInv, NEW t \in Threads, NEW q \in Requests, Enqueue(t, q),
         call[t] = None \/ call[t].state = "done"
  PROVE  AskInv' /\ GotInv'
<1>1. AskInv' /\ ~ call'[t].ok /\ \A u \in Threads : u # t => call'[u] = call[u]
  BY EnqueueAdds DEF LifeInv
<1> QED
  BY <1>1 DEF LifeInv, GotInv

(* An answer about a buffer comes with one.                                *)
LEMMA AnswerKeeps ==
  ASSUME LifeInv, line # <<>>, NEW ok \in BOOLEAN, NEW got \in HostGem \cup {None},
         ok /\ Head(line).req.op \in {"gem_make", "gem_export"} => got \in HostGem,
         AnswerWith(ok, got)
  PROVE  AskInv' /\ GotInv'
BY AnswerTakes DEF LifeInv, GotInv

(* A call that ends takes its answer with it.                              *)
LEMMA ReturnKeeps ==
  ASSUME LifeInv, NEW t \in Threads, call[t] # None, Return(t)
  PROVE  AskInv' /\ GotInv'
BY ReturnEnds DEF LifeInv, GotInv

(* A thread leaves with its answer and makes no other call.                *)
LEMMA EndedKeeps ==
  ASSUME LifeInv, NEW t \in Threads, call[t] # None, call[t].state = "done",
         call' = [call EXCEPT ![t] = None], UNCHANGED line
  PROVE  AskInv' /\ GotInv'
<1>1. /\ line \in Seq(Entry) /\ call \in [Threads -> Calls \cup {None}]
      /\ \A i \in 1 .. Len(line) : line[i] \in Entry
  BY LenProperties, ElementOfSeq DEF LifeInv, AskInv, CallTypes
<1>2. /\ call' \in [Threads -> Calls \cup {None}]
      /\ call'[t] = None /\ \A u \in Threads : u # t => call'[u] = call[u]
  BY <1>1
<1>3. \A i \in 1 .. Len(line) : line[i].thread # t
  BY FileLifeAssumption DEF LifeInv, AskInv, Matched
<1>4. Matched'
  BY <1>1, <1>2, <1>3 DEF LifeInv, AskInv, Matched, Entry
<1> QED
  BY <1>1, <1>2, <1>4 DEF LifeInv, AskInv, CallTypes, GotInv

(* Giving a call up and going on changes the thread's own call only.       *)
LEMMA GiveUpKeeps ==
  ASSUME LifeInv, NEW t \in Threads, call[t] # None, call[t].state = "sent",
         line' = WithoutThread(t), call' = [call EXCEPT ![t].state = "done"]
  PROVE  /\ AskInv' /\ GotInv'
         /\ Len(line) \in Nat /\ Len(line') = Len(line)
         /\ \A i \in 1 .. Len(line) : line'[i].req = line[i].req
<1>1. /\ call \in [Threads -> Calls \cup {None}] /\ call[t] \in Calls /\ ~ call[t].ok
  BY DEF LifeInv, AskInv, CallTypes, GotInv
<1> DEFINE c == [call[t] EXCEPT !.state = "done"]
<1>2. c \in Calls /\ c.state = "done" /\ ~ c.ok /\ c.req = call[t].req
  BY <1>1 DEF Calls
<1>3. call' = [call EXCEPT ![t] = c]
  OBVIOUS
<1> HIDE DEF c
<1>4. /\ call' \in [Threads -> Calls \cup {None}] /\ call'[t] = c
      /\ \A u \in Threads : u # t => call'[u] = call[u]
  BY <1>1, <1>2, <1>3
<1>5. GotInv'
  BY <1>2, <1>4 DEF LifeInv, GotInv
<1> QED
  BY <1>2, <1>4, <1>5, GivenUpStays DEF LifeInv

(* The backend serves what is first in line.                               *)
LEMMA OldestIs ==
  ASSUME LifeInv, NEW op, Oldest(op)
  PROVE  /\ line # <<>> /\ Len(line) \in Nat \ {0} /\ Head(line) = line[1]
         /\ Head(line).req \in Requests /\ Head(line).req.op = op
         /\ Head(line).thread \in Threads \cup {None}
<1>1. line \in Seq(Entry) /\ line # <<>> /\ Head(line).req.op = op
  BY DEF LifeInv, AskInv, CallTypes, Oldest
<1>2. Len(line) \in Nat \ {0} /\ Head(line) \in Entry /\ Head(line) = line[1]
  BY <1>1, HeadTailProperties, EmptySeq
<1> QED
  BY <1>1, <1>2 DEF Entry

(* A call in progress is for a request.                                    *)
LEMMA AskedIs ==
  ASSUME LifeInv, NEW op, NEW t \in Threads, Asked(t, op)
  PROVE  call[t] # None /\ call[t] \in Calls /\ call[t].req \in Requests /\ call[t].req.op = op
BY DEF LifeInv, AskInv, CallTypes, Calls, Asked

(* A close is answered.                                                    *)
LEMMA CloseAnswers ==
  ASSUME ServeClose
  PROVE  /\ line # <<>> /\ Head(line).req.op = "close"
         /\ \E ok \in BOOLEAN : AnswerWith(ok, None)
<1>1. line # <<>> /\ Head(line).req.op = "close"
  BY DEF ServeClose, Oldest
<1>2. AnswerWith(Head(line).req.file \in hosts, None)
  BY DEF ServeClose, Answer
<1>3. (Head(line).req.file \in hosts) = TRUE \/ (Head(line).req.file \in hosts) = FALSE
  OBVIOUS
<1> QED
  BY <1>1, <1>2, <1>3, Zenon

(* Taking one element out of a sequence leaves the others.                 *)
LEMMA RemoveKeeps ==
  ASSUME NEW S, NEW s \in Seq(S), NEW i \in 1 .. Len(s)
  PROVE  /\ RemoveAt(s, i) \in Seq(S)
         /\ \A j \in 1 .. Len(s) : j # i => s[j] \in Range(RemoveAt(s, i))
<1>1. PICK n \in Nat : n = Len(s)
  BY LenProperties
<1>2. i \in Int /\ 1 <= i /\ i <= n /\ \A j \in 1 .. n : s[j] \in S
  BY <1>1, ElementOfSeq
<1> DEFINE a == SubSeq(s, 1, i - 1)
           b == SubSeq(s, i + 1, n)
<1>3. /\ a \in Seq(S) /\ Len(a) = i - 1
      /\ \A j \in 1 .. i - 1 : a[j] = s[j]
  <2>1. \A j \in 1 .. i - 1 : s[j] \in S
    BY <1>2
  <2>2. /\ a \in Seq(S) /\ Len(a) = IF 1 <= i - 1 THEN (i - 1) - 1 + 1 ELSE 0
        /\ \A j \in 1 .. (i - 1) - 1 + 1 : a[j] = s[1 + j - 1]
    BY <1>2, <2>1, SubSeqProperties
  <2> HIDE DEF a
  <2>3. Len(a) = i - 1
    BY <1>2, <2>2
  <2>4. ASSUME NEW j \in 1 .. i - 1 PROVE a[j] = s[j]
    <3>1. j \in 1 .. (i - 1) - 1 + 1 /\ 1 + j - 1 = j
      BY <1>2
    <3> QED
      BY <2>2, <3>1
  <2> QED
    BY <2>2, <2>3, <2>4
<1>4. /\ b \in Seq(S) /\ Len(b) = n - i
      /\ \A j \in 1 .. n - i : b[j] = s[i + j]
  <2>1. \A j \in i + 1 .. n : s[j] \in S
    BY <1>2
  <2>2. /\ b \in Seq(S) /\ Len(b) = IF i + 1 <= n THEN n - (i + 1) + 1 ELSE 0
        /\ \A j \in 1 .. n - (i + 1) + 1 : b[j] = s[(i + 1) + j - 1]
    BY <1>2, <2>1, SubSeqProperties
  <2> HIDE DEF b
  <2>3. Len(b) = n - i
    BY <1>1, <1>2, <2>2
  <2>4. ASSUME NEW j \in 1 .. n - i PROVE b[j] = s[i + j]
    <3>1. j \in 1 .. n - (i + 1) + 1 /\ (i + 1) + j - 1 = i + j
      BY <1>1, <1>2
    <3> QED
      BY <2>2, <3>1
  <2> QED
    BY <2>2, <2>3, <2>4
<1> HIDE DEF a, b
<1>5. /\ a \o b \in Seq(S) /\ Len(a \o b) = n - 1 /\ DOMAIN (a \o b) = 1 .. n - 1
      /\ \A j \in 1 .. n - 1 : (a \o b)[j] = IF j <= i - 1 THEN a[j] ELSE b[j - (i - 1)]
  <2>1. Len(a) + Len(b) = n - 1
    BY <1>1, <1>2, <1>3, <1>4
  <2>2. /\ a \o b \in Seq(S) /\ Len(a \o b) = Len(a) + Len(b)
        /\ \A j \in 1 .. Len(a) + Len(b) : (a \o b)[j] = IF j <= Len(a) THEN a[j] ELSE b[j - Len(a)]
    BY <1>3, <1>4, ConcatProperties
  <2>3. Len(a \o b) = n - 1
    BY <2>1, <2>2
  <2> QED
    BY <1>3, <2>1, <2>2, <2>3, LenProperties
<1>6. RemoveAt(s, i) = a \o b
  BY <1>1 DEF RemoveAt, a, b
<1>7. ASSUME NEW j \in 1 .. n, j # i PROVE \E k \in 1 .. n - 1 : (a \o b)[k] = s[j]
  <2>1. CASE j < i
    <3>1. j \in 1 .. i - 1 /\ j \in 1 .. n - 1 /\ j <= i - 1
      BY <1>1, <1>2, <2>1
    <3> QED
      BY <1>3, <1>5, <3>1
  <2>2. CASE j > i
    <3>1. /\ j - 1 \in 1 .. n - 1 /\ ~ (j - 1 <= i - 1)
          /\ (j - 1) - (i - 1) = j - i
      BY <1>1, <1>2, <2>2
    <3>2. j - i \in 1 .. n - i /\ i + (j - i) = j
      BY <1>1, <1>2, <2>2
    <3> QED
      BY <1>4, <1>5, <3>1, <3>2
  <2>3. j < i \/ j > i
    BY <1>1, <1>7
  <2> QED
    BY <2>1, <2>2, <2>3
<1> QED
  BY <1>1, <1>5, <1>6, <1>7 DEF Range

(* The pin that a free takes is of its object.                             *)
LEMMA UnpinnedKeeps ==
  ASSUME NEW f \in Files, pins[f] \in Seq(Pin), NEW c, NEW h
  PROVE  /\ Unpinned(f, c, h) \in Seq(Pin)
         /\ \A p \in Range(pins[f]) :
              ~ (p.client = c /\ p.handle = h) => p \in Range(Unpinned(f, c, h))
<1> DEFINE s == pins[f]
           I == {k \in 1 .. Len(s) : s[k].client = c /\ s[k].handle = h}
           i == SelectInSeq(s, LAMBDA p : p.client = c /\ p.handle = h)
<1>1. i = IF I # {} THEN Min(I) ELSE 0
  BY DEF SelectInSeq
<1>2. s \in Seq(Pin) /\ DOMAIN s = 1 .. Len(s)
  BY LenProperties
<1>3. CASE I = {}
  BY <1>1, <1>2, <1>3 DEF Unpinned
<1>4. CASE I # {}
  <2>1. I \in SUBSET Nat
    OBVIOUS
  <2>2. PICK k \in I : \A m \in I : k <= m
    BY <1>4, <2>1, LeastExists
  <2>3. Min(I) \in I
    BY <2>2 DEF Min
  <2>4. i \in I
    BY <1>1, <1>4, <2>3
  <2>5. i \in 1 .. Len(s) /\ s[i].client = c /\ s[i].handle = h /\ i # 0
    BY <2>4
  <2>6. Unpinned(f, c, h) = RemoveAt(s, i)
    BY <2>5 DEF Unpinned
  <2> HIDE DEF i, s
  <2>7. RemoveAt(s, i) \in Seq(Pin) /\ \A j \in 1 .. Len(s) : j # i => s[j] \in Range(RemoveAt(s, i))
    BY <1>2, <2>5, RemoveKeeps
  <2>8. \A p \in Range(s) : ~ (p.client = c /\ p.handle = h) => p \in Range(RemoveAt(s, i))
    <3> SUFFICES ASSUME NEW p \in Range(s), ~ (p.client = c /\ p.handle = h)
                 PROVE  p \in Range(RemoveAt(s, i))
      OBVIOUS
    <3>1. PICK j \in 1 .. Len(s) : p = s[j]
      BY <1>2 DEF Range
    <3> QED
      BY <2>5, <2>7, <3>1
  <2> QED
    BY <2>6, <2>7, <2>8 DEF s
<1> QED
  BY <1>3, <1>4

(* A step of a thread or of the backend keeps every request matched with   *)
(* the thread that waits for it.                                           *)
LEMMA StepKeepsCalls ==
  ASSUME LifeInv, [NextLife]_vars
  PROVE  AskInv' /\ GotInv'
<1>1. ASSUME UNCHANGED <<call, line>>
      PROVE  AskInv' /\ GotInv'
  BY <1>1 DEF LifeInv, AskInv, CallTypes, Matched, GotInv
<1>2. ASSUME NEW t \in Threads, NEW q \in Requests, Ask(t, q)
      PROVE  AskInv' /\ GotInv'
  BY <1>2, EnqueueKeeps DEF Ask
<1>3. CASE UNCHANGED vars
  BY <1>1, <1>3 DEF vars, guest
<1>4. ASSUME \/ \E f \in Files : Open(f)
             \/ \E f \in CtlFiles, c \in Clients : NewClient(f, c)
             \/ \E r \in roots, d \in Devices : NewDevice(r, d)
             \/ \E f \in UvmFiles, addr \in Addresses, len \in 1 .. PoolMaxLen : MapPool(f, addr, len)
             \/ \E v \in vmas : UnmapPool(v)
             \/ \E x, y \in DOMAIN names : \E o \in names[x] \ names[y] : Pass(x, y, o)
             \/ \E f \in lingers : LetGo(f)
      PROVE  AskInv' /\ GotInv'
  BY <1>1, <1>4 DEF Open, NewClient, NewDevice, MapPool, UnmapPool, Pass, LetGo, guest
<1>5. ASSUME NEW t \in Threads, NEW f \in CtlFiles \cup GpuFiles, NEW c \in Clients,
             \/ \E h \in Objects, parent \in Devices, region \in Regions :
                  Register(t, f, c, h, parent, region)
             \/ \E h \in Objects \cup Devices \cup {c} : Free(t, f, c, h)
      PROVE  AskInv' /\ GotInv'
  <2>1. ASSUME NEW h \in Objects \cup Devices \cup {c}, Free(t, f, c, h)
        PROVE  AskInv' /\ GotInv'
    <3>1. \/ Ask(t, [op |-> "free", file |-> f, client |-> c, handle |-> h])
          \/ UNCHANGED <<call, line>>
      BY <2>1 DEF Free
    <3> QED
      BY <1>1, <1>2, <3>1, RequestKinds
  <2> QED
    BY <1>2, <1>5, <2>1, RequestKinds DEF Register
<1>6. ASSUME NEW t \in Threads, EndRegister(t) \/ EndFree(t) \/ EndPlain(t)
      PROVE  AskInv' /\ GotInv'
  BY <1>6, ReturnKeeps DEF EndRegister, EndFree, EndPlain, Asked
<1>7. ASSUME NEW t \in Threads, NEW f \in Files, BeginClose(t, f)
      PROVE  AskInv' /\ GotInv'
  <2>1. \/ Ask(t, [op |-> "close", file |-> f, client |-> None, handle |-> None])
        \/ UNCHANGED <<call, line>>
    BY <1>7 DEF BeginClose
  <2> QED
    BY <1>1, <1>2, <2>1, RequestKinds
<1>8. CASE ServeRegister
  <2>1. line # <<>> /\ Head(line).req.op = "register" /\ \E ok \in BOOLEAN : AnswerWith(ok, None)
    BY <1>8 DEF ServeRegister, Oldest, Answer
  <2> QED
    BY <2>1, AnswerKeeps
<1>9. CASE ServeFree
  <2>1. line # <<>> /\ Head(line).req.op = "free" /\ \E ok \in BOOLEAN : AnswerWith(ok, None)
    BY <1>9 DEF ServeFree, Oldest, Answer
  <2> QED
    BY <2>1, AnswerKeeps
<1>10. CASE ServeClose
  <2>1. line # <<>> /\ Head(line).req.op = "close" /\ \E ok \in BOOLEAN : AnswerWith(ok, None)
    BY <1>10, CloseAnswers
  <2> QED
    BY <2>1, AnswerKeeps
<1>11. ASSUME NEW t \in Threads, NEW f \in DrmFiles, MakeGem(t, f)
       PROVE  AskInv' /\ GotInv'
  BY <1>2, <1>11, RequestKinds DEF MakeGem
<1>12. ASSUME NEW t \in Threads, NEW f \in DrmFiles, NEW o \in names[f], ExportGem(t, f, o)
       PROVE  AskInv' /\ GotInv'
  <2>1. f \in DOMAIN names /\ f \in DrmFiles \cup {None}
    BY DEF LifeInv, GemTypes
  <2>2. Proxy(o) \in Buffer
    BY <2>1, ProxyStands
  <2>3. About("gem_export", f, Proxy(o)) \in Requests
    BY <2>2, AboutIsRequest
  <2> QED
    BY <1>2, <1>12, <2>3 DEF ExportGem, On
<1>13. ASSUME NEW t \in Threads, EndMakeGem(t)
       PROVE  AskInv' /\ GotInv'
  <2>1. Asked(t, "gem_make")
    BY <1>13 DEF EndMakeGem
  <2>2. call[t] # None /\ call[t].req \in Requests /\ call[t].req.op = "gem_make"
    BY <2>1, AskedIs
  <2> DEFINE f == call[t].req.file
             p == [obj |-> call[t].got.obj, owner |-> f, host |-> call[t].got.handle]
  <2>3. CASE ~ call[t].ok
    BY <1>13, <2>2, <2>3, ReturnKeeps DEF EndMakeGem
  <2>4. CASE call[t].ok
    <3>1. call[t].state = "done" /\ p \in Buffer /\ f \in DrmFiles
      <4>1. call[t].state = "done" /\ call[t].got \in HostGem
        BY <2>2, <2>4 DEF LifeInv, GotInv
      <4>2. f \in DrmFiles
        BY <2>2, RequestKinds
      <4> QED
        BY <4>1, <4>2 DEF HostGem, Buffer
    <3>2. ASSUME NEW op \in Closings, Enqueue(t, About(op, f, p))
          PROVE  AskInv' /\ GotInv'
      <4>1. About(op, f, p) \in Requests
        BY <3>1, AboutIsRequest
      <4> QED
        BY <3>1, <3>2, <4>1, EnqueueKeeps
    <3>3. CASE call' = [call EXCEPT ![t] = None] /\ UNCHANGED line
      BY <2>2, <3>1, <3>3, EndedKeeps
    <3> QED
      BY <1>13, <2>4, <3>2, <3>3 DEF EndMakeGem, Closings
  <2> QED
    BY <2>3, <2>4
<1>14. ASSUME NEW t \in Threads, NEW x \in DOMAIN names, NEW o \in names[x], DropName(t, x, o)
       PROVE  AskInv' /\ GotInv'
  <2>1. x \in DrmFiles \cup {None}
    BY DEF LifeInv, GemTypes
  <2>2. Proxy(o) \in Buffer
    BY ProxyStands
  <2>3. About("gem_close", x, Proxy(o)) \in Requests
    BY <2>1, <2>2, AboutIsRequest DEF Closings
  <2>4. Ask(t, About("gem_close", x, Proxy(o))) \/ UNCHANGED <<call, line>>
    BY <1>14 DEF DropName, On
  <2> QED
    BY <1>1, <1>2, <2>3, <2>4
<1>15. CASE ServeMakeGem
  <2>1. Oldest("gem_make")
    BY <1>15 DEF ServeMakeGem
  <2>2. line # <<>> /\ Head(line).req.op = "gem_make" /\ Head(line).req.file \in DrmFiles
    BY <2>1, OldestIs, RequestKinds
  <2> DEFINE f == Head(line).req.file
             g == [file |-> f, handle |-> NumberFor(f), obj |-> nextGem]
  <2>3. g \in HostGem
    BY <2>2, NumberIsFree DEF LifeInv, GemTypes, HostGem
  <2>4. AnswerWith(TRUE, g) \/ AnswerWith(FALSE, None)
    BY <1>15 DEF ServeMakeGem, Answer
  <2> QED
    BY <2>2, <2>3, <2>4, AnswerKeeps
<1>16. CASE ServeExport
  <2>1. line # <<>>
    BY <1>16 DEF ServeExport, Oldest
  <2>2. AnswerWith(FALSE, None) \/ \E g \in hostGems : AnswerWith(TRUE, g)
    BY <1>16 DEF ServeExport, Answer, Meant
  <2>3. hostGems \subseteq HostGem
    BY DEF LifeInv, GemTypes
  <2> QED
    BY <2>1, <2>2, <2>3, AnswerKeeps
<1>17. CASE ServeGemClose
  BY <1>17, AnswerKeeps DEF ServeGemClose, Oldest, Answer, Closings
<1>18. ASSUME NEW t \in Threads, CloseAgain(t)
       PROVE  AskInv' /\ GotInv'
  <2>1. /\ call[t] # None /\ call[t].req \in Requests
        /\ [call[t].req EXCEPT !.op = "gem_second"] \in Requests
    BY <1>18, AskedIs, RequestKinds DEF CloseAgain
  <2>2. CASE call[t].state = "sent"
    BY <1>18, <2>1, <2>2, GiveUpKeeps DEF CloseAgain
  <2>3. CASE call[t].state = "done"
    BY <1>18, <2>1, <2>3, EnqueueKeeps, EndedKeeps DEF CloseAgain
  <2> QED
    BY <1>18, <2>2, <2>3 DEF CloseAgain
<1> QED
  BY <1>3, <1>4, <1>5, <1>6, <1>7, <1>8, <1>9, <1>10, <1>11, <1>12, <1>13, <1>14, <1>15, <1>16,
     <1>17, <1>18
  DEF NextLife

(* What RM has stays what it is, whatever the driver still owes it.        *)
LEMMA DisownedKeeps ==
  ASSUME LifeInv, NEW f, NEW c, NEW h
  PROVE  /\ Disowned(f, c, h) \subseteq RmObject
         /\ \A o \in Disowned(f, c, h) : \E w \in rm :
              /\ o.client = w.client /\ o.handle = w.handle /\ o.parent = w.parent
              /\ o.file = w.file /\ o.region = w.region
              /\ o.owed => /\ o = w
                           /\ ~ (o.file = f /\ o.client = c /\ o.handle = h /\ o.region # None)
         /\ \A w \in rm : \E o \in Disowned(f, c, h) :
              /\ o.client = w.client /\ o.handle = w.handle /\ o.parent = w.parent
              /\ o.file = w.file /\ o.region = w.region
<1> DEFINE Meets(o) == o.file = f /\ o.client = c /\ o.handle = h /\ o.region # None
           D(o) == IF Meets(o) THEN [o EXCEPT !.owed = FALSE] ELSE o
<1>1. Disowned(f, c, h) = {D(o) : o \in rm}
  BY DEF Disowned
<1>2. ASSUME NEW o \in rm
      PROVE  /\ D(o) \in RmObject
             /\ D(o).client = o.client /\ D(o).handle = o.handle /\ D(o).parent = o.parent
             /\ D(o).file = o.file /\ D(o).region = o.region
             /\ D(o).owed => D(o) = o /\ ~ Meets(o)
  <2>1. o \in RmObject
    BY DEF LifeInv, FileTypes
  <2> QED
    BY <2>1 DEF RmObject
<1> HIDE DEF D
<1> QED
  BY <1>1, <1>2

(* Files, pins and RM's objects stay what they are.                        *)
LEMMA StepKeepsFiles ==
  ASSUME LifeInv, [NextLife]_vars
  PROVE  FileTypes'
<1> USE DEF LifeInv, FileTypes
<1>1. ASSUME UNCHANGED <<file, pins, hosts, lingers, roots, rm>>
      PROVE  FileTypes'
  BY <1>1
<1>2. CASE UNCHANGED vars
  BY <1>1, <1>2 DEF vars, guest, host
<1>3. ASSUME NEW f \in Files, Open(f)
      PROVE  FileTypes'
  BY <1>3 DEF Open, host
<1>4. ASSUME NEW f \in CtlFiles, NEW c \in Clients, NewClient(f, c)
      PROVE  FileTypes'
  BY <1>4 DEF NewClient
<1>5. ASSUME NEW r \in roots, NEW d \in Devices, NewDevice(r, d)
      PROVE  FileTypes'
  <2> DEFINE o == [client |-> r.client, handle |-> d, parent |-> r.client,
                   file |-> r.file, region |-> None, owed |-> TRUE]
  <2>1. o \in RmObject
    BY DEF RmObject
  <2> HIDE DEF o
  <2>2. rm' = rm \cup {o} /\ UNCHANGED <<file, pins, hosts, lingers, roots>>
    BY <1>5 DEF NewDevice, o
  <2> QED
    BY <2>1, <2>2
<1>6. ASSUME NEW t \in Threads, NEW f \in CtlFiles \cup GpuFiles, NEW c \in Clients,
             \E h \in Objects, parent \in Devices, region \in Regions :
               Register(t, f, c, h, parent, region)
      PROVE  FileTypes'
  BY <1>1, <1>6 DEF Register, host
<1>16. ASSUME NEW t \in Threads, NEW f \in CtlFiles \cup GpuFiles, NEW c \in Clients,
              NEW h \in Objects \cup Devices \cup {c}, Free(t, f, c, h)
       PROVE  FileTypes'
  <2>1. f \in Files /\ Unpinned(f, c, h) \in Seq(Pin)
    BY UnpinnedKeeps DEF Files
  <2>2. Disowned(f, c, h) \subseteq RmObject
    BY DisownedKeeps
  <2>3. /\ pins' = [pins EXCEPT ![f] = Unpinned(f, c, h)] \/ UNCHANGED pins
        /\ rm' = Disowned(f, c, h) \/ UNCHANGED rm
        /\ UNCHANGED <<file, hosts, lingers, roots>>
    BY <1>16 DEF Free
  <2> QED
    BY <2>1, <2>2, <2>3
<1>7. ASSUME NEW t \in Threads, EndRegister(t)
      PROVE  FileTypes'
  <2>1. Asked(t, "register")
    BY <1>7 DEF EndRegister
  <2> DEFINE q == call[t].req
             p == [client |-> q.client, handle |-> q.handle, region |-> q.region]
  <2>2. p \in Pin /\ q.file \in Files
    BY <2>1, AskedIs, RequestKinds DEF Pin, Files
  <2> HIDE DEF p
  <2>3. <<p>> \in Seq(Pin) /\ <<>> \in Seq(Pin)
    BY <2>2
  <2>4. Kept(q, call[t].ok) \in Seq(Pin)
    BY <2>3 DEF Kept, p
  <2>5. Kept(q, call[t].ok) \o pins[q.file] \in Seq(Pin)
    BY <2>2, <2>4, ConcatProperties
  <2>6. pins' \in [Files -> Seq(Pin)]
    BY <1>7, <2>2, <2>5 DEF EndRegister
  <2> QED
    BY <1>7, <2>6 DEF EndRegister, host
<1>8. ASSUME NEW t \in Threads, EndFree(t)
      PROVE  FileTypes'
  <2>1. Asked(t, "free")
    BY <1>8 DEF EndFree
  <2> DEFINE q == call[t].req
  <2>2. q.file \in Files
    BY <2>1, AskedIs, RequestKinds DEF Files
  <2>3. Unpinned(q.file, q.client, q.handle) \in Seq(Pin)
    BY <2>2, UnpinnedKeeps
  <2>4. pins' \in [Files -> Seq(Pin)]
    BY <1>8, <2>2, <2>3 DEF EndFree
  <2> QED
    BY <1>8, <2>4 DEF EndFree, host
<1>9. ASSUME NEW t \in Threads, EndPlain(t)
      PROVE  FileTypes'
  BY <1>1, <1>9 DEF EndPlain, host
<1>10. ASSUME NEW t \in Threads, NEW f \in Files, BeginClose(t, f)
       PROVE  FileTypes'
  <2>1. <<>> \in Seq(Pin)
    OBVIOUS
  <2> QED
    BY <1>10, <2>1 DEF BeginClose, host
<1>11. CASE ServeRegister
  <2>1. Oldest("register")
    BY <1>11 DEF ServeRegister
  <2> DEFINE q == Head(line).req
             o == [client |-> q.client, handle |-> q.handle, parent |-> q.parent,
                   file |-> q.file, region |-> q.region, owed |-> Head(line).thread # None]
  <2>2. o \in RmObject
    BY <2>1, OldestIs, RequestKinds DEF RmObject
  <2> HIDE DEF o
  <2>3. rm' = rm \cup {o} \/ rm' = rm
    BY <1>11 DEF ServeRegister, o
  <2> QED
    BY <1>11, <2>2, <2>3 DEF ServeRegister
<1>12. CASE ServeFree
  <2> DEFINE q == Head(line).req
  <2>1. /\ rm' \subseteq rm \/ rm' = Disowned(q.file, q.client, q.handle)
        /\ roots' \subseteq roots /\ UNCHANGED <<file, pins, hosts, lingers>>
    BY <1>12 DEF ServeFree
  <2>2. Disowned(q.file, q.client, q.handle) \subseteq RmObject
    BY DisownedKeeps
  <2> QED
    BY <2>1, <2>2
<1>13. CASE ServeClose
  <2>1. /\ hosts' \subseteq hosts /\ lingers' \subseteq lingers \cup hosts
        /\ UNCHANGED <<file, pins, roots, rm>>
    BY <1>13 DEF ServeClose, host
  <2> QED
    BY <2>1
<1>17. ASSUME NEW f \in lingers, LetGo(f)
       PROVE  FileTypes'
  <2>1. /\ rm' \subseteq rm /\ roots' \subseteq roots /\ lingers' \subseteq lingers
        /\ UNCHANGED <<file, pins, hosts>>
    BY <1>17 DEF LetGo, Freed, guest
  <2> QED
    BY <2>1
<1>14. ASSUME \/ \E f \in UvmFiles, addr \in Addresses, len \in 1 .. PoolMaxLen : MapPool(f, addr, len)
              \/ \E v \in vmas : UnmapPool(v)
       PROVE  FileTypes'
  BY <1>1, <1>14 DEF MapPool, UnmapPool, host
<1>15. ASSUME \/ \E t \in Threads, f \in DrmFiles : MakeGem(t, f) \/ \E o \in names[f] : ExportGem(t, f, o)
              \/ \E t \in Threads : EndMakeGem(t) \/ CloseAgain(t)
              \/ \E x, y \in DOMAIN names : \E o \in names[x] \ names[y] : Pass(x, y, o)
              \/ \E t \in Threads, x \in DOMAIN names : \E o \in names[x] : DropName(t, x, o)
              \/ ServeMakeGem \/ ServeExport \/ ServeGemClose
       PROVE  FileTypes'
  BY <1>1, <1>15
  DEF MakeGem, ExportGem, EndMakeGem, CloseAgain, Pass, DropName, ServeMakeGem, ServeExport,
      ServeGemClose, rest, host
<1> QED
  BY <1>2, <1>3, <1>4, <1>5, <1>6, <1>7, <1>8, <1>9, <1>10, <1>11, <1>12, <1>13, <1>14, <1>15,
     <1>16, <1>17
  DEF NextLife

(* Proxies, handles and the host's numbers stay what they are, and a       *)
(* buffer that somebody has a handle for has a proxy.                      *)
LEMMA StepKeepsGems ==
  ASSUME LifeInv, [NextLife]_vars
  PROVE  GemTypes'
<1>1. ASSUME UNCHANGED gem PROVE GemTypes'
  BY <1>1 DEF LifeInv, GemTypes, gem
<1>2. CASE UNCHANGED vars
  BY <1>1, <1>2 DEF vars
<1>3. ASSUME \/ \E f \in Files : Open(f)
             \/ \E f \in CtlFiles, c \in Clients : NewClient(f, c)
             \/ \E r \in roots, d \in Devices : NewDevice(r, d)
             \/ \E t \in Threads, f \in CtlFiles \cup GpuFiles, c \in Clients :
                  \/ \E h \in Objects, parent \in Devices, region \in Regions :
                       Register(t, f, c, h, parent, region)
                  \/ \E h \in Objects \cup Devices \cup {c} : Free(t, f, c, h)
             \/ \E t \in Threads : EndRegister(t) \/ EndFree(t) \/ EndPlain(t)
             \/ \E t \in Threads, f \in Files : BeginClose(t, f)
             \/ ServeRegister \/ ServeFree
             \/ \E f \in UvmFiles, addr \in Addresses, len \in 1 .. PoolMaxLen : MapPool(f, addr, len)
             \/ \E v \in vmas : UnmapPool(v)
             \/ \E t \in Threads, f \in DrmFiles :
                  MakeGem(t, f) \/ \E o \in names[f] : ExportGem(t, f, o)
             \/ ServeClose \/ ServeExport
             \/ \E t \in Threads : CloseAgain(t)
      PROVE  GemTypes'
  <2>1. CASE \E f \in Files : Open(f)
    BY <1>1, <2>1 DEF Open
  <2>2. CASE \/ \E f \in CtlFiles, c \in Clients : NewClient(f, c)
             \/ \E r \in roots, d \in Devices : NewDevice(r, d)
    BY <1>1, <2>2 DEF NewClient, NewDevice
  <2>3. CASE \E t \in Threads, f \in CtlFiles \cup GpuFiles, c \in Clients :
               \E h \in Objects, parent \in Devices, region \in Regions :
                 Register(t, f, c, h, parent, region)
    BY <1>1, <2>3 DEF Register
  <2>4. CASE \E t \in Threads, f \in CtlFiles \cup GpuFiles, c \in Clients :
               \E h \in Objects \cup Devices \cup {c} : Free(t, f, c, h)
    BY <1>1, <2>4 DEF Free
  <2>5. CASE \/ \E t \in Threads : EndRegister(t) \/ EndFree(t) \/ EndPlain(t)
             \/ \E t \in Threads, f \in Files : BeginClose(t, f)
    BY <1>1, <2>5 DEF EndRegister, EndFree, EndPlain, BeginClose
  <2>6. CASE ServeRegister \/ ServeFree
    BY <1>1, <2>6 DEF ServeRegister, ServeFree
  <2>7. CASE \/ \E f \in UvmFiles, addr \in Addresses, len \in 1 .. PoolMaxLen : MapPool(f, addr, len)
             \/ \E v \in vmas : UnmapPool(v)
    BY <1>1, <2>7 DEF MapPool, UnmapPool
  <2>8. CASE \/ \E t \in Threads, f \in DrmFiles :
                  MakeGem(t, f) \/ \E o \in names[f] : ExportGem(t, f, o)
             \/ ServeClose \/ ServeExport
             \/ \E t \in Threads : CloseAgain(t)
    BY <1>1, <2>8 DEF MakeGem, ExportGem, ServeClose, ServeExport, CloseAgain
  <2> QED
    BY <1>3, <2>1, <2>2, <2>3, <2>4, <2>5, <2>6, <2>7, <2>8
<1>4. ASSUME NEW f \in lingers, LetGo(f)
      PROVE  GemTypes'
  <2>1. hostGems' \subseteq hostGems /\ UNCHANGED <<gems, names, nextGem, taken>>
    BY <1>4 DEF LetGo, Freed
  <2> QED
    BY <2>1, FS_Subset DEF LifeInv, GemTypes
<1>5. CASE ServeMakeGem
  <2>1. Oldest("gem_make")
    BY <1>5 DEF ServeMakeGem
  <2> DEFINE f == Head(line).req.file
             g == [file |-> f, handle |-> NumberFor(f), obj |-> nextGem]
  <2>2. f \in DrmFiles
    BY <2>1, OldestIs, RequestKinds
  <2>3. g \in HostGem
    BY <2>2, NumberIsFree DEF LifeInv, GemTypes, HostGem
  <2> HIDE DEF g
  <2>4. /\ UNCHANGED <<gems, names, taken>>
        /\ \/ hostGems' = hostGems \cup {g} /\ nextGem' = nextGem + 1
           \/ UNCHANGED <<hostGems, nextGem>>
    BY <1>5 DEF ServeMakeGem, g
  <2>5. IsFiniteSet(hostGems \cup {g})
    BY FS_AddElement DEF LifeInv, GemTypes
  <2>6. /\ hostGems' \subseteq HostGem /\ IsFiniteSet(hostGems')
        /\ nextGem' \in Nat /\ taken' \subseteq Nat
    BY <2>3, <2>4, <2>5 DEF LifeInv, GemTypes
  <2> QED
    BY <2>4, <2>6 DEF LifeInv, GemTypes
<1>6. CASE ServeGemClose
  <2> DEFINE q == Head(line).req
             T == {g.obj : g \in Meant(q)}
  <2>1. hostGems' \subseteq hostGems /\ UNCHANGED <<gems, names, nextGem>>
    BY <1>6 DEF ServeGemClose
  <2>2. T \subseteq Nat
    BY DEF LifeInv, GemTypes, HostGem, Meant
  <2>3. taken' = taken \/ taken' = taken \cup T
    BY <1>6 DEF ServeGemClose
  <2> HIDE DEF T
  <2>4. taken' \subseteq Nat
    BY <2>2, <2>3 DEF LifeInv, GemTypes
  <2> QED
    BY <2>1, <2>4, FS_Subset DEF LifeInv, GemTypes
<1>7. ASSUME NEW t \in Threads, EndMakeGem(t)
      PROVE  GemTypes'
  <2>1. Asked(t, "gem_make")
    BY <1>7 DEF EndMakeGem
  <2>2. call[t] # None /\ call[t].req \in Requests /\ call[t].req.op = "gem_make"
    BY <2>1, AskedIs
  <2> DEFINE f == call[t].req.file
             p == [obj |-> call[t].got.obj, owner |-> f, host |-> call[t].got.handle]
  <2>3. CASE UNCHANGED gem
    BY <1>1, <2>3
  <2>4. CASE /\ call[t].ok /\ gems' = gems \cup {p} /\ UNCHANGED <<hostGems, nextGem, taken>>
             /\ names' = [names EXCEPT ![f] = @ \cup {p.obj}]
    <3>1. call[t].got \in HostGem /\ f \in DrmFiles
      BY <2>2, <2>4, RequestKinds DEF LifeInv, GotInv
    <3>2. p \in Buffer /\ p.obj \in Nat
      BY <3>1 DEF HostGem, Buffer
    <3> HIDE DEF p, f
    <3>3. names' \in [DrmFiles \cup {None} -> SUBSET Nat]
      BY <2>4, <3>1, <3>2 DEF LifeInv, GemTypes
    <3>4. \A x \in DOMAIN names' : \A o \in names'[x] : \E r \in gems' : r.obj = o
      BY <2>4, <3>1 DEF LifeInv, GemTypes
    <3> QED
      BY <2>4, <3>2, <3>3, <3>4 DEF LifeInv, GemTypes
  <2> QED
    BY <1>7, <2>3, <2>4 DEF EndMakeGem, gem
<1>8. ASSUME NEW x \in DOMAIN names, NEW y \in DOMAIN names, NEW o \in names[x], Pass(x, y, o)
      PROVE  GemTypes'
  BY <1>8 DEF Pass, LifeInv, GemTypes
<1>9. ASSUME NEW t \in Threads, NEW x \in DOMAIN names, NEW o \in names[x], DropName(t, x, o)
      PROVE  GemTypes'
  <2>1. /\ UNCHANGED <<hostGems, nextGem, taken>> /\ names' = [names EXCEPT ![x] = @ \ {o}]
        /\ \/ UNCHANGED gems /\ \E y \in DOMAIN names : o \in names'[y]
           \/ gems' = {p \in gems : p.obj # o} /\ \A y \in DOMAIN names : o \notin names'[y]
    BY <1>9 DEF DropName
  <2>2. names' \in [DrmFiles \cup {None} -> SUBSET Nat] /\ \A y \in DOMAIN names : names'[y] \subseteq names[y]
    BY <2>1 DEF LifeInv, GemTypes
  <2> QED
    BY <2>1, <2>2 DEF LifeInv, GemTypes
<1> QED
  BY <1>2, <1>3, <1>4, <1>5, <1>6, <1>7, <1>8, <1>9 DEF NextLife

(* Whatever is lost or given up, every request is matched with the thread  *)
(* that waits for it, and every buffer with a handle has its proxy.        *)
THEOREM LifeInvariant == SpecLife => []LifeInv
<1>1. InitLife => LifeInv
  <2> SUFFICES ASSUME InitLife PROVE LifeInv
    OBVIOUS
  <2>1. AskInv /\ GotInv
    BY DEF InitLife, AskInv, CallTypes, Matched, GotInv
  <2>2. FileTypes
    <3>1. <<>> \in Seq(Pin)
      OBVIOUS
    <3> QED
      BY <3>1 DEF InitLife, FileTypes
  <2>3. GemTypes
    BY FS_EmptySet DEF InitLife, GemTypes
  <2> QED
    BY <2>1, <2>2, <2>3 DEF LifeInv
<1>2. LifeInv /\ [NextLife]_vars => LifeInv'
  BY StepKeepsCalls, StepKeepsFiles, StepKeepsGems DEF LifeInv
<1> QED
  BY <1>1, <1>2, PTL DEF SpecLife

----------------------------------------------------------------------------
(* What goes with a file *)

\* The requests in line.
InLine == {line[i].req : i \in 1 .. Len(line)}

(* What the three primitives do to the requests in line.                   *)
LEMMA LineChanges ==
  ASSUME LifeInv
  PROVE  /\ \A t \in Threads, q \in Requests :
              Enqueue(t, q) /\ (call[t] = None \/ call[t].state = "done") => InLine' = InLine \cup {q}
         /\ \A ok \in BOOLEAN, got \in HostGem \cup {None} :
              line # <<>> /\ AnswerWith(ok, got) =>
                /\ Head(line).req \in InLine /\ InLine' \subseteq InLine
                /\ InLine \subseteq InLine' \cup {Head(line).req}
         /\ \A t \in Threads :
              call[t] # None /\ Return(t) =>
                /\ InLine' = InLine
                /\ call[t].state = "done" \/ call[t].req \in InLine
         /\ \A t \in Threads :
              /\ call[t] # None /\ call[t].state = "sent"
              /\ line' = WithoutThread(t) /\ call' = [call EXCEPT ![t].state = "done"]
              => InLine' = InLine
         /\ UNCHANGED line => UNCHANGED InLine
<1>1. ASSUME NEW t \in Threads, NEW q \in Requests, Enqueue(t, q),
             call[t] = None \/ call[t].state = "done"
      PROVE  InLine' = InLine \cup {q}
  <2>0. /\ Len(line) \in Nat /\ Len(line') = Len(line) + 1
        /\ \A i \in 1 .. Len(line) : line'[i] = line[i]
        /\ line'[Len(line) + 1] = [thread |-> t, req |-> q]
    BY <1>1, EnqueueAdds DEF LifeInv
  <2>1. /\ Len(line) \in Nat /\ Len(line') = Len(line) + 1
        /\ \A i \in 1 .. Len(line) : line'[i] = line[i]
        /\ line'[Len(line) + 1].req = q
    BY <2>0
  <2>2. 1 .. Len(line') = 1 .. Len(line) \cup {Len(line) + 1}
    BY <2>1
  <2> QED
    BY <2>1, <2>2 DEF InLine
<1>2. ASSUME NEW ok \in BOOLEAN, NEW got \in HostGem \cup {None}, line # <<>>, AnswerWith(ok, got)
      PROVE  /\ Head(line).req \in InLine /\ InLine' \subseteq InLine
             /\ InLine \subseteq InLine' \cup {Head(line).req}
  <2>1. /\ Len(line) \in Nat \ {0} /\ Len(line') = Len(line) - 1 /\ Head(line) = line[1]
        /\ \A i \in 1 .. Len(line') : line'[i] = line[i + 1]
    BY <1>2, AnswerTakes DEF LifeInv
  <2>2. \A i \in 1 .. Len(line') : i + 1 \in 1 .. Len(line)
    BY <2>1
  <2>3. \A i \in 1 .. Len(line) : i = 1 \/ (i - 1 \in 1 .. Len(line') /\ (i - 1) + 1 = i)
    BY <2>1
  <2>4. 1 \in 1 .. Len(line)
    BY <2>1
  <2> QED
    <3>1. Head(line).req \in InLine /\ InLine' \subseteq InLine
      BY <2>1, <2>2, <2>4 DEF InLine
    <3>2. ASSUME NEW i \in 1 .. Len(line), i # 1 PROVE line[i].req \in InLine'
      <4>1. i - 1 \in 1 .. Len(line') /\ (i - 1) + 1 = i
        BY <2>3, <3>2
      <4>2. line'[i - 1] = line[i]
        BY <2>1, <4>1
      <4> QED
        BY <4>1, <4>2 DEF InLine
    <3> QED
      BY <2>1, <3>1, <3>2 DEF InLine
<1>3. ASSUME NEW t \in Threads, call[t] # None, Return(t)
      PROVE  InLine' = InLine /\ (call[t].state = "done" \/ call[t].req \in InLine)
  BY <1>3, ReturnEnds DEF LifeInv, InLine
<1>4. ASSUME NEW t \in Threads, call[t] # None, call[t].state = "sent",
             line' = WithoutThread(t), call' = [call EXCEPT ![t].state = "done"]
      PROVE  InLine' = InLine
  <2>1. /\ Len(line) \in Nat /\ Len(line') = Len(line)
        /\ \A i \in 1 .. Len(line) : line'[i].req = line[i].req
    BY <1>4, GiveUpKeeps
  <2> QED
    BY <2>1 DEF InLine
<1> QED
  BY <1>1, <1>2, <1>3, <1>4 DEF InLine

(* What a thread puts in line when its buffer got no proxy.                *)
LEMMA MakeLine ==
  ASSUME LifeInv, NEW t \in Threads, EndMakeGem(t) \/ CloseAgain(t)
  PROVE  \/ InLine' = InLine
         \/ \E q \in Requests : q.op \in Closings /\ InLine' = InLine \cup {q}
<1>1. CASE EndMakeGem(t)
  <2>1. Asked(t, "gem_make")
    BY <1>1 DEF EndMakeGem
  <2>2. call[t] # None /\ call[t].req \in Requests /\ call[t].req.op = "gem_make"
    BY <2>1, AskedIs
  <2> DEFINE f == call[t].req.file
             p == [obj |-> call[t].got.obj, owner |-> f, host |-> call[t].got.handle]
  <2>3. CASE ~ call[t].ok
    BY <1>1, <2>2, <2>3, LineChanges DEF EndMakeGem
  <2>4. ASSUME call[t].ok, NEW op \in Closings, Enqueue(t, About(op, f, p))
        PROVE  \E q \in Requests : q.op \in Closings /\ InLine' = InLine \cup {q}
    <3>1. call[t].state = "done" /\ call[t].got \in HostGem
      BY <2>2, <2>4 DEF LifeInv, GotInv
    <3>2. f \in DrmFiles
      BY <2>2, RequestKinds
    <3>3. p \in Buffer
      BY <3>1, <3>2 DEF HostGem, Buffer
    <3> HIDE DEF p, f
    <3>8. op \in {"gem_export"} \cup Closings /\ f \in DrmFiles \cup {None}
      BY <2>4, <3>2
    <3>4. About(op, f, p) \in Requests /\ About(op, f, p).op = op
      BY <3>3, <3>8, AboutIsRequest
    <3>5. PICK q : q = About(op, f, p)
      OBVIOUS
    <3>7. q \in Requests /\ q.op \in Closings
      BY <2>4, <3>4, <3>5
    <3>6. InLine' = InLine \cup {q}
      BY <2>4, <3>1, <3>5, <3>7, LineChanges
    <3> QED
      BY <3>6, <3>7
  <2>5. CASE UNCHANGED line
    BY <2>5, LineChanges
  <2> HIDE DEF p, f
  <2>6. ASSUME call[t].ok
        PROVE  (\E op \in Closings : Enqueue(t, About(op, f, p))) \/ UNCHANGED line
    BY <1>1, <2>6 DEF EndMakeGem, Closings, f, p
  <2> QED
    BY <2>3, <2>4, <2>5, <2>6
<1>2. CASE CloseAgain(t)
  <2>1. /\ call[t] # None /\ call[t].req \in Requests /\ call[t].req.op = "gem_first"
    BY <1>2, AskedIs DEF CloseAgain
  <2>2. PICK q : q = [call[t].req EXCEPT !.op = "gem_second"]
    OBVIOUS
  <2>3. q \in Requests /\ q.op \in Closings
    <3>1. q \in Requests
      BY <2>1, <2>2, RequestKinds
    <3>2. q.op = "gem_second"
      BY <2>1, <2>2 DEF Requests
    <3> QED
      BY <3>1, <3>2 DEF Closings
  <2>4. CASE call[t].state = "sent" /\ line' = WithoutThread(t) /\ call' = [call EXCEPT ![t].state = "done"]
    BY <2>1, <2>4, LineChanges
  <2>5. CASE call[t].state = "done" /\ Enqueue(t, q)
    BY <2>3, <2>5, LineChanges
  <2>6. CASE UNCHANGED line
    BY <2>6, LineChanges
  <2> QED
    BY <1>2, <2>2, <2>4, <2>5, <2>6 DEF CloseAgain
<1> QED
  BY <1>1, <1>2

(* What is in line is a request.                                           *)
LEMMA LineHolds == LifeInv => InLine \subseteq Requests
<1> SUFFICES ASSUME LifeInv PROVE InLine \subseteq Requests
  OBVIOUS
<1>1. \A i \in 1 .. Len(line) : line[i] \in Entry
  BY ElementOfSeq DEF LifeInv, AskInv, CallTypes
<1> QED
  BY <1>1 DEF InLine, Entry

Handle == Objects \cup Devices \cup Clients

\* Every object of a client hangs on its root: a set of handles that has the
\* root in it, and what is under each of its members, has them all.
RootedInv ==
  \A c \in Clients : \A H \in SUBSET Handle :
    (c \in H /\ \A o \in rm : o.client = c /\ o.parent \in H => o.handle \in H)
      => \A o \in rm : o.client = c => o.handle \in H

(* What RM frees with an object: it is there itself, and so is everything  *)
(* with the handle of something that is; with the root goes the client.    *)
LEMMA UnderIs ==
  ASSUME LifeInv, NEW c \in Clients, NEW h \in Handle
  PROVE  /\ \A o \in Under(c, h) : o \in rm /\ o.client = c
         /\ \A o \in rm : o.client = c /\ o.handle = h => o \in Under(c, h)
         /\ \A o \in Under(c, h) : \A x \in rm :
              x.client = c /\ (x.handle = o.handle \/ x.parent = o.handle) => x \in Under(c, h)
         /\ RootedInv => \A o \in rm : o.client = c /\ h = c => o \in Under(c, h)
<1> DEFINE mine == {o \in rm : o.client = c}
           Closed(H) == h \in H /\ \A o \in mine : o.parent \in H => o.handle \in H
           Hs == SUBSET ({h} \cup {x.handle : x \in mine})
<1>1. Under(c, h) = {o \in mine : \A H \in Hs : Closed(H) => o.handle \in H}
  BY DEF Under
<1>2. \A H \in Hs : H \in SUBSET Handle
  BY DEF LifeInv, FileTypes, RmObject, Handle
<1>3. ASSUME RootedInv, NEW o \in rm, o.client = c, h = c
      PROVE  o \in Under(c, h)
  BY <1>1, <1>2, <1>3 DEF RootedInv
<1> QED
  BY <1>1, <1>3

(* RM's objects hang on their roots as they come and go.                   *)
LEMMA RootedAdds ==
  ASSUME RootedInv, NEW o, o.handle \in Handle, rm' = rm \cup {o},
         o.parent = o.client \/ \E x \in rm : x.client = o.client /\ x.handle = o.parent
  PROVE  RootedInv'
BY DEF RootedInv

(* What RM frees is all that hangs on something it frees.                  *)
LEMMA RootedFrees ==
  ASSUME LifeInv, RootedInv, NEW c \in Clients, NEW h \in Handle, rm' = rm \ Under(c, h)
  PROVE  RootedInv'
<1> DEFINE U == Under(c, h)
<1>1. /\ \A o \in U : o \in rm /\ o.client = c
      /\ \A o \in U : \A x \in rm :
           x.client = c /\ (x.handle = o.handle \/ x.parent = o.handle) => x \in U
  BY UnderIs
<1> HIDE DEF U
<1>2. \A o \in U : o.handle \in Handle
  BY <1>1 DEF LifeInv, FileTypes, RmObject, Handle
<1> SUFFICES ASSUME NEW d \in Clients, NEW H \in SUBSET Handle, d \in H,
                    \A o \in rm' : o.client = d /\ o.parent \in H => o.handle \in H,
                    NEW x \in rm', x.client = d
             PROVE  x.handle \in H
  BY DEF RootedInv
<1>3. rm' = rm \ U
  BY DEF U
<1>4. CASE d # c
  <2>1. \A o \in rm : o.client = d => o \in rm'
    BY <1>1, <1>3, <1>4
  <2> QED
    BY <1>3, <2>1 DEF RootedInv
<1>5. CASE d = c
  <2> DEFINE H2 == H \cup {o.handle : o \in U}
  <2>1. H2 \in SUBSET Handle /\ d \in H2
    BY <1>2
  <2>2. ASSUME NEW o \in rm, o.client = d, o.parent \in H2 PROVE o.handle \in H2
    <3>1. CASE o \in U
      BY <3>1
    <3>2. CASE o \notin U
      <4>1. o.parent \in H
        BY <1>1, <1>5, <2>2, <3>2
      <4> QED
        BY <1>3, <2>2, <3>2, <4>1
    <3> QED
      BY <3>1, <3>2
  <2> HIDE DEF H2
  <2>3. x.handle \in H2
    BY <1>3, <2>1, <2>2 DEF RootedInv
  <2>4. \A o \in U : o.handle # x.handle
    BY <1>1, <1>3, <1>5
  <2> QED
    BY <2>3, <2>4 DEF H2
<1> QED
  BY <1>4, <1>5

(* An object that nothing is owed for hangs where it hung.                 *)
LEMMA RootedStays ==
  ASSUME RootedInv,
         \A o \in rm' : \E w \in rm :
           o.client = w.client /\ o.handle = w.handle /\ o.parent = w.parent,
         \A w \in rm : \E o \in rm' :
           o.client = w.client /\ o.handle = w.handle /\ o.parent = w.parent
  PROVE  RootedInv'
<1> SUFFICES ASSUME NEW c \in Clients, NEW H \in SUBSET Handle, c \in H,
                    \A o \in rm' : o.client = c /\ o.parent \in H => o.handle \in H,
                    NEW x \in rm', x.client = c
             PROVE  x.handle \in H
  BY DEF RootedInv
<1>1. \A w \in rm : w.client = c /\ w.parent \in H => w.handle \in H
  OBVIOUS
<1> QED
  BY <1>1 DEF RootedInv

(* The clients of a file that the host closes go whole.                    *)
LEMMA RootedDies ==
  ASSUME RootedInv, NEW dead, rm' = {o \in rm : o.client \notin dead}
  PROVE  RootedInv'
<1> SUFFICES ASSUME NEW c \in Clients, NEW H \in SUBSET Handle, c \in H,
                    \A o \in rm' : o.client = c /\ o.parent \in H => o.handle \in H,
                    NEW x \in rm', x.client = c
             PROVE  x.handle \in H
  BY DEF RootedInv
<1>1. \A o \in rm : o.client = c => o \in rm'
  OBVIOUS
<1> QED
  BY <1>1 DEF RootedInv

(* Whatever comes and goes, RM's objects hang on their roots.              *)
LEMMA StepKeepsRooted ==
  ASSUME LifeInv, RootedInv, [NextLife]_vars
  PROVE  RootedInv'
<1>1. ASSUME UNCHANGED rm PROVE RootedInv'
  BY <1>1 DEF RootedInv
<1>2. CASE UNCHANGED vars
  BY <1>1, <1>2 DEF vars, host
<1>3. ASSUME NEW f, NEW c, NEW h, rm' = Disowned(f, c, h)
      PROVE  RootedInv'
  BY <1>3, DisownedKeeps, RootedStays
<1>4. ASSUME \/ \E f \in Files : Open(f)
             \/ \E f \in CtlFiles, c \in Clients : NewClient(f, c)
             \/ \E t \in Threads, f \in CtlFiles \cup GpuFiles, c \in Clients :
                  \E h \in Objects, parent \in Devices, region \in Regions :
                    Register(t, f, c, h, parent, region)
             \/ \E t \in Threads : EndRegister(t) \/ EndFree(t) \/ EndPlain(t)
             \/ \E t \in Threads, f \in Files : BeginClose(t, f)
             \/ ServeClose
             \/ \E f \in UvmFiles, addr \in Addresses, len \in 1 .. PoolMaxLen : MapPool(f, addr, len)
             \/ \E v \in vmas : UnmapPool(v)
      PROVE  RootedInv'
  <2>1. UNCHANGED rm
    BY ONLY <1>4
    DEF Open, NewClient, Register, EndRegister, EndFree, EndPlain, BeginClose, ServeClose, MapPool,
        UnmapPool, host
  <2> QED
    BY <1>1, <2>1
<1>5. ASSUME \/ \E t \in Threads, f \in DrmFiles :
                  MakeGem(t, f) \/ \E o \in names[f] : ExportGem(t, f, o)
             \/ \E t \in Threads : EndMakeGem(t) \/ CloseAgain(t)
             \/ \E x, y \in DOMAIN names : \E o \in names[x] \ names[y] : Pass(x, y, o)
             \/ \E t \in Threads, x \in DOMAIN names : \E o \in names[x] : DropName(t, x, o)
             \/ ServeMakeGem \/ ServeExport \/ ServeGemClose
      PROVE  RootedInv'
  BY <1>1, <1>5
  DEF MakeGem, ExportGem, EndMakeGem, CloseAgain, Pass, DropName, ServeMakeGem, ServeExport,
      ServeGemClose, rest, host
<1>6. ASSUME NEW r \in roots, NEW d \in Devices, NewDevice(r, d)
      PROVE  RootedInv'
  <2> DEFINE n == [client |-> r.client, handle |-> d, parent |-> r.client,
                   file |-> r.file, region |-> None, owed |-> TRUE]
  <2>1. rm' = rm \cup {n}
    BY <1>6 DEF NewDevice
  <2>2. n.parent = n.client /\ n.handle \in Handle
    BY DEF Handle
  <2> HIDE DEF n
  <2> QED
    BY <2>1, <2>2, RootedAdds
<1>7. ASSUME NEW t \in Threads, NEW f, NEW c, NEW h, Free(t, f, c, h)
      PROVE  RootedInv'
  BY <1>1, <1>3, <1>7 DEF Free
<1>8. CASE ServeRegister
  <2> DEFINE q == Head(line).req
             n == [client |-> q.client, handle |-> q.handle, parent |-> q.parent,
                   file |-> q.file, region |-> q.region, owed |-> Head(line).thread # None]
  <2>1. Oldest("register")
    BY <1>8 DEF ServeRegister
  <2>2. n.handle \in Handle
    BY <2>1, OldestIs, RequestKinds DEF Handle
  <2>3. \/ UNCHANGED rm
        \/ /\ rm' = rm \cup {n}
           /\ n.parent = n.client \/ \E x \in rm : x.client = n.client /\ x.handle = n.parent
    BY <1>8 DEF ServeRegister, Alive
  <2> HIDE DEF n
  <2> QED
    BY <1>1, <2>2, <2>3, RootedAdds
<1>9. CASE ServeFree
  <2> DEFINE q == Head(line).req
  <2>1. Oldest("free")
    BY <1>9 DEF ServeFree
  <2>2. q.client \in Clients /\ q.handle \in Handle
    BY <2>1, OldestIs, RequestKinds DEF Handle
  <2>3. rm' = rm \ Under(q.client, q.handle) \/ rm' = Disowned(q.file, q.client, q.handle)
    BY <1>9 DEF ServeFree
  <2> HIDE DEF q
  <2> QED
    BY <1>3, <2>2, <2>3, RootedFrees
<1>10. ASSUME NEW f \in lingers, LetGo(f)
       PROVE  RootedInv'
  BY <1>10, RootedDies DEF LetGo, Freed
<1> QED
  BY <1>2, <1>4, <1>5, <1>6, <1>7, <1>8, <1>9, <1>10 DEF NextLife

\* A file is in the backend's table while it is open, and a mapping needs it to be.
HostedInv ==
  /\ \A f \in Files : file[f] = "open" => f \in hosts
  /\ \A f \in hosts : file[f] # "none"
  /\ \A q \in InLine : q.op = "close" => file[q.file] = "closed"
  /\ \A o \in rm : file[o.file] # "none"
  /\ \A v \in vmas : v.file \in Files /\ file[v.file] = "open"
  /\ \A f \in lingers : f \notin hosts /\ file[f] = "closed"
  /\ RootedInv
  /\ NothingOutlivesItsFile

(* The table, and all that was made through its files, stay in step,       *)
(* whatever is in line.                                                    *)
LEMMA StepKeepsHosted ==
  ASSUME LifeInv, HostedInv, [NextLife]_vars
  PROVE  HostedInv'
<1> USE DEF NothingOutlivesItsFile
<1>0. RootedInv'
  BY StepKeepsRooted DEF HostedInv
<1> DEFINE kept == <<file, hosts, lingers, spans, pools, roots, rm, hostGems, vmas>>
<1>1. ASSUME UNCHANGED kept, \A q \in InLine' : q.op = "close" => q \in InLine
      PROVE  HostedInv'
  BY <1>0, <1>1 DEF HostedInv
<1>2. CASE UNCHANGED vars
  BY <1>1, <1>2, LineChanges DEF vars, guest, host, uvm, gem
<1>3. ASSUME NEW f \in Files, Open(f)
      PROVE  HostedInv'
  <2>1. /\ file[f] = "none" /\ hosts' = hosts \cup {f}
        /\ file' = [file EXCEPT ![f] = "open"] \/ file' = [file EXCEPT ![f] = "closed"]
        /\ UNCHANGED <<lingers, spans, pools, roots, rm, hostGems, vmas, line>>
    BY <1>3 DEF Open, host, uvm, gem
  <2>2. \A g \in Files : file'[g] = IF g = f THEN file'[f] ELSE file[g]
    BY <2>1 DEF LifeInv, FileTypes
  <2>3. file'[f] \in {"open", "closed"} /\ f \in hosts'
    BY <2>1 DEF LifeInv, FileTypes
  <2>4. \A q \in InLine : q.op = "close" => q.file \in Files
    BY LineHolds, RequestKinds
  <2>5. hosts' \subseteq Files /\ lingers \subseteq Files /\ \A o \in rm : o.file \in Files
    BY <2>1 DEF LifeInv, FileTypes, RmObject, Files
  <2> QED
    BY <1>0, <2>1, <2>2, <2>3, <2>4, <2>5, LineChanges DEF HostedInv
<1>4. ASSUME NEW f \in CtlFiles, NEW c \in Clients, NewClient(f, c)
      PROVE  HostedInv'
  <2>1. /\ file[f] = "open" /\ roots' = roots \cup {[client |-> c, file |-> f]}
        /\ UNCHANGED <<file, hosts, lingers, spans, pools, rm, hostGems, vmas, line>>
    BY <1>4 DEF NewClient, uvm, gem
  <2>2. f \in hosts
    BY <2>1 DEF HostedInv, Files
  <2> QED
    BY <1>0, <2>1, <2>2, LineChanges DEF HostedInv
<1>5. ASSUME NEW r \in roots, NEW d \in Devices, NewDevice(r, d)
      PROVE  HostedInv'
  <2>1. /\ file[r.file] = "open"
        /\ \A o \in rm' : o \in rm \/ (o.file = r.file /\ o.client = r.client)
        /\ UNCHANGED <<file, hosts, lingers, spans, pools, roots, hostGems, vmas, line>>
    BY <1>5 DEF NewDevice, uvm, gem
  <2> QED
    BY <1>0, <2>1, LineChanges DEF HostedInv
<1>6. ASSUME NEW t \in Threads, NEW f \in CtlFiles \cup GpuFiles, NEW c \in Clients,
             NEW h \in Objects, NEW parent \in Devices, NEW region \in Regions,
             Register(t, f, c, h, parent, region)
      PROVE  HostedInv'
  <2>1. \E q \in Requests : q.op # "close" /\ Ask(t, q)
    BY <1>6, RequestKinds DEF Register
  <2>2. UNCHANGED kept
    BY <1>6 DEF Register, host, uvm, gem
  <2> QED
    BY <1>1, <2>1, <2>2, LineChanges DEF Ask
<1>22. ASSUME NEW g, NEW c, NEW h, rm' = Disowned(g, c, h)
       PROVE  \A o \in rm' : \E w \in rm : o.file = w.file /\ o.client = w.client
  BY <1>22, DisownedKeeps
<1>23. ASSUME NEW t \in Threads, NEW f \in CtlFiles \cup GpuFiles, NEW c \in Clients,
              NEW h \in Objects \cup Devices \cup {c}, Free(t, f, c, h)
       PROVE  HostedInv'
  <2>1. \/ UNCHANGED rm /\ \E q \in Requests : q.op # "close" /\ Ask(t, q)
        \/ rm' = Disowned(f, c, h) /\ UNCHANGED line
    BY <1>23, RequestKinds DEF Free
  <2>2. UNCHANGED <<file, hosts, lingers, spans, pools, roots, hostGems, vmas>>
    BY <1>23 DEF Free, uvm, gem
  <2>3. CASE UNCHANGED rm /\ \E q \in Requests : q.op # "close" /\ Ask(t, q)
    BY <1>1, <2>2, <2>3, LineChanges DEF Ask
  <2>4. CASE rm' = Disowned(f, c, h) /\ UNCHANGED line
    <3>1. \A o \in rm' : \E w \in rm : o.file = w.file /\ o.client = w.client
      BY <1>22, <2>4
    <3>2. UNCHANGED InLine
      BY <2>4, LineChanges
    <3> QED
      BY <1>0, <2>2, <3>1, <3>2 DEF HostedInv
  <2> QED
    BY <2>1, <2>3, <2>4
<1>7. ASSUME NEW t \in Threads, EndRegister(t) \/ EndFree(t) \/ EndPlain(t)
      PROVE  HostedInv'
  <2>1. call[t] # None /\ Return(t) /\ UNCHANGED kept
    BY <1>7 DEF EndRegister, EndFree, EndPlain, Asked, host, uvm, gem
  <2> QED
    BY <1>1, <2>1, LineChanges
<1>8. ASSUME NEW t \in Threads, NEW f \in Files, BeginClose(t, f)
      PROVE  HostedInv'
  <2> DEFINE q == [op |-> "close", file |-> f, client |-> None, handle |-> None]
  <2>1. /\ file[f] = "open" /\ file' = [file EXCEPT ![f] = "closed"]
        /\ \A v \in vmas : v.file # f
        /\ UNCHANGED <<hosts, lingers, spans, pools, roots, rm, hostGems, vmas>>
    BY <1>8 DEF BeginClose, host, uvm, gem
  <2>2. q \in Requests /\ q.file = f
    BY RequestKinds
  <2>3. Ask(t, q) \/ UNCHANGED <<call, line>>
    BY <1>8 DEF BeginClose
  <2> HIDE DEF q
  <2>4. InLine' = InLine \/ InLine' = InLine \cup {q}
    BY <2>2, <2>3, LineChanges DEF Ask
  <2>5. \A g \in Files : file'[g] = IF g = f THEN "closed" ELSE file[g]
    BY <2>1 DEF LifeInv, FileTypes
  <2>6. \A r \in InLine : r.op = "close" => r.file \in Files
    BY LineHolds, RequestKinds
  <2>7. hosts \subseteq Files /\ lingers \subseteq Files /\ \A o \in rm : o.file \in Files
    BY DEF LifeInv, FileTypes, RmObject, Files
  <2> QED
    BY <1>0, <2>1, <2>2, <2>4, <2>5, <2>6, <2>7 DEF HostedInv
<1>9. CASE ServeRegister
  <2>1. Oldest("register")
    BY <1>9 DEF ServeRegister
  <2> DEFINE q == Head(line).req
  <2>2. line # <<>> /\ \E ok \in BOOLEAN : AnswerWith(ok, None)
    BY <1>9 DEF ServeRegister, Oldest, Answer
  <2>3. InLine' \subseteq InLine
    BY <2>2, LineChanges
  <2>4. /\ UNCHANGED <<file, hosts, lingers, pools, roots, hostGems, vmas>>
        /\ \/ UNCHANGED <<rm, spans>>
           \/ /\ q.file \in hosts /\ Alive(q.client, q.parent)
              /\ \A o \in rm' : o \in rm \/ (o.file = q.file /\ o.client = q.client)
              /\ \A s \in spans' : s \in spans \/ s.file = q.file
    BY <1>9 DEF ServeRegister, Spanned, SpanOf, uvm, gem
  <2> HIDE DEF q
  <2>5. Alive(q.client, q.parent) => \E r \in roots : r.client = q.client
    BY DEF HostedInv, Alive
  <2> QED
    BY <1>0, <2>3, <2>4, <2>5 DEF HostedInv
<1>10. CASE ServeFree
  <2>1. line # <<>> /\ \E ok \in BOOLEAN : AnswerWith(ok, None)
    BY <1>10 DEF ServeFree, Oldest, Answer
  <2>2. InLine' \subseteq InLine
    BY <2>1, LineChanges
  <2> DEFINE q == Head(line).req
  <2>3. UNCHANGED <<file, hosts, lingers, pools, hostGems, vmas>>
    BY <1>10 DEF ServeFree, uvm, gem
  <2>4. \/ /\ rm' = rm \ Under(q.client, q.handle)
           /\ roots' = {r \in roots : ~ (r.client = q.client /\ q.handle = q.client)}
           /\ spans' \subseteq spans
        \/ rm' = Disowned(q.file, q.client, q.handle) /\ UNCHANGED <<roots, spans>>
    BY <1>10 DEF ServeFree
  <2>5. q.client \in Clients /\ q.handle \in Handle
    BY <1>10, OldestIs, RequestKinds DEF ServeFree, Handle
  <2> HIDE DEF q
  <2>6. CASE /\ rm' = rm \ Under(q.client, q.handle)
             /\ roots' = {r \in roots : ~ (r.client = q.client /\ q.handle = q.client)}
             /\ spans' \subseteq spans
    <3>1. \A o \in rm' : o \in rm /\ ~ (o.client = q.client /\ q.handle = q.client)
      BY <2>5, <2>6, UnderIs DEF HostedInv
    <3>2. \A o \in rm' : \E r \in roots' : r.client = o.client
      BY <2>6, <3>1 DEF HostedInv
    <3> QED
      BY <1>0, <2>2, <2>3, <2>6, <3>1, <3>2 DEF HostedInv
  <2>7. CASE rm' = Disowned(q.file, q.client, q.handle) /\ UNCHANGED <<roots, spans>>
    <3>1. \A o \in rm' : \E w \in rm : o.file = w.file /\ o.client = w.client
      BY <1>22, <2>7
    <3> QED
      BY <1>0, <2>2, <2>3, <2>7, <3>1 DEF HostedInv
  <2> QED
    BY <2>4, <2>6, <2>7
<1>11. CASE ServeClose
  <2>1. Oldest("close")
    BY <1>11 DEF ServeClose
  <2> DEFINE f == Head(line).req.file
  <2>2. line # <<>> /\ \E ok \in BOOLEAN : AnswerWith(ok, None)
    BY <1>11, CloseAnswers
  <2>3. Head(line).req \in InLine /\ InLine' \subseteq InLine
    BY <2>2, LineChanges
  <2>4. file[f] = "closed"
    BY <2>1, <2>3 DEF HostedInv, Oldest
  <2>5. /\ UNCHANGED <<file, vmas, roots, rm, hostGems>> /\ hosts' = hosts \ {f}
        /\ \A s \in spans' : s \in spans /\ s.file # f
        /\ \A p \in pools' : p \in pools /\ p.handle # f
    BY <1>11 DEF ServeClose, Left, host, gem
  <2>6. /\ \A g \in lingers' : g \in lingers \/ g = f
        /\ \A g \in CtlFiles \cup DrmFiles : g \in hosts => g \in hosts' \cup lingers'
        /\ lingers \subseteq lingers'
    BY <1>11 DEF ServeClose
  <2> HIDE DEF f
  <2>7. /\ \A r \in roots : r.file \in CtlFiles
        /\ \A g \in hostGems : g.file \in DrmFiles
    BY DEF LifeInv, FileTypes, GemTypes, HostGem
  <2> QED
    BY <1>0, <2>3, <2>4, <2>5, <2>6, <2>7 DEF HostedInv
<1>24. ASSUME NEW f \in lingers, LetGo(f)
       PROVE  HostedInv'
  <2> DEFINE dead == {r.client : r \in {x \in roots : x.file = f}}
  <2>1. /\ UNCHANGED <<file, vmas, hosts, spans, pools, line>> /\ lingers' = lingers \ {f}
        /\ \A g \in hostGems' : g \in hostGems /\ g.file # f
        /\ roots' = {r \in roots : r.client \notin dead}
        /\ rm' = {o \in rm : o.client \notin dead}
    BY <1>24 DEF LetGo, Freed, guest
  <2>2. \A r \in roots' : r \in roots /\ r.file # f
    BY <2>1
  <2> HIDE DEF dead
  <2>3. \A o \in rm' : o \in rm /\ \E r \in roots' : r.client = o.client
    BY <2>1 DEF HostedInv
  <2> QED
    BY <1>0, <2>1, <2>2, <2>3, LineChanges DEF HostedInv
<1>12. ASSUME NEW f \in UvmFiles, NEW addr \in Addresses, NEW len \in 1 .. PoolMaxLen,
              MapPool(f, addr, len)
       PROVE  HostedInv'
  <2>1. /\ file[f] = "open" /\ f \in Files
        /\ \A p \in pools' : p \in pools \/ p.handle = f
        /\ \A v \in vmas' : v \in vmas \/ v.file = f
        /\ UNCHANGED <<file, line, hosts, lingers, spans, roots, rm, hostGems>>
    BY <1>12 DEF MapPool, Insert, Files, host, gem
  <2> QED
    BY <1>0, <2>1, LineChanges DEF HostedInv
<1>13. ASSUME NEW v \in vmas, UnmapPool(v)
       PROVE  HostedInv'
  <2>1. /\ pools' \subseteq pools /\ vmas' \subseteq vmas
        /\ UNCHANGED <<file, line, hosts, lingers, spans, roots, rm, hostGems>>
    BY <1>13 DEF UnmapPool, host, gem
  <2> QED
    BY <1>0, <2>1, LineChanges DEF HostedInv
<1>14. ASSUME NEW t \in Threads, NEW f \in DrmFiles, MakeGem(t, f)
       PROVE  HostedInv'
  <2>1. \E q \in Requests : q.op # "close" /\ Ask(t, q)
    BY <1>14, RequestKinds DEF MakeGem
  <2>2. UNCHANGED kept
    BY <1>14 DEF MakeGem, rest, host, uvm, gem
  <2> QED
    BY <1>1, <2>1, <2>2, LineChanges DEF Ask
<1>15. ASSUME NEW t \in Threads, NEW f \in DrmFiles, NEW o \in names[f], ExportGem(t, f, o)
       PROVE  HostedInv'
  <2>1. f \in DOMAIN names /\ f \in DrmFiles \cup {None}
    BY DEF LifeInv, GemTypes
  <2>2. About("gem_export", f, Proxy(o)) \in Requests /\ About("gem_export", f, Proxy(o)).op = "gem_export"
    BY <2>1, ProxyStands, AboutIsRequest
  <2>3. UNCHANGED kept /\ Ask(t, About("gem_export", f, Proxy(o)))
    BY <1>15 DEF ExportGem, On, rest, host, uvm, gem
  <2> QED
    BY <1>1, <2>2, <2>3, LineChanges DEF Ask
<1>16. ASSUME NEW t \in Threads, EndMakeGem(t) \/ CloseAgain(t)
       PROVE  HostedInv'
  <2>1. UNCHANGED kept
    BY <1>16 DEF EndMakeGem, CloseAgain, rest, host, uvm, gem
  <2>2. \A q \in InLine' : q.op = "close" => q \in InLine
    BY <1>16, MakeLine DEF Closings
  <2> QED
    BY <1>1, <2>1, <2>2
<1>17. ASSUME NEW x \in DOMAIN names, NEW y \in DOMAIN names, NEW o \in names[x], Pass(x, y, o)
       PROVE  HostedInv'
  BY <1>1, <1>17, LineChanges DEF Pass, rest, host, uvm
<1>18. ASSUME NEW t \in Threads, NEW x \in DOMAIN names, NEW o \in names[x], DropName(t, x, o)
       PROVE  HostedInv'
  <2>1. x \in DrmFiles \cup {None}
    BY DEF LifeInv, GemTypes
  <2>2. About("gem_close", x, Proxy(o)) \in Requests /\ About("gem_close", x, Proxy(o)).op = "gem_close"
    BY <2>1, ProxyStands, AboutIsRequest DEF Closings
  <2>3. /\ Ask(t, About("gem_close", x, Proxy(o))) \/ UNCHANGED line
        /\ UNCHANGED kept
    BY <1>18 DEF DropName, On, rest, host, uvm
  <2> QED
    BY <1>1, <2>2, <2>3, LineChanges DEF Ask
<1>19. CASE ServeMakeGem
  <2>1. Oldest("gem_make")
    BY <1>19 DEF ServeMakeGem
  <2> DEFINE f == Head(line).req.file
             g == [file |-> f, handle |-> NumberFor(f), obj |-> nextGem]
  <2>2. line # <<>> /\ f \in DrmFiles
    BY <2>1, OldestIs, RequestKinds
  <2>3. g \in HostGem
    BY <2>2, NumberIsFree DEF LifeInv, GemTypes, HostGem
  <2>4. /\ AnswerWith(TRUE, g) \/ AnswerWith(FALSE, None)
        /\ UNCHANGED <<file, hosts, lingers, spans, pools, roots, rm, vmas>>
        /\ \A r \in hostGems' : r \in hostGems \/ (r.file = f /\ f \in hosts)
    <3>1. UNCHANGED <<file, hosts, lingers, spans, pools, roots, rm, vmas>>
      BY <1>19 DEF ServeMakeGem, rest, host, uvm
    <3>2. \/ f \in hosts /\ hostGems' = hostGems \cup {g} /\ AnswerWith(TRUE, g)
          \/ UNCHANGED hostGems /\ AnswerWith(FALSE, None)
      BY <1>19 DEF ServeMakeGem, Answer
    <3>3. g.file = f
      OBVIOUS
    <3> HIDE DEF g, f
    <3>4. \A r \in hostGems' : r \in hostGems \/ (r.file = f /\ f \in hosts)
      BY <3>2, <3>3
    <3>5. AnswerWith(TRUE, g) \/ AnswerWith(FALSE, None)
      BY <3>2
    <3> QED
      BY <3>1, <3>4, <3>5
  <2>5. InLine' \subseteq InLine
    BY <2>2, <2>3, <2>4, LineChanges
  <2> HIDE DEF f, g
  <2> QED
    BY <1>0, <2>4, <2>5 DEF HostedInv
<1>20. CASE ServeExport
  <2>1. line # <<>> /\ (AnswerWith(FALSE, None) \/ \E g \in hostGems : AnswerWith(TRUE, g))
    BY <1>20 DEF ServeExport, Oldest, Answer, Meant
  <2>2. UNCHANGED kept /\ hostGems \subseteq HostGem
    BY <1>20 DEF ServeExport, rest, host, uvm, gem, LifeInv, GemTypes
  <2> QED
    BY <1>1, <2>1, <2>2, LineChanges
<1>21. CASE ServeGemClose
  <2>1. line # <<>> /\ AnswerWith(TRUE, None)
    BY <1>21 DEF ServeGemClose, Oldest, Answer
  <2>2. hostGems' \subseteq hostGems /\ UNCHANGED <<file, hosts, lingers, spans, pools, roots, rm, vmas>>
    BY <1>21 DEF ServeGemClose, rest, host, uvm
  <2>3. InLine' \subseteq InLine
    BY <2>1, LineChanges
  <2> QED
    BY <1>0, <2>2, <2>3 DEF HostedInv
<1> QED
  BY <1>2, <1>3, <1>4, <1>5, <1>6, <1>7, <1>8, <1>9, <1>10, <1>11, <1>12, <1>13, <1>14, <1>15,
     <1>16, <1>17, <1>18, <1>19, <1>20, <1>21, <1>23, <1>24
  DEF NextLife

(* When a file has left the backend's table, no registration and no pool   *)
(* made through it is left (handle_close), and when the event pump has let *)
(* go of it, RM has freed its clients with all their objects, and the host *)
(* its buffers, whatever was in line behind the close or given up.         *)
THEOREM NothingIsLeftBehind == SpecLife => []NothingOutlivesItsFile
<1>1. InitLife => HostedInv
  BY DEF InitLife, HostedInv, InLine, NothingOutlivesItsFile, RootedInv
<1>2. LifeInv /\ HostedInv /\ [NextLife]_vars => HostedInv'
  BY StepKeepsHosted
<1>3. HostedInv => NothingOutlivesItsFile
  BY DEF HostedInv
<1> QED
  BY <1>1, <1>2, <1>3, LifeInvariant, PTL DEF SpecLife

----------------------------------------------------------------------------
(* Pools and mappings *)

\* A mapping's pool is on the books, under the mapping's own id, and the VMM
\* shows it.
MapsInv ==
  /\ IdCounts
  /\ \A p \in pools : p.id < nextId
  /\ \A p, q \in pools : p.id = q.id => p = q
  /\ \A v \in vmas :
       /\ v.id < nextId
       /\ \E p \in pools : p.id = v.id /\ p.offset = v.offset /\ p.handle = v.file
  /\ \A v, w \in vmas : v.id = w.id => v = w
  /\ PoolShowsItself

(* Pools that do not overlap begin at different offsets.                   *)
LEMMA OffsetsDiffer ==
  ASSUME ApertureInv, NEW p \in pools, NEW q \in pools, p # q
  PROVE  p.offset # q.offset
<1>1. /\ p.offset \in Nat /\ p.len \in Nat \ {0} /\ q.offset \in Nat /\ q.len \in Nat \ {0}
      /\ p.offset + p.len <= q.offset \/ q.offset + q.len <= p.offset
  BY DEF ApertureInv, TypeOK, Pool, PoolsApart, OffsetsApart
<1> QED
  BY <1>1

(* withdraw_pool takes away no slot but those of the pools it is for.      *)
LEMMA WithdrawLeaves ==
  ASSUME ApertureInv, NEW P \in SUBSET pools, Withdraw(P),
         NEW s \in slots, NEW p \in pools \ P, s.offset = p.offset
  PROVE  s \in slots'
<1>1. \A q \in P : q.offset # s.offset
  BY OffsetsDiffer
<1> QED
  BY <1>1 DEF Withdraw

(* A mapping keeps its pool, and the pool its slot.                        *)
LEMMA StepKeepsMaps ==
  ASSUME ApertureInv, HostedInv, LifeInv, MapsInv, [NextLife]_vars
  PROVE  MapsInv'
<1> USE DEF IdCounts
<1>1. ASSUME UNCHANGED uvm PROVE MapsInv'
  BY <1>1 DEF MapsInv, uvm, PoolShowsItself
<1>2. CASE UNCHANGED vars
  BY <1>1, <1>2 DEF vars, guest, uvm
<1>3. ASSUME \/ \E f \in Files : Open(f)
             \/ \E f \in CtlFiles, c \in Clients : NewClient(f, c)
             \/ \E r \in roots, d \in Devices : NewDevice(r, d)
             \/ \E t \in Threads, f \in CtlFiles \cup GpuFiles, c \in Clients :
                  \/ \E h \in Objects, parent \in Devices, region \in Regions :
                       Register(t, f, c, h, parent, region)
                  \/ \E h \in Objects \cup Devices \cup {c} : Free(t, f, c, h)
             \/ \E t \in Threads : EndRegister(t) \/ EndFree(t) \/ EndPlain(t)
             \/ \E t \in Threads, f \in Files : BeginClose(t, f)
             \/ ServeRegister \/ ServeFree
             \/ \E f \in lingers : LetGo(f)
      PROVE  MapsInv'
  <2>1. CASE \E f \in Files : Open(f)
    BY <1>1, <2>1 DEF Open
  <2>2. CASE \/ \E f \in CtlFiles, c \in Clients : NewClient(f, c)
             \/ \E r \in roots, d \in Devices : NewDevice(r, d)
    BY <1>1, <2>2 DEF NewClient, NewDevice
  <2>3. CASE \E t \in Threads, f \in CtlFiles \cup GpuFiles, c \in Clients :
               \E h \in Objects, parent \in Devices, region \in Regions :
                 Register(t, f, c, h, parent, region)
    BY <1>1, <2>3 DEF Register
  <2>4. CASE \E t \in Threads, f \in CtlFiles \cup GpuFiles, c \in Clients :
               \E h \in Objects \cup Devices \cup {c} : Free(t, f, c, h)
    BY <1>1, <2>4 DEF Free
  <2>5. CASE \/ \E t \in Threads : EndRegister(t) \/ EndFree(t) \/ EndPlain(t)
             \/ \E t \in Threads, f \in Files : BeginClose(t, f)
    BY <1>1, <2>5 DEF EndRegister, EndFree, EndPlain, BeginClose
  <2>6. CASE ServeRegister \/ ServeFree
    BY <1>1, <2>6 DEF ServeRegister, ServeFree
  <2>7. CASE \E f \in lingers : LetGo(f)
    BY <1>1, <2>7 DEF LetGo, guest, uvm
  <2> QED
    BY <1>3, <2>1, <2>2, <2>3, <2>4, <2>5, <2>6, <2>7
<1>4. ASSUME \/ \E t \in Threads, f \in DrmFiles :
                  MakeGem(t, f) \/ \E o \in names[f] : ExportGem(t, f, o)
             \/ \E t \in Threads : EndMakeGem(t) \/ CloseAgain(t)
             \/ \E x, y \in DOMAIN names : \E o \in names[x] \ names[y] : Pass(x, y, o)
             \/ \E t \in Threads, x \in DOMAIN names : \E o \in names[x] : DropName(t, x, o)
             \/ ServeMakeGem \/ ServeExport \/ ServeGemClose
      PROVE  MapsInv'
  BY <1>1, <1>4
  DEF MakeGem, ExportGem, EndMakeGem, CloseAgain, Pass, DropName, ServeMakeGem, ServeExport,
      ServeGemClose, rest
<1>5. CASE ServeClose
  <2> DEFINE f == Head(line).req.file
             mine == {p \in pools : p.handle = f}
  <2>1. Oldest("close") /\ (\E ok \in BOOLEAN : AnswerWith(ok, None)) /\ line # <<>>
    BY <1>5, CloseAnswers DEF ServeClose
  <2>2. file[f] = "closed"
    BY <2>1, LineChanges DEF HostedInv, Oldest
  <2>3. pools' = pools \ mine /\ Withdraw(mine) /\ UNCHANGED <<vmas, nextId>>
    BY <1>5 DEF ServeClose
  <2> HIDE DEF f
  <2>4. \A v \in vmas : v.file # f
    BY <2>2 DEF HostedInv
  <2>5. \A v \in vmas : \A p \in pools : p.handle = v.file => p \in pools \ mine
    BY <2>4
  <2>6. mine \in SUBSET pools
    OBVIOUS
  <2> HIDE DEF mine
  <2>7. ASSUME NEW v \in vmas
        PROVE  /\ \E p \in pools' : p.id = v.id /\ p.offset = v.offset /\ p.handle = v.file
               /\ \E s \in slots' : /\ s.offset = v.offset /\ s.len = v.len
                                    /\ s.addr = v.addr /\ s.file = v.file
    <3>1. PICK p \in pools : p.id = v.id /\ p.offset = v.offset /\ p.handle = v.file
      BY DEF MapsInv
    <3>2. p \in pools \ mine
      BY <2>5, <3>1
    <3>3. PICK s \in slots : /\ s.offset = v.offset /\ s.len = v.len
                             /\ s.addr = v.addr /\ s.file = v.file
      BY DEF MapsInv, PoolShowsItself
    <3>4. s \in slots'
      BY <2>3, <2>6, <3>1, <3>2, <3>3, WithdrawLeaves
    <3> QED
      BY <2>3, <3>1, <3>2, <3>3, <3>4
  <2> QED
    BY <2>3, <2>7 DEF MapsInv, PoolShowsItself
<1>6. ASSUME NEW f \in UvmFiles, NEW addr \in Addresses, NEW len \in 1 .. PoolMaxLen,
             MapPool(f, addr, len)
      PROVE  MapsInv'
  <2> DEFINE p == [id |-> nextId, handle |-> f, addr |-> addr, offset |-> At(len), len |-> len]
             s == [offset |-> At(len), len |-> len, addr |-> addr, file |-> f]
             v == [file |-> f, addr |-> addr, len |-> len, offset |-> At(len), id |-> nextId]
  <2>1. /\ pools' = {q \in pools : q.id # nextId} \cup {p}
        /\ slots' = slots \cup {s} /\ nextId' = nextId + 1
        /\ vmas' = vmas \cup {v} \/ UNCHANGED vmas
    BY <1>6 DEF MapPool, Insert
  <2>2. /\ p.id = nextId /\ p.offset = v.offset /\ p.handle = v.file /\ v.id = nextId
        /\ s.offset = v.offset /\ s.len = v.len /\ s.addr = v.addr /\ s.file = v.file
    OBVIOUS
  <2> HIDE DEF p, s, v
  <2>3. \A q \in pools : q.id \in Nat /\ q.id < nextId
    BY FileLifeAssumption DEF MapsInv, ApertureInv, TypeOK, Pool
  <2>4. pools' = pools \cup {p} /\ nextId \in Nat
    BY <2>1, <2>3 DEF MapsInv
  <2>5. \A w \in vmas : w.id < nextId /\ w.id \in Nat
    BY <2>3 DEF MapsInv
  <2>6. \A w \in vmas' : w \in vmas \/ w = v
    BY <2>1
  <2>7. \A q \in pools' : q.id < nextId'
    BY <2>1, <2>2, <2>3, <2>4
  <2>8. \A q, r \in pools' : q.id = r.id => q = r
    BY <2>2, <2>3, <2>4 DEF MapsInv
  <2>9. \A w \in vmas' :
          /\ w.id < nextId'
          /\ \E q \in pools' : q.id = w.id /\ q.offset = w.offset /\ q.handle = w.file
    BY <2>1, <2>2, <2>4, <2>5, <2>6 DEF MapsInv
  <2>10. \A w, x \in vmas' : w.id = x.id => w = x
    BY <2>2, <2>4, <2>5, <2>6 DEF MapsInv
  <2>11. PoolShowsItself'
    BY <2>1, <2>2, <2>6 DEF MapsInv, PoolShowsItself
  <2>12. IdCounts'
    BY <2>1, <2>4 DEF MapsInv
  <2> QED
    BY <2>7, <2>8, <2>9, <2>10, <2>11, <2>12 DEF MapsInv
<1>7. ASSUME NEW v \in vmas, UnmapPool(v)
      PROVE  MapsInv'
  <2>1. vmas' = vmas \ {v} /\ UNCHANGED nextId
    BY <1>7 DEF UnmapPool
  <2>2. CASE UNCHANGED <<pools, slots>>
    BY <2>1, <2>2 DEF MapsInv, PoolShowsItself
  <2>3. CASE pools' = pools \ PoolOf(v) /\ Withdraw(PoolOf(v))
    <3>1. PoolOf(v) \in SUBSET pools
      BY DEF PoolOf
    <3>2. ASSUME NEW w \in vmas'
          PROVE  /\ \E p \in pools' : p.id = w.id /\ p.offset = w.offset /\ p.handle = w.file
                 /\ \E s \in slots' : /\ s.offset = w.offset /\ s.len = w.len
                                      /\ s.addr = w.addr /\ s.file = w.file
      <4>1. w \in vmas /\ w.id # v.id
        BY <2>1 DEF MapsInv
      <4>2. PICK p \in pools : p.id = w.id /\ p.offset = w.offset /\ p.handle = w.file
        BY <4>1 DEF MapsInv
      <4>3. p \in pools \ PoolOf(v)
        BY <4>1, <4>2 DEF PoolOf
      <4>4. PICK s \in slots : /\ s.offset = w.offset /\ s.len = w.len
                               /\ s.addr = w.addr /\ s.file = w.file
        BY <4>1 DEF MapsInv, PoolShowsItself
      <4>5. s \in slots'
        BY <2>3, <3>1, <4>2, <4>3, <4>4, WithdrawLeaves
      <4> QED
        BY <2>3, <4>2, <4>3, <4>4, <4>5
    <3> QED
      BY <2>1, <2>3, <3>2 DEF MapsInv, PoolShowsItself
  <2> QED
    BY <1>7, <2>2, <2>3 DEF UnmapPool
<1> QED
  BY <1>2, <1>3, <1>4, <1>5, <1>6, <1>7 DEF NextLife

(* A mapping of a UVM file shows the pool that was placed for it, whatever *)
(* became of the other pools, of the answers and of the VMM's slots.       *)
THEOREM MappingsShowTheirPools == SpecLife => []PoolShowsItself
<1>1. InitLife => HostedInv /\ MapsInv
  BY DEF InitLife, HostedInv, InLine, NothingOutlivesItsFile, RootedInv, MapsInv, IdCounts,
         PoolShowsItself
<1>2. SpecLife => []ApertureInv
  BY FileLifeImplementsAperture, ApertureInvariant, PTL DEF ImplementsAperture
<1>3. LifeInv /\ HostedInv /\ [NextLife]_vars => HostedInv'
  BY StepKeepsHosted
<1>4. ApertureInv /\ HostedInv /\ LifeInv /\ MapsInv /\ [NextLife]_vars => MapsInv'
  BY StepKeepsMaps
<1>5. MapsInv => PoolShowsItself
  BY DEF MapsInv
<1> QED
  BY <1>1, <1>2, <1>3, <1>4, <1>5, LifeInvariant, PTL DEF SpecLife

(* The aperture's search misses no room, whatever becomes of the files.    *)
THEOREM SearchIsExhaustiveInUse == SpecLife => []SearchIsExhaustive
  BY FileLifeImplementsAperture, SearchMissesNothing, PTL DEF ImplementsAperture

----------------------------------------------------------------------------
(* Page runs *)

(* A set of places in a sequence has a last one.                           *)
LEMMA GreatestExists ==
  ASSUME NEW n \in Nat, NEW s \in SUBSET (1 .. n), s # {}
  PROVE  Max(s) \in s /\ \A i \in s : i <= Max(s)
<1>1. PICK D : D = {n - i : i \in s}
  OBVIOUS
<1>2. D \in SUBSET Nat /\ D # {}
  <2>1. \A i \in s : i \in 1 .. n
    OBVIOUS
  <2>2. \A i \in 1 .. n : n - i \in Nat
    OBVIOUS
  <2>3. PICK i : i \in s
    OBVIOUS
  <2> QED
    BY <1>1, <2>1, <2>2, <2>3
<1>3. PICK d \in D : \A e \in D : d <= e
  BY <1>2, LeastExists
<1>4. PICK i \in s : d = n - i
  BY <1>1
<1>5. \A j \in s : i >= j
  <2> SUFFICES ASSUME NEW j \in s PROVE i >= j
    OBVIOUS
  <2>1. d <= n - j
    BY <1>1, <1>3
  <2> QED
    BY <1>4, <2>1
<1>6. PICK m : m = Max(s)
  OBVIOUS
<1>7. m \in s /\ \A j \in s : m >= j
  BY <1>5, <1>6 DEF Max
<1> QED
  BY <1>6, <1>7

\* What nvgpu_emit_page_runs does with one page more.
Emitted(runs, p) ==
  IF runs # <<>> /\ p = Last(runs).gpa + Last(runs).len
  THEN [runs EXCEPT ![Len(runs)].len = @ + 1]
  ELSE Append(runs, [gpa |-> p, len |-> 1])

\* The fold of Runs is over the places in the sequence, the last one last.
UpTo(pages, g, s) == IF s = {} THEN <<>> ELSE Emitted(g[s \ {Max(s)}], pages[Max(s)])
Emits(pages, g, D) == g = [s \in D |-> UpTo(pages, g, s)]

(* The recursion that the fold is defined by has a solution.               *)
LEMMA EmitsExist ==
  ASSUME NEW pages, NEW n \in Nat
  PROVE  \E g : Emits(pages, g, SUBSET (1 .. n))
<1> DEFINE Bad == {i \in Nat : ~ \E g : Emits(pages, g, SUBSET (1 .. i))}
<1> SUFFICES ASSUME Bad # {} PROVE FALSE
  OBVIOUS
<1>0. Bad \in SUBSET Nat
  OBVIOUS
<1>1. PICK i \in Bad : \A j \in Bad : i <= j
  <2> HIDE DEF Bad
  <2> QED
    BY <1>0, LeastExists
<1>2. CASE i = 0
  <2>1. PICK g : g = [s \in SUBSET (1 .. 0) |-> <<>>]
    OBVIOUS
  <2>2. \A s \in SUBSET (1 .. 0) : s = {}
    OBVIOUS
  <2>3. \A s \in SUBSET (1 .. 0) : UpTo(pages, g, s) = <<>>
    BY <2>2 DEF UpTo
  <2>4. Emits(pages, g, SUBSET (1 .. 0))
    BY <2>1, <2>3 DEF Emits
  <2> QED
    BY <1>1, <1>2, <2>4
<1>3. CASE i > 0
  <2>1. i \in Nat /\ i - 1 \in Nat
    BY <1>0, <1>1, <1>3
  <2>2. PICK g : Emits(pages, g, SUBSET (1 .. i - 1))
    <3>1. i - 1 \notin Bad
      <4> HIDE DEF Bad
      <4> QED
        BY <1>0, <1>1, <2>1
    <3> QED
      BY <2>1, <3>1
  <2>3. PICK h : h = [s \in SUBSET (1 .. i) |-> UpTo(pages, g, s)]
    OBVIOUS
  <2>4. ASSUME NEW s \in SUBSET (1 .. i) PROVE UpTo(pages, h, s) = UpTo(pages, g, s)
    <3>1. CASE s = {}
      BY <3>1 DEF UpTo
    <3>2. CASE s # {}
      <4>1. PICK t : t = s \ {Max(s)}
        OBVIOUS
      <4>2. t \in SUBSET (1 .. i - 1) /\ t \in SUBSET (1 .. i)
        <5>1. PICK m : m = Max(s)
          OBVIOUS
        <5>2. m \in s /\ \A j \in s : j <= m
          BY <2>1, <3>2, <5>1, GreatestExists
        <5>3. \A j \in s : j \in 1 .. i
          OBVIOUS
        <5>4. \A j \in t : j \in 1 .. i /\ j <= m /\ j # m
          BY <4>1, <5>1, <5>2, <5>3
        <5>5. \A j \in t : j \in 1 .. i - 1
          BY <2>1, <5>2, <5>3, <5>4
        <5> QED
          BY <5>4, <5>5
      <4>3. h[t] = UpTo(pages, g, t)
        BY <2>3, <4>2
      <4>4. g[t] = UpTo(pages, g, t)
        BY <2>2, <4>2 DEF Emits
      <4>5. h[s \ {Max(s)}] = g[s \ {Max(s)}]
        BY <4>1, <4>3, <4>4
      <4> QED
        BY <3>2, <4>5 DEF UpTo
    <3> QED
      BY <3>1, <3>2
  <2>5. Emits(pages, h, SUBSET (1 .. i))
    BY <2>3, <2>4 DEF Emits
  <2> QED
    BY <1>1, <2>1, <2>5
<1> QED
  BY <1>0, <1>1, <1>2, <1>3

(* The runs of a range come about page by page.                            *)
LEMMA RunsGrow ==
  ASSUME NEW pages \in Seq(Nat)
  PROVE  \E h : /\ h[0] = <<>>
                /\ \A i \in 1 .. Len(pages) : h[i] = Emitted(h[i - 1], pages[i])
                /\ Runs(pages) = h[Len(pages)]
<1>a. PICK n \in Nat : n = Len(pages)
  BY LenProperties
<1>0. n \in Nat /\ n = Len(pages) /\ DOMAIN pages = 1 .. n
  BY <1>a, LenProperties
<1>1. PICK g : g = CHOOSE f : Emits(pages, f, SUBSET (1 .. n))
  OBVIOUS
<1>2. Emits(pages, g, SUBSET (1 .. n))
  BY <1>0, <1>1, EmitsExist
<1>3. Runs(pages) = g[1 .. n]
  BY <1>0, <1>1 DEF Runs, FoldLeft, MapThenFoldSet, Emits, UpTo, Emitted
<1>4. PICK h : h = [i \in 0 .. n |-> g[1 .. i]]
  OBVIOUS
<1>5. h[0] = <<>>
  <2>1. 1 .. 0 = {}
    OBVIOUS
  <2>2. h[0] = g[{}] /\ {} \in SUBSET (1 .. n)
    BY <1>0, <1>4, <2>1
  <2> QED
    BY <1>2, <2>2 DEF Emits, UpTo
<1>6. ASSUME NEW i \in 1 .. n PROVE h[i] = Emitted(h[i - 1], pages[i])
  <2>1. i \in Nat /\ i \in 1 .. i /\ 1 .. i \in SUBSET (1 .. n)
    <3>1. i \in Nat /\ i <= n
      BY <1>0
    <3> QED
      BY <1>0, <3>1
  <2>2. Max(1 .. i) = i
    <3>0. PICK m : m = Max(1 .. i)
      OBVIOUS
    <3>1. m \in 1 .. i /\ i <= m
      BY <2>1, <3>0, GreatestExists, 1 .. i \in SUBSET (1 .. i)
    <3> QED
      BY <2>1, <3>0, <3>1
  <2>3. (1 .. i) \ {i} = 1 .. (i - 1)
    BY <2>1
  <2>4. h[i] = g[1 .. i] /\ h[i - 1] = g[1 .. (i - 1)]
    BY <1>0, <1>4
  <2>5. g[1 .. i] = UpTo(pages, g, 1 .. i)
    BY <1>2, <2>1 DEF Emits
  <2> QED
    BY <2>1, <2>2, <2>3, <2>4, <2>5 DEF UpTo
<1> QED
  <2>1. Runs(pages) = h[n]
    BY <1>0, <1>3, <1>4
  <2>2. \A i \in 1 .. Len(pages) : h[i] = Emitted(h[i - 1], pages[i])
    BY <1>0, <1>6
  <2> QED
    BY <1>0, <1>5, <2>1, <2>2

\* Runs of which the j-th is for the pages behind the first off[j].
Run == [gpa : Nat, len : Nat \ {0}]

Covers(runs, off, pages, n) ==
  /\ runs \in Seq(Run)
  /\ off \in [1 .. Len(runs) + 1 -> 0 .. n]
  /\ off[1] = 0 /\ off[Len(runs) + 1] = n
  /\ \A j \in 1 .. Len(runs) : off[j + 1] = off[j] + runs[j].len
  /\ \A j \in 1 .. Len(runs) : \A k \in 1 .. runs[j].len :
       off[j] + k \in 1 .. n /\ pages[off[j] + k] = runs[j].gpa + k - 1

(* A page more is covered by the last run or by one of its own.            *)
LEMMA EmittedCovers ==
  ASSUME NEW pages \in Seq(Nat), NEW n \in Nat, n + 1 <= Len(pages),
         NEW runs, NEW off, Covers(runs, off, pages, n)
  PROVE  \E o : Covers(Emitted(runs, pages[n + 1]), o, pages, n + 1)
<1>0. PICK m \in Nat : m = Len(runs)
  BY LenProperties DEF Covers
<1>1. /\ runs \in Seq(Run) /\ m \in Nat /\ m = Len(runs) /\ DOMAIN runs = 1 .. m
      /\ runs \in [1 .. m -> Run]
      /\ off \in [1 .. m + 1 -> 0 .. n] /\ off[1] = 0 /\ off[m + 1] = n
      /\ \A j \in 1 .. m : runs[j] \in Run
  BY <1>0, LenProperties, ElementOfSeq DEF Covers
<1>a. /\ \A j \in 1 .. m : off[j + 1] = off[j] + runs[j].len
      /\ \A j \in 1 .. m : \A k \in 1 .. runs[j].len :
           off[j] + k \in 1 .. n /\ pages[off[j] + k] = runs[j].gpa + k - 1
  BY <1>0 DEF Covers
<1>2. PICK p \in Nat : p = pages[n + 1]
  BY ElementOfSeq, n + 1 \in 1 .. Len(pages)
<1>3. CASE runs # <<>> /\ p = Last(runs).gpa + Last(runs).len
  <2>1. m >= 1 /\ m \in 1 .. m /\ m \in 1 .. m + 1
    BY <1>1, <1>3, EmptySeq
  <2>2. PICK g \in Nat, l \in Nat \ {0} : runs[m] = [gpa |-> g, len |-> l]
    BY <1>1, <2>1 DEF Run
  <2>3. PICK d \in Nat : d = off[m]
    BY <1>1, <2>1
  <2>4. n = d + l /\ p = g + l
    <3>1. off[m + 1] = off[m] + runs[m].len /\ off[m + 1] = n
      BY <1>1, <1>a, <2>1
    <3>2. p = runs[m].gpa + runs[m].len
      BY <1>1, <1>3 DEF Last
    <3> QED
      BY <2>2, <2>3, <3>1, <3>2
  <2>5. PICK e : e = [gpa |-> g, len |-> l + 1]
    OBVIOUS
  <2>6. e \in Run /\ e.gpa = g /\ e.len = l + 1
    BY <2>5 DEF Run
  <2>7. PICK r : r = [runs EXCEPT ![m] = e]
    OBVIOUS
  <2>8. Emitted(runs, p) = r
    <3>1. [runs EXCEPT ![m].len = @ + 1] = [runs EXCEPT ![m] = e]
      <4>1. [runs[m] EXCEPT !.len = runs[m].len + 1] = e
        BY <2>2, <2>5
      <4>2. [runs EXCEPT ![m].len = @ + 1]
              = [runs EXCEPT ![m] = [runs[m] EXCEPT !.len = runs[m].len + 1]]
        OBVIOUS
      <4> QED
        BY <4>1, <4>2
    <3> QED
      BY <1>1, <1>3, <2>7, <3>1 DEF Emitted
  <2>9. /\ r \in Seq(Run) /\ Len(r) = m /\ r[m] = e
        /\ \A j \in 1 .. m : j # m => r[j] = runs[j]
    <3>1. m \in 1 .. Len(runs) /\ runs \in Seq(Run) /\ Len(runs) = m
      BY <1>1, <2>1
    <3>2. /\ [runs EXCEPT ![m] = e] \in Seq(Run)
          /\ Len([runs EXCEPT ![m] = e]) = Len(runs)
      BY <2>6, <3>1, ExceptSeq
    <3> QED
      BY <1>1, <2>1, <2>7, <3>1, <3>2
  <2>10. PICK o : o = [off EXCEPT ![m + 1] = n + 1]
    OBVIOUS
  <2>11. /\ o \in [1 .. m + 1 -> 0 .. n + 1] /\ o[m + 1] = n + 1
         /\ \A j \in 1 .. m : o[j] = off[j]
    BY <1>1, <2>10
  <2>12. ASSUME NEW j \in 1 .. m PROVE o[j + 1] = o[j] + r[j].len
    <3>1. CASE j = m
      <4>1. o[j + 1] = n + 1 /\ o[j] = d /\ r[j].len = l + 1
        BY <2>3, <2>6, <2>9, <2>11, <3>1
      <4> QED
        BY <2>4, <4>1
    <3>2. CASE j # m
      <4>1. j + 1 \in 1 .. m
        BY ONLY m \in Nat, j \in 1 .. m, j # m
      <4> QED
        BY <1>a, <2>9, <2>11, <3>2, <4>1
    <3> QED
      BY <3>1, <3>2
  <2>13. ASSUME NEW j \in 1 .. m, NEW k \in 1 .. r[j].len
         PROVE  o[j] + k \in 1 .. n + 1 /\ pages[o[j] + k] = r[j].gpa + k - 1
    <3>1. CASE j = m /\ k = l + 1
      <4>1. o[j] = d /\ r[j].gpa = g
        BY <2>3, <2>6, <2>9, <2>11, <3>1
      <4>2. o[j] + k = d + (l + 1) /\ r[j].gpa + k - 1 = g + (l + 1) - 1
        BY <3>1, <4>1
      <4>3. d + (l + 1) = n + 1 /\ g + (l + 1) - 1 = p
        BY ONLY <2>4, g \in Nat, l \in Nat, d \in Nat
      <4> QED
        BY <1>2, <4>2, <4>3
    <3>2. CASE ~ (j = m /\ k = l + 1)
      <4>1. k \in 1 .. runs[j].len /\ r[j].gpa = runs[j].gpa
        <5>1. CASE j = m
          BY <2>2, <2>6, <2>9, <3>2, <5>1
        <5>2. CASE j # m
          BY <2>9, <5>2
        <5> QED
          BY <5>1, <5>2
      <4>2. off[j] + k \in 1 .. n /\ pages[off[j] + k] = runs[j].gpa + k - 1
        BY <1>a, <4>1
      <4> QED
        BY <2>11, <4>1, <4>2
    <3> QED
      BY <3>1, <3>2
  <2>14. o[1] = 0
    BY <1>1, <2>1, <2>11, 1 \in 1 .. m
  <2>15. Covers(r, o, pages, n + 1)
    BY <2>9, <2>11, <2>12, <2>13, <2>14 DEF Covers
  <2> QED
    BY <1>2, <2>8, <2>15
<1>4. CASE ~ (runs # <<>> /\ p = Last(runs).gpa + Last(runs).len)
  <2>1. PICK e : e = [gpa |-> p, len |-> 1]
    OBVIOUS
  <2>2. e \in Run /\ e.gpa = p /\ e.len = 1
    BY <2>1 DEF Run
  <2>3. PICK r : r = Append(runs, e)
    OBVIOUS
  <2>4. Emitted(runs, p) = r
    BY <1>4, <2>1, <2>3 DEF Emitted
  <2>5. /\ r \in Seq(Run) /\ Len(r) = m + 1 /\ r[m + 1] = e
        /\ \A j \in 1 .. m : r[j] = runs[j]
    BY <1>1, <2>2, <2>3, AppendProperties
  <2>6. PICK o : o = [j \in 1 .. m + 2 |-> IF j = m + 2 THEN n + 1 ELSE off[j]]
    OBVIOUS
  <2>7. /\ o \in [1 .. m + 2 -> 0 .. n + 1] /\ o[m + 2] = n + 1
        /\ \A j \in 1 .. m + 1 : o[j] = off[j]
    BY <1>1, <2>6
  <2>8. off[m + 1] = n /\ off[1] = 0
    BY <1>1
  <2>9. \A j \in 1 .. m + 1 : o[j + 1] = o[j] + r[j].len
    <3> SUFFICES ASSUME NEW j \in 1 .. m + 1 PROVE o[j + 1] = o[j] + r[j].len
      OBVIOUS
    <3>1. CASE j = m + 1
      <4>1. r[j] = e /\ o[j] = n /\ j + 1 = m + 2
        <5>1. r[m + 1] = e /\ o[m + 1] = n
          BY <2>5, <2>7, <2>8, m + 1 \in 1 .. m + 1
        <5> QED
          BY ONLY <3>1, <5>1, m \in Nat
      <4> QED
        BY ONLY <2>2, <2>7, <4>1, n \in Nat
    <3>2. CASE j # m + 1
      <4>1. j \in 1 .. m /\ j + 1 \in 1 .. m + 1
        BY <1>1, <3>2
      <4>2. off[j + 1] = off[j] + runs[j].len
        BY <1>a, <4>1
      <4> QED
        BY <2>5, <2>7, <4>1, <4>2
    <3> QED
      BY <3>1, <3>2
  <2>10. ASSUME NEW j \in 1 .. m + 1, NEW k \in 1 .. r[j].len
         PROVE  o[j] + k \in 1 .. n + 1 /\ pages[o[j] + k] = r[j].gpa + k - 1
    <3>1. CASE j = m + 1
      <4>0. r[j] = e /\ o[j] = n /\ m + 1 \in 1 .. m + 1
        BY <1>1, <2>5, <2>7, <2>8, <3>1
      <4>1. k = 1 /\ o[j] + k = n + 1 /\ r[j].gpa + k - 1 = p
        BY <2>2, <4>0
      <4> QED
        BY <1>2, <4>1
    <3>2. CASE j # m + 1
      <4>1. j \in 1 .. m /\ r[j] = runs[j] /\ o[j] = off[j]
        BY <1>1, <2>5, <2>7, <3>2
      <4>2. off[j] + k \in 1 .. n /\ pages[off[j] + k] = runs[j].gpa + k - 1
        BY <1>a, <4>1
      <4> QED
        BY <4>1, <4>2
    <3> QED
      BY <3>1, <3>2
  <2>11. Covers(r, o, pages, n + 1)
    BY <1>1, <2>5, <2>7, <2>8, <2>9, <2>10 DEF Covers
  <2> QED
    BY <1>2, <2>4, <2>11
<1> QED
  BY <1>3, <1>4

(* The runs of a range are its pages, in their order.                      *)
LEMMA RunsCover ==
  ASSUME NEW pages \in Seq(Nat)
  PROVE  \E o : Covers(Runs(pages), o, pages, Len(pages))
<1>1. PICK n \in Nat : n = Len(pages)
  BY LenProperties
<1>2. PICK h : /\ h[0] = <<>>
               /\ \A i \in 1 .. n : h[i] = Emitted(h[i - 1], pages[i])
               /\ Runs(pages) = h[n]
  BY <1>1, RunsGrow
<1> DEFINE Bad == {i \in 0 .. n : ~ \E o : Covers(h[i], o, pages, i)}
<1>3. Bad \in SUBSET Nat
  BY <1>1
<1>4. SUFFICES ASSUME Bad # {} PROVE FALSE
  BY <1>1, <1>2
<1>5. PICK i \in Bad : \A j \in Bad : i <= j
  <2> HIDE DEF Bad
  <2> QED
    BY <1>3, <1>4, LeastExists
<1>6. CASE i = 0
  <2>1. PICK o : o = [j \in 1 .. 1 |-> 0]
    OBVIOUS
  <2>2. h[0] \in Seq(Run) /\ Len(h[0]) = 0
    BY <1>2, EmptySeq
  <2>3. Covers(h[0], o, pages, 0)
    BY <2>1, <2>2 DEF Covers
  <2> QED
    BY <1>5, <1>6, <2>3
<1>7. CASE i # 0
  <2>0. \A l \in Nat : l + 1 <= n => \A runs, off : Covers(runs, off, pages, l) =>
          \E x : Covers(Emitted(runs, pages[l + 1]), x, pages, l + 1)
    BY <1>1, EmittedCovers
  <2>1. i \in 1 .. n /\ i - 1 \in Nat /\ i - 1 \in 0 .. n
    BY <1>1, <1>5, <1>7
  <2>2. i - 1 \notin Bad
    <3> HIDE DEF Bad
    <3> QED
      BY <1>3, <1>5, <2>1
  <2>3. PICK o : Covers(h[i - 1], o, pages, i - 1)
    BY <2>1, <2>2
  <2>4. h[i] = Emitted(h[i - 1], pages[i]) /\ (i - 1) + 1 = i
    BY <1>2, <2>1
  <2>5. \E x : Covers(Emitted(h[i - 1], pages[(i - 1) + 1]), x, pages, (i - 1) + 1)
    BY <1>1, <2>0, <2>1, <2>3, (i - 1) + 1 <= n
  <2> QED
    BY <1>5, <2>4, <2>5
<1> QED
  BY <1>6, <1>7

(* GuestRam::backing finds the one region a page lies in.                  *)
LEMMA FileAtIs ==
  ASSUME NEW g \in Nat, NEW n \in Nat, NEW b \in BankOf(g)
  PROVE  FileAt(g, n) = [k \in 1 .. n |-> [bank |-> b.first, at |-> g - b.first + k - 1]]
<1>1. \A c \in BankOf(g) : c = b
  <2> SUFFICES ASSUME NEW c \in BankOf(g), c # b PROVE FALSE
    OBVIOUS
  <2>1. /\ c \in Banks /\ c.first \in Nat /\ c.len \in Nat
        /\ b \in Banks /\ b.first \in Nat /\ b.len \in Nat
    BY PageRunsAssumption DEF BankOf
  <2>2. g \in c.first .. c.first + c.len - 1 /\ g \in b.first .. b.first + b.len - 1
    BY DEF BankOf
  <2>3. c.first + c.len <= b.first \/ b.first + b.len <= c.first
    BY <2>1, PageRunsAssumption
  <2> QED
    BY <2>1, <2>2, <2>3
<1>2. (CHOOSE c \in BankOf(g) : TRUE) = b
  BY <1>1
<1> QED
  BY <1>2 DEF FileAt

(* A run that stays in its region shows its pages, one by one.             *)
LEMMA RunShows ==
  ASSUME NEW g \in Nat, NEW l \in Nat \ {0}, NEW b \in BankOf(g), g + l <= b.first + b.len
  PROVE  FileAt(g, l) = [k \in 1 .. l |-> FileAt(g + k - 1, 1)[1]]
<1>1. PICK f \in Nat, z \in Nat : b = [first |-> f, len |-> z] /\ b \in Banks
  BY PageRunsAssumption DEF BankOf
<1>2. g >= f /\ g + l <= f + z
  BY <1>1 DEF BankOf
<1>3. FileAt(g, l) = [k \in 1 .. l |-> [bank |-> f, at |-> g - f + k - 1]]
  BY <1>1, FileAtIs
<1>4. ASSUME NEW k \in 1 .. l
      PROVE  FileAt(g + k - 1, 1)[1] = [bank |-> f, at |-> g - f + k - 1]
  <2>1. PICK p \in Nat : p = g + k - 1
    OBVIOUS
  <2>2. p \in f .. f + z - 1
    BY <1>2, <2>1
  <2>3. b \in BankOf(p)
    BY <1>1, <2>2 DEF BankOf
  <2>4. FileAt(p, 1) = [i \in 1 .. 1 |-> [bank |-> f, at |-> p - f + i - 1]]
    <3>1. FileAt(p, 1) = [i \in 1 .. 1 |-> [bank |-> b.first, at |-> p - b.first + i - 1]]
      BY <2>3, FileAtIs, 1 \in Nat
    <3> QED
      BY <1>1, <3>1
  <2>5. FileAt(p, 1)[1] = [bank |-> f, at |-> p - f + 1 - 1]
    BY <2>4
  <2>6. p - f + 1 - 1 = g - f + k - 1
    BY <2>1
  <2> QED
    BY <2>1, <2>5, <2>6
<1> QED
  BY <1>3, <1>4

\* Of w, the first n.
Cut(w, n) == [i \in 1 .. n |-> w[i]]

\* The j-th of seqs is what w has behind the first off[j].
Pieces(seqs, off, w, N, X) ==
  /\ seqs \in Seq(Seq(X)) /\ Len(seqs) # 0 /\ w \in [1 .. N -> X]
  /\ off \in [1 .. Len(seqs) + 1 -> 0 .. N] /\ off[1] = 0
  /\ \A j \in 1 .. Len(seqs) : off[j + 1] = off[j] + Len(seqs[j])
  /\ \A j \in 1 .. Len(seqs) : \A k \in 1 .. Len(seqs[j]) :
       off[j] + k \in 1 .. N /\ seqs[j][k] = w[off[j] + k]

(* Pieces of w, one after the other, are w.                                *)
LEMMA PiecesFlatten ==
  ASSUME NEW seqs, NEW off, NEW w, NEW N \in Nat, NEW X, Pieces(seqs, off, w, N, X)
  PROVE  FlattenSeq(seqs) = Cut(w, off[Len(seqs) + 1])
<1>a. PICK m \in Nat \ {0} : m = Len(seqs)
  BY LenProperties DEF Pieces
<1>b. /\ seqs \in Seq(Seq(X)) /\ w \in [1 .. N -> X]
      /\ off \in [1 .. m + 1 -> 0 .. N] /\ off[1] = 0
      /\ \A j \in 1 .. m : off[j + 1] = off[j] + Len(seqs[j])
      /\ \A j \in 1 .. m : \A k \in 1 .. Len(seqs[j]) :
           off[j] + k \in 1 .. N /\ seqs[j][k] = w[off[j] + k]
  BY <1>a DEF Pieces
<1> DEFINE Joins(f, j) == IF j = 1 THEN seqs[j] ELSE f[j - 1] \o seqs[j]
<1>0. \A j \in 1 .. m : seqs[j] \in Seq(X) /\ Len(seqs[j]) \in Nat
  BY <1>a, <1>b, ElementOfSeq, LenProperties
<1>1. PICK f : f = [j \in 1 .. m |-> Cut(w, off[j + 1])]
  OBVIOUS
<1>2. ASSUME NEW j \in 1 .. m PROVE f[j] = Joins(f, j)
  <2>0. j \in 1 .. m + 1 /\ j + 1 \in 1 .. m + 1
    OBVIOUS
  <2>1. PICK a \in Nat, c \in Nat, s \in Seq(X) :
          a = off[j] /\ s = seqs[j] /\ c = Len(s) /\ off[j + 1] = a + c
    <3>1. off[j] \in Nat /\ seqs[j] \in Seq(X) /\ Len(seqs[j]) \in Nat
      BY <1>0, <1>b, <2>0
    <3> QED
      BY <1>b, <3>1
  <2>2. \A k \in 1 .. c : a + k \in 1 .. N /\ s[k] = w[a + k]
    BY <1>b, <2>1
  <2>3. s \in [1 .. c -> X]
    BY <2>1, LenProperties
  <2>4. f[j] = Cut(w, a + c)
    BY <1>1, <2>1
  <2>5. CASE j = 1
    <3>1. a = 0
      BY <1>b, <2>1, <2>5
    <3>2. s = Cut(w, a + c)
      BY <2>2, <2>3, <3>1 DEF Cut
    <3> QED
      BY <2>1, <2>4, <2>5, <3>2
  <2>6. CASE j # 1
    <3>1. j - 1 \in 1 .. m /\ (j - 1) + 1 = j
      BY ONLY m \in Nat, j \in 1 .. m, j # 1
    <3>2. f[j - 1] = Cut(w, a)
      BY <1>1, <2>1, <3>1
    <3>3. a <= N /\ a + c <= N
      BY <1>b, <2>0, <2>1
    <3>4. PICK t \in Seq(X) : t = Cut(w, a) /\ Len(t) = a
      <4>1. Cut(w, a) \in Seq(X)
        <5>1. \A i \in 1 .. a : w[i] \in X
          BY <1>b, <3>3
        <5>2. [i \in 1 .. a |-> w[i]] \in Seq(X)
          BY <5>1, IsASeq
        <5> QED
          BY <5>2 DEF Cut
      <4>2. Cut(w, a) \in [1 .. a -> X]
        BY <1>b, <3>3 DEF Cut
      <4> QED
        BY <4>1, <4>2, LenProperties
    <3>5. PICK v : v = t \o s
      OBVIOUS
    <3>6. /\ v \in Seq(X) /\ Len(v) = a + c
          /\ \A i \in 1 .. a + c : v[i] = IF i <= a THEN t[i] ELSE s[i - a]
      <4>1. /\ t \o s \in Seq(X) /\ Len(t \o s) = Len(t) + Len(s)
            /\ \A i \in 1 .. Len(t) + Len(s) :
                 (t \o s)[i] = IF i <= Len(t) THEN t[i] ELSE s[i - Len(t)]
        BY ConcatProperties
      <4> QED
        BY ONLY <2>1, <3>4, <3>5, <4>1
    <3>7. \A i \in 1 .. a + c : v[i] = w[i]
      <4> SUFFICES ASSUME NEW i \in 1 .. a + c PROVE v[i] = w[i]
        OBVIOUS
      <4>1. CASE i <= a
        BY <3>4, <3>6, <4>1 DEF Cut
      <4>2. CASE ~ (i <= a)
        <5>1. i - a \in 1 .. c /\ a + (i - a) = i
          BY <4>2
        <5> QED
          BY <2>2, <3>6, <4>2, <5>1
      <4> QED
        BY <4>1, <4>2
    <3>8. v = Cut(w, a + c)
      <4>1. v \in [1 .. a + c -> X]
        BY <3>6, LenProperties
      <4> QED
        BY <3>7, <4>1 DEF Cut
    <3> QED
      BY <2>1, <2>4, <2>6, <3>2, <3>4, <3>5, <3>8
  <2> QED
    BY <2>5, <2>6
<1>3. PICK g : g = CHOOSE h : h = [j \in 1 .. m |-> Joins(h, j)]
  OBVIOUS
<1>4. g = [j \in 1 .. m |-> Joins(g, j)]
  <2>1. f = [j \in 1 .. m |-> Joins(f, j)]
    BY <1>1, <1>2
  <2> HIDE DEF Joins
  <2> QED
    BY <1>3, <2>1
<1>5. FlattenSeq(seqs) = g[m]
  BY <1>3, <1>a DEF FlattenSeq
<1>6. \A j \in 1 .. m : g[j] = f[j]
  <2> DEFINE Bad == {j \in 1 .. m : g[j] # f[j]}
  <2> SUFFICES ASSUME Bad # {} PROVE FALSE
    OBVIOUS
  <2>1. Bad \in SUBSET Nat
    OBVIOUS
  <2>2. PICK j \in Bad : \A i \in Bad : j <= i
    <3> HIDE DEF Bad
    <3> QED
      BY <2>1, LeastExists
  <2>3. g[j] = Joins(g, j) /\ f[j] = Joins(f, j)
    BY <1>2, <1>4, <2>2
  <2>4. CASE j = 1
    BY <2>2, <2>3, <2>4
  <2>5. CASE j # 1
    <3>1. j \in 1 .. m
      OBVIOUS
    <3>2. j - 1 \in 1 .. m /\ ~ (j <= j - 1)
      BY ONLY m \in Nat, j \in 1 .. m, j # 1
    <3>3. j - 1 \notin Bad
      <4> HIDE DEF Bad
      <4> QED
        BY <2>2, <3>2
    <3>4. g[j - 1] = f[j - 1]
      BY <3>2, <3>3
    <3> QED
      BY <2>2, <2>3, <2>5, <3>4
  <2> QED
    BY <2>4, <2>5
<1> QED
  BY <1>1, <1>5, <1>6, <1>a, m \in 1 .. m

(* Stitching the runs of a range shows its pages, in their order.          *)
THEOREM StitchingShowsThePages ==
  ASSUME NEW pages \in Seq(Nat), Stitchable(Runs(pages), Len(pages))
  PROVE  Stitch(Runs(pages)) = PagesAt(pages)
<1>1. PICK n \in Nat : n = Len(pages) /\ DOMAIN pages = 1 .. n /\ pages \in [1 .. n -> Nat]
  BY LenProperties
<1>2. PICK runs : runs = Runs(pages)
  OBVIOUS
<1>3. PICK off : Covers(runs, off, pages, n)
  BY <1>1, <1>2, RunsCover
<1>4. PICK m \in Nat \ {0} : m = Len(runs)
  <2>1. Len(runs) \in Nat /\ Len(runs) >= 1
    BY <1>2, <1>3, LenProperties DEF Stitchable, Covers
  <2> QED
    BY <2>1
<1>5. /\ runs \in Seq(Run) /\ DOMAIN runs = 1 .. m
      /\ off \in [1 .. m + 1 -> 0 .. n] /\ off[1] = 0 /\ off[m + 1] = n
      /\ \A j \in 1 .. m : runs[j] \in Run /\ off[j + 1] = off[j] + runs[j].len
      /\ \A j \in 1 .. m : \A k \in 1 .. runs[j].len :
           off[j] + k \in 1 .. n /\ pages[off[j] + k] = runs[j].gpa + k - 1
  BY <1>3, <1>4, LenProperties, ElementOfSeq DEF Covers
<1>6. PICK w : w = PagesAt(pages)
  OBVIOUS
<1>7. \A i \in 1 .. n : w[i] = FileAt(pages[i], 1)[1]
  BY <1>1, <1>6 DEF PagesAt
<1>8. PICK X : X = {w[i] : i \in 1 .. n}
  OBVIOUS
<1>9. w \in [1 .. n -> X]
  BY <1>1, <1>6, <1>8 DEF PagesAt
<1>10. PICK seqs : seqs = [j \in 1 .. m |-> FileAt(runs[j].gpa, runs[j].len)]
  OBVIOUS
<1>11. ASSUME NEW j \in 1 .. m
       PROVE  /\ seqs[j] \in Seq(X) /\ Len(seqs[j]) = runs[j].len
              /\ \A k \in 1 .. Len(seqs[j]) :
                   off[j] + k \in 1 .. n /\ seqs[j][k] = w[off[j] + k]
  <2>1. PICK g \in Nat, l \in Nat \ {0} : runs[j] = [gpa |-> g, len |-> l]
    BY <1>5 DEF Run
  <2>2. PICK b \in BankOf(g) : g + l <= b.first + b.len
    <3>1. runs[j] \in Range(runs)
      BY <1>5 DEF Range
    <3> QED
      BY <1>2, <2>1, <3>1 DEF Stitchable
  <2>3. PICK s : s = FileAt(g, l) /\ s = seqs[j]
    BY <1>10, <2>1
  <2>4. s = [k \in 1 .. l |-> FileAt(g + k - 1, 1)[1]]
    BY <2>2, <2>3, RunShows
  <2>5. PICK d \in 0 .. n : d = off[j]
    BY <1>5, j \in 1 .. m + 1
  <2>6. \A k \in 1 .. l : d + k \in 1 .. n /\ pages[d + k] = g + k - 1
    <3>1. \A k \in 1 .. runs[j].len :
            off[j] + k \in 1 .. n /\ pages[off[j] + k] = runs[j].gpa + k - 1
      BY <1>5
    <3> QED
      BY <2>1, <2>5, <3>1
  <2>7. \A k \in 1 .. l : s[k] = w[d + k]
    BY <1>7, <2>4, <2>6
  <2>8. s \in [1 .. l -> X]
    BY <1>8, <2>4, <2>6, <2>7
  <2>9. s \in Seq(X) /\ Len(s) = l
    <3>1. \A k \in 1 .. l : s[k] \in X
      BY <2>8
    <3>2. [k \in 1 .. l |-> s[k]] \in Seq(X)
      BY <3>1, IsASeq
    <3>3. s = [k \in 1 .. l |-> s[k]]
      BY <2>8
    <3> QED
      BY <2>8, <3>2, <3>3, LenProperties
  <2> QED
    BY <2>1, <2>3, <2>5, <2>6, <2>7, <2>9
<1>12. seqs \in Seq(Seq(X)) /\ Len(seqs) = m
  <2>1. [j \in 1 .. m |-> seqs[j]] \in Seq(Seq(X))
    BY <1>11, IsASeq
  <2>2. seqs = [j \in 1 .. m |-> seqs[j]]
    BY <1>10
  <2> QED
    BY <1>10, <2>1, <2>2, LenProperties
<1>13. FlattenSeq(seqs) = Cut(w, off[m + 1])
  <2>1. \A j \in 1 .. m : off[j + 1] = off[j] + Len(seqs[j])
    BY <1>5, <1>11
  <2>2. \A j \in 1 .. m : \A k \in 1 .. Len(seqs[j]) :
          off[j] + k \in 1 .. n /\ seqs[j][k] = w[off[j] + k]
    BY <1>11
  <2>3. off \in [1 .. m + 1 -> 0 .. n] /\ off[1] = 0
    BY <1>5
  <2> QED
    <3>1. Pieces(seqs, off, w, n, X)
      BY <1>9, <1>12, <2>1, <2>2, <2>3 DEF Pieces
    <3> QED
      BY <1>12, <3>1, PiecesFlatten
<1>14. Cut(w, off[m + 1]) = w
  BY <1>5, <1>9 DEF Cut
<1>15. Stitch(runs) = FlattenSeq(seqs)
  BY <1>5, <1>10 DEF Stitch
<1> QED
  BY <1>2, <1>6, <1>13, <1>14, <1>15

----------------------------------------------------------------------------
(* Registered memory *)

SpanShown(o) ==
  [client |-> o.client, handle |-> o.handle, file |-> o.file, shows |-> Stitch(Runs(o.region))]

SpansFor(o) == {s \in spans : s.client = o.client /\ s.handle = o.handle}

\* An object on a range of memory was registered through runs that could be
\* stitched, and has the one span that they were stitched into.
SpanInv ==
  \A o \in rm : o.region # None =>
    /\ Stitchable(Runs(o.region), Len(o.region))
    /\ o.file \in hosts => SpansFor(o) = {SpanShown(o)}

(* serve_registration leaves an object with one span, and the others with  *)
(* theirs.                                                                 *)
LEMMA RegisterSpans ==
  ASSUME LifeInv, HostedInv, SpanInv, ServeRegister
  PROVE  SpanInv'
<1> DEFINE q == Head(line).req
           ok == /\ q.file \in hosts
                 /\ Stitchable(q.runs, Len(q.region))
                 /\ Alive(q.client, q.parent) /\ ~ Alive(q.client, q.handle)
           n == [client |-> q.client, handle |-> q.handle, parent |-> q.parent,
                 file |-> q.file, region |-> q.region, owed |-> Head(line).thread # None]
<1>1. /\ UNCHANGED hosts
      /\ rm' = IF ok THEN rm \cup {n} ELSE rm
      /\ spans' = IF ok THEN Spanned(q) ELSE spans
      /\ Oldest("register")
  BY DEF ServeRegister
<1>2. q \in Requests /\ q.op = "register"
  BY <1>1, OldestIs
<1>4. q.runs = Runs(q.region)
  BY <1>2, RequestKinds
<1>5. n.client = q.client /\ n.handle = q.handle /\ n.file = q.file /\ n.region = q.region
  OBVIOUS
<1>6. SpanOf(q) = SpanShown(n)
  BY <1>4, <1>5 DEF SpanOf, SpanShown
<1> HIDE DEF n
<1>7. CASE ok
  <2>1. \A o \in rm : ~ (o.client = q.client /\ o.handle = q.handle)
    BY <1>7 DEF Alive
  <2>3. /\ SpanShown(n).client = n.client /\ SpanShown(n).handle = n.handle
    BY DEF SpanShown
  <2>4. spans' = {s \in spans : ~ (s.client = n.client /\ s.handle = n.handle)} \cup {SpanShown(n)}
    BY <1>1, <1>5, <1>6, <1>7 DEF Spanned
  <2>5. ASSUME NEW o \in rm PROVE SpansFor(o)' = SpansFor(o)
    BY <1>5, <2>1, <2>3, <2>4 DEF SpansFor
  <2>6. {s \in spans' : s.client = n.client /\ s.handle = n.handle} = {SpanShown(n)}
    BY <2>3, <2>4
  <2>7. ASSUME NEW o \in rm', o.region # None
        PROVE  /\ Stitchable(Runs(o.region), Len(o.region))
               /\ o.file \in hosts' => SpansFor(o)' = {SpanShown(o)}
    <3>1. CASE o \in rm
      BY <1>1, <2>5, <2>7, <3>1 DEF SpanInv
    <3>2. CASE o = n
      <4>1. SpansFor(o)' = {SpanShown(o)}
        BY <2>6, <3>2 DEF SpansFor
      <4>2. Stitchable(Runs(o.region), Len(o.region))
        BY <1>4, <1>5, <1>7, <3>2
      <4> QED
        BY <4>1, <4>2
    <3> QED
      BY <1>1, <1>7, <3>1, <3>2
  <2> QED
    BY <2>7 DEF SpanInv
<1>8. CASE ~ ok
  <2>1. UNCHANGED <<rm, spans, hosts>>
    BY <1>1, <1>8
  <2> QED
    BY <2>1 DEF SpanInv, SpansFor
<1> QED
  BY <1>7, <1>8

(* A free that comes to nothing leaves the objects with their spans.       *)
LEMMA DisownedSpans ==
  ASSUME LifeInv, SpanInv, NEW f, NEW c, NEW h, rm' = Disowned(f, c, h), UNCHANGED <<spans, hosts>>
  PROVE  SpanInv'
<1> SUFFICES ASSUME NEW o \in rm', o.region # None
             PROVE  /\ Stitchable(Runs(o.region), Len(o.region))
                    /\ o.file \in hosts' => SpansFor(o)' = {SpanShown(o)}
  BY DEF SpanInv
<1>1. PICK w \in rm : /\ o.client = w.client /\ o.handle = w.handle
                      /\ o.file = w.file /\ o.region = w.region
  BY DisownedKeeps
<1>2. SpansFor(o)' = SpansFor(w) /\ SpanShown(o) = SpanShown(w)
  BY <1>1 DEF SpansFor, SpanShown
<1> QED
  BY <1>1, <1>2 DEF SpanInv

(* note_registrations and release_registrations let go of the spans of     *)
(* what RM freed, and of no others.                                        *)
LEMMA FreeSpans ==
  ASSUME LifeInv, HostedInv, SpanInv, ServeFree
  PROVE  SpanInv'
<1> DEFINE q == Head(line).req
<1>1. /\ UNCHANGED hosts /\ Oldest("free")
      /\ \/ /\ rm' = rm \ Under(q.client, q.handle)
            /\ spans' = spans \ Released(q.client, q.handle)
         \/ rm' = Disowned(q.file, q.client, q.handle) /\ UNCHANGED spans
  BY DEF ServeFree
<1>2. q \in Requests /\ q.client \in Clients /\ q.handle \in Handle
  BY <1>1, OldestIs, RequestKinds DEF Handle
<1> HIDE DEF q
<1>4. CASE /\ rm' = rm \ Under(q.client, q.handle)
           /\ spans' = spans \ Released(q.client, q.handle)
  <2>2. ASSUME NEW o \in rm' PROVE o \in rm /\ SpansFor(o)' = SpansFor(o)
    <3>1. o \in rm /\ o \notin Under(q.client, q.handle)
      BY <1>4
    <3>2. ~ (o.client = q.client /\ (q.handle = q.client \/ o.handle = q.handle))
      BY <1>2, <3>1, UnderIs DEF HostedInv
    <3>3. \A s \in SpansFor(o) : s \notin Released(q.client, q.handle)
      BY <3>2 DEF SpansFor, Released
    <3> QED
      BY <1>4, <3>1, <3>3 DEF SpansFor
  <2> QED
    BY <1>1, <2>2 DEF SpanInv
<1>5. CASE rm' = Disowned(q.file, q.client, q.handle) /\ UNCHANGED spans
  BY <1>1, <1>5, DisownedSpans
<1> QED
  BY <1>1, <1>4, <1>5

(* drop_registrations_for_file leaves the spans of the other files, and    *)
(* when the pump lets go of a file RM frees objects and makes none.        *)
LEMMA CloseSpans ==
  ASSUME LifeInv, HostedInv, SpanInv, ServeClose \/ \E f \in lingers : LetGo(f)
  PROVE  SpanInv'
<1>1. CASE \E f \in lingers : LetGo(f)
  <2>1. rm' \subseteq rm /\ UNCHANGED <<hosts, spans>>
    BY <1>1 DEF LetGo, Freed
  <2> QED
    BY <2>1 DEF SpanInv, SpansFor
<1>2. CASE ServeClose
  <2> DEFINE f == Head(line).req.file
  <2>1. /\ hosts' = hosts \ {f} /\ UNCHANGED rm
        /\ spans' = {s \in spans : s.file # f}
    BY <1>2 DEF ServeClose, Left, host
  <2> HIDE DEF f
  <2>2. ASSUME NEW o \in rm', o.region # None, o.file \in hosts'
        PROVE  SpansFor(o)' = {SpanShown(o)}
    <3>1. o \in rm /\ o.file \in hosts /\ o.file # f
      BY <2>1, <2>2
    <3>2. SpansFor(o) = {SpanShown(o)} /\ SpanShown(o).file = o.file
      BY <2>2, <3>1 DEF SpanInv, SpanShown
    <3>3. SpansFor(o)' = {s \in SpansFor(o) : s.file # f}
      BY <2>1 DEF SpansFor
    <3> QED
      BY <3>1, <3>2, <3>3
  <2> QED
    BY <2>1, <2>2 DEF SpanInv
<1> QED
  BY <1>1, <1>2

(* An object keeps the span that RM was shown it through, as long as the   *)
(* file is there that it was registered through.                           *)
LEMMA StepKeepsSpans ==
  ASSUME LifeInv, HostedInv, SpanInv, [NextLife]_vars
  PROVE  SpanInv'
<1>1. ASSUME UNCHANGED <<rm, spans, hosts>> PROVE SpanInv'
  BY <1>1 DEF SpanInv, SpansFor
<1>2. CASE UNCHANGED vars
  BY <1>1, <1>2 DEF vars, host
<1>3. ASSUME \/ \E f \in CtlFiles, c \in Clients : NewClient(f, c)
             \/ \E t \in Threads, f \in CtlFiles \cup GpuFiles, c \in Clients :
                  \E h \in Objects, parent \in Devices, region \in Regions :
                    Register(t, f, c, h, parent, region)
             \/ \E t \in Threads : EndRegister(t) \/ EndFree(t) \/ EndPlain(t)
             \/ \E t \in Threads, f \in Files : BeginClose(t, f)
      PROVE  SpanInv'
  <2>1. CASE \E f \in CtlFiles, c \in Clients : NewClient(f, c)
    BY <1>1, <2>1 DEF NewClient, host
  <2>2. CASE \E t \in Threads, f \in CtlFiles \cup GpuFiles, c \in Clients :
               \E h \in Objects, parent \in Devices, region \in Regions :
                 Register(t, f, c, h, parent, region)
    BY <1>1, <2>2 DEF Register, host
  <2>3. CASE \E t \in Threads : EndRegister(t) \/ EndFree(t) \/ EndPlain(t)
    BY <1>1, <2>3 DEF EndRegister, EndFree, EndPlain, host
  <2>4. CASE \E t \in Threads, f \in Files : BeginClose(t, f)
    BY <1>1, <2>4 DEF BeginClose, host
  <2> QED
    BY <1>3, <2>1, <2>2, <2>3, <2>4
<1>7. ASSUME \/ \E f \in UvmFiles, addr \in Addresses, len \in 1 .. PoolMaxLen : MapPool(f, addr, len)
             \/ \E v \in vmas : UnmapPool(v)
      PROVE  SpanInv'
  BY <1>1, <1>7 DEF MapPool, UnmapPool, host
<1>8. ASSUME NEW t \in Threads, NEW f, NEW c, NEW h, Free(t, f, c, h)
      PROVE  SpanInv'
  <2>1. UNCHANGED rm \/ rm' = Disowned(f, c, h)
    BY <1>8 DEF Free
  <2>2. UNCHANGED <<spans, hosts>>
    BY <1>8 DEF Free
  <2> QED
    BY <1>1, <2>1, <2>2, DisownedSpans
<1>4. ASSUME \/ \E t \in Threads, f \in DrmFiles :
                  MakeGem(t, f) \/ \E o \in names[f] : ExportGem(t, f, o)
             \/ \E t \in Threads : EndMakeGem(t) \/ CloseAgain(t)
             \/ \E x, y \in DOMAIN names : \E o \in names[x] \ names[y] : Pass(x, y, o)
             \/ \E t \in Threads, x \in DOMAIN names : \E o \in names[x] : DropName(t, x, o)
             \/ ServeMakeGem \/ ServeExport \/ ServeGemClose
      PROVE  SpanInv'
  BY <1>1, <1>4
  DEF MakeGem, ExportGem, EndMakeGem, CloseAgain, Pass, DropName, ServeMakeGem, ServeExport,
      ServeGemClose, rest, host
<1>5. ASSUME NEW f \in Files, Open(f)
      PROVE  SpanInv'
  <2>1. file[f] = "none" /\ hosts' = hosts \cup {f} /\ UNCHANGED <<rm, spans>>
    BY <1>5 DEF Open, host
  <2>2. \A o \in rm : o.file # f
    BY <2>1 DEF HostedInv
  <2> QED
    BY <2>1, <2>2 DEF SpanInv, SpansFor
<1>6. ASSUME NEW r \in roots, NEW d \in Devices, NewDevice(r, d)
      PROVE  SpanInv'
  <2> DEFINE n == [client |-> r.client, handle |-> d, parent |-> r.client,
                   file |-> r.file, region |-> None, owed |-> TRUE]
  <2>1. rm' = rm \cup {n} /\ UNCHANGED <<spans, hosts>>
    BY <1>6 DEF NewDevice
  <2>2. n.region = None
    OBVIOUS
  <2> HIDE DEF n
  <2> QED
    BY <2>1, <2>2 DEF SpanInv, SpansFor
<1> QED
  BY <1>2, <1>3, <1>4, <1>5, <1>6, <1>7, <1>8, RegisterSpans, FreeSpans, CloseSpans DEF NextLife

(* As long as RM has an object on a range of memory and the file is there  *)
(* that it came through, the backend holds the one span through which RM   *)
(* was shown the range's pages, in their order.                            *)
THEOREM RegistrationsHold == SpecLife => []RegisteredIsHeld
<1>1. InitLife => HostedInv /\ SpanInv
  BY DEF InitLife, HostedInv, InLine, NothingOutlivesItsFile, SpanInv, RootedInv
<1>2. LifeInv /\ HostedInv /\ [NextLife]_vars => HostedInv'
  BY StepKeepsHosted
<1>3. LifeInv /\ HostedInv /\ SpanInv /\ [NextLife]_vars => SpanInv'
  BY StepKeepsSpans
<1>4. LifeInv /\ SpanInv => RegisteredIsHeld
  <2> SUFFICES ASSUME LifeInv, SpanInv, NEW o \in rm, o.region # None, o.file \in hosts
               PROVE  SpansFor(o) = {[client |-> o.client, handle |-> o.handle,
                                      file |-> o.file, shows |-> PagesAt(o.region)]}
    BY DEF RegisteredIsHeld, SpansFor
  <2>1. o.region \in Seq(Nat)
    BY FileLifeAssumption DEF LifeInv, FileTypes, RmObject
  <2>2. Stitch(Runs(o.region)) = PagesAt(o.region)
    BY <2>1, StitchingShowsThePages DEF SpanInv
  <2> QED
    BY <2>2 DEF SpanInv, SpanShown
<1> QED
  BY <1>1, <1>2, <1>3, <1>4, LifeInvariant, PTL DEF SpecLife


----------------------------------------------------------------------------
(* Buffers *)

\* The entry of the host's file that a proxy, or a request about it, means.
HostOf(p) == [file |-> p.owner, handle |-> p.host, obj |-> p.obj]

\* The host has made a buffer for t, which has not heard of it yet.
Made(t) == Asked(t, "gem_make") /\ call[t].ok

Exported(t) == Asked(t, "gem_export") /\ call[t].state = "done"

\* The closes that are for a buffer of their own.
FirstCloses == {"gem_close", "gem_first"}

\* Where in line a buffer is closed.
Closing == {i \in 1 .. Len(line) : line[i].req.op \in FirstCloses}

\* An entry that its file's handle still stands for.
Stands(g) ==
  /\ g.obj < nextGem /\ file[g.file] # "none"
  /\ g.file \in hosts /\ g.obj \notin taken => g \in hostGems

\* A buffer that a proxy was made for, now or once.
Known(o) == o < nextGem /\ \A t \in Threads : Made(t) => call[t].got.obj # o

\* A buffer of the host is of one proxy, or of one call that will make it one,
\* or of one request to close it, and its number stays its own until that is
\* served, or a second close takes it.
HoldInv ==
  /\ \A g \in hostGems : g.obj < nextGem
  /\ \A g, h \in hostGems :
       (g.obj = h.obj \/ (g.file = h.file /\ g.handle = h.handle)) => g = h
  /\ \A p \in gems : Stands(HostOf(p))
  /\ \A p, r \in gems : p.obj = r.obj => p = r
  /\ \A t \in Threads : Made(t) =>
       /\ Stands(call[t].got) /\ call[t].got.file = call[t].req.file
       /\ \A p \in gems : p.obj # call[t].got.obj
  /\ \A t, u \in Threads : Made(t) /\ Made(u) /\ t # u => call[t].got.obj # call[u].got.obj
  /\ \A i \in Closing :
       /\ Stands(HostOf(line[i].req)) /\ Known(line[i].req.obj)
       /\ \A p \in gems : p.obj # line[i].req.obj
  /\ \A i, j \in Closing : i # j => line[i].req.obj # line[j].req.obj

\* An export is about the buffer that the caller's handle is for, as long as
\* there is one.
ExportInv ==
  /\ \A q \in InLine : q.op = "gem_export" =>
       /\ Known(q.obj)
       /\ \A p \in gems : p.obj = q.obj => p.owner = q.owner /\ p.host = q.host
  /\ \A t \in Threads : Exported(t) =>
       /\ Known(call[t].req.obj)
       /\ \A p \in gems : p.obj = call[t].req.obj /\ p.obj \notin taken =>
            IF call[t].ok THEN call[t].got.obj = p.obj ELSE p.owner \notin hosts

\* No call becomes one that has made a buffer.
QuietCalls == \A t \in Threads : Made(t)' => call'[t] = call[t]

\* Nobody gets in line to close a buffer.
QuietLine ==
  \E k \in {0, 1} : \A i \in Closing' : i + k \in Closing /\ line'[i].req = line[i + k].req

\* Nobody gets in line to export one, or has it exported.
QuietExports ==
  /\ \A q \in InLine' : q.op = "gem_export" => q \in InLine
  /\ \A t \in Threads : Exported(t)' => call'[t] = call[t]

(* Most of what the three primitives are used for is about no buffer.      *)
LEMMA QuietSteps ==
  ASSUME LifeInv
  PROVE  /\ \A t \in Threads, q \in Requests :
              Enqueue(t, q) /\ (call[t] = None \/ call[t].state = "done") =>
                /\ QuietCalls
                /\ q.op \notin FirstCloses => QuietLine
                /\ q.op # "gem_export" => QuietExports
         /\ \A ok \in BOOLEAN, got \in HostGem \cup {None} :
              line # <<>> /\ AnswerWith(ok, got) =>
                /\ QuietLine
                /\ Head(line).req.op # "gem_make" \/ ~ ok => QuietCalls
                /\ Head(line).req.op # "gem_export" => QuietExports
         /\ \A t \in Threads :
              call[t] # None /\ Return(t) => QuietCalls /\ QuietLine /\ QuietExports
         /\ \A t \in Threads :
              (/\ call[t] # None /\ call[t].state = "sent" /\ call[t].req.op = "gem_first"
               /\ line' = WithoutThread(t) /\ call' = [call EXCEPT ![t].state = "done"])
              => QuietCalls /\ QuietLine /\ QuietExports
         /\ \A t \in Threads :
              call' = [call EXCEPT ![t] = None] /\ UNCHANGED line =>
                QuietCalls /\ QuietLine /\ QuietExports
         /\ UNCHANGED <<call, line>> => QuietCalls /\ QuietLine /\ QuietExports
<1>1. ASSUME NEW t \in Threads, NEW q \in Requests, Enqueue(t, q),
             call[t] = None \/ call[t].state = "done"
      PROVE  /\ QuietCalls
             /\ q.op \notin FirstCloses => QuietLine
             /\ q.op # "gem_export" => QuietExports
  <2>1. /\ Len(line) \in Nat /\ Len(line') = Len(line) + 1
        /\ \A i \in 1 .. Len(line) : line'[i] = line[i]
        /\ line'[Len(line) + 1] = [thread |-> t, req |-> q]
        /\ call'[t].state = "sent" /\ ~ call'[t].ok
        /\ \A u \in Threads : u # t => call'[u] = call[u]
    BY <1>1, EnqueueAdds DEF LifeInv
  <2>2. QuietCalls
    BY <2>1 DEF QuietCalls, Made
  <2>3. line'[Len(line) + 1].req = q
    BY <2>1
  <2>4. q.op \notin FirstCloses => \A i \in Closing' : i \in Closing /\ line'[i].req = line[i].req
    BY <2>1, <2>3 DEF Closing
  <2>5. q.op \notin FirstCloses => QuietLine
    BY <2>1, <2>4 DEF QuietLine, Closing
  <2>6. q.op # "gem_export" => QuietExports
    BY <1>1, <2>1, LineChanges DEF QuietExports, Exported
  <2> QED
    BY <2>2, <2>5, <2>6
<1>2. ASSUME NEW ok \in BOOLEAN, NEW got \in HostGem \cup {None}, line # <<>>, AnswerWith(ok, got)
      PROVE  /\ QuietLine
             /\ Head(line).req.op # "gem_make" \/ ~ ok => QuietCalls
             /\ Head(line).req.op # "gem_export" => QuietExports
  <2>1. /\ Len(line) \in Nat \ {0} /\ Len(line') = Len(line) - 1 /\ Head(line) = line[1]
        /\ \A i \in 1 .. Len(line') : line'[i] = line[i + 1]
        /\ \A t \in Threads :
             IF t = line[1].thread
             THEN call'[t] # None /\ call'[t].req = line[1].req /\ call'[t].ok = ok
             ELSE call'[t] = call[t]
    BY <1>2, AnswerTakes DEF LifeInv
  <2>2. QuietLine
    BY <2>1 DEF QuietLine, Closing
  <2>3. Head(line).req.op # "gem_make" \/ ~ ok => QuietCalls
    BY <2>1 DEF QuietCalls, Made, Asked
  <2>4. Head(line).req.op # "gem_export" => QuietExports
    BY <1>2, <2>1, LineChanges DEF QuietExports, Exported, Asked
  <2> QED
    BY <2>2, <2>3, <2>4
<1>3. ASSUME NEW t \in Threads, call[t] # None, Return(t)
      PROVE  QuietCalls /\ QuietLine /\ QuietExports
  <2>1. /\ Len(line) \in Nat /\ Len(line') = Len(line)
        /\ \A i \in 1 .. Len(line) : line'[i].req = line[i].req
        /\ call'[t] = None /\ \A u \in Threads : u # t => call'[u] = call[u]
    BY <1>3, ReturnEnds DEF LifeInv
  <2>2. QuietCalls /\ \A u \in Threads : Exported(u)' => call'[u] = call[u]
    BY <2>1 DEF QuietCalls, Made, Exported, Asked
  <2>3. \A i \in Closing' : i + 0 \in Closing /\ line'[i].req = line[i + 0].req
    BY <2>1 DEF Closing
  <2> QED
    BY <1>3, <2>2, <2>3, LineChanges DEF QuietLine, QuietExports
<1>4. UNCHANGED <<call, line>> => QuietCalls /\ QuietLine /\ QuietExports
  <2> SUFFICES ASSUME UNCHANGED <<call, line>> PROVE QuietCalls /\ QuietLine /\ QuietExports
    OBVIOUS
  <2>1. Len(line) \in Nat
    BY LenProperties DEF LifeInv, AskInv, CallTypes
  <2>2. \A i \in Closing' : i + 0 \in Closing /\ line'[i].req = line[i + 0].req
    BY <2>1 DEF Closing
  <2> QED
    BY <2>2 DEF QuietLine, QuietExports, QuietCalls, InLine
<1>5. ASSUME NEW t \in Threads, call[t] # None, call[t].state = "sent",
             call[t].req.op = "gem_first",
             line' = WithoutThread(t), call' = [call EXCEPT ![t].state = "done"]
      PROVE  QuietCalls /\ QuietLine /\ QuietExports
  <2>1. /\ Len(line) \in Nat /\ Len(line') = Len(line)
        /\ \A i \in 1 .. Len(line) : line'[i].req = line[i].req
    BY <1>5, GiveUpKeeps
  <2>2. call[t] \in Calls /\ call \in [Threads -> Calls \cup {None}]
    BY <1>5 DEF LifeInv, AskInv, CallTypes
  <2>3. call'[t].req.op = "gem_first" /\ \A u \in Threads : u # t => call'[u] = call[u]
    BY <1>5, <2>2 DEF Calls
  <2>4. QuietCalls /\ \A u \in Threads : Exported(u)' => call'[u] = call[u]
    BY <2>3 DEF QuietCalls, Made, Exported, Asked
  <2>5. \A i \in Closing' : i + 0 \in Closing /\ line'[i].req = line[i + 0].req
    BY <2>1 DEF Closing
  <2> QED
    BY <1>5, <2>4, <2>5, LineChanges DEF QuietLine, QuietExports
<1>6. ASSUME NEW t \in Threads, call' = [call EXCEPT ![t] = None], UNCHANGED line
      PROVE  QuietCalls /\ QuietLine /\ QuietExports
  <2>1. call'[t] = None /\ \A u \in Threads : u # t => call'[u] = call[u]
    BY <1>6 DEF LifeInv, AskInv, CallTypes
  <2>2. QuietCalls /\ \A u \in Threads : Exported(u)' => call'[u] = call[u]
    BY <2>1 DEF QuietCalls, Made, Exported, Asked
  <2>3. Len(line) \in Nat
    BY LenProperties DEF LifeInv, AskInv, CallTypes
  <2>4. \A i \in Closing' : i + 0 \in Closing /\ line'[i].req = line[i + 0].req
    BY <1>6, <2>3 DEF Closing
  <2> QED
    BY <1>6, <2>2, <2>4, LineChanges DEF QuietLine, QuietExports
<1> QED
  BY <1>1, <1>2, <1>3, <1>4, <1>5, <1>6

(* Where nobody hears of a buffer or closes one, and at most one that is   *)
(* nobody's any longer goes, the others stay whose they are.               *)
LEMMA HoldFrame ==
  ASSUME LifeInv, HoldInv, QuietCalls, QuietLine, NEW gone,
         nextGem' = nextGem, gems' \subseteq gems, hostGems' \subseteq hostGems,
         taken \subseteq taken',
         \A f \in hosts' : f \in hosts \/ file[f] = "none",
         \A f \in Files : file[f] # "none" => file'[f] # "none",
         \A g \in hostGems :
           g.file \in hosts' /\ g.obj \notin gone \cup taken' => g \in hostGems',
         \A p \in gems' : p.obj \notin gone,
         \A t \in Threads : Made(t)' => call'[t].got.obj \notin gone,
         \A i \in Closing' : line'[i].req.obj \notin gone
  PROVE  HoldInv'
<1>1. /\ \A p \in gems : HostOf(p).file \in Files /\ HostOf(p).obj = p.obj
      /\ \A t \in Threads : Made(t) => call[t].got.file \in Files
      /\ \A i \in Closing : HostOf(line[i].req).file \in Files /\ HostOf(line[i].req).obj = line[i].req.obj
  <2>1. \A i \in Closing : line[i].req \in InLine
    BY DEF Closing, InLine
  <2>2. \A i \in Closing : line[i].req.owner \in DrmFiles
    BY <2>1, LineHolds, RequestKinds DEF Closing, Closings, FirstCloses
  <2>3. \A t \in Threads : Made(t) => call[t].got \in HostGem
    BY DEF LifeInv, GotInv, Made, Asked
  <2> QED
    BY <2>2, <2>3 DEF LifeInv, GemTypes, Buffer, HostGem, HostOf, Files
<1>2. ASSUME NEW g, Stands(g), g.file \in Files, g.obj \notin gone
      PROVE  Stands(g)'
  BY <1>2 DEF Stands
<1>3. \A t \in Threads : Made(t)' => Made(t) /\ call'[t] = call[t]
  BY DEF QuietCalls, Made, Asked
<1>4. \A o : Known(o) => Known(o)'
  BY <1>3 DEF Known
<1>5. PICK k \in {0, 1} : \A i \in Closing' : i + k \in Closing /\ line'[i].req = line[i + k].req
  BY DEF QuietLine
<1>6. \A p \in gems' : Stands(HostOf(p))'
  BY <1>1, <1>2 DEF HoldInv
<1>7. ASSUME NEW t \in Threads, Made(t)'
      PROVE  /\ Stands(call[t].got)' /\ call'[t].got.file = call'[t].req.file
             /\ \A p \in gems' : p.obj # call'[t].got.obj
  <2>1. /\ Stands(call[t].got) /\ call[t].got.file = call[t].req.file
        /\ \A p \in gems : p.obj # call[t].got.obj
    BY <1>3, <1>7 DEF HoldInv
  <2>2. call'[t] = call[t] /\ call[t].got.obj \notin gone /\ call[t].got.file \in Files
    BY <1>1, <1>3, <1>7
  <2> QED
    BY <2>1, <2>2 DEF Stands
<1>8. \A t, u \in Threads :
        Made(t)' /\ Made(u)' /\ t # u => call'[t].got.obj # call'[u].got.obj
  BY <1>3 DEF HoldInv
<1>9. ASSUME NEW i \in Closing'
      PROVE  /\ Stands(HostOf(line[i].req))' /\ Known(line[i].req.obj)'
             /\ \A p \in gems' : p.obj # line'[i].req.obj
  <2> DEFINE q == line[i + k].req
  <2>1. i + k \in Closing /\ line'[i].req = q /\ q.obj \notin gone
    BY <1>5
  <2>2. Stands(HostOf(q)) /\ Known(q.obj) /\ \A p \in gems : p.obj # q.obj
    BY <2>1 DEF HoldInv
  <2>3. HostOf(q).file \in Files /\ HostOf(q).obj \notin gone
    BY <1>1, <2>1
  <2> HIDE DEF q
  <2> QED
    BY <1>3, <2>1, <2>2, <2>3 DEF Stands, Known
<1>10. \A i, j \in Closing' : i # j => line'[i].req.obj # line'[j].req.obj
  <2>1. \A i \in Closing' : i \in Int
    BY DEF Closing
  <2> QED
    BY <1>5, <2>1 DEF HoldInv
<1>11. /\ \A g \in hostGems' : g.obj < nextGem'
       /\ \A g, h \in hostGems' :
            (g.obj = h.obj \/ (g.file = h.file /\ g.handle = h.handle)) => g = h
       /\ \A p, r \in gems' : p.obj = r.obj => p = r
  BY DEF HoldInv
<1> QED
  BY <1>6, <1>7, <1>8, <1>9, <1>10, <1>11 DEF HoldInv

(* ... and the exports are about the same buffers still.                   *)
LEMMA ExportFrame ==
  ASSUME LifeInv, HoldInv, ExportInv, QuietCalls, QuietExports,
         nextGem' = nextGem, gems' \subseteq gems, taken \subseteq taken',
         \A f \in hosts' : f \in hosts \/ file[f] = "none"
  PROVE  ExportInv'
<1>1. \A t \in Threads : Made(t)' => Made(t) /\ call'[t] = call[t]
  BY DEF QuietCalls, Made, Asked
<1>2. \A o : Known(o) => Known(o)'
  BY <1>1 DEF Known
<1>3. \A t \in Threads : Exported(t)' => Exported(t) /\ call'[t] = call[t]
  BY DEF QuietExports, Exported, Asked
<1>4. \A p \in gems : p.owner \notin hosts => p.owner \notin hosts'
  BY DEF HoldInv, Stands, HostOf
<1>5. ASSUME NEW q \in InLine', q.op = "gem_export"
      PROVE  /\ Known(q.obj)'
             /\ \A p \in gems' : p.obj = q.obj => p.owner = q.owner /\ p.host = q.host
  BY <1>2, <1>5 DEF ExportInv, QuietExports
<1>6. ASSUME NEW t \in Threads, Exported(t)'
      PROVE  /\ Known(call[t].req.obj)'
             /\ \A p \in gems' : p.obj = call'[t].req.obj /\ p.obj \notin taken' =>
                  IF call'[t].ok THEN call'[t].got.obj = p.obj ELSE p.owner \notin hosts'
  <2>1. /\ Known(call[t].req.obj) /\ call'[t] = call[t]
        /\ \A p \in gems : p.obj = call[t].req.obj /\ p.obj \notin taken =>
             IF call[t].ok THEN call[t].got.obj = p.obj ELSE p.owner \notin hosts
    BY <1>3, <1>6 DEF ExportInv
  <2> QED
    BY <1>1, <1>4, <2>1 DEF Known
<1> QED
  BY <1>5, <1>6 DEF ExportInv


(* A buffer that is nobody's else gets in line to be closed.               *)
LEMMA CloseAdds ==
  ASSUME LifeInv, HoldInv, NEW t \in Threads, NEW q \in Requests, q.op \in FirstCloses,
         Enqueue(t, q), call[t] = None \/ call[t].state = "done",
         gems' \subseteq gems, UNCHANGED <<file, hosts, hostGems, nextGem, taken>>,
         Stands(HostOf(q)), HostOf(q).obj = q.obj,
         \A p \in gems' : p.obj # q.obj,
         \A u \in Threads : Made(u) /\ u # t => call[u].got.obj # q.obj,
         \A i \in Closing : line[i].req.obj # q.obj
  PROVE  HoldInv'
<1> DEFINE n == Len(line) + 1
<1>1. /\ Len(line) \in Nat /\ Len(line') = n
      /\ \A i \in 1 .. Len(line) : line'[i] = line[i]
      /\ line'[n].req = q /\ ~ call'[t].ok
      /\ \A u \in Threads : u # t => call'[u] = call[u]
  <2>1. /\ Len(line) \in Nat /\ Len(line') = n
        /\ \A i \in 1 .. Len(line) : line'[i] = line[i]
        /\ line'[n] = [thread |-> t, req |-> q] /\ ~ call'[t].ok
        /\ \A u \in Threads : u # t => call'[u] = call[u]
    BY EnqueueAdds DEF LifeInv
  <2> QED
    BY <2>1
<1>2. \A u \in Threads : Made(u)' => u # t /\ Made(u) /\ call'[u] = call[u]
  BY <1>1 DEF Made, Asked
<1>3. \A o : Known(o) => Known(o)'
  BY <1>2 DEF Known
<1>4. \A g : Stands(g) => Stands(g)'
  BY DEF Stands
<1>5. \A i \in Closing' : line'[i].req = q \/ (i \in Closing /\ line'[i] = line[i])
  BY <1>1 DEF Closing
<1>6. \A i \in Closing' : i # n => i \in Closing /\ line'[i] = line[i]
  BY <1>1 DEF Closing
<1> HIDE DEF n
<1>7. \A p \in gems' : Stands(HostOf(p))'
  BY <1>4 DEF HoldInv
<1>8. ASSUME NEW u \in Threads, Made(u)'
      PROVE  /\ Stands(call[u].got)' /\ call'[u].got.file = call'[u].req.file
             /\ \A p \in gems' : p.obj # call'[u].got.obj
  <2>1. /\ Stands(call[u].got) /\ call[u].got.file = call[u].req.file
        /\ \A p \in gems : p.obj # call[u].got.obj
        /\ call'[u] = call[u]
    BY <1>2, <1>8 DEF HoldInv
  <2> QED
    BY <2>1 DEF Stands
<1>9. \A u, v \in Threads :
        Made(u)' /\ Made(v)' /\ u # v => call'[u].got.obj # call'[v].got.obj
  BY <1>2 DEF HoldInv
<1>10. ASSUME NEW i \in Closing'
       PROVE  /\ Stands(HostOf(line[i].req))' /\ Known(line[i].req.obj)'
              /\ \A p \in gems' : p.obj # line'[i].req.obj
  <2>1. CASE i \in Closing /\ line'[i] = line[i]
    <3>1. Stands(HostOf(line[i].req)) /\ Known(line[i].req.obj) /\ \A p \in gems : p.obj # line[i].req.obj
      BY <2>1 DEF HoldInv
    <3> QED
      BY <1>2, <2>1, <3>1 DEF Stands, Known
  <2>2. CASE line'[i].req = q
    <3>1. q.obj < nextGem
      BY DEF Stands
    <3>2. Known(line[i].req.obj)'
      BY <1>2, <2>2, <3>1 DEF Known
    <3>3. Stands(HostOf(line[i].req))'
      BY <2>2 DEF Stands
    <3> QED
      BY <2>2, <3>2, <3>3
  <2> QED
    BY <1>5, <2>1, <2>2
<1>11. \A i, j \in Closing' : i # j => line'[i].req.obj # line'[j].req.obj
  <2>1. line'[n].req = q
    BY <1>1
  <2> QED
    BY <1>6, <2>1 DEF HoldInv
<1>12. /\ \A g \in hostGems' : g.obj < nextGem'
       /\ \A g, h \in hostGems' :
            (g.obj = h.obj \/ (g.file = h.file /\ g.handle = h.handle)) => g = h
       /\ \A p, r \in gems' : p.obj = r.obj => p = r
  BY DEF HoldInv
<1> QED
  BY <1>7, <1>8, <1>9, <1>10, <1>11, <1>12 DEF HoldInv

(* The host's driver makes a buffer under a number of its own.             *)
LEMMA MakeHolds ==
  ASSUME LifeInv, HostedInv, HoldInv, ServeMakeGem
  PROVE  HoldInv'
<1>q. PICK q : q = Head(line).req
  OBVIOUS
<1>g. PICK g : g = [file |-> q.file, handle |-> NumberFor(q.file), obj |-> nextGem]
  OBVIOUS
<1>1. Oldest("gem_make") /\ UNCHANGED <<file, hosts, gems, taken>>
  BY DEF ServeMakeGem, rest
<1>2. line # <<>> /\ Head(line) = line[1] /\ q \in Requests /\ q.op = "gem_make" /\ q.file \in DrmFiles
  BY <1>1, <1>q, OldestIs, RequestKinds
<1>3. g \in HostGem /\ \A h \in hostGems : ~ (h.file = q.file /\ h.handle = g.handle)
  BY <1>2, <1>g, NumberIsFree DEF LifeInv, GemTypes, HostGem
<1>4. g.file = q.file /\ g.obj = nextGem
  BY <1>g
<1>5. \/ UNCHANGED <<hostGems, nextGem>> /\ AnswerWith(FALSE, None)
      \/ /\ q.file \in hosts /\ hostGems' = hostGems \cup {g} /\ nextGem' = nextGem + 1
         /\ AnswerWith(TRUE, g)
  BY <1>q, <1>g DEF ServeMakeGem, Answer
<1>6. q = line[1].req
  BY <1>2, <1>q
<1>7. CASE UNCHANGED <<hostGems, nextGem>> /\ AnswerWith(FALSE, None)
  <2>1. QuietCalls /\ QuietLine
    BY <1>2, <1>7, QuietSteps
  <2> DEFINE gone == {}
  <2>2. /\ \A h \in hostGems : h.file \in hosts' /\ h.obj \notin gone \cup taken' => h \in hostGems'
        /\ \A p \in gems' : p.obj \notin gone
        /\ \A t \in Threads : Made(t)' => call'[t].got.obj \notin gone
        /\ \A i \in Closing' : line'[i].req.obj \notin gone
    BY <1>7
  <2> HIDE DEF gone
  <2> QED
    BY <1>1, <1>7, <2>1, <2>2, HoldFrame
<1>8. CASE /\ q.file \in hosts /\ hostGems' = hostGems \cup {g} /\ nextGem' = nextGem + 1
           /\ AnswerWith(TRUE, g)
  <2>1. nextGem \in Nat /\ file[q.file] # "none"
    BY <1>8 DEF LifeInv, GemTypes, HostedInv
  <2>2. /\ Len(line) \in Nat \ {0} /\ Len(line') = Len(line) - 1
        /\ \A i \in 1 .. Len(line') : line'[i] = line[i + 1]
        /\ \A t \in Threads :
             IF t = line[1].thread
             THEN /\ call'[t] # None /\ call'[t].req = q
                  /\ call'[t].ok = TRUE /\ call'[t].got = g
             ELSE call'[t] = call[t]
    BY <1>2, <1>3, <1>6, <1>8, AnswerTakes DEF LifeInv
  <2>3. \A i \in Closing' : i + 1 \in Closing /\ line'[i] = line[i + 1] /\ i \in Nat
    BY <2>2 DEF Closing
  <2>4. \A t \in Threads : Made(t)' =>
          \/ Made(t) /\ call'[t] = call[t] /\ t # line[1].thread
          \/ t = line[1].thread /\ call'[t].got = g /\ call'[t].req = q
    BY <2>2 DEF Made, Asked
  <2>5. /\ \A h \in hostGems : h.obj \in Nat
        /\ \A p \in gems : p.obj \in Nat /\ HostOf(p).obj = p.obj
        /\ \A t \in Threads : Made(t) => call[t].got.obj \in Nat
        /\ \A i \in Closing : line[i].req.obj \in Nat /\ HostOf(line[i].req).obj = line[i].req.obj
    <3>1. \A i \in Closing : line[i].req \in InLine
      BY DEF Closing, InLine
    <3>2. \A i \in Closing : line[i].req.obj \in Nat
      BY <3>1, LineHolds, RequestKinds DEF Closing, Closings, FirstCloses
    <3>3. \A t \in Threads : Made(t) => call[t].got \in HostGem
      BY DEF LifeInv, GotInv, Made, Asked
    <3> QED
      BY <3>2, <3>3 DEF LifeInv, GemTypes, Buffer, HostGem, HostOf
  <2>6. \A x : x.obj \in Nat /\ Stands(x) => Stands(x)'
    BY <1>1, <1>8, <2>1 DEF Stands
  <2>7. \A o \in Nat : Known(o) => Known(o)'
    BY <1>4, <1>8, <2>1, <2>4 DEF Known
  <2>8. Stands(g)'
    BY <1>1, <1>4, <1>8, <2>1 DEF Stands
  <2>9. \A p \in gems : p.obj < nextGem
    BY <2>5 DEF HoldInv, Stands
  <2>10. \A p \in gems' : Stands(HostOf(p))'
    BY <1>1, <2>5, <2>6 DEF HoldInv
  <2>11. ASSUME NEW t \in Threads, Made(t)'
         PROVE  /\ Stands(call[t].got)' /\ call'[t].got.file = call'[t].req.file
                /\ \A p \in gems' : p.obj # call'[t].got.obj
    <3>1. CASE Made(t) /\ call'[t] = call[t]
      <4>1. /\ Stands(call[t].got) /\ call[t].got.file = call[t].req.file
            /\ \A p \in gems : p.obj # call[t].got.obj
            /\ call[t].got.obj \in Nat
        BY <2>5, <3>1 DEF HoldInv
      <4> QED
        BY <1>1, <1>8, <2>1, <3>1, <4>1 DEF Stands
    <3>2. CASE call'[t].got = g /\ call'[t].req = q
      <4>1. \A p \in gems' : p.obj # g.obj
        BY <1>1, <1>4, <2>1, <2>5, <2>9
      <4> QED
        BY <1>4, <2>8, <3>2, <4>1 DEF Stands
    <3> QED
      BY <2>4, <2>11, <3>1, <3>2
  <2>12. \A t, u \in Threads :
           Made(t)' /\ Made(u)' /\ t # u => call'[t].got.obj # call'[u].got.obj
    <3>1. \A t \in Threads : Made(t) => call[t].got.obj < nextGem /\ call[t].got.obj # g.obj
      BY <1>4, <2>1, <2>5 DEF HoldInv, Stands
    <3> QED
      BY <2>4, <3>1 DEF HoldInv
  <2>13. ASSUME NEW i \in Closing'
         PROVE  /\ Stands(HostOf(line[i].req))' /\ Known(line[i].req.obj)'
                /\ \A p \in gems' : p.obj # line'[i].req.obj
    <3>r. PICK r : r = line[i + 1].req
      OBVIOUS
    <3>1. i + 1 \in Closing /\ line'[i].req = r
      BY <2>3, <3>r
    <3>2. /\ Stands(HostOf(r)) /\ Known(r.obj) /\ \A p \in gems : p.obj # r.obj
          /\ r.obj \in Nat /\ HostOf(r).obj = r.obj
      BY <2>5, <3>1, <3>r DEF HoldInv
    <3>3. Stands(HostOf(r))'
      BY <1>1, <1>8, <2>1, <3>2 DEF Stands
    <3>4. Stands(HostOf(line[i].req))'
      BY <3>1, <3>3 DEF Stands, HostOf
    <3>5. Known(line[i].req.obj)'
      BY <2>7, <3>1, <3>2 DEF Known
    <3> QED
      BY <1>1, <3>1, <3>2, <3>4, <3>5
  <2>14. \A i, j \in Closing' : i # j => line'[i].req.obj # line'[j].req.obj
    BY <2>3 DEF HoldInv
  <2>15. /\ \A h \in hostGems' : h.obj < nextGem'
         /\ \A h, k \in hostGems' :
              (h.obj = k.obj \/ (h.file = k.file /\ h.handle = k.handle)) => h = k
    BY <1>3, <1>4, <1>8, <2>1, <2>5 DEF HoldInv
  <2>16. \A p, r \in gems' : p.obj = r.obj => p = r
    BY <1>1 DEF HoldInv
  <2> QED
    BY <2>10, <2>11, <2>12, <2>13, <2>14, <2>15, <2>16 DEF HoldInv
<1> QED
  BY <1>5, <1>7, <1>8

(* nvgpu_gem_proxy_create: the buffer is the proxy's from here on.         *)
LEMMA ProxyHolds ==
  ASSUME LifeInv, HoldInv, ExportInv, NEW t \in Threads, Made(t), NEW p \in Buffer,
         HostOf(p) = call[t].got, p.obj = call[t].got.obj,
         gems' = gems \cup {p}, call' = [call EXCEPT ![t] = None],
         UNCHANGED <<file, hosts, hostGems, nextGem, taken, line>>
  PROVE  HoldInv' /\ ExportInv'
<1>1. \A u \in Threads : u # t => call'[u] = call[u]
  BY DEF LifeInv, AskInv, CallTypes
<1>2. call'[t] = None
  BY DEF LifeInv, AskInv, CallTypes
<1>3. \A u \in Threads : Made(u)' => u # t /\ Made(u) /\ call'[u] = call[u]
  BY <1>1, <1>2 DEF Made, Asked
<1>4. \A u \in Threads : Exported(u)' => u # t /\ Exported(u) /\ call'[u] = call[u]
  BY <1>1, <1>2 DEF Exported, Asked
<1>5. \A o : Known(o) => Known(o)' /\ o # p.obj
  BY <1>3 DEF Known
<1>6. Stands(HostOf(p)) /\ \A r \in gems : r.obj # p.obj
  BY DEF HoldInv
<1>7. \A g : Stands(g) => Stands(g)'
  BY DEF Stands
<1>8. \A r \in gems' : Stands(HostOf(r))'
  BY <1>6, <1>7 DEF HoldInv
<1>9. \A r, s \in gems' : r.obj = s.obj => r = s
  BY <1>6 DEF HoldInv
<1>10. ASSUME NEW u \in Threads, Made(u)'
       PROVE  /\ Stands(call[u].got)' /\ call'[u].got.file = call'[u].req.file
              /\ \A r \in gems' : r.obj # call'[u].got.obj
  <2>1. /\ Stands(call[u].got) /\ call[u].got.file = call[u].req.file
        /\ \A r \in gems : r.obj # call[u].got.obj
        /\ call[u].got.obj # p.obj /\ call'[u] = call[u]
    BY <1>3, <1>10 DEF HoldInv
  <2> QED
    BY <2>1 DEF Stands
<1>11. \A u, v \in Threads :
         Made(u)' /\ Made(v)' /\ u # v => call'[u].got.obj # call'[v].got.obj
  BY <1>3 DEF HoldInv
<1>12. ASSUME NEW i \in Closing'
       PROVE  /\ Stands(HostOf(line[i].req))' /\ Known(line[i].req.obj)'
              /\ \A r \in gems' : r.obj # line'[i].req.obj
  <2>1. i \in Closing /\ line'[i].req = line[i].req
    BY DEF Closing
  <2>2. Stands(HostOf(line[i].req)) /\ Known(line[i].req.obj) /\ \A r \in gems : r.obj # line[i].req.obj
    BY <2>1 DEF HoldInv
  <2> QED
    BY <1>3, <1>5, <2>1, <2>2 DEF Stands, Known
<1>13. \A i, j \in Closing' : i # j => line'[i].req.obj # line'[j].req.obj
  BY DEF HoldInv, Closing
<1>14. HoldInv'
  BY <1>8, <1>9, <1>10, <1>11, <1>12, <1>13 DEF HoldInv
<1>15. ASSUME NEW q \in InLine', q.op = "gem_export"
       PROVE  /\ Known(q.obj)'
              /\ \A r \in gems' : r.obj = q.obj => r.owner = q.owner /\ r.host = q.host
  BY <1>5, <1>15 DEF ExportInv, InLine
<1>16. ASSUME NEW u \in Threads, Exported(u)'
       PROVE  /\ Known(call[u].req.obj)'
              /\ \A r \in gems' : r.obj = call'[u].req.obj /\ r.obj \notin taken' =>
                   IF call'[u].ok THEN call'[u].got.obj = r.obj ELSE r.owner \notin hosts'
  <2>1. /\ Known(call[u].req.obj) /\ call'[u] = call[u]
        /\ \A r \in gems : r.obj = call[u].req.obj /\ r.obj \notin taken =>
             IF call[u].ok THEN call[u].got.obj = r.obj ELSE r.owner \notin hosts
    BY <1>4, <1>16 DEF ExportInv
  <2> QED
    BY <1>3, <1>5, <2>1 DEF Known
<1> QED
  BY <1>14, <1>15, <1>16 DEF ExportInv


\* Files stay opened once.
FilesStay == \A f \in Files : file[f] # "none" => file'[f] # "none"

\* A file enters the backend's table when it is opened.
TableGrows == \A f \in hosts' : f \in hosts \/ file[f] = "none"

(* A step about no buffer.                                                 *)
LEMMA QuietHolds ==
  ASSUME LifeInv, HoldInv, ExportInv, QuietCalls, QuietLine, QuietExports, FilesStay, TableGrows,
         UNCHANGED <<gems, nextGem, taken>>, hostGems' \subseteq hostGems,
         \A g \in hostGems : g.file \in hosts' => g \in hostGems'
  PROVE  HoldInv' /\ ExportInv'
<1> DEFINE gone == {}
<1>1. /\ \A g \in hostGems : g.file \in hosts' /\ g.obj \notin gone \cup taken' => g \in hostGems'
      /\ \A p \in gems' : p.obj \notin gone
      /\ \A t \in Threads : Made(t)' => call'[t].got.obj \notin gone
      /\ \A i \in Closing' : line'[i].req.obj \notin gone
  OBVIOUS
<1> HIDE DEF gone
<1>2. HoldInv'
  BY <1>1, HoldFrame DEF FilesStay, TableGrows
<1> QED
  BY <1>2, ExportFrame DEF TableGrows

(* A close that is for a buffer of its own takes that and no other; what   *)
(* any other close takes is noted.                                         *)
LEMMA CloseHolds ==
  ASSUME LifeInv, HoldInv, ExportInv, ServeGemClose
  PROVE  HoldInv' /\ ExportInv'
<1>q. PICK q : q = Head(line).req
  OBVIOUS
<1>1. /\ line # <<>> /\ q.op \in Closings /\ hostGems' = hostGems \ Meant(q) /\ AnswerWith(TRUE, None)
      /\ taken' = IF q.op = "gem_second" \/ q.obj \in taken
                  THEN taken \cup {g.obj : g \in Meant(q)} ELSE taken
      /\ UNCHANGED <<file, hosts, gems, nextGem>>
  BY <1>q DEF ServeGemClose, Answer, rest, Oldest
<1>2. line # <<>> /\ q = line[1].req /\ q \in Requests /\ Oldest(q.op)
  <2>1. Oldest(q.op)
    BY <1>1, <1>q DEF Oldest
  <2> QED
    BY <1>1, <1>q, <2>1, OldestIs
<1>3. QuietCalls /\ QuietLine /\ QuietExports
  BY <1>1, <1>2, <1>q, QuietSteps DEF Closings
<1>4. /\ Len(line) \in Nat \ {0} /\ Len(line') = Len(line) - 1
      /\ \A i \in 1 .. Len(line') : line'[i] = line[i + 1]
  BY <1>1, <1>2, AnswerTakes DEF LifeInv
<1>5. taken \subseteq taken' /\ hostGems' \subseteq hostGems
  BY <1>1
<1>6. /\ nextGem' = nextGem /\ gems' \subseteq gems
      /\ \A f \in hosts' : f \in hosts \/ file[f] = "none"
      /\ \A f \in Files : file[f] # "none" => file'[f] # "none"
  BY <1>1
<1>7. ASSUME q.op = "gem_second" \/ q.obj \in taken
      PROVE  HoldInv'
  <2> DEFINE gone == {}
  <2>1. taken' = taken \cup {g.obj : g \in Meant(q)}
    BY <1>1, <1>7
  <2>2. /\ \A g \in hostGems : g.file \in hosts' /\ g.obj \notin gone \cup taken' => g \in hostGems'
        /\ \A p \in gems' : p.obj \notin gone
        /\ \A t \in Threads : Made(t)' => call'[t].got.obj \notin gone
        /\ \A i \in Closing' : line'[i].req.obj \notin gone
    BY <1>1, <2>1
  <2> HIDE DEF gone
  <2> QED
    BY ONLY <1>3, <1>5, <1>6, <2>2, HoldFrame, LifeInv, HoldInv
<1>8. ASSUME q.op \in FirstCloses, q.obj \notin taken
      PROVE  HoldInv'
  <2>1. 1 \in Closing
    BY <1>2, <1>4, <1>8 DEF Closing
  <2>2. \A i \in Closing' : i + 1 \in Closing /\ i + 1 # 1 /\ line'[i] = line[i + 1]
    BY <1>4 DEF Closing
  <2> DEFINE gone == {q.obj}
  <2>3. \A i \in Closing' : line'[i].req.obj \notin gone
    BY <1>2, <2>1, <2>2 DEF HoldInv
  <2>4. \A p \in gems' : p.obj \notin gone
    BY <1>1, <1>2, <2>1 DEF HoldInv
  <2>5. \A t \in Threads : Made(t)' => call'[t].got.obj \notin gone
    <3>1. Known(q.obj)
      BY <1>2, <2>1 DEF HoldInv
    <3>2. \A t \in Threads : Made(t)' => Made(t) /\ call'[t] = call[t]
      BY <1>3 DEF QuietCalls, Made, Asked
    <3> QED
      BY <3>1, <3>2 DEF Known
  <2>6. ASSUME NEW g \in hostGems, g.obj # q.obj PROVE g \in hostGems'
    <3> SUFFICES ASSUME g \in Meant(q) PROVE FALSE
      BY <1>1
    <3>1. q.owner \in hosts /\ g.file = q.owner /\ g.handle = q.host
      BY DEF Meant
    <3>2. HostOf(q).file = q.owner /\ HostOf(q).handle = q.host /\ HostOf(q).obj = q.obj
      BY DEF HostOf
    <3>3. Stands(HostOf(q))
      BY <1>2, <2>1 DEF HoldInv
    <3>4. HostOf(q) \in hostGems
      BY <1>8, <3>1, <3>2, <3>3 DEF Stands
    <3>5. g = HostOf(q)
      BY <3>1, <3>2, <3>4 DEF HoldInv
    <3> QED
      BY <2>6, <3>2, <3>5
  <2>7. \A g \in hostGems : g.file \in hosts' /\ g.obj \notin gone \cup taken' => g \in hostGems'
    BY <2>6
  <2> HIDE DEF gone
  <2> QED
    BY ONLY <1>3, <1>5, <1>6, <2>3, <2>4, <2>5, <2>7, HoldFrame, LifeInv, HoldInv
<1>9. HoldInv'
  BY <1>1, <1>7, <1>8 DEF Closings, FirstCloses
<1> QED
  BY <1>3, <1>5, <1>6, <1>9, ExportFrame

(* GEM_EXPORT finds the buffer that the caller's handle is for.            *)
LEMMA ExportFinds ==
  ASSUME LifeInv, HoldInv, ExportInv, ServeExport
  PROVE  HoldInv' /\ ExportInv'
<1>q. PICK q : q = Head(line).req
  OBVIOUS
<1>1. /\ Oldest("gem_export") /\ UNCHANGED <<file, hosts, gems, hostGems, nextGem, taken>>
      /\ \/ Meant(q) = {} /\ AnswerWith(FALSE, None)
         \/ \E g \in Meant(q) : AnswerWith(TRUE, g)
  BY <1>q DEF ServeExport, Answer, rest, gem
<1>2. line # <<>> /\ q = line[1].req /\ q \in Requests /\ q.op = "gem_export"
  BY <1>1, <1>q, OldestIs
<1>3. PICK ok \in BOOLEAN, got \in HostGem \cup {None} :
        /\ AnswerWith(ok, got)
        /\ IF ok THEN got \in Meant(q) ELSE Meant(q) = {}
  <2>1. Meant(q) \subseteq HostGem
    BY DEF Meant, LifeInv, GemTypes
  <2> QED
    BY <1>1, <2>1
<1>4. /\ q \in InLine /\ InLine' \subseteq InLine
      /\ \A t \in Threads :
           IF t = line[1].thread
           THEN call'[t].req = q /\ call'[t].ok = ok /\ call'[t].got = got
           ELSE call'[t] = call[t]
  BY <1>2, <1>3, <1>q, AnswerTakes, LineChanges DEF LifeInv
<1>5. QuietCalls /\ QuietLine
  BY <1>2, <1>3, <1>q, QuietSteps
<1>6. HoldInv'
  <2> DEFINE gone == {}
  <2>1. /\ \A g \in hostGems : g.file \in hosts' /\ g.obj \notin gone \cup taken' => g \in hostGems'
        /\ \A p \in gems' : p.obj \notin gone
        /\ \A t \in Threads : Made(t)' => call'[t].got.obj \notin gone
        /\ \A i \in Closing' : line'[i].req.obj \notin gone
    BY <1>1
  <2> HIDE DEF gone
  <2> QED
    BY <1>1, <1>5, <2>1, HoldFrame
<1>7. \A t \in Threads : Made(t)' => Made(t) /\ call'[t] = call[t]
  BY <1>5 DEF QuietCalls, Made, Asked
<1>8. \A o : Known(o) => Known(o)'
  BY <1>1, <1>7 DEF Known
<1>9. ASSUME NEW p \in gems, p.obj = q.obj, p.obj \notin taken
      PROVE  IF ok THEN got.obj = p.obj ELSE p.owner \notin hosts
  <2>1. p.owner = q.owner /\ p.host = q.host
    BY <1>2, <1>4, <1>9 DEF ExportInv
  <2>2. HostOf(p).file = q.owner /\ HostOf(p).handle = q.host /\ HostOf(p).obj = p.obj
    BY <2>1 DEF HostOf
  <2>3. q.owner \in hosts => HostOf(p) \in hostGems
    BY <1>9, <2>2 DEF HoldInv, Stands
  <2> QED
    BY <1>3, <2>1, <2>2, <2>3 DEF HoldInv, Meant
<1>10. ASSUME NEW r \in InLine', r.op = "gem_export"
       PROVE  /\ Known(r.obj)'
              /\ \A p \in gems' : p.obj = r.obj => p.owner = r.owner /\ p.host = r.host
  BY <1>1, <1>4, <1>8, <1>10 DEF ExportInv
<1>11. ASSUME NEW t \in Threads, Exported(t)'
       PROVE  /\ Known(call[t].req.obj)'
              /\ \A p \in gems' : p.obj = call'[t].req.obj /\ p.obj \notin taken' =>
                   IF call'[t].ok THEN call'[t].got.obj = p.obj ELSE p.owner \notin hosts'
  <2>1. CASE t = line[1].thread
    <3>1. Known(q.obj) /\ call'[t].req = q /\ call'[t].ok = ok /\ call'[t].got = got
      BY <1>2, <1>4, <2>1 DEF ExportInv
    <3> QED
      BY <1>1, <1>7, <1>9, <3>1 DEF Known
  <2>2. CASE t # line[1].thread
    <3>1. Exported(t) /\ call'[t] = call[t]
      BY <1>4, <1>11, <2>2 DEF Exported, Asked
    <3>2. /\ Known(call[t].req.obj)
          /\ \A p \in gems : p.obj = call[t].req.obj /\ p.obj \notin taken =>
               IF call[t].ok THEN call[t].got.obj = p.obj ELSE p.owner \notin hosts
      BY <3>1 DEF ExportInv
    <3> QED
      BY <1>1, <1>7, <3>1, <3>2 DEF Known
  <2> QED
    BY <2>1, <2>2
<1> QED
  BY <1>6, <1>10, <1>11 DEF ExportInv

(* nvgpu_gem_to_host reads the proxy for the caller's handle.              *)
LEMMA ExportAsks ==
  ASSUME LifeInv, HoldInv, ExportInv,
         NEW t \in Threads, NEW f \in DrmFiles, NEW o \in names[f], ExportGem(t, f, o)
  PROVE  HoldInv' /\ ExportInv'
<1>p. PICK p : p = Proxy(o)
  OBVIOUS
<1>q. PICK q : q = About("gem_export", f, p)
  OBVIOUS
<1>1. p \in gems /\ p.obj = o /\ p \in Buffer
  BY <1>p, ProxyStands DEF LifeInv, GemTypes
<1>2. q \in Requests /\ q.op = "gem_export" /\ q.owner = p.owner /\ q.host = p.host /\ q.obj = o
  BY <1>1, <1>q, AboutIsRequest
<1>3. Ask(t, q) /\ UNCHANGED <<file, hosts, gems, hostGems, nextGem, taken>>
  BY <1>p, <1>q DEF ExportGem, On, rest, gem
<1>4. QuietCalls /\ QuietLine /\ InLine' = InLine \cup {q}
  BY <1>2, <1>3, QuietSteps, LineChanges DEF Ask, FirstCloses
<1>5. ~ Exported(t)' /\ \A u \in Threads : u # t => call'[u] = call[u]
  BY <1>2, <1>3, EnqueueAdds DEF Ask, Exported, LifeInv
<1>6. HoldInv'
  <2> DEFINE gone == {}
  <2>1. /\ \A g \in hostGems : g.file \in hosts' /\ g.obj \notin gone \cup taken' => g \in hostGems'
        /\ \A r \in gems' : r.obj \notin gone
        /\ \A u \in Threads : Made(u)' => call'[u].got.obj \notin gone
        /\ \A i \in Closing' : line'[i].req.obj \notin gone
    BY <1>3
  <2> HIDE DEF gone
  <2> QED
    BY <1>3, <1>4, <2>1, HoldFrame
<1>7. \A u \in Threads : Made(u)' => Made(u) /\ call'[u] = call[u]
  BY <1>4 DEF QuietCalls, Made, Asked
<1>8. \A x : Known(x) => Known(x)'
  BY <1>3, <1>7 DEF Known
<1>9. Known(o) /\ \A r \in gems : r.obj = o => r = p
  <2>1. o < nextGem
    BY <1>1 DEF HoldInv, Stands, HostOf
  <2> QED
    BY <1>1, <2>1 DEF HoldInv, Known
<1>10. ASSUME NEW r \in InLine', r.op = "gem_export"
       PROVE  /\ Known(r.obj)'
              /\ \A s \in gems' : s.obj = r.obj => s.owner = r.owner /\ s.host = r.host
  <2>1. CASE r = q
    BY <1>2, <1>3, <1>8, <1>9, <2>1
  <2>2. CASE r \in InLine
    BY <1>3, <1>8, <1>10, <2>2 DEF ExportInv
  <2> QED
    BY <1>4, <2>1, <2>2
<1>11. ASSUME NEW u \in Threads, Exported(u)'
       PROVE  /\ Known(call[u].req.obj)'
              /\ \A s \in gems' : s.obj = call'[u].req.obj /\ s.obj \notin taken' =>
                   IF call'[u].ok THEN call'[u].got.obj = s.obj ELSE s.owner \notin hosts'
  <2>1. Exported(u) /\ call'[u] = call[u]
    BY <1>5, <1>11 DEF Exported, Asked
  <2>2. /\ Known(call[u].req.obj)
        /\ \A s \in gems : s.obj = call[u].req.obj /\ s.obj \notin taken =>
             IF call[u].ok THEN call[u].got.obj = s.obj ELSE s.owner \notin hosts
    BY <2>1 DEF ExportInv
  <2> QED
    BY <1>3, <1>7, <2>1, <2>2 DEF Known
<1> QED
  BY <1>6, <1>10, <1>11 DEF ExportInv

(* nvgpu_gem_free: a buffer that nobody has a handle for any longer.       *)
LEMMA DropHolds ==
  ASSUME LifeInv, HoldInv, ExportInv,
         NEW t \in Threads, NEW x \in DOMAIN names, NEW o \in names[x], DropName(t, x, o)
  PROVE  HoldInv' /\ ExportInv'
<1>p. PICK p : p = Proxy(o)
  OBVIOUS
<1>q. PICK q : q = About("gem_close", x, p)
  OBVIOUS
<1>1. p \in gems /\ p.obj = o /\ p \in Buffer
  BY <1>p, ProxyStands DEF LifeInv, GemTypes
<1>2. /\ q \in Requests /\ q.op = "gem_close" /\ q.op \in FirstCloses
      /\ q.owner = p.owner /\ q.host = p.host /\ q.obj = o
  BY <1>1, <1>q, AboutIsRequest DEF LifeInv, GemTypes, Closings, FirstCloses
<1>3. /\ UNCHANGED <<file, hosts, hostGems, nextGem, taken>>
      /\ \/ UNCHANGED <<call, line, gems>>
         \/ gems' = {r \in gems : r.obj # o} /\ UNCHANGED <<call, line>>
         \/ gems' = {r \in gems : r.obj # o} /\ Ask(t, q)
  BY <1>p, <1>q DEF DropName, On, rest
<1>4. CASE UNCHANGED <<call, line>> /\ gems' \subseteq gems
  <2>1. QuietCalls /\ QuietLine /\ QuietExports
    BY <1>4, QuietSteps
  <2> DEFINE gone == {}
  <2>2. /\ \A g \in hostGems : g.file \in hosts' /\ g.obj \notin gone \cup taken' => g \in hostGems'
        /\ \A r \in gems' : r.obj \notin gone
        /\ \A u \in Threads : Made(u)' => call'[u].got.obj \notin gone
        /\ \A i \in Closing' : line'[i].req.obj \notin gone
    BY <1>3
  <2> HIDE DEF gone
  <2>3. HoldInv'
    BY <1>3, <1>4, <2>1, <2>2, HoldFrame
  <2> QED
    BY <1>3, <1>4, <2>1, <2>3, ExportFrame
<1>5. CASE gems' = {r \in gems : r.obj # o} /\ Ask(t, q)
  <2>1. Enqueue(t, q) /\ call[t] = None
    BY <1>5 DEF Ask
  <2>2. HostOf(q) = HostOf(p) /\ HostOf(q).obj = q.obj
    BY <1>1, <1>2 DEF HostOf
  <2>3. Stands(HostOf(q))
    BY <1>1, <2>2 DEF HoldInv
  <2>4. /\ \A u \in Threads : Made(u) => call[u].got.obj # q.obj
        /\ \A i \in Closing : line[i].req.obj # q.obj
    BY <1>1, <1>2 DEF HoldInv
  <2>5. HoldInv'
    BY <1>2, <1>3, <1>5, <2>1, <2>2, <2>3, <2>4, CloseAdds
  <2>6. QuietCalls /\ QuietExports
    BY <1>2, <2>1, QuietSteps
  <2> QED
    BY <1>3, <1>5, <2>5, <2>6, ExportFrame
<1> QED
  BY <1>3, <1>4, <1>5

(* nvgpu_gem_proxy_create makes a proxy, or has the buffer closed.         *)
LEMMA EndMakeHolds ==
  ASSUME LifeInv, HoldInv, ExportInv, NEW t \in Threads, EndMakeGem(t)
  PROVE  HoldInv' /\ ExportInv'
<1>f. PICK f : f = call[t].req.file
  OBVIOUS
<1>p. PICK p : p = [obj |-> call[t].got.obj, owner |-> f, host |-> call[t].got.handle]
  OBVIOUS
<1>1. Asked(t, "gem_make") /\ UNCHANGED <<file, hosts, hostGems, nextGem, taken>>
  BY DEF EndMakeGem, rest
<1>2. call[t] # None /\ call[t].req.op = "gem_make" /\ f \in DrmFiles
  BY <1>1, <1>f, AskedIs, RequestKinds
<1>0. ASSUME QuietCalls, QuietLine, QuietExports, UNCHANGED gems
      PROVE  HoldInv' /\ ExportInv'
  BY <1>0, <1>1, QuietHolds DEF FilesStay, TableGrows
<1>3. CASE ~ call[t].ok
  <2>1. Return(t) /\ UNCHANGED gems
    BY <1>3 DEF EndMakeGem
  <2>2. QuietCalls /\ QuietLine /\ QuietExports
    BY <1>2, <2>1, QuietSteps
  <2> QED
    BY <1>0, <2>1, <2>2
<1>4. CASE call[t].ok
  <2>1. call[t].state = "done" /\ call[t].got \in HostGem /\ Made(t)
    BY <1>1, <1>2, <1>4 DEF LifeInv, GotInv, Made
  <2>2. /\ call[t].got.file = f /\ Stands(call[t].got)
        /\ \A r \in gems : r.obj # call[t].got.obj
    BY <1>f, <2>1 DEF HoldInv
  <2>3. p \in Buffer /\ p.obj = call[t].got.obj /\ HostOf(p) = call[t].got
    BY <1>2, <1>p, <2>1, <2>2 DEF HostGem, Buffer, HostOf
  <2>4. \/ /\ gems' = gems \cup {p} /\ call' = [call EXCEPT ![t] = None] /\ UNCHANGED line
        \/ /\ \/ \E op \in FirstCloses : Enqueue(t, About(op, f, p))
              \/ Enqueue(t, About("gem_second", f, p))
              \/ call' = [call EXCEPT ![t] = None] /\ UNCHANGED line
           /\ UNCHANGED gems
    BY <1>4, <1>f, <1>p DEF EndMakeGem, FirstCloses
  <2>5. CASE gems' = gems \cup {p} /\ call' = [call EXCEPT ![t] = None] /\ UNCHANGED line
    BY <1>1, <2>1, <2>3, <2>5, ProxyHolds
  <2>6. ASSUME NEW op \in FirstCloses, Enqueue(t, About(op, f, p)), UNCHANGED gems
        PROVE  HoldInv' /\ ExportInv'
    <3>q. PICK q : q = About(op, f, p)
      OBVIOUS
    <3>0. op \in {"gem_export"} \cup Closings /\ f \in DrmFiles \cup {None}
      BY <1>2, <2>6 DEF FirstCloses, Closings
    <3>1. /\ q \in Requests /\ q.op = op
          /\ q.owner = p.owner /\ q.host = p.host /\ q.obj = p.obj
      BY <2>3, <3>0, <3>q, AboutIsRequest
    <3>2. HostOf(q) = call[t].got /\ HostOf(q).obj = q.obj
      BY <2>3, <3>1 DEF HostOf
    <3>3. /\ \A u \in Threads : Made(u) /\ u # t => call[u].got.obj # q.obj
          /\ \A i \in Closing : line[i].req.obj # q.obj
          /\ \A r \in gems : r.obj # q.obj
      BY <2>1, <2>3, <3>1 DEF HoldInv, Known
    <3>4. HoldInv'
      BY <1>1, <2>1, <2>2, <2>6, <3>1, <3>2, <3>3, <3>q, CloseAdds
    <3>5. QuietCalls /\ QuietExports
      BY <2>1, <2>6, <3>1, <3>q, QuietSteps DEF FirstCloses
    <3> QED
      BY <1>1, <2>6, <3>4, <3>5, ExportFrame
  <2>7. CASE Enqueue(t, About("gem_second", f, p)) /\ UNCHANGED gems
    <3>q. PICK q : q = About("gem_second", f, p)
      OBVIOUS
    <3>1. q \in Requests /\ q.op = "gem_second"
      BY <1>2, <2>3, <3>q, AboutIsRequest DEF Closings
    <3>2. QuietCalls /\ QuietLine /\ QuietExports
      BY <2>1, <2>7, <3>1, <3>q, QuietSteps DEF FirstCloses
    <3> QED
      BY <1>0, <2>7, <3>2
  <2>8. CASE call' = [call EXCEPT ![t] = None] /\ UNCHANGED line /\ UNCHANGED gems
    BY <1>0, <2>8, QuietSteps
  <2> QED
    BY <2>4, <2>5, <2>6, <2>7, <2>8
<1> QED
  BY <1>3, <1>4

(* MakeGem's answer is about a new buffer: no export is about it.          *)
LEMMA MakeExports ==
  ASSUME LifeInv, HoldInv, ExportInv, ServeMakeGem
  PROVE  ExportInv'
<1>1. Oldest("gem_make") /\ UNCHANGED <<hosts, gems, taken>>
  BY DEF ServeMakeGem, rest
<1>q. PICK q : q = Head(line).req
  OBVIOUS
<1>g. PICK g : g = [file |-> q.file, handle |-> NumberFor(q.file), obj |-> nextGem]
  OBVIOUS
<1>2. line # <<>> /\ Head(line) = line[1] /\ q \in Requests /\ q.op = "gem_make" /\ q.file \in DrmFiles
  BY <1>1, <1>q, OldestIs, RequestKinds
<1>3. g \in HostGem /\ g.obj = nextGem /\ nextGem \in Nat
  BY <1>2, <1>g, NumberIsFree DEF LifeInv, GemTypes, HostGem
<1>4. PICK ok \in BOOLEAN, got \in HostGem \cup {None} :
        /\ AnswerWith(ok, got)
        /\ IF ok THEN got = g /\ nextGem' = nextGem + 1 ELSE nextGem' = nextGem
  BY <1>3, <1>q, <1>g DEF ServeMakeGem, Answer
<1>5. /\ InLine' \subseteq InLine
      /\ \A t \in Threads :
           IF t = line[1].thread
           THEN call'[t].req = q /\ call'[t].ok = ok /\ call'[t].got = got
           ELSE call'[t] = call[t]
  BY <1>2, <1>4, <1>q, AnswerTakes, LineChanges DEF LifeInv
<1>6. \A t \in Threads : Made(t)' =>
        (Made(t) /\ call'[t] = call[t]) \/ (call'[t].got.obj = nextGem /\ nextGem' = nextGem + 1)
  BY <1>3, <1>4, <1>5 DEF Made, Asked
<1>7. \A o \in Nat : Known(o) => Known(o)'
  BY <1>3, <1>4, <1>6 DEF Known
<1>8. \A r \in InLine : r.op = "gem_export" => r.obj \in Nat
  BY LineHolds, RequestKinds
<1>9. \A t \in Threads : Exported(t)' => Exported(t) /\ call'[t] = call[t]
  BY <1>2, <1>5 DEF Exported, Asked
<1>10. ASSUME NEW r \in InLine', r.op = "gem_export"
       PROVE  /\ Known(r.obj)'
              /\ \A p \in gems' : p.obj = r.obj => p.owner = r.owner /\ p.host = r.host
  BY <1>1, <1>5, <1>7, <1>8, <1>10 DEF ExportInv
<1>11. ASSUME NEW t \in Threads, Exported(t)'
       PROVE  /\ Known(call[t].req.obj)'
              /\ \A p \in gems' : p.obj = call'[t].req.obj /\ p.obj \notin taken' =>
                   IF call'[t].ok THEN call'[t].got.obj = p.obj ELSE p.owner \notin hosts'
  <2>1. call'[t] = call[t] /\ Exported(t)
    BY <1>9, <1>11
  <2>o. PICK o : o = call[t].req.obj
    OBVIOUS
  <2>2. /\ Known(o) /\ o \in Nat
        /\ \A p \in gems : p.obj = o /\ p.obj \notin taken =>
             IF call[t].ok THEN call[t].got.obj = p.obj ELSE p.owner \notin hosts
    BY <2>1, <2>o, AskedIs, RequestKinds DEF ExportInv, Exported
  <2>3. Known(o)'
    BY <1>7, <2>2
  <2> QED
    BY <1>1, <2>1, <2>2, <2>3, <2>o DEF Known
<1> QED
  BY <1>10, <1>11 DEF ExportInv

(* Whoever closes, exports, passes on or gives up, buffers and numbers     *)
(* stay whose they are.                                                    *)
LEMMA StepKeepsBuffers ==
  ASSUME LifeInv, HostedInv, HoldInv, ExportInv, [NextLife]_vars
  PROVE  HoldInv' /\ ExportInv'
<1>1. ASSUME QuietCalls, QuietLine, QuietExports, UNCHANGED <<file, hosts, gem>>
      PROVE  HoldInv' /\ ExportInv'
  BY <1>1, QuietHolds DEF FilesStay, TableGrows, gem
<1>2. ASSUME UNCHANGED <<call, line, file, hosts, gem>>
      PROVE  HoldInv' /\ ExportInv'
  BY <1>1, <1>2, QuietSteps
<1>3. CASE UNCHANGED vars
  BY <1>2, <1>3 DEF vars, guest
<1>4. ASSUME NEW t \in Threads, NEW q \in Requests, Ask(t, q), q.op \notin FirstCloses \cup {"gem_export"},
             UNCHANGED <<file, hosts, gem>>
      PROVE  HoldInv' /\ ExportInv'
  BY <1>1, <1>4, QuietSteps DEF Ask
<1>5. ASSUME NEW t \in Threads, call[t] # None, Return(t), UNCHANGED <<file, hosts, gem>>
      PROVE  HoldInv' /\ ExportInv'
  BY <1>1, <1>5, QuietSteps
<1>6. ASSUME NEW f \in Files, Open(f)
      PROVE  HoldInv' /\ ExportInv'
  <2>1. /\ file[f] = "none" /\ hosts' = hosts \cup {f} /\ UNCHANGED <<call, line, gem>>
        /\ file' = [file EXCEPT ![f] = "open"] \/ file' = [file EXCEPT ![f] = "closed"]
    BY <1>6 DEF Open
  <2>2. FilesStay /\ TableGrows
    BY <2>1 DEF FilesStay, TableGrows, LifeInv, FileTypes
  <2>3. QuietCalls /\ QuietLine /\ QuietExports
    BY <2>1, QuietSteps
  <2> QED
    BY <2>1, <2>2, <2>3, QuietHolds DEF gem
<1>7. ASSUME \/ \E f \in CtlFiles, c \in Clients : NewClient(f, c)
             \/ \E r \in roots, d \in Devices : NewDevice(r, d)
      PROVE  HoldInv' /\ ExportInv'
  BY <1>2, <1>7 DEF NewClient, NewDevice
<1>8. ASSUME \/ \E f \in UvmFiles, addr \in Addresses, len \in 1 .. PoolMaxLen : MapPool(f, addr, len)
             \/ \E v \in vmas : UnmapPool(v)
      PROVE  HoldInv' /\ ExportInv'
  BY <1>2, <1>8 DEF MapPool, UnmapPool
<1>9. ASSUME NEW t \in Threads, NEW f \in CtlFiles \cup GpuFiles, NEW c \in Clients,
             \/ \E h \in Objects, parent \in Devices, region \in Regions :
                  Register(t, f, c, h, parent, region)
             \/ \E h \in Objects \cup Devices \cup {c} : Free(t, f, c, h)
      PROVE  HoldInv' /\ ExportInv'
  <2>1. UNCHANGED <<file, hosts, gem>>
    BY <1>9 DEF Register, Free
  <2>2. \/ UNCHANGED <<call, line>>
        \/ \E q \in Requests : Ask(t, q) /\ q.op \notin FirstCloses \cup {"gem_export"}
    <3>1. ASSUME NEW h \in Objects, NEW parent \in Devices, NEW region \in Regions,
                 Register(t, f, c, h, parent, region)
          PROVE  \E q \in Requests : Ask(t, q) /\ q.op = "register"
      BY <3>1, RequestKinds DEF Register
    <3>2. ASSUME NEW h \in Objects \cup Devices \cup {c}, Free(t, f, c, h)
          PROVE  UNCHANGED <<call, line>> \/ \E q \in Requests : Ask(t, q) /\ q.op = "free"
      BY <3>2, RequestKinds DEF Free
    <3> QED
      BY <1>9, <3>1, <3>2 DEF FirstCloses
  <2> QED
    BY <1>2, <1>4, <2>1, <2>2
<1>10. ASSUME NEW t \in Threads, EndRegister(t) \/ EndFree(t) \/ EndPlain(t)
       PROVE  HoldInv' /\ ExportInv'
  <2>1. call[t] # None /\ Return(t) /\ UNCHANGED <<file, hosts, gem>>
    BY <1>10 DEF EndRegister, EndFree, EndPlain, Asked
  <2> QED
    BY <1>5, <2>1
<1>11. ASSUME NEW t \in Threads, NEW f \in Files, BeginClose(t, f)
       PROVE  HoldInv' /\ ExportInv'
  <2>q. PICK q : q = [op |-> "close", file |-> f, client |-> None, handle |-> None]
    OBVIOUS
  <2>1. /\ file[f] = "open" /\ file' = [file EXCEPT ![f] = "closed"] /\ UNCHANGED <<hosts, gem>>
        /\ Ask(t, q) \/ UNCHANGED <<call, line>>
    BY <1>11, <2>q DEF BeginClose
  <2>2. q \in Requests /\ q.op = "close"
    BY <2>q, RequestKinds
  <2>3. FilesStay /\ TableGrows
    BY <2>1 DEF FilesStay, TableGrows, LifeInv, FileTypes
  <2>4. QuietCalls /\ QuietLine /\ QuietExports
    BY <2>1, <2>2, QuietSteps DEF Ask, FirstCloses
  <2> QED
    BY <2>1, <2>3, <2>4, QuietHolds DEF gem
<1>12. CASE ServeRegister \/ ServeFree
  <2>1. /\ line # <<>> /\ Head(line).req.op \notin {"gem_make", "gem_export"}
        /\ \E ok \in BOOLEAN : AnswerWith(ok, None)
    BY <1>12 DEF ServeRegister, ServeFree, Oldest, Answer
  <2>2. QuietCalls /\ QuietLine /\ QuietExports
    BY <2>1, QuietSteps
  <2>3. UNCHANGED <<file, hosts, gem>>
    BY <1>12 DEF ServeRegister, ServeFree
  <2> QED
    BY <1>1, <2>2, <2>3
<1>13. CASE ServeClose
  <2>1. /\ line # <<>> /\ Head(line).req.op = "close" /\ \E ok \in BOOLEAN : AnswerWith(ok, None)
        /\ hosts' \subseteq hosts /\ UNCHANGED <<file, gem>>
    BY <1>13, CloseAnswers DEF ServeClose
  <2>2. QuietCalls /\ QuietLine /\ QuietExports
    BY <2>1, QuietSteps
  <2>3. FilesStay /\ TableGrows
    BY <2>1 DEF FilesStay, TableGrows
  <2> QED
    BY <2>1, <2>2, <2>3, QuietHolds DEF gem
<1>16. ASSUME NEW f \in lingers, LetGo(f)
       PROVE  HoldInv' /\ ExportInv'
  <2>1. /\ UNCHANGED <<file, call, line, hosts, gems, nextGem, taken>>
        /\ hostGems' = {g \in hostGems : g.file # f} /\ f \notin hosts
    BY <1>16 DEF LetGo, Freed, guest, HostedInv
  <2>2. QuietCalls /\ QuietLine /\ QuietExports
    BY <2>1, QuietSteps
  <2>3. FilesStay /\ TableGrows /\ \A g \in hostGems : g.file \in hosts' => g \in hostGems'
    BY <2>1 DEF FilesStay, TableGrows
  <2> QED
    BY <2>1, <2>2, <2>3, QuietHolds
<1>17. ASSUME NEW t \in Threads, CloseAgain(t)
       PROVE  HoldInv' /\ ExportInv'
  <2>1. /\ call[t] # None /\ call[t].req \in Requests /\ call[t].req.op = "gem_first"
        /\ UNCHANGED <<file, hosts, gem>>
    BY <1>17, AskedIs DEF CloseAgain, rest
  <2>2. PICK q : q = [call[t].req EXCEPT !.op = "gem_second"]
    OBVIOUS
  <2>3. q \in Requests
    BY <2>1, <2>2, RequestKinds
  <2>4. q.op = "gem_second"
    BY <2>1, <2>2 DEF Requests
  <2>5. CASE call[t].state = "sent" /\ line' = WithoutThread(t) /\ call' = [call EXCEPT ![t].state = "done"]
    BY <1>1, <2>1, <2>5, QuietSteps
  <2>6. CASE call[t].state = "done" /\ Enqueue(t, q)
    <3>1. QuietCalls /\ QuietLine /\ QuietExports
      BY <2>3, <2>4, <2>6, QuietSteps DEF FirstCloses
    <3> QED
      BY <1>1, <2>1, <3>1
  <2>7. CASE call' = [call EXCEPT ![t] = None] /\ UNCHANGED line
    BY <1>1, <2>1, <2>7, QuietSteps
  <2> QED
    BY <1>17, <2>2, <2>5, <2>6, <2>7 DEF CloseAgain
<1>14. ASSUME NEW t \in Threads, NEW f \in DrmFiles, MakeGem(t, f)
       PROVE  HoldInv' /\ ExportInv'
  <2>1. UNCHANGED <<file, hosts, gem>>
    BY <1>14 DEF MakeGem, rest
  <2>2. \E q \in Requests : Ask(t, q) /\ q.op \notin FirstCloses \cup {"gem_export"}
    BY <1>14, RequestKinds DEF MakeGem, FirstCloses
  <2> QED
    BY <1>4, <2>1, <2>2
<1>15. ASSUME NEW x \in DOMAIN names, NEW y \in DOMAIN names, NEW o \in names[x], Pass(x, y, o)
       PROVE  HoldInv' /\ ExportInv'
  <2>1. UNCHANGED <<call, line, file, hosts, gems, hostGems, nextGem, taken>>
    BY <1>15 DEF Pass, rest
  <2>2. QuietCalls /\ QuietLine /\ QuietExports
    BY <2>1, QuietSteps
  <2> QED
    BY <2>1, <2>2, QuietHolds DEF FilesStay, TableGrows
<1> QED
  BY <1>3, <1>6, <1>7, <1>8, <1>9, <1>10, <1>11, <1>12, <1>13, <1>14, <1>15,
     <1>16, <1>17, ExportAsks,
     EndMakeHolds, DropHolds, MakeHolds, MakeExports, ExportFinds, CloseHolds
  DEF NextLife

(* As long as anything in the guest stands for a buffer and the owner's    *)
(* file is there, the host has the buffer under the proxy's number, and an *)
(* export gives out that buffer (nvgpu_gem_free, nvgpu_gem_to_host), but   *)
(* for what the second close of a number took whose proxy got no handle.   *)
THEOREM BuffersStay == SpecLife => []ProxyKeepsItsObject
<1>1. InitLife => HostedInv /\ HoldInv /\ ExportInv
  <2> SUFFICES ASSUME InitLife PROVE HostedInv /\ HoldInv /\ ExportInv
    OBVIOUS
  <2>1. HostedInv
    BY DEF InitLife, HostedInv, InLine, NothingOutlivesItsFile, RootedInv
  <2>2. /\ \A t \in Threads : ~ Made(t) /\ ~ Exported(t)
        /\ Closing = {} /\ InLine = {}
    BY DEF InitLife, Made, Exported, Asked, Closing, InLine
  <2> QED
    BY <2>1, <2>2 DEF InitLife, HoldInv, ExportInv
<1>2. LifeInv /\ HostedInv /\ [NextLife]_vars => HostedInv'
  BY StepKeepsHosted
<1>3. LifeInv /\ HostedInv /\ HoldInv /\ ExportInv /\ [NextLife]_vars => HoldInv' /\ ExportInv'
  BY StepKeepsBuffers
<1>4. LifeInv /\ HoldInv /\ ExportInv => ProxyKeepsItsObject
  <2> SUFFICES ASSUME LifeInv, HoldInv, ExportInv PROVE ProxyKeepsItsObject
    OBVIOUS
  <2>1. ASSUME NEW x \in DOMAIN names, NEW o \in names[x] \ taken, Proxy(o).owner \in hosts
        PROVE  [file |-> Proxy(o).owner, handle |-> Proxy(o).host, obj |-> o] \in hostGems
    <3>1. Proxy(o) \in gems /\ Proxy(o).obj = o
      BY ProxyStands
    <3> QED
      BY <2>1, <3>1 DEF HoldInv, Stands, HostOf
  <2>2. ASSUME NEW t \in Threads, Exported(t),
               call[t].req.obj \in names[call[t].req.file] \ taken
        PROVE  IF call[t].ok THEN call[t].got.obj = call[t].req.obj
               ELSE Proxy(call[t].req.obj).owner \notin hosts
    <3>o. PICK o : o = call[t].req.obj
      OBVIOUS
    <3>1. call[t].req.file \in DrmFiles \cup {None}
      BY <2>2, AskedIs, RequestKinds DEF Exported
    <3>2. call[t].req.file \in DOMAIN names
      BY <3>1 DEF LifeInv, GemTypes
    <3>3. Proxy(o) \in gems /\ Proxy(o).obj = o
      BY <2>2, <3>2, <3>o, ProxyStands
    <3> QED
      BY <2>2, <3>3, <3>o DEF ExportInv
  <2> QED
    BY <2>1, <2>2 DEF ProxyKeepsItsObject, Exported
<1> QED
  BY <1>1, <1>2, <1>3, <1>4, LifeInvariant, PTL DEF SpecLife


----------------------------------------------------------------------------
(* Pinned pages *)

\* A call about an object.
Names(t) == call[t] # None /\ call[t].req.client # None

\* The driver has a pin that a call registered o with, or the call has yet to
\* put it there.
HeldFor(o) ==
  \/ \E p \in PinsOf(o.file) :
       p.client = o.client /\ p.handle = o.handle /\ p.region = o.region
  \/ \E t \in Threads :
       /\ Asked(t, "register") /\ call[t].state = "done" /\ call[t].ok
       /\ call[t].req.file = o.file /\ call[t].req.client = o.client
       /\ call[t].req.handle = o.handle /\ call[t].req.region = o.region

\* A client hands an object's handle to one call at a time.
OneEach ==
  \A t, u \in Threads : Names(t) /\ Names(u) /\ t # u =>
    ~ (call[t].req.client = call[u].req.client /\ call[t].req.handle = call[u].req.handle)

\* A file stays open while there is a call on it.
CallsOpen == \A t \in Threads : Names(t) => file[call[t].req.file] = "open"

\* The memory a free is about, when it was registered through the same file.
Frees(q, o) ==
  o.region # None /\ o.file = q.file /\ o.client = q.client /\ o.handle = q.handle

\* What a free has come back for is gone, or is owed nothing any longer.
FreedGone ==
  \A t \in Threads : Asked(t, "free") /\ call[t].state = "done" =>
    \A o \in rm : o.owed => ~ Frees(call[t].req, o)

Pinned ==
  \A o \in rm :
    (o.region # None /\ file[o.file] = "open" /\ o.owed /\ ~ BeingFreed(o)) => HeldFor(o)

\* RM writes to pages that are held.
PinInv == OneEach /\ CallsOpen /\ FreedGone /\ Pinned

(* A free of an object is on its way when it is among the requests in line. *)
LEMMA BeingFreedIs ==
  ASSUME LifeInv, AskInv', NEW o
  PROVE  /\ BeingFreed(o) <=>
              \E q \in InLine : /\ q.op = "free" /\ q.file = o.file
                               /\ q.client = o.client /\ q.handle = o.handle
         /\ BeingFreed(o)' <=>
              \E q \in InLine' : /\ q.op = "free" /\ q.file = o.file
                                /\ q.client = o.client /\ q.handle = o.handle
<1>1. DOMAIN line = 1 .. Len(line) /\ DOMAIN line' = 1 .. Len(line')
  BY LenProperties DEF LifeInv, AskInv, CallTypes
<1>2. BeingFreed(o) <=> \E i \in 1 .. Len(line) :
        /\ line[i].req.op = "free" /\ line[i].req.file = o.file
        /\ line[i].req.client = o.client /\ line[i].req.handle = o.handle
  BY <1>1 DEF BeingFreed
<1>3. BeingFreed(o)' <=> \E i \in 1 .. Len(line') :
        /\ line'[i].req.op = "free" /\ line'[i].req.file = o.file
        /\ line'[i].req.client = o.client /\ line'[i].req.handle = o.handle
  BY <1>1 DEF BeingFreed
<1> QED
  BY <1>2, <1>3 DEF InLine


\* No call about an object begins, ends or is answered.
QuietNames == \A t \in Threads : Names(t) \/ Names(t)' => call'[t] = call[t]

FreesKept == \A q \in InLine : q.op = "free" => q \in InLine'

(* Where no call about an object comes or goes, what is held stays held.   *)
LEMMA PinFrame ==
  ASSUME LifeInv, AskInv', OneEach, CallsOpen, FreedGone, Pinned, QuietNames, FreesKept,
         UNCHANGED pins,
         \A f \in Files : file[f] = "open" <=> file'[f] = "open",
         \A o \in rm' : o \in rm \/ o.region = None
  PROVE  PinInv'
<1>1. \A t \in Threads : Names(t) \/ Names(t)' => Names(t) /\ Names(t)' /\ call'[t] = call[t]
  BY DEF QuietNames, Names
<1>2. \A t \in Threads : Names(t) => call[t].req.file \in Files
  <2>1. \A t \in Threads : call[t] # None => call[t].req \in Requests
    BY DEF LifeInv, AskInv, CallTypes, Calls
  <2> QED
    BY <2>1, RequestKinds DEF Names, Files
<1>3. OneEach' /\ CallsOpen'
  BY <1>1, <1>2 DEF OneEach, CallsOpen
<1>4. \A t \in Threads, op \in {"register", "free"} :
        /\ Asked(t, op) => Names(t)
        /\ Asked(t, op)' => Names(t)'
  <2>1. \A t \in Threads : /\ call[t] # None => call[t].req \in Requests
                           /\ call'[t] # None => call'[t].req \in Requests
    BY DEF LifeInv, AskInv, CallTypes, Calls
  <2> QED
    BY <2>1, RequestKinds, FileLifeAssumption DEF Names, Asked
<1>5. FreedGone'
  BY <1>1, <1>4 DEF FreedGone, Frees, Asked
<1>6. Pinned'
  <2> SUFFICES ASSUME NEW o \in rm', o.region # None, file'[o.file] = "open", o.owed,
                      ~ BeingFreed(o)'
               PROVE  HeldFor(o)'
    BY DEF Pinned
  <2>1. o \in rm /\ o.file \in Files
    BY DEF LifeInv, FileTypes, RmObject, Files
  <2>2. ~ BeingFreed(o)
    BY BeingFreedIs DEF FreesKept
  <2>3. HeldFor(o)
    BY <2>1, <2>2 DEF Pinned
  <2> QED
    BY <1>1, <1>4, <2>3 DEF HeldFor, PinsOf, Asked
<1> QED
  BY <1>3, <1>5, <1>6 DEF PinInv

(* What the three primitives do to the calls about objects.                *)
LEMMA QuietNamesSteps ==
  ASSUME LifeInv
  PROVE  /\ \A t \in Threads, q \in Requests :
              /\ Enqueue(t, q) /\ (call[t] = None \/ call[t].state = "done")
              /\ q.client = None /\ ~ Names(t)
              => QuietNames /\ FreesKept
         /\ \A ok \in BOOLEAN, got \in HostGem \cup {None} :
              /\ line # <<>> /\ AnswerWith(ok, got)
              /\ Head(line).req.op \notin {"register", "free"}
              => QuietNames /\ FreesKept
         /\ \A t \in Threads :
              call[t] # None /\ ~ Names(t) /\ Return(t) => QuietNames /\ FreesKept
         /\ UNCHANGED <<call, line>> => QuietNames /\ FreesKept
<1>1. ASSUME NEW t \in Threads, NEW q \in Requests, Enqueue(t, q),
             call[t] = None \/ call[t].state = "done", q.client = None, ~ Names(t)
      PROVE  QuietNames /\ FreesKept
  <2>1. call'[t].req = q /\ \A u \in Threads : u # t => call'[u] = call[u]
    BY <1>1, EnqueueAdds DEF LifeInv
  <2>2. InLine' = InLine \cup {q}
    BY <1>1, LineChanges
  <2> QED
    BY <1>1, <2>1, <2>2 DEF QuietNames, FreesKept, Names
<1>2. ASSUME NEW ok \in BOOLEAN, NEW got \in HostGem \cup {None}, line # <<>>, AnswerWith(ok, got),
             Head(line).req.op \notin {"register", "free"}
      PROVE  QuietNames /\ FreesKept
  <2>1. /\ Head(line) = line[1] /\ line[1] \in Entry
        /\ \A t \in Threads :
             IF t = line[1].thread
             THEN call[t].req = line[1].req /\ call'[t].req = line[1].req
             ELSE call'[t] = call[t]
    BY <1>2, AnswerTakes DEF LifeInv
  <2>2. line[1].req \in Requests /\ line[1].req.client = None
    BY <1>2, <2>1, RequestKinds DEF Entry
  <2>3. QuietNames
    BY <2>1, <2>2 DEF QuietNames, Names
  <2>4. InLine \subseteq InLine' \cup {Head(line).req}
    BY <1>2, LineChanges
  <2> QED
    BY <1>2, <2>3, <2>4 DEF FreesKept
<1>3. ASSUME NEW t \in Threads, call[t] # None, ~ Names(t), Return(t)
      PROVE  QuietNames /\ FreesKept
  <2>1. call'[t] = None /\ \A u \in Threads : u # t => call'[u] = call[u]
    BY <1>3, ReturnEnds DEF LifeInv
  <2>2. InLine' = InLine
    BY <1>3, LineChanges
  <2> QED
    BY <1>3, <2>1, <2>2 DEF QuietNames, FreesKept, Names
<1>4. ASSUME UNCHANGED <<call, line>> PROVE QuietNames /\ FreesKept
  BY <1>4 DEF QuietNames, FreesKept, InLine
<1> QED
  BY <1>1, <1>2, <1>3, <1>4


(* A call about an object begins: nobody else has the object in hand.      *)
LEMMA AskPins ==
  ASSUME LifeInv, PinInv, AskInv', NEW t \in Threads, NEW q \in Requests, Ask(t, q),
         q.op \in {"register", "free"}, file[q.file] = "open", ~ InHand(q.client, q.handle),
         UNCHANGED <<file, pins, rm>>
  PROVE  PinInv'
<1>1. /\ call[t] = None /\ call'[t] # None /\ call'[t].req = q /\ call'[t].state = "sent"
      /\ \A u \in Threads : u # t => call'[u] = call[u]
  BY EnqueueAdds DEF Ask, LifeInv
<1>2. InLine' = InLine \cup {q}
  BY LineChanges DEF Ask
<1>3. OneEach'
  BY <1>1 DEF PinInv, OneEach, Names, InHand
<1>4. CallsOpen'
  BY <1>1 DEF PinInv, CallsOpen, Names
<1>5. FreedGone'
  BY <1>1 DEF PinInv, FreedGone, Asked
<1>6. Pinned'
  <2> SUFFICES ASSUME NEW o \in rm', o.region # None, file'[o.file] = "open", o.owed,
                      ~ BeingFreed(o)'
               PROVE  HeldFor(o)'
    BY DEF Pinned
  <2>1. o \in rm /\ ~ BeingFreed(o)
    BY <1>2, BeingFreedIs
  <2>2. HeldFor(o)
    BY <2>1 DEF PinInv, Pinned
  <2> QED
    BY <1>1, <2>2 DEF HeldFor, PinsOf, Asked
<1> QED
  BY <1>3, <1>4, <1>5, <1>6 DEF PinInv

(* A pin is put where it belongs before its call is forgotten.             *)
LEMMA EndRegisterPins ==
  ASSUME LifeInv, PinInv, AskInv', NEW t \in Threads, EndRegister(t)
  PROVE  PinInv'
<1>q. PICK q : q = call[t].req
  OBVIOUS
<1>1. /\ Asked(t, "register") /\ Return(t) /\ UNCHANGED <<file, rm>>
      /\ pins' = [pins EXCEPT ![q.file] = Kept(q, call[t].ok) \o @]
  BY <1>q DEF EndRegister, host
<1>2. q \in Requests /\ q.op = "register" /\ call[t] # None /\ call[t] \in Calls
  BY <1>1, <1>q, AskedIs
<1>3. q.file \in Files /\ q.client \in Clients /\ q.handle \in Objects /\ q.region \in Regions
  BY <1>2, RequestKinds DEF Files
<1>4. /\ call'[t] = None /\ \A u \in Threads : u # t => call'[u] = call[u]
      /\ InLine' = InLine
  BY <1>1, <1>2, ReturnEnds, LineChanges DEF LifeInv
<1>5. OneEach' /\ CallsOpen' /\ FreedGone'
  BY <1>1, <1>4 DEF PinInv, OneEach, CallsOpen, FreedGone, Names, Asked
<1>k. PICK k : k = Kept(q, call[t].ok)
  OBVIOUS
<1>7. k \in Seq(Pin) /\ (call[t].ok =>
        \E p \in Range(k) : p.client = q.client /\ p.handle = q.handle /\ p.region = q.region)
  <2>p. PICK p : p = [client |-> q.client, handle |-> q.handle, region |-> q.region]
    OBVIOUS
  <2>1. p \in Pin
    BY <1>3, <2>p DEF Pin
  <2>2. CASE call[t].ok
    <3>1. k = <<p>>
      BY <1>k, <2>p, <2>2 DEF Kept
    <3>2. p \in Range(k)
      BY <3>1 DEF Range
    <3> QED
      BY <2>1, <2>p, <3>1, <3>2
  <2>3. CASE ~ call[t].ok
    BY <1>k, <2>3 DEF Kept
  <2> QED
    BY <2>2, <2>3
<1>8. /\ \A f \in Files : Range(pins[f]) \subseteq Range(pins'[f])
      /\ Range(k) \subseteq Range(pins'[q.file])
  <2>1. pins[q.file] \in Seq(Pin)
    BY <1>3 DEF LifeInv, FileTypes
  <2>2. /\ Len(k) \in Nat /\ Len(pins[q.file]) \in Nat
        /\ DOMAIN k = 1 .. Len(k) /\ DOMAIN pins[q.file] = 1 .. Len(pins[q.file])
        /\ k \o pins[q.file] \in Seq(Pin)
        /\ Len(k \o pins[q.file]) = Len(k) + Len(pins[q.file])
        /\ \A i \in 1 .. Len(k) + Len(pins[q.file]) :
             (k \o pins[q.file])[i] = IF i <= Len(k) THEN k[i] ELSE pins[q.file][i - Len(k)]
    BY <1>7, <2>1, ConcatProperties, LenProperties
  <2>3. DOMAIN (k \o pins[q.file]) = 1 .. Len(k) + Len(pins[q.file])
    BY <2>2, LenProperties
  <2>4. Range(k) \subseteq Range(k \o pins[q.file])
    <3> SUFFICES ASSUME NEW i \in 1 .. Len(k) PROVE k[i] \in Range(k \o pins[q.file])
      BY <2>2 DEF Range
    <3>1. i \in 1 .. Len(k) + Len(pins[q.file]) /\ (k \o pins[q.file])[i] = k[i]
      BY <2>2
    <3> QED
      BY <2>3, <3>1 DEF Range
  <2>5. Range(pins[q.file]) \subseteq Range(k \o pins[q.file])
    <3> SUFFICES ASSUME NEW i \in 1 .. Len(pins[q.file])
                 PROVE  pins[q.file][i] \in Range(k \o pins[q.file])
      BY <2>2 DEF Range
    <3>1. /\ i + Len(k) \in 1 .. Len(k) + Len(pins[q.file]) /\ ~ (i + Len(k) <= Len(k))
          /\ (i + Len(k)) - Len(k) = i
      BY <2>2
    <3>2. (k \o pins[q.file])[i + Len(k)] = pins[q.file][i]
      BY <2>2, <3>1
    <3> QED
      BY <2>3, <3>1, <3>2 DEF Range
  <2>6. \A f \in Files : pins'[f] = IF f = q.file THEN k \o pins[q.file] ELSE pins[f]
    BY <1>1, <1>3, <1>k DEF LifeInv, FileTypes
  <2> QED
    BY <1>3, <2>4, <2>5, <2>6
<1>9. Pinned'
  <2> SUFFICES ASSUME NEW o \in rm', o.region # None, file'[o.file] = "open", o.owed,
                      ~ BeingFreed(o)'
               PROVE  HeldFor(o)'
    BY DEF Pinned
  <2>1. o \in rm /\ o.file \in Files /\ ~ BeingFreed(o)
    BY <1>1, <1>4, BeingFreedIs DEF LifeInv, FileTypes, RmObject, Files
  <2>2. HeldFor(o)
    BY <1>1, <2>1 DEF PinInv, Pinned
  <2>3. CASE \E p \in PinsOf(o.file) :
               p.client = o.client /\ p.handle = o.handle /\ p.region = o.region
    BY <1>8, <2>1, <2>3 DEF HeldFor, PinsOf
  <2>4. ASSUME NEW u \in Threads,
               Asked(u, "register"), call[u].state = "done", call[u].ok,
               call[u].req.file = o.file, call[u].req.client = o.client,
               call[u].req.handle = o.handle, call[u].req.region = o.region
        PROVE  HeldFor(o)'
    <3>1. CASE u = t
      BY <1>7, <1>8, <1>q, <2>4, <3>1 DEF HeldFor, PinsOf
    <3>2. CASE u # t
      BY <1>4, <2>4, <3>2 DEF HeldFor, Asked
    <3> QED
      BY <3>1, <3>2
  <2> QED
    BY <2>2, <2>3, <2>4 DEF HeldFor
<1> QED
  BY <1>5, <1>9 DEF PinInv

(* The pin that a free takes is of an object that is gone or going.        *)
LEMMA EndFreePins ==
  ASSUME LifeInv, PinInv, AskInv', NEW t \in Threads, EndFree(t)
  PROVE  PinInv'
<1>q. PICK q : q = call[t].req
  OBVIOUS
<1>1. /\ Asked(t, "free") /\ Return(t) /\ UNCHANGED <<file, rm>>
      /\ pins' = [pins EXCEPT ![q.file] = Unpinned(q.file, q.client, q.handle)]
  BY <1>q DEF EndFree, host
<1>2. q \in Requests /\ q.op = "free" /\ call[t] # None
  BY <1>1, <1>q, AskedIs
<1>3. q.file \in Files
  BY <1>2, RequestKinds DEF Files
<1>4. /\ call'[t] = None /\ \A u \in Threads : u # t => call'[u] = call[u]
      /\ InLine' = InLine /\ (call[t].state = "done" \/ q \in InLine)
  BY <1>1, <1>2, <1>q, ReturnEnds, LineChanges DEF LifeInv
<1>5. OneEach' /\ CallsOpen' /\ FreedGone'
  BY <1>1, <1>4 DEF PinInv, OneEach, CallsOpen, FreedGone, Names, Asked
<1>7. /\ \A f \in Files : f # q.file => pins'[f] = pins[f]
      /\ pins'[q.file] = Unpinned(q.file, q.client, q.handle)
      /\ pins[q.file] \in Seq(Pin)
  BY <1>1, <1>3 DEF LifeInv, FileTypes
<1>8. \A p \in Range(pins[q.file]) :
        ~ (p.client = q.client /\ p.handle = q.handle) => p \in Range(pins'[q.file])
  BY <1>3, <1>7, UnpinnedKeeps
<1>9. Pinned'
  <2> SUFFICES ASSUME NEW o \in rm', o.region # None, file'[o.file] = "open", o.owed,
                      ~ BeingFreed(o)'
               PROVE  HeldFor(o)'
    BY DEF Pinned
  <2>1. o \in rm /\ o.file \in Files /\ ~ BeingFreed(o)
    BY <1>1, <1>4, BeingFreedIs DEF LifeInv, FileTypes, RmObject, Files
  <2>2. HeldFor(o)
    BY <1>1, <2>1 DEF PinInv, Pinned
  <2>3. ~ (o.file = q.file /\ o.client = q.client /\ o.handle = q.handle)
    <3>1. CASE call[t].state = "done"
      BY <1>1, <1>q, <2>1, <3>1 DEF PinInv, FreedGone, Frees
    <3>2. CASE q \in InLine
      BY <1>2, <2>1, <3>2, BeingFreedIs
    <3> QED
      BY <1>4, <3>1, <3>2
  <2>4. CASE \E p \in PinsOf(o.file) :
               p.client = o.client /\ p.handle = o.handle /\ p.region = o.region
    BY <1>7, <1>8, <2>1, <2>3, <2>4 DEF HeldFor, PinsOf
  <2>5. ASSUME NEW u \in Threads,
               Asked(u, "register"), call[u].state = "done", call[u].ok,
               call[u].req.file = o.file, call[u].req.client = o.client,
               call[u].req.handle = o.handle, call[u].req.region = o.region
        PROVE  HeldFor(o)'
    <3>1. u # t
      BY <1>2, <1>q, <2>5 DEF Asked
    <3> QED
      BY <1>4, <2>5, <3>1 DEF HeldFor, Asked
  <2> QED
    BY <2>2, <2>4, <2>5 DEF HeldFor
<1> QED
  BY <1>5, <1>9 DEF PinInv

(* An object is registered while its call waits, with the pages in hand.   *)
LEMMA ServeRegisterPins ==
  ASSUME LifeInv, PinInv, AskInv', ServeRegister
  PROVE  PinInv'
<1>q. PICK q : q = Head(line).req
  OBVIOUS
<1>o. PICK n : n = [client |-> q.client, handle |-> q.handle, parent |-> q.parent,
                    file |-> q.file, region |-> q.region, owed |-> Head(line).thread # None]
  OBVIOUS
<1>1. /\ Oldest("register") /\ UNCHANGED <<file, pins, hosts>>
      /\ \/ AnswerWith(TRUE, None) /\ rm' = rm \cup {n}
         \/ AnswerWith(FALSE, None) /\ UNCHANGED rm
  BY <1>q, <1>o DEF ServeRegister, Answer
<1>2. PICK ok \in BOOLEAN : /\ AnswerWith(ok, None)
                            /\ rm' = IF ok THEN rm \cup {n} ELSE rm
  BY <1>1
<1>3. line # <<>> /\ Head(line) = line[1] /\ q = line[1].req /\ q \in Requests /\ q.op = "register"
  BY <1>1, <1>q, OldestIs
<1>4. /\ n.client = q.client /\ n.handle = q.handle /\ n.file = q.file /\ n.region = q.region
      /\ n.owed => line[1].thread # None
  BY <1>3, <1>o
<1>5. /\ line[1].thread \in Threads \cup {None}
      /\ \A t \in Threads :
           IF t = line[1].thread
           THEN /\ call[t] # None /\ call[t].req = q /\ call[t].state = "sent"
                /\ call'[t] # None /\ call'[t].req = q /\ call'[t].ok = ok /\ call'[t].state = "done"
           ELSE call'[t] = call[t]
  <2>1. /\ line[1] \in Entry /\ 1 \in 1 .. Len(line)
        /\ \A t \in Threads :
             IF t = line[1].thread
             THEN /\ call[t] # None /\ call[t].req = line[1].req
                  /\ call'[t] # None /\ call'[t].req = call[t].req
                  /\ call'[t].ok = ok /\ call'[t].state = "done"
             ELSE call'[t] = call[t]
    BY <1>2, <1>3, AnswerTakes DEF LifeInv
  <2>2. line[1].thread \in Threads \cup {None}
    BY <2>1 DEF Entry
  <2>3. \A t \in Threads : t = line[1].thread => call[t].state = "sent"
    BY <2>1, FileLifeAssumption DEF LifeInv, AskInv, Matched
  <2> QED
    BY <1>3, <2>1, <2>2, <2>3
<1>6. InLine' \subseteq InLine /\ InLine \subseteq InLine' \cup {q}
  BY <1>2, <1>3, <1>q, LineChanges
<1>7. OneEach' /\ CallsOpen'
  BY <1>1, <1>5 DEF PinInv, OneEach, CallsOpen, Names
<1>8. FreedGone'
  <2> SUFFICES ASSUME NEW t \in Threads, Asked(t, "free")', call'[t].state = "done",
                      NEW o \in rm', o.owed, Frees(call'[t].req, o)
               PROVE  FALSE
    BY DEF FreedGone
  <2>1. t # line[1].thread /\ call'[t] = call[t] /\ Asked(t, "free")
    BY <1>3, <1>5 DEF Asked
  <2>2. o = n
    BY <1>2, <2>1 DEF PinInv, FreedGone
  <2>u. PICK u : u = line[1].thread
    OBVIOUS
  <2>3. u \in Threads /\ call[u] # None /\ call[u].req = q /\ u # t
    BY <1>4, <1>5, <2>1, <2>2, <2>u
  <2>4. q.client \in Clients
    BY <1>3, RequestKinds
  <2>5. Names(t) /\ Names(u)
    BY <1>4, <2>1, <2>2, <2>3, <2>4, FileLifeAssumption DEF Names, Asked, Frees
  <2> QED
    BY <1>4, <2>1, <2>2, <2>3, <2>5 DEF PinInv, OneEach, Frees
<1>9. Pinned'
  <2> SUFFICES ASSUME NEW o \in rm', o.region # None, file'[o.file] = "open", o.owed,
                      ~ BeingFreed(o)'
               PROVE  HeldFor(o)'
    BY DEF Pinned
  <2>1. CASE o \in rm
    <3>1. ~ BeingFreed(o)
      BY <1>3, <1>6, BeingFreedIs
    <3>2. HeldFor(o)
      BY <1>1, <2>1, <3>1 DEF PinInv, Pinned
    <3> QED
      BY <1>1, <1>5, <3>2 DEF HeldFor, PinsOf, Asked
  <2>2. CASE ok /\ o = n
    <3>u. PICK u : u = line[1].thread
      OBVIOUS
    <3>1. /\ u \in Threads /\ call'[u] # None /\ call'[u].req = q
          /\ call'[u].ok /\ call'[u].state = "done"
      BY <1>4, <1>5, <2>2, <3>u
    <3> QED
      BY <1>3, <1>4, <2>2, <3>1 DEF HeldFor, Asked
  <2> QED
    BY <1>2, <2>1, <2>2
<1> QED
  BY <1>7, <1>8, <1>9 DEF PinInv

(* A free that comes to nothing leaves RM with an object that nobody is    *)
(* owed anything for, and all others as they are.                          *)
LEMMA DisownedPins ==
  ASSUME LifeInv, NEW q, rm' = Disowned(q.file, q.client, q.handle)
  PROVE  \A o \in rm' : o.owed => o \in rm /\ ~ Frees(q, o)
<1> SUFFICES ASSUME NEW o \in rm', o.owed PROVE o \in rm /\ ~ Frees(q, o)
  OBVIOUS
<1>1. PICK w \in rm :
        o.owed => /\ o = w
                  /\ ~ (/\ o.file = q.file /\ o.client = q.client
                        /\ o.handle = q.handle /\ o.region # None)
  BY DisownedKeeps
<1> QED
  BY <1>1 DEF Frees

(* A free that is not queued takes the pin all the same.                   *)
LEMMA FreePins ==
  ASSUME LifeInv, PinInv, NEW t \in Threads, NEW q \in Requests, q.op = "free",
         pins' = [pins EXCEPT ![q.file] = Unpinned(q.file, q.client, q.handle)],
         rm' = Disowned(q.file, q.client, q.handle), UNCHANGED <<file, call, line>>
  PROVE  PinInv'
<1>1. q.file \in Files
  BY RequestKinds DEF Files
<1>2. \A o \in rm' : o.owed => o \in rm /\ ~ Frees(q, o)
  BY DisownedPins
<1>3. OneEach' /\ CallsOpen'
  BY DEF PinInv, OneEach, CallsOpen, Names
<1>4. FreedGone'
  BY <1>2 DEF PinInv, FreedGone, Asked
<1>5. /\ \A f \in Files : f # q.file => pins'[f] = pins[f]
      /\ pins'[q.file] = Unpinned(q.file, q.client, q.handle)
      /\ pins[q.file] \in Seq(Pin)
  BY <1>1 DEF LifeInv, FileTypes
<1>6. \A p \in Range(pins[q.file]) :
        ~ (p.client = q.client /\ p.handle = q.handle) => p \in Range(pins'[q.file])
  BY <1>1, <1>5, UnpinnedKeeps
<1>7. Pinned'
  <2> SUFFICES ASSUME NEW o \in rm', o.region # None, file'[o.file] = "open", o.owed,
                      ~ BeingFreed(o)'
               PROVE  HeldFor(o)'
    BY DEF Pinned
  <2>1. o \in rm /\ ~ Frees(q, o)
    BY <1>2
  <2>2. o.file \in Files /\ ~ BeingFreed(o)
    BY <2>1 DEF LifeInv, FileTypes, RmObject, Files, BeingFreed
  <2>3. HeldFor(o)
    BY <2>1, <2>2 DEF PinInv, Pinned
  <2>4. CASE \E p \in PinsOf(o.file) :
               p.client = o.client /\ p.handle = o.handle /\ p.region = o.region
    BY <1>5, <1>6, <2>1, <2>2, <2>4 DEF HeldFor, PinsOf, Frees
  <2>5. CASE \E u \in Threads :
               /\ Asked(u, "register") /\ call[u].state = "done" /\ call[u].ok
               /\ call[u].req.file = o.file /\ call[u].req.client = o.client
               /\ call[u].req.handle = o.handle /\ call[u].req.region = o.region
    BY <2>5 DEF HeldFor, Asked
  <2> QED
    BY <2>3, <2>4, <2>5 DEF HeldFor
<1> QED
  BY <1>3, <1>4, <1>7 DEF PinInv

(* What a free was for is gone when it comes back, or RM has refused it.   *)
LEMMA ServeFreePins ==
  ASSUME LifeInv, PinInv, AskInv', ServeFree
  PROVE  PinInv'
<1>q. PICK q : q = Head(line).req
  OBVIOUS
<1>1. /\ Oldest("free") /\ UNCHANGED <<file, pins>>
      /\ \/ AnswerWith(TRUE, None) /\ rm' = rm \ Under(q.client, q.handle)
         \/ AnswerWith(FALSE, None) /\ rm' = Disowned(q.file, q.client, q.handle)
  BY <1>q DEF ServeFree, Answer
<1>2. line # <<>> /\ Head(line) = line[1] /\ q = line[1].req /\ q \in Requests /\ q.op = "free"
  BY <1>1, <1>q, OldestIs
<1>3. q.client \in Clients /\ q.handle \in Handle
  BY <1>2, RequestKinds DEF Handle
<1>a. PICK ok \in BOOLEAN : AnswerWith(ok, None)
  BY <1>1
<1>4. \A t \in Threads :
        IF t = line[1].thread
        THEN call[t] # None /\ call[t].req = q /\ call'[t] # None /\ call'[t].req = q
        ELSE call'[t] = call[t]
  BY <1>2, <1>a, AnswerTakes DEF LifeInv
<1>5. InLine' \subseteq InLine /\ InLine \subseteq InLine' \cup {q}
  BY <1>2, <1>a, <1>q, LineChanges
<1>6. \A o \in rm' : o.owed => o \in rm /\ ~ Frees(q, o)
  <2>1. CASE rm' = rm \ Under(q.client, q.handle)
    BY <1>3, <2>1, UnderIs DEF Frees
  <2>2. CASE rm' = Disowned(q.file, q.client, q.handle)
    BY <2>2, DisownedPins
  <2> QED
    BY <1>1, <2>1, <2>2
<1>7. OneEach' /\ CallsOpen'
  BY <1>1, <1>4 DEF PinInv, OneEach, CallsOpen, Names
<1>8. FreedGone'
  <2> SUFFICES ASSUME NEW t \in Threads, Asked(t, "free")', call'[t].state = "done",
                      NEW o \in rm', o.owed
               PROVE  ~ Frees(call'[t].req, o)
    BY DEF FreedGone
  <2>1. CASE t = line[1].thread
    BY <1>4, <1>6, <2>1
  <2>2. CASE t # line[1].thread
    BY <1>4, <1>6, <2>2 DEF PinInv, FreedGone, Asked
  <2> QED
    BY <2>1, <2>2
<1>9. Pinned'
  <2> SUFFICES ASSUME NEW o \in rm', o.region # None, file'[o.file] = "open", o.owed,
                      ~ BeingFreed(o)'
               PROVE  HeldFor(o)'
    BY DEF Pinned
  <2>1. o \in rm /\ ~ Frees(q, o)
    BY <1>6
  <2>2. CASE BeingFreed(o)
    <3>1. q.file = o.file /\ q.client = o.client /\ q.handle = o.handle
      BY <1>5, <2>2, BeingFreedIs
    <3> QED
      BY <2>1, <3>1 DEF Frees
  <2>3. CASE ~ BeingFreed(o)
    <3>1. HeldFor(o)
      BY <1>1, <2>1, <2>3 DEF PinInv, Pinned
    <3> QED
      BY <1>1, <1>2, <1>4, <3>1 DEF HeldFor, PinsOf, Asked
  <2> QED
    BY <2>2, <2>3
<1> QED
  BY <1>7, <1>8, <1>9 DEF PinInv


(* A file is closed when no call is on it: its pins are nobody's.          *)
LEMMA BeginClosePins ==
  ASSUME LifeInv, PinInv, AskInv', NEW t \in Threads, NEW f \in Files, BeginClose(t, f)
  PROVE  PinInv'
<1>q. PICK q : q = [op |-> "close", file |-> f, client |-> None, handle |-> None]
  OBVIOUS
<1>1. /\ file[f] = "open" /\ file' = [file EXCEPT ![f] = "closed"] /\ pins' = [pins EXCEPT ![f] = <<>>]
      /\ call[t] = None /\ \A u \in Threads : call[u] # None => call[u].req.file # f
      /\ Ask(t, q) \/ UNCHANGED <<call, line>>
      /\ UNCHANGED rm
  BY <1>q DEF BeginClose, host
<1>2. q \in Requests /\ q.op = "close" /\ q.client = None
  BY <1>q, RequestKinds
<1>3. QuietNames /\ FreesKept
  BY <1>1, <1>2, QuietNamesSteps DEF Ask, Names
<1>5. /\ \A g \in Files : g # f => file'[g] = file[g] /\ pins'[g] = pins[g]
      /\ file'[f] = "closed"
  BY <1>1 DEF LifeInv, FileTypes
<1>6. \A u \in Threads : Names(u) \/ Names(u)' => Names(u) /\ Names(u)' /\ call'[u] = call[u]
  BY <1>3 DEF QuietNames, Names
<1>7. \A u \in Threads : call[u] # None => call[u].req \in Requests
  BY DEF LifeInv, AskInv, CallTypes, Calls
<1>8. \A u \in Threads : Names(u) => call[u].req.file \in Files
  BY <1>7, RequestKinds DEF Names, Files
<1>9. OneEach' /\ CallsOpen'
  BY <1>1, <1>5, <1>6, <1>8 DEF PinInv, OneEach, CallsOpen, Names
<1>10. \A u \in Threads, op \in {"register", "free"} :
         /\ Asked(u, op) => Names(u)
         /\ Asked(u, op)' => Names(u)'
  <2>1. \A u \in Threads : call'[u] # None => call'[u].req \in Requests
    BY DEF AskInv, CallTypes, Calls
  <2> QED
    BY <1>7, <2>1, RequestKinds, FileLifeAssumption DEF Names, Asked
<1>11. FreedGone'
  BY <1>1, <1>6, <1>10 DEF PinInv, FreedGone, Asked
<1>12. Pinned'
  <2> SUFFICES ASSUME NEW o \in rm', o.region # None, file'[o.file] = "open", o.owed,
                      ~ BeingFreed(o)'
               PROVE  HeldFor(o)'
    BY DEF Pinned
  <2>1. o \in rm /\ o.file \in Files
    BY <1>1 DEF LifeInv, FileTypes, RmObject, Files
  <2>2. ~ BeingFreed(o) /\ o.file # f
    BY <1>3, <1>5, BeingFreedIs DEF FreesKept
  <2>3. HeldFor(o)
    BY <1>5, <2>1, <2>2 DEF PinInv, Pinned
  <2> QED
    BY <1>5, <1>6, <1>10, <2>1, <2>2, <2>3 DEF HeldFor, PinsOf, Asked
<1> QED
  BY <1>9, <1>11, <1>12 DEF PinInv

(* Making a buffer, with what closes it again, is about no object of RM.   *)
LEMMA MakeNames ==
  ASSUME LifeInv, NEW t \in Threads, EndMakeGem(t) \/ CloseAgain(t)
  PROVE  QuietNames
<1>1. /\ call[t] # None /\ call[t].req \in Requests /\ call[t].req.client = None
      /\ call[t] \in Calls /\ DOMAIN call = Threads
  <2>1. call[t] # None /\ call[t].req \in Requests /\ call[t].req.op \in {"gem_make", "gem_first"}
    BY AskedIs DEF EndMakeGem, CloseAgain
  <2> QED
    BY <2>1, RequestKinds DEF Closings, LifeInv, AskInv, CallTypes
<1>2. CASE EndMakeGem(t)
  <2>1. CASE ~ call[t].ok
    BY <1>1, <1>2, <2>1 DEF EndMakeGem, Return, QuietNames, Names
  <2>2. ASSUME NEW op \in Closings, NEW f, NEW p, Enqueue(t, About(op, f, p))
        PROVE  QuietNames
    BY <1>1, <2>2 DEF Enqueue, About, QuietNames, Names
  <2>3. CASE call' = [call EXCEPT ![t] = None]
    BY <1>1, <2>3 DEF QuietNames, Names
  <2> QED
    BY <1>2, <2>1, <2>2, <2>3 DEF EndMakeGem, Closings
<1>3. CASE CloseAgain(t)
  <2>1. PICK q : q = [call[t].req EXCEPT !.op = "gem_second"]
    OBVIOUS
  <2>2. q.client = None
    <3>1. q \in Requests
      BY <1>1, <1>3, <2>1, AskedIs, RequestKinds DEF CloseAgain
    <3>2. q.op = "gem_second"
      BY <1>1, <2>1 DEF Requests
    <3> QED
      BY <3>1, <3>2, RequestKinds DEF Closings
  <2>3. CASE Enqueue(t, q)
    BY <1>1, <2>2, <2>3 DEF Enqueue, QuietNames, Names
  <2>4. CASE call' = [call EXCEPT ![t].state = "done"]
    BY <1>1, <2>4 DEF Calls, QuietNames, Names
  <2>5. CASE call' = [call EXCEPT ![t] = None]
    BY <1>1, <2>5 DEF QuietNames, Names
  <2> QED
    BY <1>3, <2>1, <2>3, <2>4, <2>5 DEF CloseAgain
<1> QED
  BY <1>2, <1>3

(* Whatever threads give up and files are closed, what RM writes to is     *)
(* held.                                                                   *)
LEMMA StepKeepsPins ==
  ASSUME LifeInv, HostedInv, PinInv, AskInv', [NextLife]_vars
  PROVE  PinInv'
<1>1. ASSUME QuietNames, FreesKept, UNCHANGED <<file, pins>>,
             \A o \in rm' : o \in rm \/ o.region = None
      PROVE  PinInv'
  BY <1>1, PinFrame DEF PinInv
<1>2. ASSUME UNCHANGED <<file, pins, call, line>>,
             \A o \in rm' : o \in rm \/ o.region = None
      PROVE  PinInv'
  BY <1>1, <1>2, QuietNamesSteps
<1>3. ASSUME NEW t \in Threads, NEW q \in Requests, Enqueue(t, q),
             call[t] = None \/ call[t].state = "done", ~ Names(t), q.client = None, q.op # "free",
             UNCHANGED <<file, pins, rm>>
      PROVE  PinInv'
  BY <1>1, <1>3, QuietNamesSteps
<1>4. ASSUME NEW t \in Threads, call[t] # None, ~ Names(t), Return(t),
             UNCHANGED <<file, pins, rm>>
      PROVE  PinInv'
  BY <1>1, <1>4, QuietNamesSteps
<1>5. ASSUME line # <<>>, Head(line).req.op \notin {"register", "free"},
             \E ok \in BOOLEAN, got \in HostGem \cup {None} : AnswerWith(ok, got),
             UNCHANGED <<file, pins, rm>>
      PROVE  PinInv'
  BY <1>1, <1>5, QuietNamesSteps
<1>6. CASE UNCHANGED vars
  BY <1>2, <1>6 DEF vars, guest, host
<1>7. ASSUME NEW f \in Files, Open(f)
      PROVE  PinInv'
  <2>1. /\ file[f] = "none" /\ hosts' = hosts \cup {f} /\ UNCHANGED <<pins, call, line, rm>>
        /\ file' = [file EXCEPT ![f] = "open"] \/ file' = [file EXCEPT ![f] = "closed"]
    BY <1>7 DEF Open, host
  <2>2. \A g \in Files : g # f => file'[g] = file[g]
    BY <2>1 DEF LifeInv, FileTypes
  <2>4. \A t \in Threads : call[t] # None => call[t].req \in Requests
    BY DEF LifeInv, AskInv, CallTypes, Calls
  <2>5. \A t \in Threads : Names(t) => call[t].req.file \in Files
    BY <2>4, RequestKinds DEF Names, Files
  <2>6. OneEach' /\ CallsOpen' /\ FreedGone'
    BY <2>1, <2>2, <2>5 DEF PinInv, OneEach, CallsOpen, FreedGone, Names, Asked
  <2>7. \A o \in rm : o.file \in Files /\ o.file # f
    BY <2>1 DEF HostedInv, LifeInv, FileTypes, RmObject, Files
  <2>8. Pinned'
    BY <2>1, <2>2, <2>7 DEF PinInv, Pinned, BeingFreed, HeldFor, PinsOf, Asked
  <2> QED
    BY <2>6, <2>8 DEF PinInv
<1>8. ASSUME NEW f \in CtlFiles, NEW c \in Clients, NewClient(f, c)
      PROVE  PinInv'
  BY <1>2, <1>8 DEF NewClient
<1>9. ASSUME NEW r \in roots, NEW d \in Devices, NewDevice(r, d)
      PROVE  PinInv'
  <2>1. UNCHANGED <<file, pins, call, line>> /\ \A o \in rm' : o \in rm \/ o.region = None
    BY <1>9 DEF NewDevice
  <2> QED
    BY <1>2, <2>1
<1>10. ASSUME NEW t \in Threads, NEW f \in CtlFiles \cup GpuFiles, NEW c \in Clients,
              NEW h \in Objects, NEW parent \in Devices, NEW region \in Regions,
              Register(t, f, c, h, parent, region)
       PROVE  PinInv'
  <2>q. PICK q : q = [op |-> "register", file |-> f, client |-> c, handle |-> h, parent |-> parent,
                      region |-> region, runs |-> Runs(region)]
    OBVIOUS
  <2>1. /\ q \in Requests /\ q.op = "register" /\ q.file = f /\ q.client = c /\ q.handle = h
    BY <2>q, RequestKinds
  <2>2. /\ file[f] = "open" /\ ~ InHand(c, h) /\ Ask(t, q) /\ UNCHANGED <<file, pins, rm>>
    BY <1>10, <2>q DEF Register, host
  <2> QED
    BY <2>1, <2>2, AskPins
<1>11. ASSUME NEW t \in Threads, NEW f \in CtlFiles \cup GpuFiles, NEW c \in Clients,
              NEW h \in Objects \cup Devices \cup {c}, Free(t, f, c, h)
       PROVE  PinInv'
  <2>q. PICK q : q = [op |-> "free", file |-> f, client |-> c, handle |-> h]
    OBVIOUS
  <2>1. q \in Requests /\ q.op = "free" /\ q.file = f /\ q.client = c /\ q.handle = h
    BY <2>q, RequestKinds
  <2>2. /\ file[f] = "open" /\ ~ InHand(c, h) /\ UNCHANGED file
        /\ \/ Ask(t, q) /\ UNCHANGED <<pins, rm>>
           \/ /\ pins' = [pins EXCEPT ![f] = Unpinned(f, c, h)]
              /\ rm' = Disowned(f, c, h) /\ UNCHANGED <<call, line>>
    BY <1>11, <2>q DEF Free
  <2> QED
    BY <2>1, <2>2, AskPins, FreePins
<1>12. ASSUME NEW t \in Threads, EndPlain(t)
       PROVE  PinInv'
  <2>1. /\ \E op \in {"close", "gem_close", "gem_second", "gem_export"} : Asked(t, op)
        /\ Return(t) /\ UNCHANGED <<file, pins, rm>>
    BY <1>12 DEF EndPlain, host
  <2>2. call[t] # None /\ ~ Names(t)
    BY <2>1, AskedIs, RequestKinds DEF Names, Closings
  <2> QED
    BY <1>4, <2>1, <2>2
<1>13. CASE ServeClose
  <2>1. UNCHANGED <<file, pins, rm>>
    BY <1>13 DEF ServeClose, host
  <2> QED
    BY <1>5, <1>13, <2>1, CloseAnswers
<1>14. ASSUME NEW f \in UvmFiles, NEW addr \in Addresses, NEW len \in 1 .. PoolMaxLen,
              MapPool(f, addr, len)
       PROVE  PinInv'
  BY <1>2, <1>14 DEF MapPool, host
<1>15. ASSUME NEW v \in vmas, UnmapPool(v)
       PROVE  PinInv'
  BY <1>2, <1>15 DEF UnmapPool, host
<1>16. ASSUME NEW t \in Threads, NEW f \in DrmFiles, MakeGem(t, f)
       PROVE  PinInv'
  <2>q. PICK q : q = [op |-> "gem_make", file |-> f, client |-> None, handle |-> None]
    OBVIOUS
  <2>1. q \in Requests /\ q.op = "gem_make" /\ q.client = None
    BY <2>q, RequestKinds
  <2>2. call[t] = None /\ Enqueue(t, q) /\ UNCHANGED <<file, pins, rm>>
    BY <1>16, <2>q DEF MakeGem, Ask, rest, host
  <2> QED
    BY <1>3, <2>1, <2>2 DEF Names
<1>17. ASSUME NEW t \in Threads, NEW f \in DrmFiles, NEW o \in names[f], ExportGem(t, f, o)
       PROVE  PinInv'
  <2>q. PICK q : q = About("gem_export", f, Proxy(o))
    OBVIOUS
  <2>1. q \in Requests /\ q.op = "gem_export" /\ q.client = None
    BY <2>q, ProxyStands, AboutIsRequest DEF LifeInv, GemTypes
  <2>2. call[t] = None /\ Enqueue(t, q) /\ UNCHANGED <<file, pins, rm>>
    BY <1>17, <2>q DEF ExportGem, On, Ask, rest, host
  <2> QED
    BY <1>3, <2>1, <2>2 DEF Names
<1>18. ASSUME NEW t \in Threads, EndMakeGem(t) \/ CloseAgain(t)
       PROVE  PinInv'
  <2>1. UNCHANGED <<file, pins, rm>>
    BY <1>18 DEF EndMakeGem, CloseAgain, rest, host
  <2>2. InLine \subseteq InLine'
    BY <1>18, MakeLine
  <2>3. QuietNames
    BY <1>18, MakeNames
  <2> QED
    BY <1>1, <2>1, <2>2, <2>3 DEF FreesKept
<1>19. ASSUME NEW x \in DOMAIN names, NEW y \in DOMAIN names, NEW o \in names[x], Pass(x, y, o)
       PROVE  PinInv'
  BY <1>2, <1>19 DEF Pass, rest, host
<1>20. ASSUME NEW t \in Threads, NEW x \in DOMAIN names, NEW o \in names[x], DropName(t, x, o)
       PROVE  PinInv'
  <2>q. PICK q : q = About("gem_close", x, Proxy(o))
    OBVIOUS
  <2>0. x \in DrmFiles \cup {None} /\ Proxy(o) \in Buffer
    BY ProxyStands DEF LifeInv, GemTypes
  <2>1. q \in Requests /\ q.op = "gem_close" /\ q.client = None
    BY <2>0, <2>q, AboutIsRequest DEF Closings
  <2>2. /\ call[t] = None /\ UNCHANGED <<file, pins, rm>>
        /\ Ask(t, q) \/ UNCHANGED <<call, line>>
    BY <1>20, <2>q DEF DropName, On, rest, host
  <2>3. CASE Ask(t, q)
    BY <1>3, <2>1, <2>2, <2>3 DEF Ask, Names
  <2>4. CASE UNCHANGED <<call, line>>
    BY <1>2, <2>2, <2>4
  <2> QED
    BY <2>2, <2>3, <2>4
<1>21. CASE ServeMakeGem
  <2>1. Oldest("gem_make") /\ UNCHANGED <<file, pins, rm>>
    BY <1>21 DEF ServeMakeGem, rest, host
  <2>g. PICK g : g = [file |-> Head(line).req.file, handle |-> NumberFor(Head(line).req.file),
                      obj |-> nextGem]
    OBVIOUS
  <2>2. line # <<>> /\ Head(line).req.op = "gem_make" /\ Head(line).req.file \in DrmFiles
    BY <2>1, OldestIs, RequestKinds
  <2>3. g \in HostGem
    BY <2>2, <2>g, NumberIsFree DEF LifeInv, GemTypes, HostGem
  <2>4. AnswerWith(TRUE, g) \/ AnswerWith(FALSE, None)
    BY <1>21, <2>g DEF ServeMakeGem, Answer
  <2> QED
    BY <1>5, <2>1, <2>2, <2>3, <2>4
<1>22. CASE ServeExport
  <2>1. /\ line # <<>> /\ Head(line).req.op = "gem_export" /\ UNCHANGED <<file, pins, rm>>
        /\ AnswerWith(FALSE, None) \/ \E g \in hostGems : AnswerWith(TRUE, g)
    BY <1>22 DEF ServeExport, Oldest, Answer, Meant, rest, host
  <2>2. hostGems \subseteq HostGem
    BY DEF LifeInv, GemTypes
  <2> QED
    BY <1>5, <2>1, <2>2
<1>23. CASE ServeGemClose
  <2>1. /\ line # <<>> /\ Head(line).req.op \in Closings /\ UNCHANGED <<file, pins, rm>>
        /\ AnswerWith(TRUE, None)
    BY <1>23 DEF ServeGemClose, Oldest, Answer, rest, host
  <2> QED
    BY <1>5, <2>1 DEF Closings
<1>24. ASSUME NEW f \in lingers, LetGo(f)
       PROVE  PinInv'
  BY <1>2, <1>24 DEF LetGo, guest, Freed
<1> QED
  BY <1>6, <1>7, <1>8, <1>9, <1>10, <1>11, <1>12, <1>13, <1>14, <1>15, <1>16, <1>17, <1>18, <1>19,
     <1>20, <1>21, <1>22, <1>23, <1>24,
     EndRegisterPins, EndFreePins, BeginClosePins, ServeRegisterPins, ServeFreePins
  DEF NextLife

(* The driver holds the pages that RM writes to, until the object is being *)
(* freed or the file it came through is closed (nvgpu_pin_release).        *)
THEOREM PagesAreHeld == SpecLife => []PagesStayPinned
<1>1. InitLife => HostedInv /\ PinInv
  <2> SUFFICES ASSUME InitLife PROVE HostedInv /\ PinInv
    OBVIOUS
  <2>1. HostedInv
    BY DEF InitLife, HostedInv, InLine, NothingOutlivesItsFile, RootedInv
  <2>2. \A t \in Threads : call[t] = None
    BY DEF InitLife
  <2>3. rm = {} /\ line = <<>>
    BY DEF InitLife
  <2> QED
    BY <2>1, <2>2, <2>3 DEF PinInv, OneEach, CallsOpen, FreedGone, Pinned, Names, Asked
<1>2. LifeInv /\ HostedInv /\ [NextLife]_vars => HostedInv'
  BY StepKeepsHosted
<1>3. LifeInv /\ LifeInv' /\ HostedInv /\ PinInv /\ [NextLife]_vars => PinInv'
  BY StepKeepsPins DEF LifeInv
<1>4. PinInv => PagesStayPinned
  BY DEF PinInv, Pinned, HeldFor, PagesStayPinned
<1> QED
  BY <1>1, <1>2, <1>3, <1>4, LifeInvariant, PTL DEF SpecLife

=============================================================================
