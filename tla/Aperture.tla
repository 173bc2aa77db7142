------------------------------ MODULE Aperture ------------------------------
(***************************************************************************)
(* The books of the UVM aperture (device/src/nvidia/aperture.rs): CUDA's   *)
(* semaphore pools, each at an address its caller chose and at an offset   *)
(* of the aperture chosen here.                                            *)
(*                                                                         *)
(* The specification is what the books promise whoever keeps them: a pool  *)
(* is entered only where Aperture::admit found it room, and otherwise      *)
(* pools only leave.  FileLife implements it.                              *)
(***************************************************************************)
EXTENDS Integers, FiniteSets, FiniteSetsExt

CONSTANTS
  Handles,       \* handles of UVM files
  Ids,           \* mapping ids
  Page,          \* bytes in a page
  PoolAlign,     \* APERTURE_ALIGN
  ApertureLen,   \* APERTURE_LEN
  PoolMaxLen,    \* POOL_MAX_LEN
  MaxPools,      \* MAX_POOLS
  MaxPoolBytes,  \* MAX_POOL_BYTES
  HvaMin,        \* the lowest address of a pool
  HvaMax         \* the end of the highest one

ASSUME ApertureAssumption ==
  /\ {Page, PoolAlign} \subseteq Nat \ {0}
  /\ {ApertureLen, PoolMaxLen, MaxPools, MaxPoolBytes, HvaMin, HvaMax} \subseteq Nat

VARIABLE pools   \* Aperture.pools

Pool == [id : Ids, handle : Handles, addr : Nat, offset : Nat, len : Nat \ {0}]

\* div_ceil(PoolAlign) * PoolAlign
RoundUp(n) == ((n + PoolAlign - 1) \div PoolAlign) * PoolAlign

OffsetsApart(p, q) == p.offset + p.len <= q.offset \/ q.offset + q.len <= p.offset

AddressesApart(p, q) == p.addr + p.len <= q.addr \/ q.addr + q.len <= p.addr

\* What admit answers with EINVAL otherwise.
Acceptable(addr, len) ==
  /\ len # 0 /\ len % Page = 0 /\ len <= PoolMaxLen
  /\ addr % Page = 0 /\ HvaMin <= addr /\ addr + len <= HvaMax

\* ... with ENOSPC, before any place is looked for.
WithinBudget(len) ==
  /\ Cardinality(pools) < MaxPools
  /\ MapThenSumSet(LAMBDA p : p.len, pools) + len <= MaxPoolBytes

\* ... with EEXIST.
AddressFree(addr, len) ==
  \A p \in pools : ~ (p.addr < addr + len /\ addr < p.addr + p.len)

\* Where the search through the sorted pools may stop: at the start of the
\* aperture or behind a pool.
Candidates == {0} \cup {RoundUp(p.offset + p.len) : p \in pools}

\* Mutant: a gap that is exactly long enough is passed over.
Gaps_Strict(len) ==
  {at \in Candidates : \A p \in pools : at <= p.offset => at + len < p.offset}

\* Of these, where it does stop: the pools behind it leave room for len.
Gaps(len) ==
  {at \in Candidates : \A p \in pools : at <= p.offset => at + len <= p.offset}

\* The first of them.
At(len) == CHOOSE at \in Gaps(len) : \A b \in Gaps(len) : at <= b

\* Mutant: the length is left out.
Fits_Start(len) == At(len) <= ApertureLen

\* ... with ENOSPC, when the place found runs over the end.
Fits(len) == At(len) + len <= ApertureLen

Admits(addr, len) ==
  Acceptable(addr, len) /\ WithinBudget(len) /\ AddressFree(addr, len) /\ Fits(len)

\* BTreeMap::insert of what admit returned: an id in use is taken over.
Insert(id, handle, addr, len) ==
  {p \in pools : p.id # id}
    \cup {[id |-> id, handle |-> handle, addr |-> addr, offset |-> At(len), len |-> len]}

Init == pools = {}

Enter(id, handle, addr, len) ==
  /\ Admits(addr, len)
  /\ pools' = Insert(id, handle, addr, len)

\* remove, take_for_handle, take_all
Leave == pools' \in SUBSET pools

Next ==
  \/ Leave
  \/ \E id \in Ids, handle \in Handles, addr \in HvaMin .. HvaMax, len \in 1 .. PoolMaxLen :
       Enter(id, handle, addr, len)

Spec == Init /\ [][Next]_pools

----------------------------------------------------------------------------
TypeOK == pools \subseteq Pool /\ IsFiniteSet(pools)

(* PoolsApart: pools overlap neither in the aperture, where a guest would  *)
(* reach another process's semaphores, nor at their addresses, and all lie *)
(* inside the aperture and the band of addresses.  admit looks for room in *)
(* one order and for the address in another, and trusts every pool before. *)
PoolsApart ==
  /\ \A p, q \in pools : p # q => OffsetsApart(p, q) /\ AddressesApart(p, q)
  /\ \A p \in pools : p.offset + p.len <= ApertureLen
  /\ \A p \in pools : HvaMin <= p.addr /\ p.addr + p.len <= HvaMax

(* StartsAligned: "Every pool starts on a 2 MiB boundary of the aperture"  *)
(* (APERTURE_ALIGN), wherever the pool before it ends.                     *)
StartsAligned == \A p \in pools : p.offset % PoolAlign = 0

(* SearchIsExhaustive: the search, which only ever tries the first place   *)
(* behind each pool, misses no room: if it would run over the end, no      *)
(* aligned place in the aperture is free for that length.                  *)
SearchIsExhaustive ==
  \A len \in 1 .. PoolMaxLen :
    ~ Fits(len) =>
      \A at \in 0 .. ApertureLen - len :
        at % PoolAlign = 0 =>
          \E p \in pools : ~ OffsetsApart(p, [offset |-> at, len |-> len])

=============================================================================
