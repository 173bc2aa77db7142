----------------------------- MODULE WindowMaps -----------------------------
(***************************************************************************)
(* Device memory in the shared window, from the guest's mmap to the VMM's  *)
(* mapping behind it: the guest driver (driver/virtio_gpu_nv.c), the       *)
(* backend's tables (device/src/nvidia/{window,rm_fd,open}.rs, mmap.rs,    *)
(* shm.rs), what the host driver has armed on each file and what the VMM   *)
(* shows at each page of the window.                                       *)
(*                                                                         *)
(* One request is one step: the backend serves the control queue one       *)
(* message at a time.  A guest operation that takes several requests is    *)
(* several steps.  A file is opened once, so it stands for its handle      *)
(* (handles are never given out twice).                                    *)
(***************************************************************************)
EXTENDS Extents, FiniteSets, FiniteSetsExt

CONSTANTS
  Files,         \* opens of device nodes
  Kind,          \* "gpu", "ctl" or "dri" for each of them
  Memories,      \* RM memory objects
  Length,        \* bytes in each of them
  CacheOf,       \* the zone its caching type selects
  Buffers,       \* GEM objects, one page each
  ZoneSize,      \* bytes in each zone
  Mappings,      \* names for the guest's live mappings (vmas)
  MaxPages,      \* longest mmap tried
  MaxId,         \* bound on the mapping ids issued
  Faults,        \* replies may time out, requests may fail to be queued, and
                 \* the VMM may refuse to empty pages
  Together,      \* bound: sets of files one behaviour opens no more than
  MaxLeaks,      \* bound on the extents kept out of the zones at a time
  MapTwice,      \* a client maps a file again while it has it mapped
  Forks,         \* a client forks while it has a mapping
  None           \* no object

Zones == DOMAIN ZoneSize

ASSUME WindowMapsAssumption ==
  /\ Kind \in [Files -> {"gpu", "ctl", "dri"}]
  /\ Length \in [Memories -> Nat \ {0}]
  /\ CacheOf \in [Memories -> Zones]
  /\ {"wc", "wb"} \subseteq Zones
  /\ \A z \in Zones : ZoneSize[z] \in Nat /\ ZoneSize[z] % PageSize = 0
  /\ WordSize % PageSize = 0
  /\ {MaxPages, MaxId, MaxLeaks} \subseteq Nat
  /\ None \notin Files \cup Memories \cup Buffers
  /\ {Faults, MapTwice, Forks} \subseteq BOOLEAN

VARIABLES
  file,      \* guest's view of each file: "none", "open", "closing" or "closed"
  vmas,      \* guest mappings of gpu and ctl files
  gems,      \* the guest's object standing in front of each GEM object
  armed,     \* host: the memory a gpu or ctl file maps
  free,      \* backend: the zones' free lists
  active,    \* backend: active_maps, keyed by region; id (for the properties):
             \* the mapping id issued with the entry, 0 if RM_MAP_MEMORY made it
  leaked,    \* backend: what left active_maps, or did not get there, and did
             \* not go back to its zone
  live,      \* backend: live_maps, keyed by id
  dri,       \* backend: dri_maps, from (handle, offset) to id
  nextId,    \* backend: next_mapping_id
  shown,     \* VMM: the object behind each page of the window
  struck     \* for the properties: zones where a late MUNMAP took back pages
             \* that had been given out again

guest   == <<file, vmas, gems>>
maps    == <<live, dri, nextId>>
store   == <<free, active, leaked>>
backend == <<maps, store, shown, struck>>
vars    == <<guest, armed, backend>>

Objects == Memories \cup Buffers

PagesOf(r) ==
  (r.start \div PageSize) .. ((r.start + AlignUp(r.len)) \div PageSize) - 1

\* window.place and window.withdraw: whole pages, and MAP_FIXED, so whatever
\* was there before is gone.
Show(r, obj) ==
  [shown EXCEPT ![r.zone] =
    [p \in DOMAIN @ |-> IF p \in PagesOf(r) THEN obj ELSE @[p]]]

\* Mutant: the end of the extent's head taken for its start.
Granted_PastHead(z, len) ==
  [zone |-> z, start |-> AllocStart(free[z], AlignUp(len)) + AlignUp(len), len |-> len]

Granted(z, len) ==
  [zone |-> z, start |-> AllocStart(free[z], AlignUp(len)), len |-> len]

\* Mutant: the length is not rounded to whole pages.
Take_Unrounded(z, len) == [free EXCEPT ![z] = AfterAlloc(@, len)]

Take(z, len) == [free EXCEPT ![z] = AfterAlloc(@, AlignUp(len))]

\* ShmAllocator::free on the free lists F, once the backend's own memory is back
\* under the region; an error is only logged.
GiveBack(r, F) ==
  IF CanFree(F[r.zone], ZoneSize[r.zone], r.start, AlignUp(r.len))
  THEN [F EXCEPT ![r.zone] = AfterFree(@, r.start, AlignUp(r.len))]
  ELSE F

\* ShmAllocator::free returns before it has put the regions of S back.
Leaks(S) == Cardinality(leaked \cup S) <= MaxLeaks

Carried(f) == {e \in active : e.fd = f}                  \* find_by_fd_handle

\* HashMap insert and remove at the region's offset.
Insert(e) ==
  {x \in active : <<x.region.zone, x.region.start>> # <<e.region.zone, e.region.start>>}
    \cup {e}

\* Mutant: the offset is taken within the zone rather than within the window.
Remove_ZoneOffset(r) == {x \in active : x.region.start # r.start}

Remove(r) == {x \in active : <<x.region.zone, x.region.start>> # <<r.zone, r.start>>}

Init ==
  /\ file = [f \in Files |-> "none"]
  /\ vmas = {}
  /\ gems = [b \in Buffers |->
              [state |-> "none", owner |-> None, users |-> {}, by |-> None,
               valid |-> FALSE, id |-> 0, region |-> None]]
  /\ armed = [f \in Files |-> None]
  /\ free = [z \in Zones |->
              IF ZoneSize[z] > 0 THEN {[start |-> 0, len |-> ZoneSize[z]]} ELSE {}]
  /\ active = {} /\ leaked = {} /\ struck = {}
  /\ live = {}
  /\ dri = {}
  /\ nextId = 1
  /\ shown = [z \in Zones |-> [p \in 0 .. (ZoneSize[z] \div PageSize) - 1 |-> None]]

----------------------------------------------------------------------------
(* Files *)

Open(f) ==
  /\ file[f] = "none"
  /\ \E S \in Together : {f} \cup {g \in Files : file[g] # "none"} \subseteq S
  /\ file' = [file EXCEPT ![f] = "open"]
  /\ UNCHANGED <<vmas, gems, armed, backend>>

(* A process drops its last reference to a file.  A mapping holds one, and   *)
(* a GEM handle dies with its file (drm_gem_release), taking the object with *)
(* it if nobody else uses it: "that file may well have closed first".        *)
BeginClose(f) ==
  /\ file[f] = "open"
  /\ \A v \in vmas : v.file # f
  /\ file' = [file EXCEPT ![f] = "closing"]
  /\ gems' = [b \in Buffers |->
               IF f \notin gems[b].users THEN gems[b]
               ELSE IF gems[b].users = {f}
               THEN [gems[b] EXCEPT !.users = {}, !.state = "dying", !.by = f]
               ELSE [gems[b] EXCEPT !.users = @ \ {f}]]
  /\ UNCHANGED <<vmas, armed, backend>>

\* Mutant: drain() in place of take_for_fd().
Taken_All(f) == active

\* Mutant: only what RM_MAP_MEMORY recorded is released.
Taken_Recorded(f) == {e \in Carried(f) : e.id = 0}

Taken(f) == Carried(f)                                   \* take_for_fd

(* handle_close, once everything the file's release frees first is freed.    *)
(* live_maps and dri_maps keep what they have, and each free may fail.       *)
Close(f) ==
  /\ file[f] = "closing"
  /\ \A b \in Buffers : ~ (gems[b].state = "dying" /\ gems[b].by = f)
  /\ file' = [file EXCEPT ![f] = "closed"]
  /\ active' = active \ Taken(f)
  /\ \E out \in SUBSET Taken(f) :
       /\ out = {} \/ Leaks(out)
       /\ leaked' = leaked \cup out
       /\ free' = FoldSet(LAMBDA e, F : GiveBack(e.region, F), free, Taken(f) \ out)
  /\ UNCHANGED <<vmas, gems, armed, maps, shown, struck>>

----------------------------------------------------------------------------
(* RM mappings *)

\* The window will not take what was granted, and then the free fails too.
Withheld(f, r) ==
  /\ leaked' = leaked \cup {[fd |-> f, region |-> r, id |-> 0]}
  /\ Cardinality(leaked') <= MaxLeaks
  /\ free' = Take(r.zone, r.len)
  /\ UNCHANGED <<active, shown>>

(* NV_ESC_RM_MAP_MEMORY, naming file f to carry memory m.  The host arms f   *)
(* once in its life.  When the window has no room or will not take it, the   *)
(* call fails with f still armed.                                            *)
MapMemory(f, m) ==
  /\ file[f] = "open" /\ Kind[f] # "dri" /\ armed[f] = None
  /\ armed' = [armed EXCEPT ![f] = m]
  /\ LET z == CacheOf[m]
         r == Granted(z, Length[m])
     IN  \/ /\ CanAlloc(free[z], AlignUp(Length[m]))
            /\ \/ /\ free' = Take(z, Length[m])
                  /\ active' = Insert([fd |-> f, region |-> r, id |-> 0])
                  /\ shown' = Show(r, m)
                  /\ UNCHANGED leaked
               \/ Withheld(f, r)
         \/ UNCHANGED <<store, shown>>
  /\ UNCHANGED <<guest, maps, struck>>

(* NV_ESC_RM_ALLOC_MEMORY arms the file at the end of its parameters, and    *)
(* the backend records nothing.                                              *)
AllocMemory(f, m) ==
  /\ file[f] = "open" /\ Kind[f] # "dri" /\ armed[f] = None
  /\ armed' = [armed EXCEPT ![f] = m]
  /\ UNCHANGED <<guest, backend>>

(* NV_ESC_RM_UNMAP_MEMORY succeeding on the host; the client may have the    *)
(* memory mapped still.  The file stays armed.  (Of an entry that            *)
(* map_unrecorded made RM knows no mapping, its host address is zero: RM     *)
(* refuses, and the entry is put back.)                                      *)
UnmapMemory(e) ==
  /\ e.id = 0
  /\ vmas' = {IF v.file = e.fd THEN [v EXCEPT !.loose = TRUE] ELSE v : v \in vmas}
  /\ active' = Remove(e.region)
  /\ \/ free' = GiveBack(e.region, free) /\ UNCHANGED leaked
     \/ Leaks({e}) /\ leaked' = leaked \cup {e} /\ UNCHANGED free
  /\ UNCHANGED <<file, gems, armed, maps, shown, struck>>

----------------------------------------------------------------------------
(* MMAP and MUNMAP in the backend *)

\* The placement already made for a key, if both tables know it.
Placed(key) == {m \in live : \E d \in dri : d.key = key /\ d.id = m.id}

ZoneOf(f) == IF Kind[f] = "ctl" THEN "wb" ELSE "wc"

\* What map_unrecorded answers for this key.
Answer(key, size) ==
  IF Placed(key) # {}
  THEN LET m == CHOOSE m \in Placed(key) : TRUE IN [id |-> m.id, region |-> m.region]
  ELSE [id |-> nextId, region |-> Granted(ZoneOf(key.fd), size)]

(* map_unrecorded succeeding, with the host putting obj behind the key.      *)
MapUnrecorded(key, size, obj) ==
  \/ /\ Placed(key) # {}
     /\ UNCHANGED backend
  \/ /\ Placed(key) = {}
     /\ nextId <= MaxId
     /\ CanAlloc(free[ZoneOf(key.fd)], AlignUp(size))
     /\ LET r == Granted(ZoneOf(key.fd), size) IN
          /\ free' = Take(ZoneOf(key.fd), size)
          /\ active' = Insert([fd |-> key.fd, region |-> r, id |-> nextId])
          /\ live' = live \cup {[id |-> nextId, key |-> key, region |-> r]}
          /\ dri' = {d \in dri : d.key # key} \cup {[key |-> key, id |-> nextId]}
          /\ nextId' = nextId + 1
          /\ shown' = Show(r, obj)
          /\ UNCHANGED <<leaked, struck>>

(* map_unrecorded with nothing armed on the file, or a window that will not  *)
(* take it.                                                                  *)
PlaceFails(key, size) ==
  /\ Placed(key) = {}
  /\ CanAlloc(free[ZoneOf(key.fd)], AlignUp(size))
  /\ Withheld(key.fd, Granted(ZoneOf(key.fd), size))
  /\ UNCHANGED <<maps, struck>>

\* The entry made for a placement, until its file is closed, and after that if
\* the extent was kept out.
Own(m) == {e \in active \cup leaked : e.id = m.id}

\* A page of the region is of another entry.
InUse(r) ==
  \E e \in active \cup leaked :
    e.region.zone = r.zone /\ PagesOf(e.region) \cap PagesOf(r) # {}

(* handle_munmap: an id nobody has a placement under is a success.  Whatever *)
(* entry there is at the placement's offset goes, the VMM may keep the pages *)
(* as they are, and the free may fail.                                       *)
Munmap(id) ==
  IF \A m \in live : m.id # id
  THEN UNCHANGED backend
  ELSE LET m == CHOOSE m \in live : m.id = id IN
       /\ live' = live \ {m}
       /\ dri' = {d \in dri : d.key # m.key}
       /\ active' = Remove(m.region)
       /\ \/ free' = GiveBack(m.region, free) /\ leaked' = leaked \ Own(m)
          \/ Leaks(Own(m)) /\ leaked' = leaked \cup Own(m) /\ UNCHANGED free
       /\ shown' = Show(m.region, None) \/ (Faults /\ UNCHANGED shown)
       /\ struck' = IF Own(m) = {} /\ InUse(m.region)
                    THEN struck \cup {m.region.zone} ELSE struck
       /\ UNCHANGED nextId

----------------------------------------------------------------------------
(* The guest's mappings of gpu and ctl files *)

Unused == {v \in Mappings : \A w \in vmas : w.name # v}

Vma(v, f, id, r, pages) ==
  [name |-> v, file |-> f, id |-> id, obj |-> armed[f],
   zone |-> r.zone, page |-> r.start \div PageSize, pages |-> pages, loose |-> FALSE]

(* The guest's mappings with vma among them.  Mappings a file has at the     *)
(* same time are loose: one MUNMAP answers for all of them.                  *)
Joined(vma) ==
  LET twins == {w \in vmas : w.file = vma.file} IN
  (vmas \ twins) \cup {[w EXCEPT !.loose = TRUE] : w \in twins}
    \cup {[vma EXCEPT !.loose = (twins # {})]}

\* The window region fills the mapping and the driver sets the vma up, or the
\* driver has stopped waiting by the time the answer comes.
Receive(vma) == vmas' = Joined(vma) \/ (Faults /\ UNCHANGED vmas)

\* Mutant: the length of the request is not compared with the mapping's.
MmapRecorded_AnyLength(f, v, pages) ==
  /\ \E e \in Carried(f) : Receive(Vma(v, f, 0, e.region, pages))
  /\ UNCHANGED <<file, gems, armed, backend>>

\* handle_mmap on a file that active_maps knows: id 0 and the recorded region.
MmapRecorded(f, v, pages) ==
  /\ \E e \in Carried(f) :
       /\ pages * PageSize <= AlignUp(e.region.len)
       /\ Receive(Vma(v, f, 0, e.region, pages))
  /\ UNCHANGED <<file, gems, armed, backend>>

\* Mutant: active_maps is not asked first.
MmapUnrecorded_Always(f, v, pages) ==
  LET key == [fd |-> f, off |-> None]
      a   == Answer(key, pages * PageSize)
  IN  /\ armed[f] # None
      /\ pages * PageSize <= AlignUp(Length[armed[f]])
      /\ MapUnrecorded(key, pages * PageSize, armed[f])
      /\ Receive(Vma(v, f, a.id, a.region, pages))
      /\ UNCHANGED <<file, gems, armed>>

\* handle_mmap on a file it does not know: the host maps what it has armed, at
\* most as long as that is.
MmapUnrecorded(f, v, pages) ==
  LET key == [fd |-> f, off |-> None]
      a   == Answer(key, pages * PageSize)
  IN  /\ Carried(f) = {}
      /\ \/ /\ armed[f] # None
            /\ pages * PageSize <= AlignUp(Length[armed[f]])
            /\ MapUnrecorded(key, pages * PageSize, armed[f])
            /\ Receive(Vma(v, f, a.id, a.region, pages))
         \/ PlaceFails(key, pages * PageSize) /\ UNCHANGED vmas
      /\ UNCHANGED <<file, gems, armed>>

Mmap(f, v, pages) ==
  /\ file[f] = "open" /\ Kind[f] # "dri" /\ v \in Unused
  /\ MapTwice \/ \A w \in vmas : w.file # f
  /\ MmapRecorded(f, v, pages) \/ MmapUnrecorded(f, v, pages)

(* A fork copies the mapping: nvgpu_vm_ops has no .open and the vma is not   *)
(* marked VM_DONTCOPY, so the driver hears nothing of the copy.              *)
Fork(vma, v) ==
  /\ Forks
  /\ v \in Unused
  /\ vmas' = Joined([vma EXCEPT !.name = v])
  /\ UNCHANGED <<file, gems, armed, backend>>

(* nvgpu_vma_close.  It cannot fail, so a request that could not be queued   *)
(* is forgotten.                                                             *)
VmaClose(vma) ==
  /\ vmas' = vmas \ {vma}
  /\ Munmap(vma.id) \/ (Faults /\ UNCHANGED backend)
  /\ UNCHANGED <<file, gems, armed>>

----------------------------------------------------------------------------
(* GEM objects *)

\* nvgpu_gem_proxy_create
GemCreate(f, b) ==
  /\ file[f] = "open" /\ Kind[f] = "dri"
  /\ gems[b].state = "none"
  /\ gems' = [gems EXCEPT ![b].state = "used", ![b].owner = f, ![b].users = {f}]
  /\ UNCHANGED <<file, vmas, armed, backend>>

\* nvgpu_gem_prime_import: another file gets a handle on the same object.
GemImport(f, b) ==
  /\ file[f] = "open" /\ Kind[f] = "dri"
  /\ gems[b].state = "used" /\ f \notin gems[b].users
  /\ gems' = [gems EXCEPT ![b].users = @ \cup {f}]
  /\ UNCHANGED <<file, vmas, armed, backend>>

(* nvgpu_gem_place_in_window: both requests go to the owner's handle, which  *)
(* the backend must still know.  After a timeout the object is not marked    *)
(* valid and the next user asks again.                                       *)
GemPlace(b) ==
  LET g   == gems[b]
      key == [fd |-> g.owner, off |-> b]
      a   == Answer(key, PageSize)
  IN  /\ g.state = "used" /\ ~ g.valid
      /\ file[g.owner] \in {"open", "closing"}
      /\ \/ /\ MapUnrecorded(key, PageSize, b)
            /\ \/ gems' = [gems EXCEPT ![b].valid = TRUE, ![b].id = a.id, ![b].region = a.region]
               \/ Faults /\ UNCHANGED gems
         \/ PlaceFails(key, PageSize) /\ UNCHANGED gems
      /\ UNCHANGED <<file, vmas, armed>>

\* GEM_CLOSE by a file; the last one starts nvgpu_gem_free, whose own
\* GEM_CLOSE request changes nothing here.
GemClose(f, b) ==
  /\ file[f] = "open" /\ f \in gems[b].users
  /\ gems' = IF gems[b].users = {f}
             THEN [gems EXCEPT ![b].users = {}, ![b].state = "dying", ![b].by = f]
             ELSE [gems EXCEPT ![b].users = @ \ {f}]
  /\ UNCHANGED <<file, vmas, armed, backend>>

\* The rest of nvgpu_gem_free: MUNMAP if the object was placed.
GemFree(b) ==
  /\ gems[b].state = "dying"
  /\ gems' = [gems EXCEPT ![b].state = "freed", ![b].valid = FALSE]
  /\ \/ gems[b].valid /\ Munmap(gems[b].id)
     \/ (~ gems[b].valid \/ Faults) /\ UNCHANGED backend
  /\ UNCHANGED <<file, vmas, armed>>

----------------------------------------------------------------------------
Next ==
  \/ \E f \in Files : Open(f) \/ BeginClose(f) \/ Close(f)
  \/ \E f \in Files, m \in Memories : MapMemory(f, m) \/ AllocMemory(f, m)
  \/ \E e \in active : UnmapMemory(e)
  \/ \E f \in Files, v \in Mappings, pages \in 1 .. MaxPages : Mmap(f, v, pages)
  \/ \E vma \in vmas, v \in Mappings : Fork(vma, v)
  \/ \E vma \in vmas : VmaClose(vma)
  \/ \E f \in Files, b \in Buffers :
       GemCreate(f, b) \/ GemImport(f, b) \/ GemClose(f, b)
  \/ \E b \in Buffers : GemPlace(b) \/ GemFree(b)

Spec == Init /\ [][Next]_vars

----------------------------------------------------------------------------
(* Every variable holds what its comment says it does, and every region    *)
(* the tables name lies in its zone.                                       *)
Region(r) ==
  /\ r.zone \in Zones
  /\ r.start \in Nat /\ r.start % PageSize = 0
  /\ r.len \in Nat \ {0} /\ r.start + AlignUp(r.len) <= ZoneSize[r.zone]

TypeOK ==
  /\ file \in [Files -> {"none", "open", "closing", "closed"}]
  /\ \A v \in vmas :
       /\ v.name \in Mappings /\ v.file \in Files /\ v.id \in 0 .. MaxId
       /\ v.obj \in Memories /\ v.zone \in Zones /\ v.pages \in 1 .. MaxPages
       /\ v.loose \in BOOLEAN
  /\ \A b \in Buffers :
       /\ gems[b].state \in {"none", "used", "dying", "freed"}
       /\ gems[b].users \subseteq Files
       /\ gems[b].valid => gems[b].owner \in Files /\ Region(gems[b].region)
  /\ armed \in [Files -> Memories \cup {None}]
  /\ \A z \in Zones : free[z] \subseteq Extent
  /\ \A e \in active \cup leaked : e.fd \in Files /\ Region(e.region) /\ e.id \in 0 .. MaxId
  /\ struck \subseteq Zones
  /\ \A m \in live : m.id \in 1 .. MaxId /\ Region(m.region)
  /\ \A d \in dri : d.id \in 1 .. MaxId
  /\ nextId \in 1 .. MaxId + 1
  /\ \A z \in Zones : \A p \in DOMAIN shown[z] : shown[z][p] \in Objects \cup {None}

(* A placement is of one file, and goes with it, also when other files     *)
(* have imported its buffer: live_maps keeps it, and the importers' MUNMAP *)
(* comes when its pages may be somebody else's.  What it takes back then   *)
(* is under another mapping: nothing holds in that zone any longer.        *)
Sound == Zones \ struck

(* MappingShowsItsMemory: as long as a process has a gpu or ctl file       *)
(* mapped, the window shows the memory armed on that file at the mapping's *)
(* pages, whatever other mappings come, go, fail or are given back twice,  *)
(* and whichever files close before their importers.  A file mapped twice  *)
(* or mapped across a fork does not have this: one munmap empties the      *)
(* window for all of its mappings; nor has one that RM unmapped under it.  *)
MappingShowsItsMemory ==
  \A v \in vmas, k \in 0 .. MaxPages - 1 :
    v.zone \in Sound /\ ~ v.loose /\ k < v.pages =>
      v.page + k \in DOMAIN shown[v.zone] /\ shown[v.zone][v.page + k] = v.obj

(* BufferKeepsItsPlacement: as long as the file that created a buffer is   *)
(* open, whoever uses the buffer finds it at the place the driver has for  *)
(* it, although answers were lost and the placement asked for again.       *)
BufferKeepsItsPlacement ==
  \A b \in Buffers :
    (/\ gems[b].state = "used" /\ gems[b].valid
     /\ file[gems[b].owner] # "closed" /\ gems[b].region.zone \in Sound) =>
      \A p \in PagesOf(gems[b].region) : shown[gems[b].region.zone][p] = b

(* OnePlacementForAll: "Everything that hands the memory out ... comes     *)
(* from this one placement, so they all name the same bytes on the host"   *)
(* (struct nvgpu_gem_object), whichever of its files close first.          *)
OnePlacementForAll ==
  \A b \in Buffers :
    gems[b].state = "used" /\ gems[b].valid =>
      \A p \in PagesOf(gems[b].region) : shown[gems[b].region.zone][p] = b

Held == active \cup leaked

Whole(r) == [start |-> r.start, len |-> AlignUp(r.len)]

(* Exclusive: no page of the window belongs to two entries of active_maps, *)
(* or to an entry and a free list.  handle_mmap, handle_munmap,            *)
(* handle_close and the RM pair all release regions, each through tables   *)
(* of its own; and what could not be given back is not given out.          *)
Exclusive ==
  /\ \A e, f \in Held :
       (e # f /\ e.region.zone = f.region.zone /\ e.region.zone \in Sound) =>
         Apart(Whole(e.region), Whole(f.region))
  /\ \A e \in Held : e.region.zone \in Sound =>
       \A x \in free[e.region.zone] : Apart(Whole(e.region), x)

(* NothingLost: every page of the window is free or in active_maps, where  *)
(* the close of its file will find it; or the backend could not put its    *)
(* own memory back under it.                                               *)
NothingLost ==
  \A z \in Sound : \A p \in DOMAIN shown[z] :
    \/ \E x \in free[z] : Covers(x, p * PageSize)
    \/ \E e \in Held : e.region.zone = z /\ p \in PagesOf(e.region)

(* OneMappingPerFile: "at most one mapping exists per fd"                  *)
(* (MmapContext::find_by_fd_handle), which is what lets handle_mmap look a *)
(* mapping up by its file alone.                                           *)
OneMappingPerFile ==
  \A f \in Files : Kind[f] # "dri" => Cardinality(Carried(f)) <= 1

(* ReturnedWhole: once no file is open, each zone is one free extent again,*)
(* although a client may exit without one unmap, a file close before its   *)
(* importers, calls have failed half way and answers were lost - unless a  *)
(* free failed.                                                            *)
ReturnedWhole ==
  (\A f \in Files : file[f] \in {"none", "closed"}) =>
    \A z \in Sound :
      (ZoneSize[z] > 0 /\ \A e \in leaked : e.region.zone # z) =>
        free[z] = {[start |-> 0, len |-> ZoneSize[z]]}

(* FreePagesAreEmpty: "Restoring the backing and reclaiming the extent     *)
(* must happen together" (ShmAllocator::free): a page no mapping owns      *)
(* shows no device memory.                                                 *)
FreePagesAreEmpty ==
  \A z \in Zones : \A p \in DOMAIN shown[z] :
    (\E x \in free[z] : Covers(x, p * PageSize)) => shown[z][p] = None

=============================================================================
