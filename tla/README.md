# virtio-nvgpu in TLA+

Specifications of the parts of virtio-nvgpu that keep state for somebody else: the shared window
and its mappings, the control queue, the event relay, the books of video memory, and what hangs on
an open file and on an ioctl under way. TLC checks them on small instances; TLAPS proves the safety
of all of them for every instance: any number of files, threads, tokens, handles and buffers, any
sizes and limits. Paths below are relative to the repository.

## 1. The system

A guest runs NVIDIA's user-mode driver unchanged. A kernel module in the guest
(`driver/virtio_gpu_nv.c`) offers the usual device nodes and forwards what is done with them over
a virtio device to a backend process on the host, one per VM (`device/`, entry point
`device/bin/vhost-user-nvgpu.rs`), which makes the same calls on the host's NVIDIA driver ("RM" is
its resource manager).

| part | state | operations | talks to |
|---|---|---|---|
| **Control queue** (`driver` `nvgpu_send_recv`, `vhost-user-nvgpu.rs` `handle_event`, `process`) | the ring and its notification flags, a token per request | submit, spin, sleep, give up, drain; serve, re-arm, signal | everything: each request of the guest is one message on it, served under the backend's mutex |
| **Window allocator** (`device/src/shm.rs`) | a free list for each of three zones (uncached, write-combined, write-back) | alloc, free | called by the window mappings |
| **Window mappings** (`nvidia/window.rs`, `rm_fd.rs`, `open.rs`, `mmap.rs`; `driver` mmap and GEM) | `active_maps`, `live_maps`, `dri_maps`; the guest's vmas and GEM proxies; what the VMM shows | open, close, RM_MAP_MEMORY, RM_UNMAP_MEMORY, MMAP, MUNMAP; mmap, fork, munmap; GEM create, import, place, close | window allocator; the VMM (`WindowPlacer`); host files, each of which maps one memory once |
| **Event relay** (`vhost-user-nvgpu.rs` `sync_watches`, `event_pump`, `push_event`; `driver` event queue and `nvgpu_poll`) | watch updates, the pump's duplicates, buffers posted, `pending` of each file | open, close, add, remove, edge, sweep, deliver, poll | handle table (descriptor numbers), event queue |
| **Video-memory books** (`device/src/vram.rs`, called from `nvidia/vidmem.rs`, `ioctl.rs`, `open.rs`) | objects, memory with holders and bytes, bytes in use, clients of each control file | admit, allocated, duplicated, freed, client_opened, client_freed, file_closed | replies of RM |
| **UVM aperture** (`nvidia/aperture.rs`, `uvm.rs`) | pools placed at fixed addresses of a second window | admit, insert, remove, release with the file; mmap and munmap of UVM files | VMM memory slots, which may stay when asked to go |
| **Registered guest memory** (`nvidia/osdesc.rs`, `guestmem.rs`; pins and page runs in `driver`) | pins of each file, spans stitched from guest pages, RM's objects on them | register, free, drop with the file | RM, control queue |
| **Buffers of the render node** (`driver` `nvgpu_gem_*`) | proxies, each with the host file and number it stands for; PRIME handles | make, pass to another file, export, close | window mappings (where a proxy is shown), control queue |
| **RM and UVM ioctls** (`nvidia/ioctl.rs`, `nested.rs`, `rm_fd.rs`, `rmctrl.rs`, `uvm.rs`; `nvgpu_ioctl_*` in `driver`) | clients issued to each file, UVM files denied | describe and copy the caller's buffers, replace pointers and descriptors, forward, put back | host driver, handle table |
| **Handle table** (`handle_table.rs`, `nvidia/mod.rs`) | handle to descriptor | insert, get, remove | all tables keyed by handle |
| **Wire format** (`protocol/src`) | none | page runs, segments, messages | both ends |
| Files of sysfs and procfs, capabilities, sandbox, virtio configuration, userspace image, ABI tables, Vulkan layer, probe and removal, scripts | start-up data | – | – |

What makes each of them correct, and hard:

* *Control queue.* A token is freed by whoever lets go of it last: the caller, or the drain when
  the caller has timed out or was killed. Spinning callers and the interrupt drain the same ring.
  Requests may arrive while notifications are off. A host call may never return.
* *Window.* No page may be lost or handed out twice, although four tables are kept by six
  handlers, requests fail half way, replies time out and clients exit without unmapping, or close
  a file whose buffers others still use. A mapping must keep showing its memory.
* *Event relay.* Two threads, two queues, edges that may be missed, buffers that run out and
  descriptor numbers that change hands. A thread in poll() must be woken.
* *Registered memory.* One object of RM is backed by three records on two machines: the guest's
  pin, the backend's span and RM's own. Each is made and dropped at another moment, by threads
  that may give up waiting in between; handles are used again at once.
* *Aperture.* The books must keep pools apart in two orders at once, by offset and by address,
  find a gap whenever there is one, and agree with slots the VMM may keep.
* *Buffers.* A proxy names a file and a number on it. Numbers are used again, the last one to let
  go sends the close, and that may be a file that never owned the buffer.
* *Ioctls.* The guest driver reads the caller's parameters twice, and other threads of the process
  write to them and close the descriptors named in them. No pointer or descriptor may reach the
  wrong side, and both halves must read a block alike.
* *Books.* They follow RM's object trees from replies alone. They must neither forget memory that
  is alive nor keep charging for memory that is gone.

`PROJECT.json` lists these hazards at the lines where they bite.

## 2. Modules

| module | models |
|---|---|
| `Extents` | a zone's free list as a set of extents and the operators of `Zone::alloc` and `Zone::free_extent` on it; no state |
| `ExtentPool` | abstract: a pool grants vacant extents and takes them back, and refuses only what does not fit |
| `ShmZone` | one zone in use through `ShmAllocator::alloc` and `free`; implements `ExtentPool` |
| `Extents_proofs`, `ShmZone_proofs` | theorems about free lists, and about a zone |
| `WindowMaps` | the window from the guest's mmap to the VMM's mapping, using `Extents` for its zones |
| `WindowMaps_proofs` | theorems, on the lemmas of `Extents_proofs` |
| `Rpc` | abstract: calls are put in line, served in order and at most once, and a call that succeeds returns its own answer |
| `CtrlQueue` | both ends of the control queue; implements `Rpc` |
| `CtrlQueue_proofs` | theorems, and the refinement of `Rpc` step by step |
| `EventRelay` | from a host descriptor becoming readable to the guest thread in poll() |
| `EventRelay_proofs` | theorems |
| `Vram` | the books beside the objects RM holds |
| `Vram_proofs` | theorems |
| `Aperture` | the books of the UVM aperture: admission and the gap search |
| `PageRuns` | pure: guest pages to runs (driver), runs to a span (backend), and the pages they stand for |
| `FileLife` | what goes with an open file: pins, spans, RM's objects, pools and slots, GEM proxies and host handles, with the requests between the two sides; extends `Aperture` and `PageRuns`, implements `Aperture` |
| `FileLife_proofs` | theorems about `Aperture`, `PageRuns` and `FileLife`, and the refinement |
| `IoctlPath` | one ioctl on its way to the host driver and back, beside the process's other threads |
| `IoctlPath_proofs` | theorems |
| `MC_*` | instances for TLC |

Definitions whose comment starts with *Mutant* are plausible mistakes in the definition that
follows them. They belong to no specification: each shows that some property would notice the
mistake.

### How state and steps correspond

**Extents, ShmZone.** A free list is the set of `[start, len]` entries of the BTreeMap, relative
to the zone's base. `range(..=b).next_back()` and `range(b..).next()` are `LastUpTo` and
`FirstFrom`. `AlignUp` wraps modulo `WordSize`. `FreeAgain` is a caller that frees a region it
freed before, as long as one of its pages is still free; when all have been handed out again the
allocator cannot tell, and the code has no such caller. `asked` is what the last call asked for in
whole pages, zero if it gave something back, so that a refusal is judged against the request that
met it.

**WindowMaps.** `free`, `active`, `live`, `dri`, `nextId` are the backend's `shm`, `active_maps`,
`live_maps`, `dri_maps`, `next_mapping_id`. `armed` is what the host driver maps on a file, set
once by `RM_MAP_MEMORY` or `RM_ALLOC_MEMORY`. `shown` is what the VMM has at each page. `file`,
`vmas` and `gems` are the guest's. One message is one step, since the backend serves the queue
under one mutex; a release (`BeginClose`, the GEM objects dying with the file, `Close`) is several.
A file may close before the importers of its buffers: `Close` leaves `live` and `dri` as they are,
and the MUNMAP of the last importer comes later. `Munmap` and `MapUnrecorded` are shared by the
guest operations that send them. A file is opened once and stands for its handle. `Remove` and
`Insert` are keyed by zone and offset, which is the window offset of the code.

What fails in the backend: a free may return before the extent is back in its zone (`leaked` keeps
what is lost that way; every caller only logs it), the VMM may keep the pages that `Munmap` asks it
to empty, and a placement the window refuses may leave its extent out (`Withheld`). `UnmapMemory`
is of any entry that RM recorded, also one that a client still has mapped. Two ghosts: a vma is
`loose` when another has been made of the same file (`Joined`, by a fork or a second mmap) or RM
unmapped its memory under it; a zone is `struck` when a MUNMAP whose placement had gone with its
file took back pages that had been given out again.

**CtrlQueue.** `Send` is the section under `vq_lock`, `Notify` follows it, `Wake` and
`StopWaiting` are the two ways out of `wait_for_completion_killable_timeout`, `Settle` the second
section under the lock, `Finish` the copy. `Spin` and `Interrupt` drain the whole ring.
`TakeKick`, `Process`, `Empty`, `Rearm` and `Signal` are `handle_event`; `Hang` is a host call
that does not return, or `process()` returning early with an error: either way the notifications
are off and nobody signals. A token that was freed may be given out again at once.

**EventRelay.** `added` and `removed` are what `take_watch_updates` returns; `SyncWatches`
duplicates numbers as they stand then. `Receive`, `StartSweep`, `Sweep` and `Edge` are the pump's
loop: the sweep visits files in one fixed order, one per step. `EventInterrupt` is
`nvgpu_event_vq_cb`. `poll()` joins the wait queue before `CheckPending` looks. `Release` is
`nvgpu_release` up to the request, which may not be queued (`closes` holds those that are), `Close`
the backend's handler, `Unregister` the end of the release, with the answer or without. A file whose
open the guest gave up (`GiveUp`) is open on the backend for good.

**Vram.** `books` and `clients` are `Vram`; `roots` and `rm` are RM's clients and objects. A request
is admitted, made and entered in one step under the mutex. Objects and memory of the books are found
by the handles in the replies, exactly as in the code. `Under` is the least set of handles that
holds the object's own and those of everything allocated under a member, where the code walks the
tree. `LetGo` is the host closing a file that something other than the handle table kept open.

**Aperture.** `pools` is the BTreeMap. `Candidates` are the ends of pools, rounded up, and zero;
`At` is the lowest of them with room, which the scan of `admit` arrives at. `Insert`, `Enter` and
`Leave` are `insert` and its callers, `remove` and `take_for_handle`.

**PageRuns.** A page is a number; pages are contiguous on the host only inside a `Banks` entry (a
region of guest RAM). `Runs` is the coalescing of `emit_page_runs`, `Stitchable` and `Stitch` are
the checks and the mapping loop of `guestmem.rs`, `PagesAt` is what a range of pages shows when it
is right.

**FileLife.** `Enqueue`, `Answer...` and `Return` are one message on the queue, reduced to what
`Rpc` promises: a call given up leaves its request in line. `Register` to `EndRegister` and `Free`
to `EndFree` are the two halves of the driver's handlers around `nvgpu_send_recv`, the `Serve...`
actions the backend's with RM's part. A free that cannot be queued unpins at once, and RM may refuse
one; the ghost `owed` is dropped then (`Disowned`). `BeginClose` is `nvgpu_release`, which drops the
pins before the request is queued. `ServeClose` takes the file out of the backend's table with its
spans and pools; the event pump's duplicate keeps the host's file, its clients and its buffers until
`LetGo`. `slots` is what the VMM shows, `Withdraw` a withdrawal it may refuse. `gems` are the
driver's proxies, `names` the handles of files and the dma-bufs, `hostGems` the host driver's
objects, `Pass` export and import through PRIME. A make whose proxy fails sends one close of the
host's number, or two if the proxy was there and got no handle: `EndMakeGem` the first, `CloseAgain`
the second; the ghost `taken` holds the buffers that met such a second close. Calls on UVM mappings
meet none of the others and are one step.

**IoctlPath.** `Ask` is the first read of the parameters, the `Send...` actions the second with
the descriptors looked up, one action per family of handlers. `Serve...` and `Initialize` are the
backend's dispatchers, `Return` the copy to the caller. `Rewrite`, `Rebind` and `NoteClient` are
the rest of the process. A command is reduced to the direction and count of its embedded pointers;
`Junk` is kernel memory nobody wrote.

## 3. Runs

| run | question | instance and why it is enough |
|---|---|---|
| `shm_zone` | does a zone keep the pool's promise? | six two-byte pages; lengths zero, one page, a byte over, three pages, and one whose rounding wraps (`WordSize` 32). Extents can lie below, above and on both sides of a freed one |
| `window_maps` | do mappings show their memory, is every page accounted for and in one use? | a GPU file, a control file, two render nodes, one memory ending inside a page, one buffer, two vmas, zones of three and two pages, so that a zone runs full; two placements, one extent kept out at a time, and one of the first two files beside the render nodes, or both without (`Together`). `Faults`: replies time out, requests fail to be queued and the VMM keeps pages; `Forks` and `MapTwice`: one MUNMAP answers for several vmas |
| `ctrl_queue` | does a token have one owner, do calls return, are requests taken and answers collected; is it a sequence of calls? | a caller of two calls and one of one on a ring of two, three tokens: a ring full of calls whose callers have left, reuse of tokens, calls overtaking abandoned ones. EVENT_IDX negotiated or not (`idx`). No symmetry, which liveness does not allow |
| `event_relay` | is a waiter woken, does the pump watch the open files and only them? | two files on numbers they inherit from each other, two buffers. `Faults`: opens and closes are given up, and closes not queued |
| `vram` | is the charge what RM holds, and within the limit? | two files, two clients, three handles and three objects alive (a chain of three, or memory with duplicates in the other client), one free the books do not see, files that linger; sizes one and two in pages of two, limit three: the last admission passes it by its rounding |
| `file_life` | does what hangs on a file go with it, and stay until then? | two threads, two requests in line, one call given up, not queued or refused; a control and a GPU file with one pin each, two handles used again at will; or two UVM files with three placements in an aperture of six, aligned to two, and a VMM that refuses; or two render nodes with two buffers, enough for the number of one closed twice to be the other's in between. Ranges of memory over two adjacent banks of two pages: two that share a page, one whose run leaves its bank, one of too many runs (`MaxRuns` 2), one of too many pages (`MaxPages` 3) |
| `ioctl_path` | does each side get its own back? | two control files, a UVM file, a render node on three descriptors; controls that read and write, write in place, or answer twice; counts of zero, one, two, the limit of five and one more, words of two bytes |

Runs that show a disagreement between the code and what it says of itself:

| run | what is said | what happens |
|---|---|---|
| `window_emptied` | "Restoring the backing and reclaiming the extent must happen together." (`shm.rs:322`) | `RM_UNMAP_MEMORY` and CLOSE reclaim the extent and leave the VMM's mapping, so a free page still shows device memory |
| `window_owner` | the uses of a buffer "all name the same bytes on the host" (`virtio_gpu_nv.c:841`), also when the owner "may well have closed first" | CLOSE of the owner frees the placement under the importers; the next placement replaces it (`OnePlacementForAll`) |
| `event_starved` | "a lost one costs a millisecond rather than a hang" (`virtio_gpu_nv.c:1488`) | with more readable files than buffers the sweep reports the same ones for ever. The instance has one buffer and two files; the driver posts 16 |
| `vram_linger` | the limit is "never passed by more" than one rounding (`vram.rs:33`) | a closed control file that the pump or a window mapping still holds keeps its memory on the card, uncharged |
| `ioctl_failure` | "The host driver leaves the field alone, so a caller there reads back the pointer it passed" (`nested.rs:38`) | an errno is answered by a header alone; `nvgpu_ioctl_rm_control` (`virtio_gpu_nv.c:1996`) and `nvgpu_ioctl_rm_alloc` (`:2233`) copy the block they did not receive over the caller's |

All bounds: `Mappings`, `MaxPages`, `MaxId` (placements made), `MaxCalls` (calls per thread),
`MaxObjects` (RM objects alive), `MaxUntracked` (frees the books do not enter), `MaxPins` (per
file), `MaxLine` (requests in line), `MaxLost` (calls given up, not queued or refused), `MaxGems`
(buffers made), `MaxLeaks` (extents kept out of the window's zones at a time), `Together` (which
files one behaviour opens), one export at a time, controls made only by a process that has done
nothing else (`Untroubled`), no rebinding of descriptors during a control, and the sets of files,
memories, buffers, callers, tokens, clients and handles. The `Max...` of ids, calls, objects, frees,
pins, requests and buffers are guards; what they cut off is repetition. In `FileLife` `Together`
separates files whose state never meets: pins and spans, pools, and buffers share only the line of
requests. In `WindowMaps` the GPU file meets the control file, and each of them both render nodes,
but not all four. `MaxRuns`, `MaxPages`, `MaxBytes`, `ApertureLen`, `MaxPools` and the like are
limits of the code made small. The switches `Faults`, `MapTwice`, `Forks`, `Lingers`, `VmmRefuses`,
`MustProve` say what the guest and the host may do.

What the code does not keep is exempt, and the exemption is part of the property:

* *Window, late MUNMAPs.* `handle_close` leaves `live_maps` alone (`open.rs:95`), so when a buffer's
  owner has closed first, which the driver calls normal (`virtio_gpu_nv.c:3459`), the last importer
  sends MUNMAP for a placement that is no more. As long as its pages have not been given out again
  this is harmless, and nothing is exempt. If they have, `handle_munmap` withdraws, drops and frees
  what is another mapping's by then (`window.rs:245`), and the tables of that zone agree no longer:
  a mapping shows nothing, a page is free and held, another is neither, and the zone does not come
  back whole. `MappingShowsItsMemory`, `Exclusive`, `NothingLost` and `ReturnedWhole` say nothing
  of a zone where that has happened (`struck`); without that exemption TLC finds each of the four
  violated. `BufferKeepsItsPlacement` has it too, though with one buffer it does not need it. What
  they do show is that the damage stays in the zone struck and that no other order of closing,
  losing and repeating requests does any. `OneMappingPerFile` and the types hold regardless.
* *Window, buffers.* `BufferKeepsItsPlacement` ends with the close of the creating file:
  `window_owner` shows what the importers are left with.
* *Window, mappings.* `MappingShowsItsMemory` leaves out mappings that were copied by a fork or made
  twice: `nvgpu_vm_ops` has no `.open`, so the copy a fork makes sends the MUNMAP of the original
  when it goes (`virtio_gpu_nv.c:2995`), and a second mmap of a file armed by `RM_ALLOC_MEMORY` is
  answered from `active_maps` with id zero and loses its memory with the first one
  (`window.rs:47`). It leaves out those whose memory RM unmapped under them, whose region goes to
  the next caller. Mappings beside them are not exempt.
* *Window, frees that fail.* `ShmAllocator::free` returns without giving the extent back when the
  backend cannot put its own memory under it (`shm.rs:332`). The extent is out for good:
  `NothingLost` counts it as kept out, `ReturnedWhole` leaves out its zone, and `Exclusive` holds of
  it like of any other. `ShmZone` has no such failure: it is the zone's own operations.
* *Watches.* `nvgpu_release` goes on when CLOSE is not queued (`virtio_gpu_nv.c:3206`). The backend
  then keeps the file and the pump watches it for ever. `WatchEnds` promises something from a CLOSE
  on the queue onwards, and `WatchesOwnFile` is about the files the backend has open.
* *Calls.* `AnsweredReachesCaller` and `RequestsAreTaken` are about a backend that serves. When
  `process()` returns early with an error (`vhost-user-nvgpu.rs:640`) the signal for what it has
  answered is missing too, and no property says that those answers are collected: only that the
  calls return, by their timers if need be, and that their tokens are freed once.
* *Registered memory.* The pins are drained before CLOSE is served, and CLOSE may never be queued
  (`virtio_gpu_nv.c:3204`); a register that times out drops its pin though RM may still take the
  memory; a free unpins whatever RM answers, and when it was never queued (`:2848`), and one given
  up unpins while the free is in line; memory may be registered through another file than its
  client's, and that file be closed. `PagesStayPinned` says nothing in those cases: an object whose
  free came to nothing lives on without its pin. `RegisteredIsHeld` has no such exemption but the
  closing of the file. A pin of `NV_ESC_RM_VID_HEAP_CONTROL` is filed under handle zero, since the
  driver reads the handle behind the answer; no free meets it.
* *Closed files.* Spans and pools go with the entry in the handle table, the host's clients and
  buffers when the event pump lets go of its duplicate (`open.rs:69`), which is what
  `NothingOutlivesItsFile` says. In between RM has objects on guest memory whose span is gone: the
  comment at `open.rs:118`, "RM has let go of it by now", is not so. A window mapping of the file,
  which holds it open as well, is in `Vram` only.
* *Pools.* A slot the VMM keeps makes the gap behind it unusable, since the books hand its offset
  out again and the VMM refuses it. `MapPool` leaves a request that the VMM would refuse out;
  nothing is wrong with what is shown then.
* *Buffers.* A buffer goes with its owner's file, whoever else imported it. An export may name
  another buffer if the same handle is closed by another thread of the process. When
  `drm_gem_handle_create` fails, the proxy's last reference goes (`virtio_gpu_nv.c:3842`) and
  `nvgpu_gem_free` closes the host's number; the caller closes it again (`:4080`). Between the two
  another thread may have been given the number, and its buffer goes under its proxy.
  `ProxyKeepsItsObject` exempts what such a second close has taken (`taken`), and buffers taken in
  turn by the proper close of one that was; without the exemption TLC finds it violated.
* *Ioctls.* A descriptor the guest cannot resolve is sent on raw by RM ioctls, an event's also
  when its file is closed before the request is served.

Noticed and not made a run: the late MUNMAP, the second GEM_CLOSE and the comment at `open.rs:118`
above; GEM calls, events and `REGISTER_SURFACE` leave the handle where the
caller passed a descriptor (the driver's comment at `:4005` says "userspace reads back the
descriptor it passed"), for which `CallerGetsItsOwnBack` allows either; `REGISTER_SURFACE`'s field
is translated without a look at `useFd`; an event with an unknown handle is forwarded, next to
"Worth naming rather than forwarding"; `emit_page_runs` coalesces consecutive pages across the end
of a region of guest RAM, which `guestmem.rs:217` takes for something the guest "should have
split", and the registration is refused (range `<<1, 2>>`).

Deadlock is not checked where the system may rightly stop: every file closed for good, or every
call made. `shm_zone` checks it.

### Fairness

`CtrlQueue`: a guest thread inside the driver goes on (`Notify`, `Settle`, `Finish`), a sleeping
one is woken or its ten-second timer goes off (`Wake \/ StopWaiting`), a pending interrupt is
served, and the backend's thread runs. Nobody has to call, to spin, to time out while an answer is
there, or to hang. Once the host call hangs nothing of the backend is fair, and only `CallsReturn`
is promised.

`EventRelay`: the backend's control thread and its pump run, the guest's interrupt is served, and
guest threads inside the driver go on. Nobody has to open, close, poll, consume or fire, and edges
need not be reported: the sweep alone has to do. `StartSweep` is strongly fair since the pump
passes its timer in every round of its loop, however often the channel or the event queue is busy
in between. A sweep is taken to find the buffers of the last one posted again, which is the guest
serving an interrupt within the sweep's millisecond.

The other modules state no liveness.

## 4. Proofs

Each safety invariant that a passing run checks, and each refinement, is a theorem for every value
of the constants that the `...Assumption` of the module allows; TLC evaluates the assumptions in the
runs. Every part is proved the same way: an inductive invariant that strengthens what the run
checks, one lemma for the initial states, one or more for the steps, one by which the invariant
implies the property. TLC checked the inductive invariants first. `PROJECT.json` lists the theorems.

### Window allocator (`Extents_proofs`, `ShmZone_proofs`)

For every `PageSize`, `WordSize`, `Size < WordSize` and every set `Lengths` of words the
specification of a zone implies `TypeOK`, `Exclusive`, `NothingLost`, `NoFragmentation`,
`HolderIsHeard`, `DoubleFreeRefused`, and implements `ExtentPool`.

The inductive invariant is `ZoneInv`, the conjunction of `TypeOK`, `Exclusive`, `NothingLost` and
`Coalesced`. None of the four is inductive by itself. `free_extent` looks at two neighbours only,
and it takes disjointness of the whole list for that to be a check of all of it
(`FreeCheckIsExact`). `NoFragmentation` needs `NothingLost` and `Coalesced` together: a run of bytes
nobody holds is covered by free extents, and extents that never touch can only cover it if it lies
in one. `AllocKeepsList` and `FreeKeepsList` say what one call does to any free list; the step
lemmas carry that over to the zone. A zone that is not a whole number of pages is covered too.

### Window mappings (`WindowMaps_proofs`)

All seven invariants of `window_maps`, for any files, memory objects, buffers, zones, page and word
sizes, with files closed in any order, requests lost and frees that fail.

`WindowInv` has seven parts. `Types` holds everywhere. `BooksFit` is `ZoneInv` for every zone that
is not struck at once, between the free lists and the entries in `active_maps` or kept out: the
lemmas of `Extents_proofs` say what the allocator does, and what remains is that every handler that
takes an entry out gives its region back once, half-failed calls included. `ActiveFits` says that an
entry's file is open or closing and, for a GPU or control file, shown. `LiveFits` ties a placement
of `live_maps` whose file is there to an entry, `VmasFit` the guest's vmas to entries, `GemsFit` the
guest's buffers to placements.

What makes it inductive is `IdsFit`. A MUNMAP removes the entry that lies where its placement does,
and must not release another's. An id is issued once, the entry made with it is the only one that
ever carries it, and `live_maps` and `dri_maps` agree on its key; so the entry at a placement's
offset is its own, or the placement is stale. A stale MUNMAP in a zone that it does not strike meets
pages that are all free, and the zone refuses to take them twice (`StaleRefused`, by
`FreeCheckIsExact`), so of the tables it changes `live_maps` and `dri_maps` only. Vmas that are
`loose` may dangle, so `VmasFit` has to say exactly which others cannot: those alone on their file.

### Control queue (`CtrlQueue_proofs`)

`TypeOK`, `OneOwner` and the refinement of `Rpc`, for any callers, tokens, calls and ring size.
`QueueInv` says that a token is on the ring at most once (`RingInv`), is allocated exactly as long
as the ring or one caller has it (`OwnerInv`), that its `done`, `abandoned` and answer follow from
who has it (`CellInv`), that no two tokens are for one call (`CallInv`), and that a caller woken has
been woken by its own token (`CallerInv`). The second is `OneOwner`, and needs the third: whoever
lets go last knows it only from the flags. The refinement maps the line of `Rpc` to the requests of
the tokens not yet taken, and its answers to those of the tokens that have one. Taking a request is
the step of `Rpc` that serves it; spinning, notifying, draining, timing out and abandoning are
stutters or the return of a call that failed. That an answer is the caller's own comes from
`CallInv`, although tokens are used again.

### Event relay (`EventRelay_proofs`)

`TypeOK` and `WatchesOwnFile`, for any files, numbers and buffers. A watch of a file passes the
three places `added`, `channel` and `watched`, and so does its removal. `RelayInv` says that an open
file is in one of the three and always under a number that is still its own (`OpenSeen`), that one
that the backend has closed has its removal behind every mention of it (`GoneLeaves`), that a new
one is nowhere (`NewUnheard`), and that numbers are one file's (`NumbersFit`). A number duplicated
too late is another file's, watched under the handle of one that is gone; `GoneLeaves` is why that
does not last, and it holds because `sync_watches` sends additions before removals. That `Additions`
are a watch for each file added whose number is somebody's is proved of its recursive function
(`AdditionsFit`).

### Books (`Vram_proofs`)

All five invariants of `vram`, for any files, clients, handles, sizes, granule and limit. `VramInv`
relates three things. The books by themselves (`Ledger`): an account's holders count the objects
that name it, and bytes in use are the sum of the accounts. RM by itself (`ObjectsFit`): an object
hangs on its client or on one without memory. The two together: every object of a client the guest
can name is entered with its parent and memory (`EnteredIn`), two handles share memory in the books
if and only if they do in RM (`SharedIn`), an entry is under something that can be freed
(`KnownIn`), and, as long as every free was seen, an entry stands for an object (`TrackedIn`).

A free removes a tree in RM and a tree in the books, each following its own parents, and after frees
that the books did not see the second may have entries the first has not. `FreeAlike` shows that the
objects entered go in both or in neither. `NeverUndercharged` and `ChargedIsHeld` then compare two
sums over different sets, by an injection from the memories of RM to the accounts of the books and
back (`BytesInject`).

The sums and the loops over handles are folds, and none of the library's induction theorems can be
used. `FoldsExist` shows by a least counterexample that the recursion behind a fold over a finite
set has a solution, `SmallestExists` replaces an induction over subsets, and on them rest
`DropAllKeeps` and `FreeAllKeeps`: whatever order handles are dropped in, the objects dropped are
those, and the ledger is in order again afterwards.

### Files (`FileLife_proofs`)

*Aperture.* For every page size, alignment, length, limits, band of addresses and sets of ids and
handles, pools stay apart and within their limits (`PoolsStayApart`), aligned (`PoolsStayAligned`),
and a request refused for want of room had none (`SearchMissesNothing`). The inductive invariant is
`ApertureInv`: a finite set of pools of positive length, apart both ways, aligned, inside aperture
and band. The candidates are the bottom of the aperture and the aligned ends of pools. Below any
aligned place that is free lies a candidate with room up to the next pool (`GapBelow`, by
`RoundUpIsNext`), so the place behind all pools guarantees that the search stops (`SearchSettles`)
and where it stops is the lowest such candidate (`AtIsFirstGap`), which meets no pool at all
(`GapIsFree`). Apartness and alignment are needed together: what lies behind a pool's end is only
usable from the next multiple on, and that may not reach into another pool.

*Refinement.* Every step of `FileLife` leaves the pools alone, lets some go, or enters one that was
admitted, so the theorems of the aperture hold of it (`PoolsApartInUse`, `SearchIsExhaustiveInUse`),
with files that close late, calls given up and a VMM that keeps slots.

*Page runs.* `StitchingShowsThePages`: whatever pages a range consists of and however guest memory
is divided into regions, the span the backend stitches from the driver's runs shows those pages in
their order, if it accepts the runs at all. Runs are built by a fold, whose recursion is solved as
in the books; `EmittedCovers` is the step by which runs keep covering the pages read so far, with an
offset for each run, and `PiecesFlatten` puts the spans of the runs end to end.

*Calls.* `LifeInv` holds the types, and that a call under way, its request in line and its answer
are of one kind: the request of a caller who left goes on without him.

*What goes with a file.* `HostedInv` gives `NothingOutlivesItsFile`: no request for a file stands in
line behind its close that would put anything back, on the backend or, while the pump lingers on the
file, on the host. `MapsInv` gives `PoolShowsItself`: a mapping
names a pool by an id that is not used again, at an offset that is no other's.

*Registered memory.* `SpanInv` gives `RegisteredIsHeld`; it needs `RootedInv`, that RM's objects
hang on their roots, because freeing a root drops every span of the client, which is right only if
RM frees every object of it. `PinInv` gives `PagesStayPinned`: two calls never name the same object,
a free is served before its file is closed, and when it comes back the object is gone or no longer
owed its pin.

*Buffers.* `HoldInv` and `ExportInv` give `ProxyKeepsItsObject`: at each moment a buffer's number on
the host has one owner, which is a proxy, a make that has not come back or a close in line, and an
export in line is for a buffer whose proxy, if there still is one, has the number in the request.
Second closes own nothing; each buffer they reach, and each reached by the proper close of such a
one, is `taken`, and the invariant speaks of the others.

### Ioctls (`IoctlPath_proofs`)

`HostSeesItsOwn`, `BuffersMatchTheBlock` and `CallerGetsItsOwnBack`, for any layouts, word size,
bounds, descriptors and processes that change their block. `IoctlInv` says at each stage of a call
(`Made`, `Waiting`, `Translated`, `OnTheWire`, `Taken`, `GotBack`) what is known of it, and it is
known of the copy sent, never of the block. The two reads may differ in pointers and counts; RM is
still given a buffer of the right length for every pointer, because the backend holds each segment
against the block it has. `DescribedIffAccepted` and `RepliesHaveRoom` compare the driver's
arithmetic with the backend's, sum by sum: a block that nobody writes to is accepted, with room for
its reply, exactly if all of it was described.

### Only model-checked

* Liveness and what it rests on, fairness and ENABLED: `AnsweredReachesCaller`, `RequestsAreTaken`
  and `CallsReturn` of `ctrl_queue`, `WaiterIsWoken` and `WatchEnds` of `event_relay`. The prover
  has no rules for them.
* The five disagreements of section 3, which are counterexamples.

## 5. Not modelled

* *Generated data.* About 12,000 of the 26,000 lines of implementation are `gen/src`: tables of
  commands, classes and offsets, one set per driver version, and their look-ups. The models stand
  for them by "any command may be refused" and `Layouts`. Together with the sandbox, the userspace
  image, the Vulkan layer, tests of the host and start-up checks they are set-up, data and I/O: a
  model of them would restate them line by line.
* *Teardown.* `drain_all` runs when `serve()` has returned and the process ends, so the handle
  reuse that `handle_table.rs:95` guards against cannot be reached through it; a guest that
  restarts without the VMM disconnecting is not noticed by the backend at all.
* `dispatch_update_device_mapping_info`, `map_host_fd`; probe and removal of the driver. The failure
  of `unmap_host_fd` in `free` (`shm.rs:332`) is host I/O to `ShmZone` and modelled in `WindowMaps`.
* *Event relay, books.* Failures of `dup`, `epoll_ctl` and `epoll_wait` in the pump; the peak and
  the rewritten figures of the books.
* *Ids.* `next_mapping_id` wraps after 2^32 placements and skips zero, without a look at what is
  in use (`window.rs:191`). `MaxId` ends every behaviour long before.
* *FileLife.* Forks of UVM mappings; `RM_DUP_OBJECT` of registered memory, which keeps the memory in
  use after the free of the object it was registered as; the second layout of
  `NV_ESC_RM_VID_HEAP_CONTROL`; failures of mmap on the host; memory is always registered under a
  device, frees go through the client's own file, and a handle is used again only when its free has
  returned. A buffer made by a call given up has no proxy and stays on the host until its file
  closes, as in the code. The host's numbers for buffers are the lowest free, as DRM's `idr` gives
  them out.
* *IoctlPath.* Calls given up (in `CtrlQueue`); the single-pointer encoding of v0.1, the retry of
  EBUSY and CHECK_VERSION of `simple.rs`; blocks of the wrong size, or null with a size; files
  opened while a call is under way; a block rewritten more than once. `FileLife` and `IoctlPath`
  have no type invariant among their runs' properties.

## 6. Plan

The order is by how much of the system rests on a part.

1. `Extents`, `ExtentPool`, `ShmZone`, `WindowMaps`, `Rpc`, `CtrlQueue`, `EventRelay`, `Vram`,
   `Aperture`, `PageRuns`, `FileLife`, `IoctlPath` (done).
2. Their safety invariants and the three refinements as theorems (done).
3. That the runs of a range have its length (`RunLengths(Runs(pages)) = Len(pages)`), so that a
   registration is refused for its regions or its limits only.
4. The event pump's failures of `epoll_ctl` and `dup`; forks of UVM mappings; `RM_DUP_OBJECT` of
   registered memory.
