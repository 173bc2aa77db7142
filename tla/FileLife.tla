------------------------------ MODULE FileLife ------------------------------
(***************************************************************************)
(* What hangs on an open file and must go with it, on both sides of the    *)
(* control queue: guest memory registered with RM by its address - pinned  *)
(* by the guest driver (driver/virtio_gpu_nv.c), aliased by a span of the  *)
(* backend (device/src/nvidia/osdesc.rs), used by an object of RM -, the   *)
(* semaphore pools of UVM files in the aperture (aperture.rs), with the    *)
(* VMM's slots behind them, and the buffers of DRM files, for which the    *)
(* guest driver has proxies (nvgpu_gem_object).                            *)
(*                                                                         *)
(* Threads of the guest send requests, which are served in order; a thread *)
(* may give its call up, and the request is then served without it.  Calls *)
(* on UVM mappings meet none of the others and are one step.  A file is    *)
(* opened once, so it stands for its handle.                               *)
(***************************************************************************)
EXTENDS Aperture, PageRuns

CONSTANTS
  CtlFiles, GpuFiles, UvmFiles, DrmFiles,   \* opens of each kind of device
  Clients,     \* RM clients; the root object has the client's handle
  Devices,     \* handles of objects that memory is registered under
  Objects,     \* handles of memory
  Regions,     \* ranges of a caller's memory: the guest pages they consist of
  Threads,     \* of the guest
  Addresses,   \* of pools
  MaxPins,     \* bound on the pins of a file when more is registered
  MaxLine,     \* bound on the requests in line
  MaxId,       \* bound on the pools placed
  MaxGems,     \* bound on the buffers made
  Together,    \* bound: sets of files one behaviour opens no more than
  MaxLost,     \* bound on the calls given up, not queued or refused
  VmmRefuses,  \* the VMM may keep a pool it is asked to give back
  None         \* no call, no region; the dma-bufs, where a DRM file may stand

Files == CtlFiles \cup GpuFiles \cup UvmFiles \cup DrmFiles

\* An entry of the GEM handles of one of the host's files.
HostGem == [file : DrmFiles, handle : Nat \ {0}, obj : Nat]

\* GEM_CLOSE, and both closes of a number whose proxy got no handle.
Closings == {"gem_close", "gem_first", "gem_second"}

\* What is asked of the backend.
Requests ==
  {q \in [op : {"register"}, file : CtlFiles \cup GpuFiles, client : Clients,
          handle : Objects, parent : Devices, region : Regions, runs : {Runs(r) : r \in Regions}] :
     q.runs = Runs(q.region)}
  \cup [op : {"free"}, file : CtlFiles \cup GpuFiles, client : Clients,
        handle : Objects \cup Devices \cup Clients]
  \cup [op : {"close"}, file : Files, client : {None}, handle : {None}]
  \cup [op : {"gem_make"}, file : DrmFiles, client : {None}, handle : {None}]
  \cup [op : Closings \cup {"gem_export"}, file : DrmFiles \cup {None}, client : {None},
        handle : {None}, owner : DrmFiles, host : Nat \ {0}, obj : Nat]

\* A call in progress, and the answer once it is there.
Calls == [req : Requests, state : {"sent", "done"}, ok : BOOLEAN, got : HostGem \cup {None}]

ASSUME FileLifeAssumption ==
  /\ None \notin Files \cup Clients \cup Threads \cup Regions
  /\ None \notin Calls
  /\ Regions \subseteq Seq(Nat)
  /\ Handles = UvmFiles
  /\ Ids = 1 .. MaxId
  /\ {MaxPins, MaxLine, MaxLost, MaxId, MaxGems} \subseteq Nat /\ VmmRefuses \in BOOLEAN
  /\ Together \subseteq SUBSET Files /\ Addresses \subseteq Nat

VARIABLES
  file,    \* guest: "none", "open" or "closed"
  pins,    \* guest: nvgpu_fd.pins of each file, the newest first
  call,    \* guest: what each thread has asked for, None if nothing
  vmas,    \* guest: mappings of UVM files
  lost,    \* guest: calls given up, not queued or refused so far
  line,    \* the requests not served yet, with the thread that waits for each
  hosts,   \* backend: files in the handle table
  lingers, \* backend: files out of it that the event pump still has open
  spans,   \* backend: registrations, and what each span shows
  nextId,  \* backend: next_mapping_id
  roots,   \* RM: [client, file] of every client alive
  rm,      \* RM: [client, handle, parent, file, region] of every object alive;
           \* owed (for the properties): its caller was there for the answer,
           \* and no free of it has been tried and come to nothing
  slots,   \* VMM: [offset, len, addr, file] of every pool it shows
  gems,    \* guest: proxies, [obj, owner, host]: whose buffer, what the host's
           \* file calls it, and (for the properties) which buffer that is
  names,   \* guest: the buffers each DRM file has a handle for; of None, those
           \* that a dma-buf descriptor stands for
  hostGems,  \* host: [file, handle, obj], the GEM handles of its files
  nextGem,   \* host: the next buffer
  taken      \* for the properties: buffers that a second close took, or one of
             \* a buffer that had been taken before

guest == <<file, pins, call, vmas, lost>>
host  == <<roots, rm>>
uvm   == <<pools, slots, nextId, vmas>>
gem   == <<gems, names, hostGems, nextGem, taken>>
vars  == <<guest, line, hosts, lingers, spans, pools, nextId, host, slots, gem>>

InitLife ==
  /\ file = [f \in Files |-> "none"]
  /\ pins = [f \in Files |-> <<>>]
  /\ call = [t \in Threads |-> None]
  /\ vmas = {} /\ lost = 0 /\ line = <<>> /\ hosts = {} /\ lingers = {} /\ spans = {}
  /\ pools = {} /\ nextId = 1
  /\ roots = {} /\ rm = {} /\ slots = {}
  /\ gems = {} /\ names = [x \in DrmFiles \cup {None} |-> {}]
  /\ hostGems = {} /\ nextGem = 1 /\ taken = {}

----------------------------------------------------------------------------
(* Calls that hold nothing: one step from the thread to the host and back  *)

\* nvgpu_send_recv times out, or the queue has no room; or RM refuses.
Lose == lost < MaxLost /\ lost' = lost + 1

(* handle_open.  A call given up leaves the backend with a file nobody has.  *)
Open(f) ==
  /\ file[f] = "none"
  /\ \E S \in Together : {f} \cup {g \in Files : file[g] # "none"} \subseteq S
  /\ \/ file' = [file EXCEPT ![f] = "open"] /\ UNCHANGED lost
     \/ Lose /\ file' = [file EXCEPT ![f] = "closed"]
  /\ hosts' = hosts \cup {f}
  /\ UNCHANGED <<pins, call, line, lingers, spans, host, uvm, gem>>

\* RM_ALLOC of a client on a control file.
NewClient(f, c) ==
  /\ file[f] = "open" /\ \A r \in roots : r.client # c
  /\ roots' = roots \cup {[client |-> c, file |-> f]}
  /\ UNCHANGED <<file, pins, call, line, hosts, lingers, spans, rm, uvm, lost, gem>>

\* RM_ALLOC of a device, an object without memory of the guest's.
NewDevice(r, d) ==
  /\ file[r.file] = "open"
  /\ \A o \in rm : o.client = r.client => o.handle # d
  /\ rm' = rm \cup {[client |-> r.client, handle |-> d, parent |-> r.client,
                     file |-> r.file, region |-> None, owed |-> TRUE]}
  /\ UNCHANGED <<file, pins, call, line, hosts, lingers, spans, roots, uvm, lost, gem>>

----------------------------------------------------------------------------
(* nvgpu_send_recv, for the calls that hold something meanwhile            *)

Enqueue(t, q) ==
  /\ Len(line) < MaxLine
  /\ call' = [call EXCEPT ![t] = [req |-> q, state |-> "sent", ok |-> FALSE, got |-> None]]
  /\ line' = Append(line, [thread |-> t, req |-> q])

Ask(t, q) == call[t] = None /\ Enqueue(t, q)

\* The backend takes the oldest request and tells the thread, if one waits.
AnswerWith(ok, got) ==
  /\ line' = Tail(line)
  /\ call' = [t \in Threads |->
               IF t = Head(line).thread
               THEN [call[t] EXCEPT !.state = "done", !.ok = ok, !.got = got]
               ELSE call[t]]

Answer(ok) == AnswerWith(ok, None)

Oldest(op) == line # <<>> /\ Head(line).req.op = op

Asked(t, op) == call[t] # None /\ call[t].req.op = op

\* Nobody waits for what t has in line.
WithoutThread(t) ==
  [i \in DOMAIN line |-> IF line[i].thread = t THEN [line[i] EXCEPT !.thread = None] ELSE line[i]]

\* A call ends with its answer, or is given up before it comes; the request
\* then stays in line.
Return(t) ==
  /\ call' = [call EXCEPT ![t] = None]
  /\ \/ call[t].state = "done" /\ UNCHANGED <<line, lost>>
     \/ Lose /\ call[t].state = "sent" /\ line' = WithoutThread(t)

----------------------------------------------------------------------------
(* Registering memory *)

\* A client hands out its handles itself, and one it has freed again once the
\* free has returned.
InHand(c, h) ==
  \E t \in Threads : call[t] # None /\ call[t].req.client = c /\ call[t].req.handle = h

(* nvgpu_ioctl_register_memory up to the request: the pages are pinned, and  *)
(* the pin is the call's.  A range too long or too scattered is refused here. *)
Register(t, f, c, h, parent, region) ==
  /\ call[t] = None /\ file[f] = "open"
  /\ Len(pins[f]) < MaxPins /\ Len(line) < MaxLine
  /\ \E r \in roots : r.client = c
  /\ ~ InHand(c, h)
  /\ Len(region) <= MaxPages /\ Describable(region)
  /\ Ask(t, [op |-> "register", file |-> f, client |-> c, handle |-> h,
             parent |-> parent, region |-> region, runs |-> Runs(region)])
  /\ UNCHANGED <<file, pins, hosts, lingers, spans, host, uvm, lost, gem>>

Alive(c, h) ==
  \/ h = c /\ \E r \in roots : r.client = c
  \/ \E o \in rm : o.client = c /\ o.handle = h

SpanOf(q) ==
  [client |-> q.client, handle |-> q.handle, file |-> q.file, shows |-> Stitch(q.runs)]

\* Mutant: a registration that is there already is left.
Spanned_KeepsOld(q) ==
  IF \E s \in spans : s.client = q.client /\ s.handle = q.handle THEN spans
  ELSE spans \cup {SpanOf(q)}

\* registrations.insert((client, object), (file, span))
Spanned(q) ==
  {s \in spans : ~ (s.client = q.client /\ s.handle = q.handle)} \cup {SpanOf(q)}

(* serve_registration: the runs are stitched into a span, or the             *)
(* registration is refused; and the span is kept if RM took it.              *)
ServeRegister ==
  /\ Oldest("register")
  /\ LET q  == Head(line).req
         ok == /\ q.file \in hosts
               /\ Stitchable(q.runs, Len(q.region))
               /\ Alive(q.client, q.parent) /\ ~ Alive(q.client, q.handle)
     IN  /\ Answer(ok)
         /\ rm' = IF ok THEN rm \cup {[client |-> q.client, handle |-> q.handle,
                                       parent |-> q.parent, file |-> q.file,
                                       region |-> q.region,
                                       owed |-> Head(line).thread # None]}
                  ELSE rm
         /\ spans' = IF ok THEN Spanned(q) ELSE spans
  /\ UNCHANGED <<file, pins, hosts, lingers, roots, uvm, lost, gem>>

(* What the call adds to the file's pins, under the handle of RM's answer.   *)
(* (Of the three calls that register memory, NV_ESC_RM_VID_HEAP_CONTROL      *)
(* looks for the handle behind the answer and finds zero: its pins are met   *)
(* by no free and stay until the file is closed.)                            *)
Kept(q, ok) ==
  IF ok THEN <<[client |-> q.client, handle |-> q.handle, region |-> q.region]>> ELSE <<>>

\* The rest of nvgpu_ioctl_register_memory.
EndRegister(t) ==
  /\ Asked(t, "register")
  /\ Return(t)
  /\ LET q == call[t].req IN
       pins' = [pins EXCEPT ![q.file] = Kept(q, call[t].ok) \o @]
  /\ UNCHANGED <<file, hosts, lingers, spans, host, uvm, gem>>

----------------------------------------------------------------------------
(* Freeing *)

\* Mutant: the newest pin of the client goes, whatever object it is for.
Unpinned_AnyObject(f, c, h) ==
  LET i == SelectInSeq(pins[f], LAMBDA p : p.client = c)
  IN  IF i = 0 THEN pins[f] ELSE RemoveAt(pins[f], i)

\* nvgpu_pin_release: the newest pin under that handle.
Unpinned(f, c, h) ==
  LET i == SelectInSeq(pins[f], LAMBDA p : p.client = c /\ p.handle = h)
  IN  IF i = 0 THEN pins[f] ELSE RemoveAt(pins[f], i)

\* A free of (c, h) through f comes to nothing: RM keeps what it has there.
Disowned(f, c, h) ==
  LET Meets(o) == o.file = f /\ o.client = c /\ o.handle = h /\ o.region # None
  IN  {IF Meets(o) THEN [o EXCEPT !.owed = FALSE] ELSE o : o \in rm}

(* NV_ESC_RM_FREE, through the client's own file, whichever its memory was   *)
(* registered through.  The pin goes also if the request is not queued:      *)
(* "whatever RM makes of it, the object is not ours to hold pages for any    *)
(* longer".                                                                  *)
Free(t, f, c, h) ==
  /\ call[t] = None /\ file[f] = "open"
  /\ [client |-> c, file |-> f] \in roots
  /\ ~ InHand(c, h)
  /\ \/ /\ Ask(t, [op |-> "free", file |-> f, client |-> c, handle |-> h])
        /\ UNCHANGED <<pins, rm, lost>>
     \/ /\ Lose
        /\ pins' = [pins EXCEPT ![f] = Unpinned(f, c, h)]
        /\ rm' = Disowned(f, c, h)
        /\ UNCHANGED <<call, line>>
  /\ UNCHANGED <<file, hosts, lingers, spans, roots, uvm, gem>>

\* h and everything RM has under it in client c.
Under(c, h) ==
  LET mine == {o \in rm : o.client = c}
      Closed(H) == h \in H /\ \A o \in mine : o.parent \in H => o.handle \in H
  IN  {o \in mine :
        \A H \in SUBSET ({h} \cup {x.handle : x \in mine}) : Closed(H) => o.handle \in H}

\* release_registrations: the object's, or the whole client's.
Released(c, h) == {s \in spans : s.client = c /\ (h = c \/ s.handle = h)}

(* The backend's part of a free: RM frees the object with everything under   *)
(* it, or refuses, and note_registrations reads RM's answer.                 *)
ServeFree ==
  /\ Oldest("free")
  /\ LET q  == Head(line).req
         ok == q.file \in hosts /\ Alive(q.client, q.handle)
     IN  \/ /\ ok /\ Answer(TRUE)
            /\ rm' = rm \ Under(q.client, q.handle)
            /\ roots' = {r \in roots : ~ (r.client = q.client /\ q.handle = q.client)}
            /\ spans' = spans \ Released(q.client, q.handle)
            /\ UNCHANGED lost
         \/ /\ Answer(FALSE)
            /\ rm' = Disowned(q.file, q.client, q.handle)
            /\ IF ok THEN Lose ELSE UNCHANGED lost
            /\ UNCHANGED <<roots, spans>>
  /\ UNCHANGED <<file, pins, hosts, lingers, uvm, gem>>

\* The rest of NV_ESC_RM_FREE, whatever the answer and also without one.
EndFree(t) ==
  /\ Asked(t, "free")
  /\ Return(t)
  /\ LET q == call[t].req IN
       pins' = [pins EXCEPT ![q.file] = Unpinned(q.file, q.client, q.handle)]
  /\ UNCHANGED <<file, hosts, lingers, spans, host, uvm, gem>>

----------------------------------------------------------------------------
(* Closing *)

\* nvgpu_release: the pins go first, and the request may fail to be queued.  The
\* kernel has dropped the handles of a DRM file before (DropName).
BeginClose(t, f) ==
  /\ file[f] = "open" /\ call[t] = None
  /\ \A u \in Threads : call[u] # None => call[u].req.file # f
  /\ \A v \in vmas : v.file # f
  /\ f \in DrmFiles => names[f] = {}
  /\ pins' = [pins EXCEPT ![f] = <<>>]
  /\ file' = [file EXCEPT ![f] = "closed"]
  /\ \/ /\ Ask(t, [op |-> "close", file |-> f, client |-> None, handle |-> None])
        /\ UNCHANGED lost
     \/ Lose /\ UNCHANGED <<call, line>>
  /\ UNCHANGED <<hosts, lingers, spans, host, uvm, gem>>

\* withdraw_pool for each pool of P: the VMM may keep some of the slots.
Withdraw(P) ==
  \E kept \in SUBSET {s \in slots : VmmRefuses /\ \E p \in P : p.offset = s.offset} :
    slots' = {s \in slots : s \in kept \/ \A p \in P : p.offset # s.offset}

\* Mutant: the registrations are left for the client's free.
Left_All(f) == spans

\* drop_registrations_for_file
Left(f) == {s \in spans : s.file # f}

\* The host's last descriptor of a file goes: RM frees the clients made on it,
\* and the DRM driver its handles.
Freed(f) ==
  LET dead == {r.client : r \in {x \in roots : x.file = f}} IN
  /\ roots' = {r \in roots : r.client \notin dead}
  /\ rm' = {o \in rm : o.client \notin dead}
  /\ hostGems' = {g \in hostGems : g.file # f}

(* handle_close: the pools, the spans, then the backend's descriptor; the    *)
(* event pump still has its duplicate, and the host's file is open.  (Of the *)
(* other kinds of file nothing modelled here hangs on the host's.)           *)
ServeClose ==
  /\ Oldest("close")
  /\ LET f    == Head(line).req.file
         mine == {p \in pools : p.handle = f}
     IN  /\ Answer(f \in hosts)
         /\ hosts' = hosts \ {f}
         /\ lingers' = lingers \cup ({f} \cap hosts \cap (CtlFiles \cup DrmFiles))
         /\ spans' = Left(f)
         /\ pools' = pools \ mine
         /\ Withdraw(mine)
  /\ UNCHANGED <<file, pins, vmas, nextId, lost, host, gem>>

\* The pump is told of the close (sync_watches) and drops its duplicate.
LetGo(f) ==
  /\ f \in lingers
  /\ lingers' = lingers \ {f}
  /\ Freed(f)
  /\ UNCHANGED <<guest, line, hosts, spans, pools, slots, nextId, gems, names, nextGem, taken>>

\* Nothing is done with the answer.
EndPlain(t) ==
  /\ \E op \in {"close", "gem_close", "gem_second", "gem_export"} : Asked(t, op)
  /\ Return(t)
  /\ UNCHANGED <<file, pins, hosts, lingers, spans, host, uvm, gem>>

----------------------------------------------------------------------------
(* Pools *)

\* The VMM maps without replacing anything.
Places(offset, addr, len) ==
  \A s \in slots :
    /\ OffsetsApart(s, [offset |-> offset, len |-> len])
    /\ AddressesApart(s, [addr |-> addr, len |-> len])

\* Mutant: it is left to the VMM whether there is room.
Placeable_ByVmm(addr, len) == Acceptable(addr, len) /\ Places(At(len), addr, len)

\* admit, and then the VMM, agree.
Placeable(addr, len) == Admits(addr, len) /\ Places(At(len), addr, len)

(* mmap of a UVM file and map_uvm_pool behind it.  The answer may come too   *)
(* late, or not fit the buffer, with the pool placed and entered.            *)
MapPool(f, addr, len) ==
  /\ file[f] = "open" /\ nextId <= MaxId
  /\ Placeable(addr, len)
  /\ pools' = Insert(nextId, f, addr, len)
  /\ slots' = slots \cup {[offset |-> At(len), len |-> len, addr |-> addr, file |-> f]}
  /\ nextId' = nextId + 1
  /\ \/ vmas' = vmas \cup {[file |-> f, addr |-> addr, len |-> len,
                            offset |-> At(len), id |-> nextId]}
        /\ UNCHANGED lost
     \/ Lose /\ UNCHANGED vmas
  /\ UNCHANGED <<file, pins, call, line, hosts, lingers, spans, host, gem>>

\* Mutant: the pool is found by its length.
PoolOf_ByLength(v) == {p \in pools : p.len = v.len}

PoolOf(v) == {p \in pools : p.id = v.id}

(* nvgpu_vma_close, and handle_munmap: the pool leaves the books whether or  *)
(* not the VMM gives it back.  A request that is not queued is forgotten.    *)
UnmapPool(v) ==
  /\ vmas' = vmas \ {v}
  /\ \/ pools' = pools \ PoolOf(v) /\ Withdraw(PoolOf(v)) /\ UNCHANGED lost
     \/ Lose /\ UNCHANGED <<pools, slots>>
  /\ UNCHANGED <<file, pins, call, line, hosts, lingers, spans, nextId, host, gem>>

----------------------------------------------------------------------------
(* Buffers *)

\* Everything but the files, the calls and the buffers.
rest == <<file, pins, hosts, lingers, spans, host, uvm>>

About(op, f, p) ==
  [op |-> op, file |-> f, client |-> None, handle |-> None,
   owner |-> p.owner, host |-> p.host, obj |-> p.obj]

\* GEM_ALLOC_NVKMS_MEMORY and GEM_IMPORT_NVKMS_MEMORY.
MakeGem(t, f) ==
  /\ file[f] = "open" /\ nextGem <= MaxGems
  /\ Ask(t, [op |-> "gem_make", file |-> f, client |-> None, handle |-> None])
  /\ UNCHANGED <<rest, lost, gem>>

\* The host's driver gives out the lowest number that is free in a file.
NumberFor(f) ==
  Min({n \in 1 .. Cardinality(hostGems) + 1 :
         \A g \in hostGems : ~ (g.file = f /\ g.handle = n)})

ServeMakeGem ==
  /\ Oldest("gem_make")
  /\ LET f == Head(line).req.file
     IN  IF f \in hosts
         THEN LET g == [file |-> f, handle |-> NumberFor(f), obj |-> nextGem]
              IN  /\ hostGems' = hostGems \cup {g}
                  /\ nextGem' = nextGem + 1
                  /\ AnswerWith(TRUE, g)
         ELSE Answer(FALSE) /\ UNCHANGED <<hostGems, nextGem>>
  /\ UNCHANGED <<rest, lost, gems, names, taken>>

(* nvgpu_gem_proxy_create.  If it fails for want of memory, the host's       *)
(* object is closed again and the caller waits for that.  If the proxy gets  *)
(* no handle, its last reference goes, which closes the host's object too    *)
(* (nvgpu_gem_free), and the caller closes the same number once more.  Each  *)
(* of these may fail to be queued.  A call given up has no proxy.            *)
EndMakeGem(t) ==
  /\ Asked(t, "gem_make")
  /\ LET f == call[t].req.file
         p == [obj |-> call[t].got.obj, owner |-> f, host |-> call[t].got.handle]
     IN  IF call[t].ok
         THEN \/ /\ gems' = gems \cup {p}
                 /\ names' = [names EXCEPT ![f] = @ \cup {p.obj}]
                 /\ call' = [call EXCEPT ![t] = None]
                 /\ UNCHANGED <<line, lost>>
              \/ /\ \/ \E op \in {"gem_close", "gem_first"} :
                         Enqueue(t, About(op, f, p)) /\ UNCHANGED lost
                    \/ Lose /\ Enqueue(t, About("gem_second", f, p))
                    \/ Lose /\ call' = [call EXCEPT ![t] = None] /\ UNCHANGED line
                 /\ UNCHANGED <<gems, names>>
         ELSE Return(t) /\ UNCHANGED <<gems, names>>
  /\ UNCHANGED <<rest, hostGems, nextGem, taken>>

(* The first of two closes returns, or is given up, and the caller sends the *)
(* second.                                                                   *)
CloseAgain(t) ==
  /\ Asked(t, "gem_first")
  /\ LET q == [call[t].req EXCEPT !.op = "gem_second"]
     IN  \/ /\ call[t].state = "sent" /\ Lose
            /\ call' = [call EXCEPT ![t].state = "done"]
            /\ line' = WithoutThread(t)
         \/ /\ call[t].state = "done"
            /\ \/ Enqueue(t, q) /\ UNCHANGED lost
               \/ Lose /\ call' = [call EXCEPT ![t] = None] /\ UNCHANGED line
  /\ UNCHANGED <<rest, gem>>

\* PRIME_HANDLE_TO_FD, and nvgpu_gem_prime_import of what it gave.
Pass(x, y, o) ==
  /\ None \in {x, y} /\ o \in names[x]
  /\ \A f \in {x, y} \ {None} : file[f] = "open"
  /\ names' = [names EXCEPT ![y] = @ \cup {o}]
  /\ UNCHANGED <<rest, lost, call, line, gems, hostGems, nextGem, taken>>

Proxy(o) == CHOOSE p \in gems : p.obj = o

\* Mutant: a request goes on the file it is made through.
On_Caller(x, p) == [p EXCEPT !.owner = x]

\* What a request that is made through x is about: "Forwarded on the owner's
\* handle rather than the caller's".
On(x, p) == p

(* GEM_CLOSE, the close of a dma-buf, or a handle going with its file; and   *)
(* nvgpu_gem_free, when it was the last reference.                           *)
DropName(t, x, o) ==
  /\ call[t] = None /\ o \in names[x]
  /\ x # None => file[x] = "open"
  /\ names' = [names EXCEPT ![x] = @ \ {o}]
  /\ IF \E y \in DOMAIN names : o \in names'[y]
     THEN UNCHANGED <<call, line, lost, gems>>
     ELSE /\ gems' = {p \in gems : p.obj # o}
          /\ \/ Ask(t, About("gem_close", x, On(x, Proxy(o)))) /\ UNCHANGED lost
             \/ Lose /\ UNCHANGED <<call, line>>
  /\ UNCHANGED <<rest, hostGems, nextGem, taken>>

\* GEM_EXPORT_NVKMS_MEMORY and GEM_EXPORT_DMABUF_MEMORY: nvgpu_gem_to_host reads
\* the proxy and lets it go again before the request is queued.  Bound: one at a
\* time.
ExportGem(t, f, o) ==
  /\ \A u \in Threads : ~ Asked(u, "gem_export")
  /\ file[f] = "open" /\ o \in names[f]
  /\ Ask(t, About("gem_export", f, On(f, Proxy(o))))
  /\ UNCHANGED <<rest, lost, gem>>

\* The host's driver looks up a number in its file.
Meant(q) ==
  {g \in hostGems : q.owner \in hosts /\ g.file = q.owner /\ g.handle = q.host}

ServeExport ==
  /\ Oldest("gem_export")
  /\ LET found == Meant(Head(line).req)
     IN  \/ found = {} /\ Answer(FALSE)
         \/ \E g \in found : AnswerWith(TRUE, g)
  /\ UNCHANGED <<rest, lost, gem>>

(* A second close, or one of a buffer that such a close took, closes what    *)
(* has the number by then.                                                   *)
ServeGemClose ==
  /\ \E op \in Closings : Oldest(op)
  /\ LET q == Head(line).req IN
       /\ hostGems' = hostGems \ Meant(q)
       /\ taken' = IF q.op = "gem_second" \/ q.obj \in taken
                   THEN taken \cup {g.obj : g \in Meant(q)}
                   ELSE taken
  /\ Answer(TRUE)
  /\ UNCHANGED <<rest, lost, gems, names, nextGem>>

----------------------------------------------------------------------------
NextLife ==
  \/ \E f \in Files : Open(f)
  \/ \E f \in CtlFiles, c \in Clients : NewClient(f, c)
  \/ \E r \in roots, d \in Devices : NewDevice(r, d)
  \/ \E t \in Threads, f \in CtlFiles \cup GpuFiles, c \in Clients :
       \/ \E h \in Objects, parent \in Devices, region \in Regions :
            Register(t, f, c, h, parent, region)
       \/ \E h \in Objects \cup Devices \cup {c} : Free(t, f, c, h)
  \/ \E t \in Threads : EndRegister(t) \/ EndFree(t) \/ EndPlain(t)
  \/ \E t \in Threads, f \in Files : BeginClose(t, f)
  \/ ServeRegister \/ ServeFree \/ ServeClose
  \/ \E f \in lingers : LetGo(f)
  \/ \E f \in UvmFiles, addr \in Addresses, len \in 1 .. PoolMaxLen : MapPool(f, addr, len)
  \/ \E v \in vmas : UnmapPool(v)
  \/ \E t \in Threads, f \in DrmFiles : MakeGem(t, f) \/ \E o \in names[f] : ExportGem(t, f, o)
  \/ \E t \in Threads : EndMakeGem(t) \/ CloseAgain(t)
  \/ \E x, y \in DOMAIN names : \E o \in names[x] \ names[y] : Pass(x, y, o)
  \/ \E t \in Threads, x \in DOMAIN names : \E o \in names[x] : DropName(t, x, o)
  \/ ServeMakeGem \/ ServeExport \/ ServeGemClose

SpecLife == InitLife /\ [][NextLife]_vars

----------------------------------------------------------------------------
PinsOf(f) == Range(pins[f])

\* A free of o is on its way that takes the pin, and maybe nobody waits for it.
BeingFreed(o) ==
  \E i \in DOMAIN line :
    LET q == line[i].req
    IN  q.op = "free" /\ q.file = o.file /\ q.client = o.client /\ q.handle = o.handle

(* PagesStayPinned: as long as RM has an object on a range of pages, the   *)
(* driver holds the pages, or the guest's kernel gives them to another use *)
(* under a device that still writes to them ("RM's own answer decides      *)
(* whether the pin is kept").  The object may have been registered through *)
(* another file than its client's, and that file closed; the driver gives  *)
(* the pages back before the close is sent.  Nothing holds for an object   *)
(* whose registration nobody waited for, or that the file it came through  *)
(* has a free of in line, or has sent one that was not queued or was       *)
(* refused: the pin is released all the same.                              *)
PagesStayPinned ==
  \A o \in rm :
    (o.region # None /\ file[o.file] = "open" /\ o.owed /\ ~ BeingFreed(o)) =>
      \/ \E p \in PinsOf(o.file) : p.client = o.client /\ p.region = o.region
      \/ \E t \in Threads : /\ Asked(t, "register")
                           /\ call[t].req.client = o.client /\ call[t].req.region = o.region

(* RegisteredIsHeld: as long as RM has an object on a range of memory, the *)
(* backend holds the span through which RM was shown exactly its pages, in *)
(* their order, however the guest's kernel scattered them, and whoever     *)
(* gave up waiting for what, until the file it came through is closed.  A  *)
(* handle is used again, by an object on other pages, and has one span.    *)
RegisteredIsHeld ==
  \A o \in rm :
    (o.region # None /\ o.file \in hosts) =>
      {s \in spans : s.client = o.client /\ s.handle = o.handle}
        = {[client |-> o.client, handle |-> o.handle,
            file |-> o.file, shows |-> PagesAt(o.region)]}

(* NothingOutlivesItsFile: when a file has left the backend's table, so    *)
(* have the registrations and pools made through it; and when the pump has *)
(* let go of it too, the host has freed the clients, with all their        *)
(* objects, and the buffers made on it - whatever was in line behind the   *)
(* close or given up.                                                      *)
NothingOutlivesItsFile ==
  /\ \A s \in spans : s.file \in hosts
  /\ \A p \in pools : p.handle \in hosts
  /\ \A r \in roots : r.file \in hosts \cup lingers
  /\ \A o \in rm : \E r \in roots : r.client = o.client
  /\ \A g \in hostGems : g.file \in hosts \cup lingers

(* PoolShowsItself: what a mapping of a UVM file shows is the pool that    *)
(* was placed for it, at its own address: the VMM's slot is there, it is   *)
(* that file's, and no other mapping's pool was given its place.           *)
PoolShowsItself ==
  \A v \in vmas :
    \E s \in slots : /\ s.offset = v.offset /\ s.len = v.len
                    /\ s.addr = v.addr /\ s.file = v.file

(* ProxyKeepsItsObject: as long as a file or a dma-buf of the guest stands *)
(* for a buffer, the owner's file on the host has that buffer under the    *)
(* number the proxy has, although numbers are used again and closes are    *)
(* sent by whoever lets go last; and an export names the caller's buffer   *)
(* unless the caller has closed its handle meanwhile.  A buffer goes with  *)
(* its owner's file, whoever else has imported it.  The one other thing    *)
(* that takes a buffer from under its proxy is the second close of a       *)
(* number whose proxy got no handle, and what follows from it.             *)
ProxyKeepsItsObject ==
  /\ \A x \in DOMAIN names : \A o \in names[x] \ taken :
       LET p == Proxy(o)
       IN  p.owner \in hosts => [file |-> p.owner, handle |-> p.host, obj |-> o] \in hostGems
  /\ \A t \in Threads :
       (Asked(t, "gem_export") /\ call[t].state = "done") =>
         LET q == call[t].req
         IN  q.obj \in names[q.file] \ taken =>
               IF call[t].ok THEN call[t].got.obj = q.obj ELSE Proxy(q.obj).owner \notin hosts

(* ImplementsAperture: for all that happens to files and mappings, the     *)
(* pools on the books come and go as Aperture lets them.                   *)
ImplementsAperture == Spec

=============================================================================
