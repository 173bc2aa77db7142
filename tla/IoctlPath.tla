----------------------------- MODULE IoctlPath -----------------------------
(***************************************************************************)
(* The way of an ioctl from a thread of the guest to the host driver and   *)
(* back: the guest driver (driver/virtio_gpu_nv.c) copies the caller's     *)
(* parameters, the backend (device/src/nvidia/ioctl.rs and the modules it  *)
(* dispatches to) gives the host driver its own buffers and descriptors in *)
(* place of the caller's, and both put back what the caller had.           *)
(*                                                                         *)
(* A call is made by one thread while others of the process write to the   *)
(* same parameters and close or reuse descriptors.  A file is opened once, *)
(* so it stands for its handle.  What a command is - its number, class,    *)
(* size - is left out: it may have any call refused.                       *)
(***************************************************************************)
EXTENDS Integers, Sequences, SequencesExt

CONSTANTS
  CtlFiles, UvmFiles, DrmFiles,  \* open files of each kind
  Descriptors,  \* numbers in the table of the guest process
  Addresses,    \* of the caller's buffers
  Clients,      \* RM clients
  Layouts,      \* controls: the direction of each embedded pointer
  Counts,       \* values of a count field
  MaxBytes,     \* MAX_EMBEDDED_BYTES
  Word,         \* what lengths on the wire are rounded up to
  MustProve,    \* pageable_must_be_off: no flag asks for it
  NoFd,         \* -1
  Block,        \* the pointer of the caller's to the parameter block
  Junk,         \* bytes nobody wrote: any value
  None

Files == CtlFiles \cup UvmFiles \cup DrmFiles

\* The table of a request, NVGPU_RMCTRL_MAX_SEGMENTS entries at most, is small
\* next to what a request may hold; -1 is no descriptor and no handle, and a null
\* pointer no buffer of the backend's.
ASSUME IoctlPathAssumption ==
  /\ Counts \subseteq Nat /\ MaxBytes \in Nat /\ Word \in Nat \ {0}
  /\ MustProve \in BOOLEAN
  /\ CtlFiles \cap UvmFiles = {} /\ CtlFiles \cap DrmFiles = {} /\ UvmFiles \cap DrmFiles = {}
  /\ NoFd \notin Files \cup Descriptors /\ None \notin Files \cup Addresses
  /\ \A e \in Layouts :
       /\ e \in Seq({"in", "out", "both"}) /\ Word + Word * Len(e) <= 2 * MaxBytes
       /\ \A i \in DOMAIN e : None # <<"host", i>>

VARIABLES
  table,   \* guest: the file of each descriptor, or None
  block,   \* guest: the caller's parameters, in its memory
  call,    \* guest: the call under way, or None
  opened,  \* backend: files in the handle table
  issued,  \* backend: [file, client] of every client RM issued
  denied   \* backend: uvm_denied

vars == <<table, block, call, opened, issued, denied>>

(* control: RM_CONTROL with embedded pointers.  share: RM_CONTROL exporting  *)
(* an object to a file, or importing one.  event: RM_ALLOC of an event,      *)
(* which names a file, and with a pointer to the rights asked for.  gem: a   *)
(* GEM call of nvidia-drm that names a file.  named: an escape with a        *)
(* descriptor at a fixed place.  register, mm: UVM calls that name a control *)
(* file and a client made on it, or a UVM file.  initialize: UVM_INITIALIZE. *)
OpsOn(f) ==
  CASE f \in CtlFiles -> {"control", "share", "event", "named"}
    [] f \in UvmFiles -> {"register", "mm", "initialize"}
    [] f \in DrmFiles -> {"gem"}
    [] OTHER -> {}

Naming == {"share", "event", "named", "gem", "register", "mm"}
Nested == {"control", "share", "event", "gem"}  \* parameters behind a pointer

Pointers(op, e) == IF op = "event" THEN {1} ELSE DOMAIN e

Blocks(op, e) ==
  [ptr : [Pointers(op, e) -> Addresses \cup {None}],
   n : [Pointers(op, e) -> IF op = "control" THEN Counts ELSE {0}],
   fd : IF op \in Naming THEN Descriptors \cup {NoFd} ELSE {NoFd},
   client : IF op = "register" THEN Clients ELSE {None}]

Init ==
  /\ table \in [Descriptors -> Files] /\ IsInjective(table)
  /\ opened = Range(table)
  /\ block = None /\ call = None /\ issued = {} /\ denied = {}

----------------------------------------------------------------------------
(* The rest of the process *)

InUse(t) == Range(t) \cup (IF call = None THEN {} ELSE {call.file})

\* A descriptor is closed, or made another of a file in the table.  A file
\* nothing refers to is closed in the backend: handle_close.  Bounds: no file is
\* opened anew, and nothing while a control is under way, which names no file.
Rebind(d, f) ==
  /\ call # None => call.op # "control"
  /\ f \in Range(table) \cup {None} /\ f # table[d]
  /\ table' = [table EXCEPT ![d] = f]
  /\ opened' = opened \cap InUse(table')
  /\ issued' = {i \in issued : i.file \in opened'}
  /\ UNCHANGED <<block, call, denied>>

(* note_clients: RM gave a client out, or took one back.                     *)
NoteClient(f, c) ==
  /\ f \in Range(table) \cap CtlFiles
  /\ call # None => call.op # "control"
  /\ \/ /\ \A i \in issued : i.client # c
        /\ issued' = issued \cup {[file |-> f, client |-> c]}
     \/ /\ \E i \in issued : i.client = c
        /\ issued' = {i \in issued : i.client # c}
  /\ UNCHANGED <<table, block, call, opened, denied>>

\* Another thread writes to the parameters the first read of a control saw.
Rewrite ==
  /\ call # None /\ call.stage = "asked" /\ call.op = "control" /\ block = call.first
  /\ block' \in Blocks("control", call.layout)
  /\ UNCHANGED <<table, call, opened, issued, denied>>

----------------------------------------------------------------------------
(* The guest driver *)

Used(b) == {i \in DOMAIN b.ptr : b.ptr[i] # None}
In(e) == {i \in DOMAIN e : e[i] # "out"}
Out(e) == {i \in DOMAIN e : e[i] # "in"}

Pad(n) == Word * ((n + Word - 1) \div Word)
WordsFor(k) == Word + Word * k  \* table_bytes
Padded(n, S) == SumFunctionOnSet([i \in DOMAIN n |-> Pad(n[i])], S)

\* The first read of nvgpu_ioctl_rm_control: a segment for every pointer that
\* is not null, and none at all if one cannot be described.
Describe(e, b) ==
  IF /\ \A i \in Used(b) : b.n[i] <= MaxBytes
     /\ WordsFor(Len(e)) + Padded(b.n, Used(b)) <= 2 * MaxBytes
  THEN [i \in Used(b) |-> [user |-> b.ptr[i], len |-> b.n[i]]]
  ELSE <<>>

\* deep_len: the room the request has, and so the reply.
Room(e, segs) ==
  IF DOMAIN segs = {} THEN 0
  ELSE WordsFor(Len(e)) + Padded([i \in DOMAIN segs |-> segs[i].len], DOMAIN segs)

\* Bound: controls are made by a process without DRM files that has done
\* nothing else yet.
Untroubled == issued = {} /\ denied = {} /\ IsInjective(table) /\ opened = Files \ DrmFiles

Ask(d, op, e) ==
  /\ call = None /\ table[d] # None /\ op \in OpsOn(table[d])
  /\ IF op = "control" THEN Untroubled ELSE e = <<>>
  /\ block' \in Blocks(op, e)
  /\ call' = [op |-> op, layout |-> e, file |-> table[d], stage |-> "asked",
              first |-> block', segs |-> IF op = "control" THEN Describe(e, block') ELSE <<>>,
              fd |-> NoFd, meant |-> None, sent |-> None, passed |-> None,
              ok |-> FALSE, seen |-> None, wrote |-> {}]
  /\ UNCHANGED <<table, opened, issued, denied>>

\* What a caller reads where it passed parameters that were not copied back.
Untouched(b) == [outer |-> Block, ptr |-> b.ptr, fd |-> b.fd]

\* nvgpu_handle_for_fd, and the fget of nvgpu_ioctl_translate_fd and _rm_alloc,
\* which let the file go again before the request is in the queue.
Named == IF block.fd \in Descriptors THEN table[block.fd] ELSE None

\* The request, with the handle of the file in place of its descriptor; a number
\* that no file is open under stays as it is.
Submitted ==
  [call EXCEPT !.stage = "sent", !.fd = block.fd, !.meant = Named,
               !.sent = [block EXCEPT !.fd = IF Named = None THEN @ ELSE Named]]

\* EBADF, before anything is sent.
GivenBack ==
  [call EXCEPT !.stage = "returned", !.sent = block, !.fd = block.fd, !.seen = Untouched(block)]

Asking(ops) == call # None /\ call.stage = "asked" /\ call.op \in ops

sending == <<table, block, opened, issued, denied>>

\* nvgpu_ioctl_rm_control, from its second read of the block on.
SendControl == Asking({"control", "share"}) /\ call' = Submitted /\ UNCHANGED sending

\* nvgpu_ioctl_rm_alloc of an event.
SendAlloc == Asking({"event"}) /\ call' = Submitted /\ UNCHANGED sending

\* nvgpu_uvm_ioctl and nvgpu_ioctl_simple: nothing to be replaced.
SendSimple == Asking({"initialize"}) /\ call' = Submitted /\ UNCHANGED sending

\* nvgpu_ioctl_translate_fd, also for UVM; -1 goes as it is.
SendNamed ==
  /\ Asking({"named", "register", "mm"})
  /\ call' = IF Named = None /\ block.fd # NoFd THEN GivenBack ELSE Submitted
  /\ UNCHANGED sending

\* nvgpu_ioctl_drm_gem_nested, which takes no -1.
SendGem ==
  /\ Asking({"gem"})
  /\ call' = IF Named = None THEN GivenBack ELSE Submitted
  /\ UNCHANGED sending

----------------------------------------------------------------------------
(* The backend.  Requests are served one at a time, each in one step.        *)

Host(i) == <<"host", i>>    \* the address of a buffer of the backend's
HostFd(f) == <<"host", f>>  \* the backend's descriptor for a file

Served(passed, ok) == [call EXCEPT !.stage = "served", !.passed = passed, !.ok = ok]

\* The host driver is called, with these pointers, buffers and descriptor, and
\* succeeds or fails.
Forward(ptr, bufs, fd) ==
  \E ok \in BOOLEAN :
    call' = Served([outer |-> IF call.op \in Nested THEN Host(0) ELSE Block,
                    ptr |-> ptr, bufs |-> bufs, fd |-> fd], ok)

Serving(ops) == call # None /\ call.stage = "sent" /\ call.op \in ops

\* An error goes back, or the parameters with RM's refusal in their status.
Refuse(ok) == call' = Served(None, ok)

(* serve_ioctl, before it looks at pointers or descriptors: check_abi,       *)
(* rm_control_refusal, the refusals of a class, a guarded buffer not to be   *)
(* had.                                                                      *)
RefuseCommand ==
  /\ call # None /\ call.stage = "sent"
  /\ \E ok \in BOOLEAN : (ok => call.op \in {"control", "share", "event"}) /\ Refuse(ok)
  /\ UNCHANGED <<table, block, opened, issued, denied>>

\* Slots RM writes through, and whether the request has room for them.
Replied(e, b) == {i \in Used(b) \cap Out(e) : b.n[i] > 0}
ReplyFits(e, b, room) ==
  LET outs == Replied(e, b)
  IN outs = {} \/ WordsFor(Cardinality(outs)) + Padded(b.n, outs) <= room

\* The bytes sent for each pointer RM reads through are as many as it reads.
Sent_Enough(e, b, segs) ==   \* Mutant: or more, or fewer
  \A i \in Used(b) \cap In(e) : b.n[i] > 0 => i \in DOMAIN segs
Sent(e, b, segs) ==
  \A i \in Used(b) \cap In(e) :
    b.n[i] > 0 => i \in DOMAIN segs /\ segs[i].len = b.n[i]

\* rmctrl::plan and reply_fits.
Accepts(e, b, segs) ==
  /\ \A i \in Used(b) : b.n[i] <= MaxBytes
  /\ SumFunctionOnSet(b.n, Used(b)) <= 2 * MaxBytes
  /\ Sent(e, b, segs)
  /\ ReplyFits(e, b, Room(e, segs))

\* Embedded::install: a buffer for every pointer that is not null.
Install(e, b, segs) ==
  [i \in Used(b) |->
    [len |-> b.n[i],
     holds |-> IF i \in In(e) \cap DOMAIN segs THEN segs[i] ELSE None]]

ServeControl ==
  /\ Serving({"control"})
  /\ LET e == call.layout  b == call.sent
     IN IF Accepts(e, b, call.segs)
        THEN Forward([i \in DOMAIN b.ptr |-> IF b.ptr[i] = None THEN None ELSE Host(i)],
                     Install(e, b, call.segs), NoFd)
        ELSE Refuse(TRUE)
  /\ UNCHANGED <<table, block, opened, issued, denied>>

\* What the handle table finds for a descriptor field.  A number the guest
\* driver left as it was may be that of a handle.
Found(fd) ==
  CASE fd = NoFd -> {None}
    [] fd \in Files -> IF fd \in opened THEN {fd} ELSE {None}
    [] OTHER -> opened \cup {None}

(* dispatch_nested with a descriptor in the block.  The pointer to the       *)
(* rights an allocation asks for goes as null; an event that is no handle    *)
(* goes as it came.                                                          *)
Rights(b) == [i \in DOMAIN b.ptr |-> None]

ServeNested ==
  /\ Serving({"share", "event", "gem"})
  /\ \E f \in Found(call.sent.fd) :
       IF f # None THEN Forward(Rights(call.sent), <<>>, HostFd(f))
       ELSE IF call.op = "event" THEN Forward(Rights(call.sent), <<>>, call.sent.fd)
       ELSE Refuse(FALSE)
  /\ UNCHANGED <<table, block, opened, issued, denied>>

(* dispatch_fd_carrying *)
ServeNamed ==
  /\ Serving({"named"})
  /\ \E f \in Found(call.sent.fd) :
       IF f # None THEN Forward(<<>>, <<>>, HostFd(f))
       ELSE IF call.sent.fd = NoFd THEN Forward(<<>>, <<>>, NoFd)
       ELSE Refuse(FALSE)
  /\ UNCHANGED <<table, block, opened, issued, denied>>

\* uvm_descriptor: the files a UVM call may name.
UvmMayName_AnyFile(f) ==   \* Mutant: without the client
  IF call.op = "mm" THEN f \in UvmFiles ELSE f \in CtlFiles
UvmMayName(f) ==
  IF call.op = "mm" THEN f \in UvmFiles
  ELSE f \in CtlFiles /\ [file |-> f, client |-> call.sent.client] \in issued

(* dispatch_uvm.  A file whose address space turns out to take pageable      *)
(* memory serves nothing any more.                                           *)
ServeUvm ==
  /\ Serving({"register", "mm"})
  /\ IF call.file \in denied THEN Refuse(FALSE)
     ELSE \E f \in Found(call.sent.fd) :
            IF f # None /\ UvmMayName(f) THEN Forward(<<>>, <<>>, HostFd(f))
            ELSE IF call.sent.fd = NoFd THEN Forward(<<>>, <<>>, NoFd)
            ELSE Refuse(FALSE)
  /\ UNCHANGED <<table, block, opened, issued, denied>>

Initialize ==
  /\ Serving({"initialize"})
  /\ UNCHANGED <<table, block, opened, issued>>
  /\ IF call.file \in denied THEN Refuse(FALSE) /\ UNCHANGED denied
     ELSE \/ Forward(<<>>, <<>>, NoFd) /\ UNCHANGED denied
          \/ /\ MustProve /\ denied' = denied \cup {call.file}
             /\ call' = Served([outer |-> Block, ptr |-> <<>>, bufs |-> <<>>, fd |-> NoFd],
                               FALSE)

----------------------------------------------------------------------------
(* The answer *)

\* What the reply has in the fields the backend replaced: Embedded::restore,
\* and the saved handle.
Restored(sent) == [ptr |-> sent.ptr, fd |-> sent.fd]

\* Each segment of the reply is written where the first read found its pointer.
CopyOut_AnyLength(c) ==   \* Mutant: without the length the guest driver computed
  {[addr |-> c.segs[i].user, len |-> c.sent.n[i]] :
    i \in Replied(c.layout, c.sent) \cap DOMAIN c.segs}
CopyOut(c) ==
  {[addr |-> c.segs[i].user, len |-> c.sent.n[i]] :
    i \in {j \in Replied(c.layout, c.sent) \cap DOMAIN c.segs :
            c.sent.n[j] <= c.segs[j].len}}

\* What the driver copies back of a call that failed, where nothing was received:
\* nvgpu_ioctl_translate_fd nothing, nvgpu_ioctl_rm_control and _rm_alloc their
\* whole block, the others what a length they did not receive says.
Unreceived(op) ==
  CASE op \in {"named", "register", "mm"} -> [outer : {Block}, kept : {TRUE}]
    [] op \in {"control", "share", "event"} -> [outer : {Junk}, kept : BOOLEAN]
    [] OTHER -> [outer : {Block, Junk}, kept : BOOLEAN]

(* The thread has its answer.  write_error_resp sends a header and nothing   *)
(* else.                                                                     *)
Return ==
  /\ call # None /\ call.stage = "served"
  /\ IF call.ok
     THEN LET back == Restored(call.sent)
              fd == IF call.op = "share" /\ call.meant # None THEN call.fd ELSE back.fd
          IN call' = [call EXCEPT !.stage = "returned",
                        !.seen = [outer |-> Block, ptr |-> back.ptr, fd |-> fd],
                        !.wrote = IF call.op = "control" /\ call.passed # None
                                  THEN CopyOut(call) ELSE {}]
     ELSE \E u \in Unreceived(call.op), W \in SUBSET DOMAIN call.segs :
            call' = [call EXCEPT !.stage = "returned",
                       !.seen = [outer |-> u.outer,
                                 ptr |-> IF u.kept THEN block.ptr ELSE Junk,
                                 fd |-> IF u.kept THEN block.fd ELSE Junk],
                       !.wrote = {[addr |-> call.segs[i].user, len |-> call.segs[i].len] : i \in W}]
  /\ UNCHANGED <<table, block, opened, issued, denied>>

\* The call's own reference to its file goes too.
Finish ==
  /\ call # None /\ call.stage = "returned"
  /\ call' = None /\ block' = None
  /\ opened' = opened \cap Range(table)
  /\ issued' = {i \in issued : i.file \in opened'}
  /\ UNCHANGED <<table, denied>>

Next ==
  \/ Rewrite \/ SendControl \/ SendAlloc \/ SendSimple \/ SendNamed \/ SendGem
  \/ RefuseCommand \/ ServeControl \/ ServeNested \/ ServeNamed \/ ServeUvm \/ Initialize
  \/ Return \/ Finish
  \/ \E d \in Descriptors : \/ \E f \in Files \cup {None} : Rebind(d, f)
                            \/ \E op \in OpsOn(table[d]), e \in Layouts \cup {<<>>} : Ask(d, op, e)
  \/ \E f \in CtlFiles, c \in Clients : NoteClient(f, c)

Spec == Init /\ [][Next]_vars

----------------------------------------------------------------------------

(* The host driver is given no pointer of the caller's, and of descriptors   *)
(* the backend's own for the file the caller's named when it was read,       *)
(* whatever the process does to its table meanwhile; a UVM call only one of  *)
(* the kind it takes, with a client made on it that is still there; and a    *)
(* UVM file refused once is never heard of again (nested.rs, rm_fd.rs,       *)
(* uvm.rs).  Exempt: a descriptor the guest driver cannot resolve, which an  *)
(* RM ioctl sends on as it stands, and an event's file closed before the     *)
(* request is served.                                                        *)
HostSeesItsOwn ==
  [][LET p == call'.passed
     IN /\ call # None /\ call.stage = "sent" /\ p # None
        => /\ call.op \in Nested => p.outer = Host(0)
           /\ \A i \in DOMAIN p.ptr : p.ptr[i] \in {None, Host(i)}
           /\ call.meant # None /\ (call.op = "event" => call.meant \in opened) =>
                p.fd = HostFd(call.meant)
           /\ call.op = "register" /\ p.fd # NoFd =>
                [file |-> call.meant, client |-> call.sent.client] \in issued
           /\ call.op = "mm" => call.meant \in UvmFiles \cup {None}
           /\ call.file \notin denied]_vars

(* A control reaches RM with a buffer for every pointer that is not null, as *)
(* long as RM will take it to be, holding as many of the caller's bytes as   *)
(* RM reads - whatever another thread writes between the two reads of the    *)
(* block.  A block nobody writes to is served exactly if the guest driver    *)
(* described all of it: the two halves read it alike (rmctrl.rs and          *)
(* nvgpu_ioctl_rm_control).                                                  *)
BuffersMatchTheBlock ==
  call # None /\ call.op = "control" =>
    LET e == call.layout  b == call.sent  p == call.passed
    IN /\ call.stage = "served" /\ p # None =>
            \A i \in DOMAIN b.ptr :
              /\ b.ptr[i] = None <=> p.ptr[i] = None
              /\ b.ptr[i] # None =>
                   /\ p.bufs[i].len = b.n[i]
                   /\ i \in In(e) /\ b.n[i] > 0 =>
                        p.bufs[i].holds = [user |-> call.first.ptr[i], len |-> b.n[i]]
       /\ call.stage = "sent" /\ b = call.first =>
            (Accepts(e, b, call.segs) <=> Used(b) = DOMAIN call.segs)

(* When its call succeeds the caller reads back the pointers it passed, and  *)
(* in place of a descriptor that one or the handle of its file, never one of *)
(* the host's; sharing an object always leaves it its descriptor.  Whether   *)
(* the call succeeds or not, its buffers are written only where its own      *)
(* block pointed when it was read first and no further than it said there;   *)
(* and if nobody wrote to the block, every buffer RM filled comes back whole *)
(* (nested.rs, rmctrl.rs, segments.rs and nvgpu_ioctl_rm_control).           *)
CallerGetsItsOwnBack ==
  call # None /\ call.stage = "returned" =>
    LET b == call.sent
    IN /\ call.ok =>
            /\ call.seen.outer = Block /\ call.seen.ptr = b.ptr
            /\ call.seen.fd \in {call.fd} \cup ({call.meant} \ {None})
            /\ call.op = "share" => call.seen.fd = call.fd
       /\ \A w \in call.wrote : \E i \in Used(call.first) :
            w.addr = call.first.ptr[i] /\ w.len <= call.first.n[i]
       /\ call.ok /\ call.op = "control" /\ call.passed # None /\ b = call.first =>
            call.wrote = {[addr |-> b.ptr[i], len |-> b.n[i]] : i \in Replied(call.layout, b)}

(* "The host driver leaves the field alone, so a caller there reads back the *)
(* pointer it passed" (nested.rs:38-39), as it would of a call that fails.   *)
FailureLeavesPointer ==
  call # None /\ call.stage = "returned" /\ ~ call.ok => call.seen.outer = Block

=============================================================================
