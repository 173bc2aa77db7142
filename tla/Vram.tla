-------------------------------- MODULE Vram --------------------------------
(***************************************************************************)
(* A guest's video memory and the limit it is held to: the books of        *)
(* device/src/vram.rs, what nvidia/{vidmem,ioctl,open}.rs enters in them,  *)
(* and beside them what RM on the host really holds for the guest.         *)
(*                                                                         *)
(* One request is one step: admission, the host's call and the entry in    *)
(* the books all happen under the backend's mutex.  Sizes are in the units *)
(* RM rounds to fractions of (Granule of them make a page).                *)
(***************************************************************************)
EXTENDS Naturals, FiniteSets, FiniteSetsExt

CONSTANTS
  Files,       \* opens of the control device
  Clients,     \* RM clients; a client's root object has the client's handle
  Handles,     \* handles of all other objects
  Sizes,       \* sizes guests ask for
  Granule,     \* RM rounds every allocation up to a multiple of it
  Limit,       \* --vram-limit-mib, or None
  MaxObjects,  \* bound on the objects alive at once
  MaxUntracked,\* bound on the frees the books do not enter
  Lingers,     \* something else may keep the host's file open after a CLOSE
  System,      \* memory, but not the card's
  None         \* no limit, no memory

ASSUME VramAssumption ==
  /\ Granule \in Nat \ {0}
  /\ Sizes \subseteq Nat
  /\ Limit \in Nat \/ Limit = None
  /\ {MaxObjects, MaxUntracked} \subseteq Nat
  /\ Lingers \in BOOLEAN
  /\ Clients \cap Handles = {}
  /\ None # System /\ None \notin Nat
  /\ \A m \in {None, System} : m \notin [id : Nat, bytes : Nat]

VARIABLES
  file,      \* each file of the guest's: "open" or "closed"
  roots,     \* host: [client, file] of every client alive
  rm,        \* host: [client, handle, parent, mem] of every object alive
  books,     \* [objects, memory, inUse]
  clients,   \* books: files, as [client, file] of every client known
  untracked  \* vidmem_untracked_frees

host == <<roots, rm>>
vars == <<file, host, books, clients, untracked>>

Init ==
  /\ file = [f \in Files |-> "open"]
  /\ roots = {} /\ rm = {}
  /\ books = [objects |-> {}, memory |-> {}, inUse |-> 0]
  /\ clients = {}
  /\ untracked = 0

\* The least number that names nothing in S.
Unnamed(S) == CHOOSE n \in 1 .. Cardinality(S) + 1 : n \notin S /\ \A k \in 1 .. n - 1 : k \in S

\* The handles of h and everything allocated under it in client c, among the objects S.
Under(S, c, h) ==
  LET mine == {o \in S : o.client = c}
      all == {h} \cup {o.handle : o \in mine}
      Closed(H) == h \in H /\ \A o \in mine : o.parent \in H => o.handle \in H
  IN  {k \in all : \A H \in SUBSET all : Closed(H) => k \in H}

----------------------------------------------------------------------------
(* The host, as the books take it to be (vram.rs, "What a charge lives as    *)
(* long as").  Memory lives as long as an object holds it.                   *)

Alive == {r.client : r \in roots}

\* The guest names a client only as long as it has the client's file open.
Usable(c) == \E r \in roots : r.client = c /\ file[r.file] = "open"

Live(c) == {o.handle : o \in {x \in rm : x.client = c}}

\* What an object can be allocated under.
Parents(c) == {c} \cup {o.handle : o \in {x \in rm : x.client = c /\ x.mem = None}}

Held == {o.mem : o \in rm} \ {None, System}

\* The host's file is released, and with it every client made on it.
Released(f) ==
  LET dead == {r \in roots : r.file = f} IN
  /\ roots' = roots \ dead
  /\ rm' = {o \in rm : \A r \in dead : o.client # r.client}

----------------------------------------------------------------------------
(* The books.  Each operator maps the books to the books.                    *)

Admit(bytes) == Limit = None \/ books.inUse + bytes <= Limit

Rest(n, m) == IF n > m THEN n - m ELSE 0      \* saturating_sub

At(b, c, h) == {o \in b.objects : o.client = c /\ o.handle = h}

Named(b, O) == {m \in b.memory : \E o \in O : o.memory = m.id}

\* Mutant: the memory goes with the first of its holders.
Dropped_Whole(b, c, h) ==
  LET gone == At(b, c, h) IN
  [objects |-> b.objects \ gone,
   memory  |-> b.memory \ Named(b, gone),
   inUse   |-> Rest(b.inUse, MapThenSumSet(LAMBDA m : m.bytes, Named(b, gone)))]

\* drop_object
Dropped(b, c, h) ==
  LET gone == At(b, c, h)
      less == {[m EXCEPT !.holders = @ - 1] : m \in Named(b, gone)}
      dead == {m \in less : m.holders = 0}
  IN  [objects |-> b.objects \ gone,
       memory  |-> (b.memory \ Named(b, gone)) \cup (less \ dead),
       inUse   |-> Rest(b.inUse, MapThenSumSet(LAMBDA m : m.bytes, dead))]

Recorded(b, c, p, h, id) ==
  [b EXCEPT !.objects = @ \cup {[client |-> c, handle |-> h, parent |-> p, memory |-> id]}]

\* allocated, for an object that holds no video memory and for one that does
AllocatedPlain(c, p, h) == Recorded(Dropped(books, c, h), c, p, h, None)

AllocatedBytes(c, p, h, bytes) ==
  LET b  == Dropped(books, c, h)
      id == Unnamed({m.id : m \in b.memory})
  IN  Recorded([b EXCEPT !.memory = @ \cup {[id |-> id, bytes |-> bytes, holders |-> 1]},
                         !.inUse = @ + bytes], c, p, h, id)

\* Mutant: a duplicate is not counted as a holder.
Duplicated_Uncounted(c, p, h, sc, sh) ==
  LET source == At(books, sc, sh)
      id     == IF source = {} THEN None ELSE (CHOOSE o \in source : TRUE).memory
  IN  Recorded(Dropped(books, c, h), c, p, h, id)

\* duplicated: the memory has one holder more before the old record goes.
Duplicated(c, p, h, sc, sh) ==
  LET source == At(books, sc, sh)
      held   == [books EXCEPT !.memory =
                  {IF m \in Named(books, source) THEN [m EXCEPT !.holders = @ + 1] ELSE m :
                   m \in @}]
      id     == IF source = {} THEN None ELSE (CHOOSE o \in source : TRUE).memory
  IN  Recorded(Dropped(held, c, h), c, p, h, id)

DroppedAll(b, c, H) == FoldSet(LAMBDA h, acc : Dropped(acc, c, h), b, H)

\* Mutant: only the object and its children are dropped.
Freed_Shallow(b, c, h) ==
  DroppedAll(b, c, {o.handle : o \in
    {x \in b.objects : x.client = c /\ (h = c \/ x.handle = h \/ x.parent = h)}})

\* freed: the whole client, or the handle and everything under it.
Freed(b, c, h) ==
  DroppedAll(b, c, IF h = c THEN {o.handle : o \in {x \in b.objects : x.client = c}}
                   ELSE Under(b.objects, c, h))

----------------------------------------------------------------------------
(* Requests                                                                  *)

\* RM_ALLOC of a root class on a control file: client_opened.
AllocRoot(f, c) ==
  /\ file[f] = "open" /\ c \notin Alive
  /\ roots' = roots \cup {[client |-> c, file |-> f]}
  /\ clients' = clients \cup {[client |-> c, file |-> f]}
  /\ UNCHANGED <<file, rm, books, untracked>>

NewObject(c, p, h, mem) ==
  /\ Usable(c) /\ p \in Parents(c) /\ h \notin Live(c)
  /\ Cardinality(rm) < MaxObjects
  /\ rm' = rm \cup {[client |-> c, handle |-> h, parent |-> p, mem |-> mem]}

\* RM_ALLOC of a device, a subdevice, a channel, ...
AllocObject(c, p, h) ==
  /\ NewObject(c, p, h, None)
  /\ books' = AllocatedPlain(c, p, h)
  /\ UNCHANGED <<file, roots, clients, untracked>>

\* RM's answer to a request for `asked` bytes says what it took.
RoundUp(asked) == ((asked + Granule - 1) \div Granule) * Granule

\* Mutant: what was asked is charged.
AllocMemory_ChargesAsked(c, p, h, asked) ==
  /\ Admit(asked)
  /\ NewObject(c, p, h, [id |-> Unnamed({m.id : m \in Held}), bytes |-> RoundUp(asked)])
  /\ books' = AllocatedBytes(c, p, h, asked)
  /\ UNCHANGED <<file, roots, clients, untracked>>

(* RM_ALLOC of NV01_MEMORY_LOCAL_USER, or VID_HEAP_CONTROL: admitted by what *)
(* was asked (vidmem_admit), charged by what RM took (vidmem_note).          *)
AllocMemory(c, p, h, asked) ==
  /\ Admit(asked)
  /\ NewObject(c, p, h, [id |-> Unnamed({m.id : m \in Held}), bytes |-> RoundUp(asked)])
  /\ books' = AllocatedBytes(c, p, h, RoundUp(asked))
  /\ UNCHANGED <<file, roots, clients, untracked>>

\* VID_HEAP_CONTROL for memory that is not the card's leaves no entry.
AllocSystem(c, p, h) ==
  /\ NewObject(c, p, h, System)
  /\ UNCHANGED <<file, roots, books, clients, untracked>>

\* RM_DUP_OBJECT
Dup(c, p, h, o) ==
  /\ Usable(o.client)
  /\ NewObject(c, p, h, o.mem)
  /\ books' = Duplicated(c, p, h, o.client, o.handle)
  /\ UNCHANGED <<file, roots, clients, untracked>>

\* RM_FREE of an object
Free(o) ==
  /\ Usable(o.client)
  /\ rm' = {x \in rm : ~ (x.client = o.client /\ x.handle \in Under(rm, o.client, o.handle))}
  /\ books' = Freed(books, o.client, o.handle)
  /\ UNCHANGED <<file, roots, clients, untracked>>

\* Mutant: the file keeps the client.
FreeRoot_KeepsClient(c) ==
  /\ Usable(c)
  /\ roots' = {r \in roots : r.client # c}
  /\ rm' = {o \in rm : o.client # c}
  /\ books' = Freed(books, c, c)
  /\ UNCHANGED <<file, clients, untracked>>

\* RM_FREE of a client's root, through whichever control file: client_freed.
FreeRoot(c) ==
  /\ Usable(c)
  /\ roots' = {r \in roots : r.client # c}
  /\ rm' = {o \in rm : o.client # c}
  /\ books' = Freed(books, c, c)
  /\ clients' = {r \in clients : r.client # c}
  /\ UNCHANGED <<file, untracked>>

\* VID_HEAP_CONTROL's own free, which is counted and not entered.
HeapFree(o) ==
  /\ untracked < MaxUntracked /\ Usable(o.client)
  /\ o.mem # None
  /\ rm' = rm \ {o}
  /\ untracked' = untracked + 1
  /\ UNCHANGED <<file, roots, books, clients>>

(* handle_close of a control file: file_closed.  The descriptor closed was   *)
(* the last one of the host's file, or the event pump's duplicate or the     *)
(* VMM's mapping keeps it.                                                   *)
Close(f) ==
  LET mine == {r.client : r \in {x \in clients : x.file = f}} IN
  /\ file[f] = "open"
  /\ file' = [file EXCEPT ![f] = "closed"]
  /\ books' = FoldSet(LAMBDA c, b : Freed(b, c, c), books, mine)
  /\ clients' = {r \in clients : r.file # f}
  /\ UNCHANGED untracked
  /\ Released(f) \/ (Lingers /\ UNCHANGED host)

\* What kept the host's file open lets go of it: Watch::Remove is handled, ...
LetGo(f) ==
  /\ file[f] = "closed"
  /\ \E r \in roots : r.file = f
  /\ Released(f)
  /\ UNCHANGED <<file, books, clients, untracked>>

Next ==
  \/ \E f \in Files : (\E c \in Clients : AllocRoot(f, c)) \/ Close(f) \/ LetGo(f)
  \/ \E c \in Clients : FreeRoot(c)
  \/ \E c \in Clients, h \in Handles : \E p \in Parents(c) :
       \/ AllocObject(c, p, h)
       \/ \E asked \in Sizes : AllocMemory(c, p, h, asked)
       \/ AllocSystem(c, p, h)
       \/ \E o \in rm : Dup(c, p, h, o)
  \/ \E o \in rm : Free(o) \/ HeapFree(o)

Spec == Init /\ [][Next]_vars

----------------------------------------------------------------------------
(* Every variable holds what its comment says it does.                     *)
TypeOK ==
  /\ file \in [Files -> {"open", "closed"}]
  /\ roots \subseteq [client : Clients, file : Files]
  /\ clients \subseteq [client : Clients, file : Files]
  /\ \A o \in rm :
       o.client \in Clients /\ o.handle \in Handles /\ o.parent \in Handles \cup Clients
  /\ \A o \in books.objects :
       /\ o.client \in Clients /\ o.handle \in Handles /\ o.parent \in Handles \cup Clients
       /\ o.memory # None => \E m \in books.memory : m.id = o.memory
  /\ \A m \in books.memory : m.bytes \in Nat /\ m.holders \in Nat \ {0}
  /\ books.inUse \in Nat
  /\ untracked \in 0 .. MaxUntracked

TakenOnCard == MapThenSumSet(LAMBDA m : m.bytes, Held)

\* A file closed that the host still has open.
Lingering == \E r \in roots : file[r.file] = "closed"

(* NeverUndercharged: at least what RM holds for the guest is charged,     *)
(* through any order of allocations, duplicates across clients, frees of   *)
(* ancestors, of originals and of duplicates, clients freed and files      *)
(* closed, also where guests free in ways the books do not see and handles *)
(* the books still know are given out again.                               *)
NeverUndercharged == ~ Lingering => TakenOnCard <= books.inUse

(* ChargedIsHeld: as long as every free is seen, also while a closed file  *)
(* lingers on the host, a guest is never charged for memory that is gone,  *)
(* which would end with a guest refused memory that is free.               *)
ChargedIsHeld == untracked = 0 => books.inUse <= TakenOnCard

(* CardWithinLimit: "The limit can therefore be passed by at most one      *)
(* allocation's rounding, and is never passed by more" (vram.rs) - said of *)
(* the card, which is what the limit is there to protect.                  *)
CardWithinLimit == Limit # None => TakenOnCard < Limit + Granule

(* SettledWithinLimit: the same once the host has let go of every closed   *)
(* file: whatever was admitted meanwhile, the limit holds again.           *)
SettledWithinLimit == ~ Lingering => CardWithinLimit

(* IssuedIsAlive: "is still alive" (Vram::issued) - a control file and a   *)
(* client belong together for the books exactly as long as the client is   *)
(* alive and the guest can name it, however it ends.                       *)
IssuedIsAlive == clients = {r \in roots : file[r.file] = "open"}

=============================================================================
