------------------------------ MODULE PageRuns ------------------------------
(***************************************************************************)
(* How guest memory is named on the wire and found by the backend: the     *)
(* guest driver writes the pages it pinned as runs of guest-physical       *)
(* memory (nvgpu_emit_page_runs), and the backend maps the runs next to    *)
(* each other (device/src/guestmem.rs).  Addresses and lengths are in      *)
(* pages.  No state.                                                       *)
(***************************************************************************)
EXTENDS Integers, Sequences, SequencesExt

CONSTANTS
  Banks,         \* regions of guest memory: [first, len] each, on a file of its own
  MaxRuns,       \* MAX_RUNS
  MaxPages       \* MAX_BYTES, NVGPU_MAX_PIN_PAGES

ASSUME PageRunsAssumption ==
  /\ Banks \subseteq [first : Nat, len : Nat \ {0}]
  /\ \A a, b \in Banks : a # b => a.first + a.len <= b.first \/ b.first + b.len <= a.first
  /\ {MaxRuns, MaxPages} \subseteq Nat

\* nvgpu_emit_page_runs: a page right behind the last run is added to it.
Runs(pages) ==
  FoldLeft(LAMBDA runs, p :
             IF runs # <<>> /\ p = Last(runs).gpa + Last(runs).len
             THEN [runs EXCEPT ![Len(runs)].len = @ + 1]
             ELSE Append(runs, [gpa |-> p, len |-> 1]),
           <<>>, pages)

\* ... and its refusals.
Describable(pages) == Len(Runs(pages)) \in 1 .. MaxRuns

\* GuestRam::backing finds the region a run begins in, if there is one.
BankOf(gpa) == {b \in Banks : gpa \in b.first .. b.first + b.len - 1}

RunLengths(runs) == FoldLeft(LAMBDA n, r : n + r.len, 0, runs)

\* What stitch does not refuse.
Stitchable(runs, want) ==
  /\ Len(runs) \in 1 .. MaxRuns /\ want \in 1 .. MaxPages /\ RunLengths(runs) = want
  /\ \A r \in Range(runs) : \E b \in BankOf(r.gpa) : r.gpa + r.len <= b.first + b.len

\* The page of a region's file that lies at from, and the n - 1 behind it.
FileAt(from, n) ==
  LET b == CHOOSE b \in BankOf(from) : TRUE
  IN  [k \in 1 .. n |-> [bank |-> b.first, at |-> from - b.first + k - 1]]

\* What the span stitch builds shows, page by page.
Stitch(runs) == FlattenSeq([i \in DOMAIN runs |-> FileAt(runs[i].gpa, runs[i].len)])

\* Where each of the guest's pages is.
PagesAt(pages) == [i \in DOMAIN pages |-> FileAt(pages[i], 1)[1]]

=============================================================================
