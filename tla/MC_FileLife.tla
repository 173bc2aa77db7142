---------------------------- MODULE MC_FileLife ----------------------------
(* Small instances of FileLife. *)
EXTENDS FileLife

CONSTANTS h1, h2, t1, t2

Low == [first |-> 0, len |-> 2]
High == [first |-> 2, len |-> 2]
MCBanks == {Low, High}

\* Two ranges with a page in common; a run that leaves its bank; too many
\* runs; too many pages.
MCRegions == {<<0, 1, 3>>, <<3, 0>>, <<1, 2>>, <<0, 2, 0>>, <<0, 1, 2, 3>>}

Symmetry ==
  Permutations(Objects) \cup Permutations(Threads) \cup Permutations(DrmFiles)

=============================================================================
