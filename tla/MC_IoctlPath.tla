---------------------------- MODULE MC_IoctlPath ----------------------------
(* Small instances of IoctlPath. *)
EXTENDS IoctlPath

CONSTANTS a1, a2, d1, d2, d3

ReadAndWrite == <<"in", "out">>
InPlace == <<"both">>
TwoAnswers == <<"out", "out">>
MCLayouts == {ReadAndWrite, InPlace, TwoAnswers}

Symmetry == Permutations(Addresses) \cup Permutations(Descriptors) \cup Permutations(CtlFiles)

=============================================================================
