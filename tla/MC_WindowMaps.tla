---------------------------- MODULE MC_WindowMaps ----------------------------
(* Two-byte pages; three of them write-combining, two write-back.  A GPU    *)
(* file, a control file and two opens of the render node, a memory object   *)
(* that ends inside its second page, one buffer.                            *)
EXTENDS WindowMaps, TLC

CONSTANTS g1, c1, d1, d2, m1, b1

MCFiles    == {g1, c1, d1, d2}
MCKind     == g1 :> "gpu" @@ c1 :> "ctl" @@ d1 :> "dri" @@ d2 :> "dri"
MCMemories == {m1}
MCLength   == m1 :> 3
MCCacheOf  == m1 :> "wc"
MCBuffers  == {b1}
MCZoneSize == [wc |-> 6, wb |-> 4]
MCTogether == {{g1, d1, d2}, {c1, d1, d2}, {g1, c1}}

\* Neither the names of mappings nor those of the two render files matter.
Symmetry ==
  {p @@ q : p \in Permutations(Mappings), q \in Permutations({d1, d2})}

=============================================================================
