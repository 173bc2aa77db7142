----------------------------- MODULE MC_ShmZone -----------------------------
(* A zone of six two-byte pages.  The lengths are zero, a whole page, one   *)
(* byte into the second page, three pages, and one so close to the end of   *)
(* the word that rounding it up wraps.                                      *)
EXTENDS ShmZone

MCLengths == {0, 2, 3, 6, WordSize - 1}

=============================================================================
