------------------------------ MODULE MC_Vram ------------------------------
(* Two control files, two clients, and handles enough for a device, what    *)
(* is under it and memory under that.  The limit of three holds one         *)
(* allocation, which RM rounds to two, and one more of one unit is admitted *)
(* by what it asks and passes the limit by its rounding.                    *)
EXTENDS Vram, TLC

Symmetry == Permutations(Files) \cup Permutations(Clients) \cup Permutations(Handles)

=============================================================================
