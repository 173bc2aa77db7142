---------------------------- MODULE MC_EventRelay ----------------------------
(* Two files, on descriptor numbers that one may inherit from the other.    *)
EXTENDS EventRelay, TLC

CONSTANTS f1, f2

MCOrder == <<f1, f2>>

=============================================================================
