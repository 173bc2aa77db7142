---------------------------- MODULE MC_CtrlQueue ----------------------------
(* A thread of two calls and a thread of one on a ring with room for two    *)
(* requests, so that calls whose callers have left fill it up, and memory   *)
(* for one token more than there are threads, so that freed tokens are      *)
(* given out again.                                                         *)
EXTENDS CtrlQueue

CONSTANT c1

CallsOfEach == [c \in Callers |-> IF c = c1 THEN 2 ELSE 1]

=============================================================================
