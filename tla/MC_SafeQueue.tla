---------------------------- MODULE MC_SafeQueue ----------------------------
(* SafeQueue for TLC: threads that only write and threads that only read.   *)
EXTENDS SafeQueue

CONSTANTS p1, p2, c1, c2, v1, v2
=============================================================================
