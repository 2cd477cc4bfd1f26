---------------------------- MODULE MC_ThreadPool ----------------------------
(* Instances of ThreadPool for TLC. *)
EXTENDS ThreadPool

CONSTANTS owner, client, t1, t2, t3, tp1, tp2
=============================================================================
