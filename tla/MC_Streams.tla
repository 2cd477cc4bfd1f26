----------------------------- MODULE MC_Streams -----------------------------
(* An instance of Streams for TLC; the constants are in the configuration. *)
EXTENDS Streams
=============================================================================
