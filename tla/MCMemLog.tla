------------------------------- MODULE MCMemLog -------------------------------
(* Instances of MemLog for TLC: one key, with or without its one value. *)
EXTENDS MemLog

CONSTANTS k1, v1
===============================================================================
