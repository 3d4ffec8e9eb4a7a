------------------------------ MODULE MCMemQueue ------------------------------
(* Instances of MemQueue for TLC. *)
EXTENDS MemQueue, TLC

CONSTANTS p1, p2

BothProducers == {p1, p2}
===============================================================================
