--------------------------- MODULE MCEventConsumer ---------------------------
(* Instances of EventConsumer for TLC. *)
EXTENDS EventConsumer, TLC

CONSTANTS w1, w2

WorkerSymmetry == Permutations({w1, w2})
===============================================================================
