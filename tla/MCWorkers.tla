---------------------------- MODULE MCWorkers ----------------------------
(* TLC instances of Workers. For safety: two Writers, one of them with     *)
(* workers, and two encoders that pass between them through the pool. For  *)
(* liveness: one Writer.                                                   *)
EXTENDS Workers, TLC

EncSymmetry == Permutations(Encs)
=============================================================================
