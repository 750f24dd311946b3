----------------------------- MODULE MCHqZopfli -----------------------------
(* TLC instance of HqZopfli. *)
EXTENDS HqZopfli

(* No long match, one inside the block, one up to its last hash. *)
MCLongSets == {{}, {1}, {2}}
=============================================================================
