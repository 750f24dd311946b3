---------------------------- MODULE MCMatchFeed ----------------------------
(* TLC instance of MatchFeed: blocks of 6 bytes, three of them hashed. *)
EXTENDS MatchFeed
=============================================================================
