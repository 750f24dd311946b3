-------------------------- MODULE MCEncoderStream --------------------------
(* TLC instance of EncoderStream: blocks of 2 bytes, a window of 4, a ring *)
(* of 8 and metablocks of at most 6.                                       *)
EXTENDS EncoderStream
=============================================================================
