--------------------------- MODULE MCDecoderRing ---------------------------
(* TLC instance of DecoderRing: a window of 8 bytes, a ring that starts at *)
(* 4, and streams of up to three laps.                                     *)
EXTENDS DecoderRing

MCSizes == {2^k : k \in 0 .. 3}
=============================================================================
