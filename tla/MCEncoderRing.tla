--------------------------- MODULE MCEncoderRing ---------------------------
(* TLC instance of EncoderRing: a ring of 8 with a tail of 4 and a high    *)
(* bit at 16, so that the position wraps twice.                            *)
EXTENDS EncoderRing
=============================================================================
