------------------------------ MODULE MCReader ------------------------------
(* TLC instance of Reader: metablocks of 2 bytes, a buffer of 2 units, no  *)
(* limit or one that admits a single metablock.                            *)
EXTENDS Reader
=============================================================================
