---------------------------- MODULE MCFastStream ----------------------------
(* TLC instance of FastStream: fragments of one block, of a few and of      *)
(* more than one metablock can hold.                                        *)
EXTENDS FastStream
=============================================================================
