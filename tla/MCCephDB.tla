------------------------------ MODULE MCCephDB ------------------------------
(***************************************************************************)
(* Small instances of CephDB: a file of two blocks, and a key outside it.  *)
(***************************************************************************)
EXTENDS CephDB

MCBlocks == 0 .. 1
MCKeys   == 0 .. 2
=============================================================================
