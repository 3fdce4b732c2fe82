-------------------------- MODULE MCYcsbcRealCeph --------------------------
(***************************************************************************)
(* A small instance of YcsbcRealCeph with ordered inserts.                 *)
(***************************************************************************)
EXTENDS YcsbcRealCeph

MCHash(n) == n
MCChooser == {0}
=============================================================================
