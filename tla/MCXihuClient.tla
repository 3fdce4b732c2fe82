--------------------------- MODULE MCXihuClient ---------------------------
(***************************************************************************)
(* A small instance of XihuClient: fewer buffers than a call has blocks,   *)
(* so that buffers are reused within a call, and one buffer more than the  *)
(* pipeline is deep.  Blocks hold one of two values.                       *)
(***************************************************************************)
EXTENDS XihuClient
=============================================================================
