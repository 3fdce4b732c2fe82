--------------------------- MODULE MCHashtableDB ---------------------------
(***************************************************************************)
(* Small instances of HashtableDB: two clients, records of one or two      *)
(* fields.  The clients ask for the same keys, as the clients of the       *)
(* driver do, or each for its own.                                         *)
(***************************************************************************)
EXTENDS HashtableDB

MCOneField == <<"field0">>
MCFields   == <<"field0", "field1">>

MCShared == [c \in Clients |-> Keys]
MCOwn    == [c \in Clients |-> {c}]
=============================================================================
