---------------------------- MODULE MCRedisAsync ----------------------------
(***************************************************************************)
(* A small instance of RedisAsync: two channels that share a bucket of the *)
(* table, one pattern, a command for several channels.                     *)
(***************************************************************************)
EXTENDS RedisAsync

MCHash      == [a |-> 0, b |-> 2, p |-> 1]
MCNameLists == {<<"a">>, <<"b", "a">>, <<"p">>}
=============================================================================
