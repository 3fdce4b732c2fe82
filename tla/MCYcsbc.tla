------------------------------ MODULE MCYcsbc ------------------------------
(***************************************************************************)
(* A small instance of Ycsbc.  MCHash stands for the 64-bit FNV hash; it   *)
(* is not injective modulo record_count, as the real one is not.           *)
(***************************************************************************)
EXTENDS Ycsbc

MCHash(n) == (n * n) % 9

\* insertorder other than "hashed".
MCOrdered(n) == n

\* The scrambled zipfian generator ranges beyond the records loaded.
MCChooser == 0 .. record_count + 1
=============================================================================
