------------------------------ MODULE MCRedis ------------------------------
(***************************************************************************)
(* The synchronous half of hiredis and its user: the strings and commands  *)
(* of RedisStrings and the contexts of RedisContext.  They share no state; *)
(* a behaviour works on a string or on a context, so that the state graph  *)
(* is the sum of the two and not their product.                            *)
(***************************************************************************)
EXTENDS RedisContext, RedisStrings

Flavour(kind, block, timeout, source, reuse) ==
    [kind |-> kind, block |-> block, timeout |-> timeout, source |-> source, reuse |-> reuse]

\* redisConnectWithTimeout with a source address, and redisConnectUnixNonBlock.
MCFlavours == {Flavour("tcp", TRUE, TRUE, TRUE, FALSE), Flavour("unix", FALSE, FALSE, FALSE, FALSE)}

\* The bytes that quoting, splitting and formatting treat differently.
MCAlphabet == {"a", " ", "%", Quote, Backslash, NUL, "lf"}

MCVars == <<strVars, ctxVars>>
MCInit == StrInit /\ CtxInit
MCNext == \/ nc.pc = "no" /\ StrNext /\ UNCHANGED ctxVars
          \/ str = sdsempty /\ CtxNext /\ UNCHANGED strVars

MCSpec == MCInit /\ [][MCNext]_MCVars /\ CtxFairness
=============================================================================
