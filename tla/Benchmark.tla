----------------------------- MODULE Benchmark -----------------------------
(***************************************************************************)
(* What a run of the benchmark against an asynchronous database promises,  *)
(* with the threads, the locks and the calls left out.  The operations of  *)
(* the load are all done before one of the transactions is; only           *)
(* transactions start I/Os; the image is closed after the last operation   *)
(* and with no I/O under way; the numbers main holds at the end of a phase *)
(* are the numbers of operations, each counted once; and only a database   *)
(* that cannot be opened, or an I/O under way that fails, ends the run     *)
(* before its end.                                                         *)
(***************************************************************************)
EXTENDS Integers

CONSTANTS Loads,    \* the operations of the load
          Txns,     \* the transactions
          NumLoads, \* how many operations the load has
          NumTxns   \* how many transactions there are

VARIABLES stage,  \* "load", "txn", "joined", "closed", "exit", or "dead"
          todo,   \* the operations of this stage that are not done
          flight, \* how many I/Os are under way
          told    \* what main holds as the sum of a finished phase

benchVars == <<stage, todo, flight, told>>

BenchInit == /\ stage = "load"
             /\ todo = Loads
             /\ flight = 0
             /\ told = 0

\* An operation is done, whatever became of the I/O it started.
Do == /\ stage \in {"load", "txn"}
      /\ \E x \in todo : todo' = todo \ {x}
      /\ UNCHANGED <<stage, flight, told>>

\* The load is over and tells how many operations it was.
Switch == /\ stage = "load"
          /\ todo = {}
          /\ stage' = "txn"
          /\ todo' = Txns
          /\ told' = NumLoads
          /\ UNCHANGED flight

Forget == /\ stage = "txn"
          /\ told' = 0
          /\ UNCHANGED <<stage, todo, flight>>

\* A transaction that is not done starts an I/O; a read-modify-write starts two.
Start == /\ stage = "txn"
         /\ todo # {}
         /\ flight' = flight + 1
         /\ UNCHANGED <<stage, todo, told>>

Complete == /\ flight > 0
            /\ stage \in {"txn", "joined"}
            /\ flight' = flight - 1
            /\ UNCHANGED <<stage, todo, told>>

Joined == /\ stage = "txn"
          /\ todo = {}
          /\ stage' = "joined"
          /\ told' = NumTxns
          /\ UNCHANGED <<todo, flight>>

Closed == /\ stage = "joined"
          /\ flight = 0
          /\ stage' = "closed"
          /\ UNCHANGED <<todo, flight, told>>

End == /\ stage = "closed"
       /\ stage' = "exit"
       /\ UNCHANGED <<todo, flight, told>>

Die == /\ \/ stage = "load" /\ todo = Loads
          \/ flight > 0
       /\ stage' = "dead"
       /\ UNCHANGED <<todo, flight, told>>

BenchNext == Do \/ Switch \/ Forget \/ Start \/ Complete \/ Joined \/ Closed \/ End \/ Die

BenchSpec == BenchInit /\ [][BenchNext]_benchVars
=============================================================================
