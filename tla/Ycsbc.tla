------------------------------- MODULE Ycsbc -------------------------------
(***************************************************************************)
(* The benchmark driver: main and DelegateClient (ycsbc.cc), the Client    *)
(* they run (core/client.h) and the CoreWorkload that gives it operations  *)
(* and keys (core/core_workload.h).  main starts num_threads clients that  *)
(* load records, waits for them, starts num_threads clients that run       *)
(* transactions, waits for them, closes the database and reports.          *)
(*                                                                         *)
(* The database is whatever answers a call with a status of Statuses; a    *)
(* record's field values are left out.                                     *)
(***************************************************************************)
EXTENDS Integers, FiniteSets

CONSTANTS num_threads,      \* threadcount
          record_count,     \* recordcount
          operation_count,  \* operationcount
          insert_start,     \* insertstart
          Operations,       \* the operations whose proportion is positive
          Chooser,          \* the numbers key_chooser_ may return
          Hash(_),          \* utils::Hash, or the identity for ordered inserts
          Statuses          \* what a call of the database may return

kOK == 0

ASSUME CountAssumption == /\ num_threads \in Nat \ {0}
                          /\ record_count \in Nat \ {0}
                          /\ operation_count \in Nat
                          /\ insert_start \in Nat
ASSUME ChooserAssumption == Chooser \subseteq Nat
ASSUME HashAssumption ==
    \A n \in 0 .. insert_start + record_count + operation_count : Hash(n) \in Nat
ASSUME StatusAssumption == Statuses \subseteq Nat
ASSUME OperationAssumption ==
    Operations \subseteq {"READ", "UPDATE", "INSERT", "SCAN", "READMODIFYWRITE"}

VARIABLES main,     \* where main is
          cursor,   \* the index of main's for loop over the threads
          sum,      \* operations that returned kOK, of the threads joined so far
          th,       \* each client: its place in DelegateClient and its locals
          call,     \* the call of the database each client is making
          counter,  \* counter_ of key_generator_
          loaded    \* history: key numbers whose loading Insert returned kOK

driverVars == <<main, cursor, sum, th, call, counter, loaded>>

Threads == 1 .. num_threads

\* total_ops / num_threads: int division.
Share(total) == total \div num_threads

num_ops(t) == Share(IF th[t].loading THEN record_count ELSE operation_count)

NoCall == [op |-> "none", dbop |-> "none", num |-> 0]

Init == /\ main = "create"
        /\ cursor = 0
        /\ sum = 0
        /\ th = [t \in Threads |-> [pc |-> "none", loading |-> TRUE, i |-> 0, oks |-> 0]]
        /\ call = [t \in Threads |-> NoCall]
        /\ counter = insert_start
        /\ loaded = {}

-----------------------------------------------------------------------------
\* CoreWorkload: keys.

\* Mutant of LastInserted: Last() yields the counter, not the number before it.
LastInsertedNext == record_count

\* insert_key_sequence_.Last(): the sequence is set to record_count by Init and
\* nothing advances it.
LastInserted == record_count - 1

BuildKeyName(n) == Hash(n) % record_count

\* The loop of NextTransactionKey ends with a number that passes its test.
TransactionNums == {n \in Chooser : n <= LastInserted}

ASSUME KeyAssumption == TransactionNums # {}

-----------------------------------------------------------------------------
\* main.

\* DBFactory::CreateDB gives the database, or main exits.
CreateDB(created) == /\ main = "create"
                     /\ main' = IF created THEN "load_spawn" ELSE "exit"
                     /\ UNCHANGED <<cursor, sum, th, call, counter, loaded>>

\* One round of the loop that starts the threads of a phase.
Spawn == /\ main \in {"load_spawn", "txn_spawn"}
         /\ cursor < num_threads
         /\ cursor' = cursor + 1
         /\ th' = [th EXCEPT ![cursor + 1] =
                     [pc |-> "init", loading |-> main = "load_spawn", i |-> 0, oks |-> 0]]
         /\ UNCHANGED <<main, sum, call, counter, loaded>>

SpawnDone == /\ main \in {"load_spawn", "txn_spawn"}
             /\ cursor = num_threads
             /\ main' = IF main = "load_spawn" THEN "load_join" ELSE "txn_join"
             /\ cursor' = 0
             /\ sum' = 0
             /\ UNCHANGED <<th, call, counter, loaded>>

\* Mutant of Join: the future's state is asked for, its end not waited for.
JoinNoWait == /\ main \in {"load_join", "txn_join"}
              /\ cursor < num_threads
              /\ sum' = sum + th[cursor + 1].oks
              /\ cursor' = cursor + 1
              /\ UNCHANGED <<main, th, call, counter, loaded>>

\* n.get() waits for the thread and yields the value it returned.
Join == /\ main \in {"load_join", "txn_join"}
        /\ cursor < num_threads
        /\ th[cursor + 1].pc = "done"
        /\ sum' = sum + th[cursor + 1].oks
        /\ cursor' = cursor + 1
        /\ th' = [th EXCEPT ![cursor + 1].pc = "none"]
        /\ UNCHANGED <<main, call, counter, loaded>>

JoinDone == /\ main \in {"load_join", "txn_join"}
            /\ cursor = num_threads
            /\ main' = IF main = "load_join" THEN "txn_spawn" ELSE "close"
            /\ cursor' = 0
            /\ UNCHANGED <<sum, th, call, counter, loaded>>

\* db->Close(), then the timer and db->HandleAllData().
Close == /\ main = "close"
         /\ main' = "report"
         /\ UNCHANGED <<cursor, sum, th, call, counter, loaded>>

Report == /\ main = "report"
          /\ main' = "exit"
          /\ UNCHANGED <<cursor, sum, th, call, counter, loaded>>

-----------------------------------------------------------------------------
\* DelegateClient and Client.

\* db->Init(is_loading).
DelegateInit(t) == /\ th[t].pc = "init"
                   /\ th' = [th EXCEPT ![t].pc = "run"]
                   /\ UNCHANGED <<main, cursor, sum, call, counter, loaded>>

\* Client t calls dbop of the database, on behalf of op, with key number n.
Invoke(t, op, dbop, n) ==
    /\ th[t].pc = "run"
    /\ th[t].i < num_ops(t)
    /\ th' = [th EXCEPT ![t].pc = "call"]
    /\ call' = [call EXCEPT ![t] = [op |-> op, dbop |-> dbop, num |-> n]]
    /\ UNCHANGED <<main, cursor, sum, loaded>>

\* Mutant of NextSequenceKey: a second caller gets the number of the first.
NextSequenceStale(t, op) ==
    /\ Invoke(t, op, "Insert",
              IF \E u \in Threads \ {t} : th[u].pc = "call" /\ call[u].dbop = "Insert"
              THEN counter - 1 ELSE counter)
    /\ counter' = counter + 1

\* key_generator_->Next() is an atomic fetch_add.
NextSequenceKey(t, op) == /\ Invoke(t, op, "Insert", counter)
                          /\ counter' = counter + 1

NextTransactionKey(t, op, dbop) == /\ \E n \in TransactionNums : Invoke(t, op, dbop, n)
                                   /\ UNCHANGED counter

DoInsert(t) == /\ th[t].loading
               /\ NextSequenceKey(t, "LOAD")


DoTransaction(t) ==
    /\ ~th[t].loading
    /\ \/ "READ" \in Operations /\ NextTransactionKey(t, "READ", "Read")
       \/ "UPDATE" \in Operations /\ NextTransactionKey(t, "UPDATE", "Update")
       \/ "INSERT" \in Operations /\ NextSequenceKey(t, "INSERT")
       \/ "SCAN" \in Operations /\ NextTransactionKey(t, "SCAN", "Scan")
       \/ "READMODIFYWRITE" \in Operations
          /\ NextTransactionKey(t, "READMODIFYWRITE", "Read")

\* TransactionReadModifyWrite has read; whatever the status, it updates the key.
ReturnRead(t) ==
    /\ th[t].pc = "call"
    /\ call[t].op = "READMODIFYWRITE"
    /\ call[t].dbop = "Read"
    /\ call' = [call EXCEPT ![t].dbop = "Update"]
    /\ UNCHANGED <<main, cursor, sum, th, counter, loaded>>

\* Mutant of ReturnLast: a transaction that fails is tried again.
ReturnLastRetry(t, status) ==
    /\ th[t].pc = "call"
    /\ ~(call[t].op = "READMODIFYWRITE" /\ call[t].dbop = "Read")
    /\ th' = [th EXCEPT ![t].pc = "run",
                        ![t].i = IF status = kOK \/ th[t].loading THEN @ + 1 ELSE @,
                        ![t].oks = IF status = kOK THEN @ + 1 ELSE @]
    /\ call' = [call EXCEPT ![t] = NoCall]
    /\ loaded' = IF th[t].loading /\ status = kOK
                 THEN loaded \cup {call[t].num} ELSE loaded
    /\ UNCHANGED <<main, cursor, sum, counter>>

\* The last call of an operation returns: oks counts it when the status is kOK.
ReturnLast(t, status) ==
    /\ th[t].pc = "call"
    /\ ~(call[t].op = "READMODIFYWRITE" /\ call[t].dbop = "Read")
    /\ th' = [th EXCEPT ![t].pc = "run", ![t].i = @ + 1,
                        ![t].oks = IF status = kOK THEN @ + 1 ELSE @]
    /\ call' = [call EXCEPT ![t] = NoCall]
    /\ loaded' = IF th[t].loading /\ status = kOK
                 THEN loaded \cup {call[t].num} ELSE loaded
    /\ UNCHANGED <<main, cursor, sum, counter>>


Finish(t) == /\ th[t].pc = "run"
             /\ th[t].i >= num_ops(t)
             /\ th' = [th EXCEPT ![t].pc = "done"]
             /\ UNCHANGED <<main, cursor, sum, call, counter, loaded>>

-----------------------------------------------------------------------------
Main == \/ \E created \in BOOLEAN : CreateDB(created)
        \/ Spawn \/ SpawnDone \/ Join \/ JoinDone \/ Close \/ Report

Client(t) == \/ DelegateInit(t) \/ DoInsert(t) \/ DoTransaction(t) \/ Finish(t)
             \/ ReturnRead(t)
             \/ \E status \in Statuses : ReturnLast(t, status)

Next == Main \/ \E t \in Threads : Client(t)

Spec == Init /\ [][Next]_driverVars

\* Threads are scheduled, and the database answers every call.
FairSpec == /\ Spec
            /\ WF_driverVars(Main)
            /\ \A t \in Threads : WF_driverVars(Client(t))

-----------------------------------------------------------------------------
\* Every variable of the driver keeps its type.
TypeOK ==
    /\ main \in {"create", "load_spawn", "load_join", "txn_spawn", "txn_join",
                 "close", "report", "exit"}
    /\ cursor \in 0 .. num_threads
    /\ sum \in Nat
    /\ th \in [Threads -> [pc : {"none", "init", "run", "call", "done"},
                           loading : BOOLEAN, i : Nat, oks : Nat]]
    /\ call \in [Threads ->
                   [op : {"none", "LOAD", "READ", "UPDATE", "INSERT", "SCAN",
                          "READMODIFYWRITE"},
                    dbop : {"none", "Insert", "Read", "Update", "Scan"},
                    num : Nat]]
    /\ counter \in Nat
    /\ loaded \subseteq Nat

\* A client that runs transactions exists only when every loading client is
\* gone: the joins of main separate the phases.
PhasesSeparate ==
    \A t, u \in Threads :
        th[t].pc # "none" /\ ~th[t].loading /\ th[u].pc # "none" => ~th[u].loading

\* When the load is over every loading client has taken its share of the key
\* numbers, and the number main prints as "# Loading records" is the number of
\* key numbers whose insert returned kOK: no two clients drew the same one.
\* (Not of keys: BuildKeyName may give several numbers one key.)
LoadExact ==
    main = "txn_spawn" => /\ sum = Cardinality(loaded)
                          /\ cursor = 0 =>
                               counter = insert_start + num_threads * Share(record_count)

\* "If the generator picks a key that is not inserted yet, we just ignore it and
\* pick another key" (core_workload.cc:146): unless an insert of the load
\* failed, reads, updates and scans only name records that were loaded.
TransactionKeyLoaded ==
    \A t \in Threads :
        call[t].dbop \in {"Read", "Update", "Scan"} /\ Cardinality(loaded) = num_threads * Share(record_count) =>
            BuildKeyName(call[t].num) \in {BuildKeyName(n) : n \in loaded}

\* The total_ops operations are shared out over the threads (ycsbc.cc:64): when
\* main closes the database the clients have each done an equal part, the
\* parts add up to operationcount, and no more calls than that returned kOK.
AllTasksDone ==
    main = "close" => /\ \A t \in Threads : num_threads * th[t].i = operation_count
                      /\ sum <= operation_count

\* The benchmark ends: main reaches its return, whatever the interleaving.
Terminates == <>(main = "exit")
=============================================================================
