---------------------------- MODULE YcsbcProofs ----------------------------
(***************************************************************************)
(* Proofs about the benchmark driver, for any number of threads, records   *)
(* and operations; and about the driver run against RealCephDB, for any    *)
(* number of I/Os: the count of I/Os is exact, Close never closes the      *)
(* image under an I/O, and the whole implements Benchmark.                 *)
(***************************************************************************)
EXTENDS YcsbcRealCeph, FiniteSetTheorems, TLAPS

\* Which clients exist at each place of main: those started and not yet joined,
\* all of them of the phase main is in.
ClientsPlaced ==
    /\ main = "create" => cursor = 0
    /\ main \in {"create", "close", "report", "exit"} =>
          \A t \in Threads : th[t].pc = "none"
    /\ main \in {"load_spawn", "txn_spawn"} =>
          \A t \in Threads : /\ t > cursor => th[t].pc = "none"
                             /\ t <= cursor => th[t].loading = (main = "load_spawn")
    /\ main \in {"load_join", "txn_join"} =>
          \A t \in Threads : /\ t <= cursor => th[t].pc = "none"
                             /\ t > cursor => th[t].loading = (main = "load_join")

DriverInv == TypeOK /\ ClientsPlaced

LEMMA DriverInitInv == Init => DriverInv
  BY CountAssumption
  DEF Init, DriverInv, TypeOK, ClientsPlaced, NoCall, Threads

\* The steps of a client other than ReturnLast and Invoke leave i and oks alone;
\* no step of a client changes main, cursor, or which clients exist.
LEMMA ClientInv ==
    ASSUME DriverInv, NEW t \in Threads, Client(t)
    PROVE  /\ DriverInv'
           /\ main' = main /\ cursor' = cursor /\ sum' = sum
           /\ th[t].pc # "none" /\ th'[t].pc # "none"
           /\ \A u \in Threads : th'[u].loading = th[u].loading
           /\ \A u \in Threads : th'[u].pc = "none" <=> th[u].pc = "none"
           /\ \A u \in Threads \ {t} : th'[u] = th[u]
  <1> USE CountAssumption, StatusAssumption, OperationAssumption, ChooserAssumption
  <1> DEFINE Rec == [pc : {"none", "init", "run", "call", "done"},
                     loading : BOOLEAN, i : Nat, oks : Nat]
             Calls == [op : {"none", "LOAD", "READ", "UPDATE", "INSERT", "SCAN",
                             "READMODIFYWRITE"},
                       dbop : {"none", "Insert", "Read", "Update", "Scan"},
                       num : Nat]
  <1>1. /\ th[t].pc # "none"
        /\ th' \in [Threads -> Rec]
        /\ th'[t].loading = th[t].loading /\ th'[t].pc # "none"
        /\ \A u \in Threads \ {t} : th'[u] = th[u]
        /\ call' \in [Threads -> Calls]
        /\ counter' \in Nat
        /\ loaded' \subseteq Nat
        /\ main' = main /\ cursor' = cursor /\ sum' = sum
    <2> USE DEF DriverInv, TypeOK
    <2>1. CASE DelegateInit(t)
      BY <2>1 DEF DelegateInit
    <2>2. CASE Finish(t)
      BY <2>2 DEF Finish
    <2>3. CASE ReturnRead(t)
      BY <2>3 DEF ReturnRead
    <2>4. CASE \E status \in Statuses : ReturnLast(t, status)
      <3> PICK status \in Statuses : ReturnLast(t, status)
        BY <2>4
      <3> QED
        BY DEF ReturnLast, NoCall
    <2> DEFINE Took == /\ th[t].pc # "none"
                       /\ th' \in [Threads -> Rec]
                       /\ th'[t].loading = th[t].loading /\ th'[t].pc # "none"
                       /\ \A u \in Threads \ {t} : th'[u] = th[u]
                       /\ call' \in [Threads -> Calls]
                       /\ loaded' \subseteq Nat
                       /\ main' = main /\ cursor' = cursor /\ sum' = sum
    <2>5. ASSUME NEW op \in {"LOAD", "READ", "UPDATE", "INSERT", "SCAN", "READMODIFYWRITE"},
                 NEW dbop \in {"Insert", "Read", "Update", "Scan"}, NEW n \in Nat,
                 Invoke(t, op, dbop, n)
          PROVE  Took
      BY <2>5 DEF Invoke
    <2>6. ASSUME NEW op \in {"LOAD", "INSERT"}, NextSequenceKey(t, op)
          PROVE  Took /\ counter' \in Nat
      BY <2>5, <2>6 DEF NextSequenceKey
    <2>7. ASSUME NEW op \in {"READ", "UPDATE", "SCAN", "READMODIFYWRITE"},
                 NEW dbop \in {"Read", "Update", "Scan"}, NextTransactionKey(t, op, dbop)
          PROVE  Took /\ counter' \in Nat
      BY <2>5, <2>7 DEF NextTransactionKey, TransactionNums
    <2>8. CASE DoInsert(t)
      BY <2>6, <2>8 DEF DoInsert
    <2>9. CASE DoTransaction(t)
      <3>1. \/ \E op \in {"READ", "UPDATE", "SCAN", "READMODIFYWRITE"},
                  dbop \in {"Read", "Update", "Scan"} : NextTransactionKey(t, op, dbop)
            \/ NextSequenceKey(t, "INSERT")
        BY <2>9 DEF DoTransaction
      <3> HIDE DEF Took, DriverInv, TypeOK
      <3>2. Took /\ counter' \in Nat
        BY <3>1, <2>6, <2>7
      <3> QED
        BY <3>2 DEF Took
    <2> QED
      BY <2>1, <2>2, <2>3, <2>4, <2>8, <2>9 DEF Client
  <1>2. TypeOK'
    BY <1>1 DEF DriverInv, TypeOK
  <1>3. ClientsPlaced'
    <2>1. \A u \in Threads : /\ th'[u].loading = th[u].loading
                             /\ th[u].pc = "none" => th'[u].pc = "none"
      BY <1>1
    <2>2. main' = main /\ cursor' = cursor
      BY <1>1
    <2>3. ClientsPlaced
      BY DEF DriverInv
    <2> QED
      BY <2>1, <2>2, <2>3, Zenon DEF ClientsPlaced
  <1> QED
    BY <1>1, <1>2, <1>3 DEF DriverInv

LEMMA MainInv == ASSUME DriverInv, Main PROVE DriverInv'
  <1> USE CountAssumption DEF DriverInv
  <1>1. ASSUME NEW created \in BOOLEAN, CreateDB(created) PROVE DriverInv'
    <2>1. TypeOK'
      BY <1>1 DEF CreateDB, TypeOK
    <2>2. ClientsPlaced'
      BY <1>1 DEF CreateDB, TypeOK, ClientsPlaced, Threads
    <2> QED
      BY <2>1, <2>2
  <1>2. CASE Spawn
    <2>1. /\ cursor + 1 \in Threads /\ cursor' = cursor + 1 /\ main' = main
          /\ \A t \in Threads : t # cursor + 1 => th'[t] = th[t]
          /\ th'[cursor + 1].loading = (main = "load_spawn")
      BY <1>2 DEF Spawn, TypeOK, Threads
    <2>2. TypeOK'
      BY <1>2, <2>1 DEF Spawn, TypeOK, Threads
    <2>3. ClientsPlaced'
      BY <1>2, <2>1 DEF Spawn, TypeOK, ClientsPlaced, Threads
    <2> QED
      BY <2>2, <2>3
  <1>3. CASE SpawnDone
    BY <1>3 DEF SpawnDone, TypeOK, ClientsPlaced, Threads
  <1>4. CASE Join
    <2>1. /\ cursor + 1 \in Threads /\ cursor' = cursor + 1 /\ main' = main
          /\ \A t \in Threads : t # cursor + 1 => th'[t] = th[t]
          /\ th'[cursor + 1].pc = "none"
      BY <1>4 DEF Join, TypeOK, Threads
    <2>2. TypeOK'
      <3>1. th[cursor + 1].oks \in Nat
        BY <2>1 DEF TypeOK
      <3>2. th' \in [Threads -> [pc : {"none", "init", "run", "call", "done"},
                                 loading : BOOLEAN, i : Nat, oks : Nat]]
        BY <1>4, <2>1 DEF Join, TypeOK
      <3>3. sum' \in Nat /\ cursor' \in 0 .. num_threads
        BY <1>4, <3>1 DEF Join, TypeOK
      <3> QED
        BY <1>4, <3>2, <3>3 DEF Join, TypeOK
    <2>3. ClientsPlaced'
      <3>1. main \in {"load_join", "txn_join"} /\ cursor \in Nat
        BY <1>4 DEF Join, TypeOK
      <3>2. ASSUME NEW t \in Threads
            PROVE  /\ t <= cursor' => th'[t].pc = "none"
                   /\ t > cursor' => th'[t].loading = (main = "load_join")
        BY <2>1, <3>1 DEF ClientsPlaced, Threads
      <3> QED
        BY <2>1, <3>1, <3>2 DEF ClientsPlaced
    <2> QED
      BY <2>2, <2>3
  <1>5. CASE JoinDone
    BY <1>5 DEF JoinDone, TypeOK, ClientsPlaced, Threads
  <1>6. CASE Close \/ Report
    BY <1>6 DEF Close, Report, TypeOK, ClientsPlaced
  <1> QED
    BY <1>1, <1>2, <1>3, <1>4, <1>5, <1>6 DEF Main

LEMMA DriverNextInv == ASSUME DriverInv, [Next]_driverVars PROVE DriverInv'
  <1>1. CASE UNCHANGED driverVars
    BY <1>1 DEF driverVars, DriverInv, TypeOK, ClientsPlaced
  <1> QED
    BY <1>1, MainInv, ClientInv DEF Next

\* The invariant is inductive.
THEOREM DriverInductive == Spec => []DriverInv
  BY DriverInitInv, DriverNextInv, PTL DEF Spec

\* The driver's variables keep their types for any number of threads; in
\* particular main's loops never index a client that does not exist.
THEOREM DriverTypeCorrect == Spec => []TypeOK
  BY DriverInductive, PTL DEF DriverInv

LEMMA PlacedSeparate == DriverInv => PhasesSeparate
  BY DEF DriverInv, TypeOK, ClientsPlaced, PhasesSeparate, Threads

\* No loading client is alive when one that runs transactions is.
THEOREM LoadThenTransactions == Spec => []PhasesSeparate
  BY DriverInductive, PlacedSeparate, PTL

-----------------------------------------------------------------------------
(* How much the clients do *)

\* Integer division never shares out more than there is.
LEMMA ShareType ==
    ASSUME NEW total \in Nat
    PROVE  Share(total) \in Nat
  BY CountAssumption DEF Share

LEMMA ShareBound ==
    ASSUME NEW total \in Nat
    PROVE  num_threads * Share(total) <= total
  BY CountAssumption DEF Share

LEMMA NextMultiple ==
    ASSUME NEW k \in Nat, NEW s \in Nat
    PROVE  k * s \in Nat /\ (k + 1) * s = k * s + s /\ 0 * s = 0
  OBVIOUS

\* How far each client is: its counts are within its share, a call under way is
\* one of the share, and whoever has finished, or was joined in this phase, has
\* used the share up.
Progress ==
    /\ \A t \in Threads :
          /\ th[t].oks <= th[t].i
          /\ th[t].pc = "init" => th[t].i = 0
          /\ th[t].pc \in {"init", "run", "call"} => th[t].i <= num_ops(t)
          /\ th[t].pc = "call" => th[t].i < num_ops(t)
          /\ th[t].pc = "done" => th[t].i = num_ops(t)
          /\ main \in {"create", "load_spawn"} /\ t > cursor => th[t].i = 0
          /\ main = "load_join" /\ t <= cursor => th[t].i = Share(record_count)
          /\ main = "txn_join" /\ t <= cursor => th[t].i = Share(operation_count)
          /\ main = "close" => th[t].i = Share(operation_count)
    /\ main = "txn_join" => sum <= cursor * Share(operation_count)
    /\ main = "close" => sum <= num_threads * Share(operation_count)


LEMMA ProgressInit == Init => Progress
  <1> SUFFICES ASSUME Init PROVE Progress
    OBVIOUS
  <1> QED
    BY CountAssumption DEF Init, Progress, Threads

\* A client's step changes its own counts only, and counts an operation when
\* its last call returns.
LEMMA ClientProgress ==
    ASSUME DriverInv, Progress, NEW t \in Threads, Client(t)
    PROVE  Progress'
  <1> USE CountAssumption, ShareType
  <1>1. /\ main' = main /\ cursor' = cursor /\ sum' = sum
        /\ th'[t].loading = th[t].loading
        /\ \A u \in Threads \ {t} : th'[u] = th[u]
        /\ th[t].pc # "none"
    BY ClientInv DEF DriverInv, TypeOK
  <1>2. th[t].i \in Nat /\ th[t].oks \in Nat /\ num_ops(t) \in Nat /\ num_ops(t)' = num_ops(t)
    BY <1>1 DEF DriverInv, TypeOK, num_ops
  <1>3. /\ th'[t].oks <= th'[t].i
        /\ th'[t].pc # "init"
        /\ th'[t].i <= num_ops(t)
        /\ th'[t].pc = "call" => th'[t].i < num_ops(t)
        /\ th'[t].pc = "done" => th'[t].i = num_ops(t)
    <2>0. /\ th[t].oks <= th[t].i
          /\ th[t].pc = "init" => th[t].i = 0
          /\ th[t].pc \in {"init", "run", "call"} => th[t].i <= num_ops(t)
          /\ th[t].pc = "call" => th[t].i < num_ops(t)
      BY DEF Progress
    <2> USE <1>2, <2>0 DEF DriverInv, TypeOK
    <2>1. CASE DelegateInit(t)
      BY <2>1 DEF DelegateInit
    <2>2. CASE Finish(t)
      <3>1. /\ th[t].pc = "run" /\ th[t].i >= num_ops(t)
            /\ th'[t].pc = "done" /\ th'[t].i = th[t].i /\ th'[t].oks = th[t].oks
        BY <2>2 DEF Finish
      <3> QED
        BY ONLY <1>2, <2>0, <3>1
    <2>3. CASE ReturnRead(t)
      BY <2>3 DEF ReturnRead
    <2>4. CASE \E status \in Statuses : ReturnLast(t, status)
      BY <2>4 DEF ReturnLast
    <2>5. CASE DoInsert(t) \/ DoTransaction(t)
      <3>1. \E op, dbop, n : Invoke(t, op, dbop, n)
        BY <2>5 DEF DoInsert, DoTransaction, NextSequenceKey, NextTransactionKey
      <3> QED
        BY <3>1 DEF Invoke
    <2> QED
      BY <2>1, <2>2, <2>3, <2>4, <2>5 DEF Client
  <1>4. /\ main \in {"create", "load_spawn"} => ~(t > cursor)
        /\ main \in {"load_join", "txn_join"} => ~(t <= cursor)
        /\ main # "close"
    BY <1>1 DEF DriverInv, ClientsPlaced
  <1>5. \A u \in Threads \ {t} : num_ops(u)' = num_ops(u)
    BY <1>1 DEF num_ops
  <1> QED
    BY <1>1, <1>2, <1>3, <1>4, <1>5 DEF Progress

LEMMA MainProgress ==
    ASSUME DriverInv, Progress, Main
    PROVE  Progress'
  <1> USE CountAssumption
  <1> USE DEF DriverInv
  <1>1. ASSUME NEW created \in BOOLEAN, CreateDB(created) PROVE Progress'
    BY <1>1 DEF CreateDB, TypeOK, ClientsPlaced, Progress, Threads, num_ops
  <1>2. CASE Spawn
    <2>1. /\ cursor + 1 \in Threads /\ cursor' = cursor + 1 /\ main' = main
          /\ main \in {"load_spawn", "txn_spawn"}
          /\ \A t \in Threads : t # cursor + 1 => th'[t] = th[t]
      BY <1>2 DEF Spawn, TypeOK, Threads
    <2>0. th'[cursor + 1].i = 0 /\ th'[cursor + 1].oks = 0 /\ th'[cursor + 1].pc = "init"
      BY <1>2, <2>1 DEF Spawn, TypeOK
    <2>2. \A t \in Threads : t # cursor + 1 => num_ops(t)' = num_ops(t)
      BY <2>1 DEF num_ops
    <2>3. \A t \in Threads : num_ops(t)' \in Nat
      BY ShareType DEF num_ops
    <2>4. \A t \in Threads : t > cursor' => t > cursor
      BY <2>1 DEF TypeOK, Threads
    <2>5. ASSUME NEW t \in Threads
          PROVE  /\ th'[t].oks <= th'[t].i
                 /\ th'[t].pc = "init" => th'[t].i = 0
                 /\ th'[t].pc \in {"init", "run", "call"} => th'[t].i <= num_ops(t)'
                 /\ th'[t].pc = "call" => th'[t].i < num_ops(t)'
                 /\ th'[t].pc = "done" => th'[t].i = num_ops(t)'
                 /\ main' = "load_spawn" /\ t > cursor' => th'[t].i = 0
      <3>1. CASE t = cursor + 1
        BY <3>1, <2>0, <2>1, <2>3
      <3>2. CASE t # cursor + 1
        BY <3>2, <2>1, <2>2, <2>4 DEF Progress
      <3> QED
        BY <3>1, <3>2
    <2> QED
      BY <2>1, <2>5 DEF Progress
  <1>3. CASE SpawnDone
    <2>1. main' \in {"load_join", "txn_join"} /\ cursor' = 0 /\ sum' = 0 /\ th' = th
      BY <1>3 DEF SpawnDone
    <2>2. 0 * Share(operation_count) = 0
      BY ShareType, NextMultiple
    <2>3. \A t \in Threads : num_ops(t)' = num_ops(t) /\ ~(t <= cursor')
      BY <2>1 DEF num_ops, Threads
    <2> QED
      BY <2>1, <2>2, <2>3 DEF Progress
  <1>4. CASE Join
    <2>1. /\ cursor + 1 \in Threads /\ cursor' = cursor + 1 /\ main' = main
          /\ main \in {"load_join", "txn_join"} /\ cursor \in Nat
          /\ \A t \in Threads : t # cursor + 1 => th'[t] = th[t]
          /\ th[cursor + 1].pc = "done" /\ th'[cursor + 1].pc = "none"
          /\ th'[cursor + 1].i = th[cursor + 1].i
          /\ th'[cursor + 1].oks = th[cursor + 1].oks
          /\ sum' = sum + th[cursor + 1].oks
          /\ th[cursor + 1].oks \in Nat /\ th[cursor + 1].i \in Nat
      BY <1>4 DEF Join, TypeOK, Threads
    <2>2. \A t \in Threads : t # cursor + 1 => num_ops(t)' = num_ops(t)
      BY <2>1 DEF num_ops
    <2>3. th[cursor + 1].i = IF main = "load_join" THEN Share(record_count)
                             ELSE Share(operation_count)
      <3>1. th[cursor + 1].i = num_ops(cursor + 1)
        BY <2>1 DEF Progress
      <3>2. th[cursor + 1].loading = (main = "load_join")
        BY <2>1 DEF ClientsPlaced
      <3> QED
        BY <3>1, <3>2 DEF num_ops
    <2>4. main = "txn_join" => sum' <= cursor' * Share(operation_count)
      <3>1. cursor' * Share(operation_count) =
               cursor * Share(operation_count) + Share(operation_count)
        BY <2>1, ShareType, NextMultiple
      <3>2. cursor * Share(operation_count) \in Nat
        BY <2>1, ShareType, NextMultiple
      <3>3. th[cursor + 1].oks <= th[cursor + 1].i
        BY <2>1 DEF Progress
      <3> QED
        BY <2>1, <2>3, <3>1, <3>2, <3>3, ShareType DEF Progress, TypeOK
    <2>5. ASSUME NEW t \in Threads
          PROVE  /\ th'[t].oks <= th'[t].i
                 /\ th'[t].pc = "init" => th'[t].i = 0
                 /\ th'[t].pc \in {"init", "run", "call"} => th'[t].i <= num_ops(t)'
                 /\ th'[t].pc = "call" => th'[t].i < num_ops(t)'
                 /\ th'[t].pc = "done" => th'[t].i = num_ops(t)'
                 /\ main' = "load_join" /\ t <= cursor' => th'[t].i = Share(record_count)
                 /\ main' = "txn_join" /\ t <= cursor' => th'[t].i = Share(operation_count)
      <3>1. CASE t = cursor + 1
        BY <3>1, <2>1, <2>3 DEF Progress
      <3>2. CASE t # cursor + 1
        <4>1. t <= cursor' => t <= cursor
          BY <3>2, <2>1 DEF Threads
        <4> QED
          BY <3>2, <4>1, <2>1, <2>2 DEF Progress
      <3> QED
        BY <3>1, <3>2
    <2> QED
      BY <2>1, <2>4, <2>5 DEF Progress
  <1>5. CASE JoinDone
    <2>1. /\ cursor = num_threads /\ cursor' = 0 /\ sum' = sum /\ th' = th
          /\ \/ main = "load_join" /\ main' = "txn_spawn"
             \/ main = "txn_join" /\ main' = "close"
      BY <1>5 DEF JoinDone
    <2>2. \A t \in Threads : num_ops(t)' = num_ops(t) /\ t <= cursor
      BY <2>1 DEF num_ops, Threads
    <2> QED
      BY <2>1, <2>2 DEF Progress
  <1>6. CASE Close \/ Report
    BY <1>6 DEF Close, Report, TypeOK, Progress, num_ops
  <1> QED
    BY <1>1, <1>2, <1>3, <1>4, <1>5, <1>6 DEF Main

LEMMA ProgressNext ==
    ASSUME DriverInv, Progress, [Next]_driverVars
    PROVE  Progress'
  <1>1. CASE UNCHANGED driverVars
    BY <1>1 DEF driverVars, Progress, num_ops
  <1> QED
    BY <1>1, MainProgress, ClientProgress DEF Next

\* The counts of every client stay within its share of the operations, for any
\* number of threads.
THEOREM DriverProgress == Spec => []Progress
  BY ProgressInit, ProgressNext, DriverInductive, PTL DEF Spec

\* When num_threads divides operationcount, main closes the database only after
\* every client has done an equal part of exactly operationcount operations, and
\* it reports no more of them than that.  (Otherwise the int division of
\* ycsbc.cc drops the remainder.)
THEOREM AllOperationsDone ==
    ASSUME num_threads * Share(operation_count) = operation_count
    PROVE  Spec => []AllTasksDone
  <1>1. DriverInv /\ Progress => AllTasksDone
    BY CountAssumption DEF Progress, AllTasksDone
  <1> QED
    BY <1>1, DriverInductive, DriverProgress, PTL

-----------------------------------------------------------------------------
(* Which calls the clients make, and which keys the load hands out *)

\* What a client's call is: a load inserts; the others name a key number that
\* the loop of NextTransactionKey let through.
CallsPlaced ==
    \A t \in Threads :
        /\ th[t].pc # "call" => call[t] = NoCall
        /\ th[t].pc = "call" => call[t].dbop # "none"
        /\ th[t].pc = "call" /\ th[t].loading => call[t].dbop = "Insert" /\ call[t].op = "LOAD"
        /\ call[t].dbop \in {"Read", "Update", "Scan"} => call[t].num \in TransactionNums

LEMMA CallsInit == Init => CallsPlaced
  BY DEF Init, CallsPlaced, NoCall

LEMMA ClientCalls ==
    ASSUME DriverInv, CallsPlaced, NEW t \in Threads, Client(t)
    PROVE  CallsPlaced'
  <1> USE DEF DriverInv, TypeOK
  <1>1. /\ \A u \in Threads \ {t} : th'[u] = th[u] /\ call'[u] = call[u]
        /\ th'[t].loading = th[t].loading
    <2>1. \A u \in Threads \ {t} : call'[u] = call[u]
      BY DEF Client, DelegateInit, Finish, ReturnRead, ReturnLast, DoInsert, DoTransaction,
             NextSequenceKey, NextTransactionKey, Invoke
    <2> QED
      BY <2>1, ClientInv
  <1> DEFINE Fits ==
        /\ th'[t].pc # "call" => call'[t] = NoCall
        /\ th'[t].pc = "call" => call'[t].dbop # "none"
        /\ th'[t].pc = "call" /\ th[t].loading => call'[t].dbop = "Insert" /\ call'[t].op = "LOAD"
        /\ call'[t].dbop \in {"Read", "Update", "Scan"} => call'[t].num \in TransactionNums
  <1>2. Fits
    <2>0. /\ th[t].pc # "call" => call[t] = NoCall
          /\ th[t].pc = "call" => call[t].dbop # "none"
          /\ th[t].pc = "call" /\ th[t].loading => call[t].dbop = "Insert" /\ call[t].op = "LOAD"
          /\ call[t].dbop \in {"Read", "Update", "Scan"} => call[t].num \in TransactionNums
          /\ NoCall.dbop = "none"
      BY DEF CallsPlaced, NoCall
    <2>1. CASE DelegateInit(t) \/ Finish(t)
      BY <2>0, <2>1 DEF DelegateInit, Finish
    <2>2. CASE ReturnRead(t)
      BY <2>0, <2>2 DEF ReturnRead
    <2>3. CASE \E status \in Statuses : ReturnLast(t, status)
      BY <2>0, <2>3 DEF ReturnLast
    <2>4. ASSUME NEW op, NEW dbop \in {"Insert", "Read", "Update", "Scan"}, NEW n,
                 Invoke(t, op, dbop, n),
                 th[t].loading => dbop = "Insert" /\ op = "LOAD",
                 dbop # "Insert" => n \in TransactionNums
          PROVE  Fits
      BY <2>4 DEF Invoke
    <2>5. CASE DoInsert(t)
      BY <2>4, <2>5 DEF DoInsert, NextSequenceKey
    <2>6. CASE DoTransaction(t)
      BY <2>4, <2>6 DEF DoTransaction, NextSequenceKey, NextTransactionKey
    <2> QED
      BY <2>1, <2>2, <2>3, <2>5, <2>6 DEF Client
  <1> QED
    BY <1>1, <1>2 DEF CallsPlaced

LEMMA MainCalls ==
    ASSUME DriverInv, CallsPlaced, Main
    PROVE  CallsPlaced'
  <1>1. call' = call
    BY DEF Main, CreateDB, Spawn, SpawnDone, Join, JoinDone, Close, Report
  <1>2. \A t \in Threads :
           th'[t] = th[t] \/ (th[t].pc \in {"none", "done"} /\ th'[t].pc # "call")
    <2>1. CASE Spawn
      BY <2>1, CountAssumption DEF Spawn, DriverInv, TypeOK, ClientsPlaced, Threads
    <2>2. CASE Join
      BY <2>2, CountAssumption DEF Join, DriverInv, TypeOK, Threads
    <2>3. CASE ~Spawn /\ ~Join
      BY <2>3 DEF Main, CreateDB, SpawnDone, JoinDone, Close, Report
    <2> QED
      BY <2>1, <2>2, <2>3
  <1> QED
    BY <1>1, <1>2 DEF CallsPlaced

LEMMA CallsNext ==
    ASSUME DriverInv, CallsPlaced, [Next]_driverVars
    PROVE  CallsPlaced'
  <1>1. CASE UNCHANGED driverVars
    BY <1>1 DEF driverVars, CallsPlaced
  <1> QED
    BY <1>1, MainCalls, ClientCalls DEF Next

\* The key numbers the load has handed out, and how many of them client t drew.
Given == insert_start .. (counter - 1)
Drawn(t) == th[t].i + (IF th[t].pc = "call" THEN 1 ELSE 0)

\* The key numbers handed out by the load so far, each with the client it was
\* given to.
Ledger(giver) ==
    /\ counter >= insert_start
    /\ giver \in [Given -> Threads]
    /\ loaded \subseteq Given
    /\ \A t \in Threads :
          /\ Cardinality({n \in Given : giver[n] = t}) = Drawn(t)
          /\ Cardinality({n \in loaded : giver[n] = t}) = th[t].oks
          /\ th[t].pc = "call" => /\ call[t].num \in Given \ loaded
                                  /\ giver[call[t].num] = t
    /\ main = "load_join" =>
          /\ Cardinality({n \in Given : giver[n] <= cursor}) = cursor * Share(record_count)
          /\ Cardinality({n \in loaded : giver[n] <= cursor}) = sum

\* The number after the last one of the load.
LoadEnd == insert_start + num_threads * Share(record_count)

\* While the load runs there is such a ledger; afterwards what was loaded is
\* within the numbers handed out.
LoadCounted ==
    /\ main \in {"create", "load_spawn", "load_join"} => \E giver \in [Given -> Threads] : Ledger(giver)
    /\ main \in {"txn_spawn", "txn_join"} => loaded \subseteq insert_start .. (LoadEnd - 1)
    /\ main = "txn_spawn" => /\ sum = Cardinality(loaded)
                             /\ cursor = 0 => counter = LoadEnd

LEMMA GivenFinite ==
    ASSUME DriverInv, NEW S, S \subseteq Given
    PROVE  IsFiniteSet(S) /\ Cardinality(S) \in Nat
  <1>1. IsFiniteSet(Given)
    BY CountAssumption, FS_Interval DEF DriverInv, TypeOK, Given
  <1> QED
    BY <1>1, FS_Subset, FS_CardinalityType

\* Nothing is given out before the load starts.
LEMMA LoadCountedInit == Init => LoadCounted
  <1> SUFFICES ASSUME Init PROVE \E g \in [Given -> Threads] : Ledger(g)
    BY DEF Init, LoadCounted
  <1>1. Given = {} /\ counter >= insert_start
    BY CountAssumption DEF Init, Given
  <1> DEFINE g == [n \in {} |-> 1]
  <1>2. g \in [Given -> Threads]
    BY <1>1
  <1>3. \A t \in Threads : /\ {n \in Given : g[n] = t} = {} /\ {n \in loaded : g[n] = t} = {}
                           /\ Drawn(t) = 0 /\ th[t].oks = 0 /\ th[t].pc # "call"
    BY <1>1 DEF Init, Drawn
  <1>4. main # "load_join" /\ loaded \subseteq Given
    BY DEF Init
  <1>5. Ledger(g)
    <2> HIDE DEF g
    <2> QED
      BY <1>1, <1>2, <1>3, <1>4, FS_EmptySet DEF Ledger
  <1> QED
    BY <1>2, <1>5

\* A step that leaves the numbers and the counts alone keeps the ledger.
LEMMA LedgerKept ==
    ASSUME NEW g, Ledger(g), counter' = counter, loaded' = loaded, call' = call,
           \A t \in Threads : /\ Drawn(t)' = Drawn(t) /\ th'[t].oks = th[t].oks
                              /\ th'[t].pc = "call" => th[t].pc = "call",
           main' = "load_join" => main = "load_join" /\ cursor' = cursor /\ sum' = sum
    PROVE  Ledger(g)'
  <1>1. Given' = Given
    BY DEF Given
  <1>2. ASSUME NEW t \in Threads
        PROVE  /\ {n \in Given' : g[n] = t} = {n \in Given : g[n] = t}
               /\ {n \in loaded' : g[n] = t} = {n \in loaded : g[n] = t}
    BY <1>1
  <1>3. ASSUME NEW t \in Threads
        PROVE  /\ Cardinality({n \in Given' : g[n] = t}) = Drawn(t)'
               /\ Cardinality({n \in loaded' : g[n] = t}) = th'[t].oks
    BY <1>2, <1>3 DEF Ledger
  <1>4. ASSUME NEW t \in Threads, th'[t].pc = "call"
        PROVE  call'[t].num \in Given' \ loaded' /\ g[call'[t].num] = t
    BY <1>1, <1>4 DEF Ledger
  <1>5. ASSUME main' = "load_join"
        PROVE  /\ {n \in Given' : g[n] <= cursor'} = {n \in Given : g[n] <= cursor}
               /\ {n \in loaded' : g[n] <= cursor'} = {n \in loaded : g[n] <= cursor}
    BY <1>1, <1>5
  <1>6. ASSUME main' = "load_join"
        PROVE  /\ Cardinality({n \in Given' : g[n] <= cursor'}) = cursor' * Share(record_count)
               /\ Cardinality({n \in loaded' : g[n] <= cursor'}) = sum'
    BY <1>5, <1>6 DEF Ledger
  <1> QED
    BY <1>1, <1>3, <1>4, <1>6 DEF Ledger

\* The ledger after the client c has drawn the next number.
LEMMA LedgerDraw ==
    ASSUME DriverInv, NEW g, Ledger(g), NEW c \in Threads,
           main = "load_join" => c > cursor,
           main' = main, cursor' = cursor, sum' = sum, loaded' = loaded,
           counter' = counter + 1,
           \A t \in Threads : th'[t].oks = th[t].oks,
           \A t \in Threads \ {c} : th'[t] = th[t] /\ call'[t] = call[t],
           Drawn(c)' = Drawn(c) + 1, call'[c].num = counter
    PROVE  \E h \in [Given' -> Threads] : Ledger(h)'
  <1>1. counter \in Nat /\ insert_start \in Nat /\ counter >= insert_start /\ cursor \in Nat
    BY CountAssumption DEF DriverInv, TypeOK, Ledger
  <1>2. Given' = Given \cup {counter} /\ counter \notin Given
    BY <1>1 DEF Given
  <1>3. PICK h : h = [n \in Given \cup {counter} |-> IF n = counter THEN c ELSE g[n]]
    OBVIOUS
  <1>4. /\ h \in [Given' -> Threads]
        /\ h[counter] = c
        /\ \A n \in Given : h[n] = g[n]
        /\ loaded' \subseteq Given' /\ loaded \subseteq Given
    BY <1>2, <1>3 DEF Ledger
  <1>5. \A n \in loaded : h[n] = g[n]
    BY <1>4
  <1>6. ASSUME NEW t \in Threads
        PROVE  Cardinality({n \in Given' : h[n] = t}) = Drawn(t)'
    <2>1. Cardinality({n \in Given : g[n] = t}) = Drawn(t)
      BY DEF Ledger
    <2>2. CASE t = c
      <3>1. {n \in Given' : h[n] = t} = {n \in Given : g[n] = t} \cup {counter}
        BY <1>2, <1>4, <2>2
      <3>2. IsFiniteSet({n \in Given : g[n] = t})
        BY GivenFinite
      <3>3. counter \notin {n \in Given : g[n] = t}
        BY <1>2
      <3>4. Cardinality({n \in Given : g[n] = t} \cup {counter}) =
               Cardinality({n \in Given : g[n] = t}) + 1
        BY <3>2, <3>3, FS_AddElement
      <3> QED
        BY <3>1, <3>4, <2>1, <2>2
    <2>3. CASE t # c
      <3>1. {n \in Given' : h[n] = t} = {n \in Given : g[n] = t}
        BY <1>2, <1>4, <2>3
      <3>2. Drawn(t)' = Drawn(t)
        BY <2>3 DEF Drawn
      <3> QED
        BY <3>1, <3>2, <2>1
    <2> QED
      BY <2>2, <2>3
  <1>7. ASSUME NEW t \in Threads
        PROVE  /\ Cardinality({n \in loaded' : h[n] = t}) = th'[t].oks
               /\ th'[t].pc = "call" => /\ call'[t].num \in Given' \ loaded'
                                        /\ h[call'[t].num] = t
    <2>1. {n \in loaded' : h[n] = t} = {n \in loaded : g[n] = t}
      BY <1>5
    <2>2. Cardinality({n \in loaded : g[n] = t}) = th[t].oks
      BY DEF Ledger
    <2>3. CASE t = c
      <3>1. call'[t].num \in Given' \ loaded' /\ h[call'[t].num] = t
        BY <1>2, <1>4, <2>3
      <3> QED
        BY <2>1, <2>2, <3>1
    <2>4. CASE t # c
      <3>1. th'[t].pc = "call" => call[t].num \in Given \ loaded /\ g[call[t].num] = t
        BY <2>4 DEF Ledger
      <3>2. call'[t] = call[t]
        BY <2>4
      <3>3. th'[t].pc = "call" => call'[t].num \in Given' \ loaded' /\ h[call'[t].num] = t
        BY <1>2, <1>4, <3>1, <3>2
      <3> QED
        BY <2>1, <2>2, <3>3
    <2> QED
      BY <2>3, <2>4
  <1>8. ASSUME main' = "load_join"
        PROVE  /\ Cardinality({n \in Given' : h[n] <= cursor'}) = cursor' * Share(record_count)
               /\ Cardinality({n \in loaded' : h[n] <= cursor'}) = sum'
    <2>1. ~(c <= cursor)
      BY <1>1, <1>8 DEF Threads
    <2>2. {n \in Given' : h[n] <= cursor'} = {n \in Given : g[n] <= cursor}
      BY <1>2, <1>4, <2>1
    <2>3. {n \in loaded' : h[n] <= cursor'} = {n \in loaded : g[n] <= cursor}
      BY <1>5
    <2> QED
      BY <1>8, <2>2, <2>3 DEF Ledger
  <1>9. Ledger(h)'
    BY <1>1, <1>4, <1>6, <1>7, <1>8, SMTT(30) DEF Ledger
  <1> QED
    BY <1>4, <1>9

\* The ledger after the insert of client c has returned.
LEMMA LedgerReturn ==
    ASSUME DriverInv, NEW g, g \in [Given -> Threads], Ledger(g), NEW c \in Threads,
           main = "load_join" => c > cursor,
           main' = main, cursor' = cursor, sum' = sum, counter' = counter,
           th[c].pc = "call", th'[c].pc = "run",
           \A t \in Threads : Drawn(t)' = Drawn(t),
           \A t \in Threads \ {c} : th'[t] = th[t] /\ call'[t] = call[t],
           \/ loaded' = loaded /\ th'[c].oks = th[c].oks
           \/ loaded' = loaded \cup {call[c].num} /\ th'[c].oks = th[c].oks + 1
    PROVE  Ledger(g)'
  <1> DEFINE num == call[c].num
  <1>1. /\ counter \in Nat /\ cursor \in Nat /\ Given' = Given
        /\ loaded \subseteq Given /\ num \in Given \ loaded /\ g[num] = c
        /\ loaded' \subseteq loaded \cup {num}
    <2>1. counter \in Nat /\ cursor \in Nat /\ Given' = Given
      BY CountAssumption DEF DriverInv, TypeOK, Given
    <2>2. loaded \subseteq Given /\ num \in Given \ loaded /\ g[num] = c
      BY DEF Ledger
    <2> QED
      BY <2>1, <2>2
  <1>2. ASSUME NEW t \in Threads
        PROVE  Cardinality({n \in Given' : g[n] = t}) = Drawn(t)'
    <2>1. {n \in Given' : g[n] = t} = {n \in Given : g[n] = t}
      BY <1>1
    <2> QED
      BY <2>1 DEF Ledger
  <1>3. ASSUME NEW t \in Threads
        PROVE  Cardinality({n \in loaded' : g[n] = t}) = th'[t].oks
    <2>1. Cardinality({n \in loaded : g[n] = t}) = th[t].oks
      BY DEF Ledger
    <2>2. CASE t = c /\ loaded' # loaded
      <3>1. {n \in loaded' : g[n] = t} = {n \in loaded : g[n] = t} \cup {num}
        BY <1>1, <2>2
      <3>2. IsFiniteSet({n \in loaded : g[n] = t})
        BY <1>1, GivenFinite
      <3>3. num \notin {n \in loaded : g[n] = t}
        BY <1>1
      <3>4. Cardinality({n \in loaded : g[n] = t} \cup {num}) =
               Cardinality({n \in loaded : g[n] = t}) + 1
        BY <3>2, <3>3, FS_AddElement
      <3> QED
        BY <3>1, <3>4, <2>1, <2>2
    <2>3. CASE t # c \/ loaded' = loaded
      <3>1. {n \in loaded' : g[n] = t} = {n \in loaded : g[n] = t}
        BY <1>1, <2>3
      <3>2. th'[t].oks = th[t].oks
        BY <1>1, <2>3
      <3> QED
        BY <3>1, <3>2, <2>1
    <2> QED
      BY <2>2, <2>3
  <1>4. ASSUME NEW t \in Threads, th'[t].pc = "call"
        PROVE  call'[t].num \in Given' \ loaded' /\ g[call'[t].num] = t
    <2>1. t # c /\ th[t].pc = "call" /\ call'[t] = call[t]
      BY <1>4
    <2>2. call[t].num \in Given \ loaded /\ g[call[t].num] = t
      BY <2>1 DEF Ledger
    <2> QED
      BY <1>1, <2>1, <2>2
  <1>5. ASSUME main' = "load_join"
        PROVE  /\ Cardinality({n \in Given' : g[n] <= cursor'}) = cursor' * Share(record_count)
               /\ Cardinality({n \in loaded' : g[n] <= cursor'}) = sum'
    <2>1. ~(g[num] <= cursor)
      BY <1>1, <1>5 DEF Threads
    <2>2. /\ {n \in Given' : g[n] <= cursor'} = {n \in Given : g[n] <= cursor}
          /\ {n \in loaded' : g[n] <= cursor'} = {n \in loaded : g[n] <= cursor}
      BY <1>1, <2>1
    <2> QED
      BY <1>5, <2>2 DEF Ledger
  <1>6. counter' >= insert_start /\ g \in [Given' -> Threads] /\ loaded' \subseteq Given'
    BY <1>1 DEF Ledger
  <1> QED
    BY <1>2, <1>3, <1>4, <1>5, <1>6 DEF Ledger

LEMMA ClientLedger ==
    ASSUME DriverInv, CallsPlaced, main \in {"create", "load_spawn", "load_join"},
           NEW g \in [Given -> Threads], Ledger(g), NEW t \in Threads, Client(t)
    PROVE  \E h \in [Given' -> Threads] : Ledger(h)'
  <1>1. /\ main' = main /\ cursor' = cursor /\ sum' = sum /\ th[t].pc # "none"
        /\ \A u \in Threads \ {t} : th'[u] = th[u]
    BY ClientInv
  <1>2. th[t].loading /\ (main = "load_join" => t > cursor)
    BY <1>1, CountAssumption DEF DriverInv, TypeOK, ClientsPlaced, Threads
  <1>3. \A u \in Threads \ {t} : Drawn(u)' = Drawn(u)
    BY <1>1 DEF Drawn
  <1>4. th[t].i \in Nat /\ th[t].oks \in Nat /\ call[t].num \in Nat
    BY DEF DriverInv, TypeOK
  <1>5. CASE DelegateInit(t) \/ Finish(t)
    <2>1. /\ counter' = counter /\ loaded' = loaded /\ call' = call
          /\ th[t].pc # "call" /\ th'[t].pc # "call"
          /\ th'[t].i = th[t].i /\ th'[t].oks = th[t].oks
      BY <1>5 DEF DelegateInit, Finish, DriverInv, TypeOK
    <2>2. \A u \in Threads : /\ Drawn(u)' = Drawn(u) /\ th'[u].oks = th[u].oks
                             /\ th'[u].pc = "call" => th[u].pc = "call"
      BY <1>1, <1>3, <2>1 DEF Drawn
    <2>3. Ledger(g)' /\ Given' = Given
      BY <1>1, <2>1, <2>2, LedgerKept DEF Given
    <2> QED
      BY <2>3
  <1>6. CASE DoInsert(t)
    <2>1. /\ loaded' = loaded /\ counter' = counter + 1
          /\ th[t].pc = "run" /\ th'[t].pc = "call"
          /\ th'[t].i = th[t].i /\ th'[t].oks = th[t].oks
          /\ call'[t].num = counter
          /\ \A u \in Threads \ {t} : call'[u] = call[u]
      BY <1>6 DEF DoInsert, NextSequenceKey, Invoke, DriverInv, TypeOK
    <2>2. Drawn(t)' = Drawn(t) + 1
      BY <1>4, <2>1 DEF Drawn
    <2>3. \A u \in Threads : th'[u].oks = th[u].oks
      BY <1>1, <2>1
    <2>4. \A u \in Threads \ {t} : th'[u] = th[u] /\ call'[u] = call[u]
      BY <1>1, <2>1
    <2> QED
      BY <1>1, <1>2, <2>1, <2>2, <2>3, <2>4, LedgerDraw
  <1>7. CASE \E status \in Statuses : ReturnLast(t, status)
    <2>1. /\ counter' = counter
          /\ th[t].pc = "call" /\ th'[t].pc = "run"
          /\ th'[t].i = th[t].i + 1
          /\ \A u \in Threads \ {t} : call'[u] = call[u]
          /\ \/ loaded' = loaded /\ th'[t].oks = th[t].oks
             \/ loaded' = loaded \cup {call[t].num} /\ th'[t].oks = th[t].oks + 1
      BY <1>2, <1>7 DEF ReturnLast, DriverInv, TypeOK
    <2>2. \A u \in Threads : Drawn(u)' = Drawn(u)
      BY <1>3, <1>4, <2>1 DEF Drawn
    <2>3. \A u \in Threads \ {t} : th'[u] = th[u] /\ call'[u] = call[u]
      BY <1>1, <2>1
    <2>4. Ledger(g)' /\ Given' = Given
      BY <1>1, <1>2, <2>1, <2>2, <2>3, LedgerReturn DEF Given
    <2> QED
      BY <2>4
  <1>8. ~DoTransaction(t) /\ ~ReturnRead(t)
    BY <1>2 DEF DoTransaction, ReturnRead, CallsPlaced
  <1> QED
    BY <1>5, <1>6, <1>7, <1>8 DEF Client

\* main joins the loading client c: its numbers and its records are added to
\* those of the clients before it.
LEMMA LedgerJoin ==
    ASSUME DriverInv, NEW g, g \in [Given -> Threads], Ledger(g),
           main = "load_join", Join, Progress
    PROVE  Ledger(g)'
  <1> DEFINE S == Share(record_count)
  <1>0. PICK c : c = cursor + 1
    OBVIOUS
  <1>1. /\ c \in Threads /\ cursor \in Nat /\ cursor' = c /\ main' = "load_join"
        /\ counter' = counter /\ loaded' = loaded /\ call' = call /\ Given' = Given
        /\ th[c].pc = "done" /\ th'[c].pc = "none"
        /\ th'[c].i = th[c].i /\ th'[c].oks = th[c].oks /\ sum' = sum + th[c].oks
        /\ \A t \in Threads \ {c} : th'[t] = th[t]
    BY <1>0, CountAssumption DEF Join, DriverInv, TypeOK, Threads, Given
  <1>2. th[c].i = S /\ th[c].oks \in Nat /\ th[c].i \in Nat
    <2>1. th[c].i = num_ops(c)
      BY <1>1 DEF Progress
    <2>2. c > cursor
      BY <1>0, <1>1
    <2>3. th[c].loading
      BY <1>1, <2>2 DEF DriverInv, ClientsPlaced
    <2> QED
      BY <1>1, <2>1, <2>3 DEF num_ops, DriverInv, TypeOK
  <1>3. \A t \in Threads : /\ Drawn(t)' = Drawn(t) /\ th'[t].oks = th[t].oks
                           /\ th'[t].pc = "call" => th[t].pc = "call"
    BY <1>1 DEF Drawn
  <1>4. Drawn(c) = S
    BY <1>1, <1>2 DEF Drawn
  <1>5. ASSUME NEW A, A \subseteq Given
        PROVE  Cardinality({n \in A : g[n] <= cursor'}) =
                  Cardinality({n \in A : g[n] <= cursor}) + Cardinality({n \in A : g[n] = c})
    <2> DEFINE P == {n \in A : g[n] <= cursor}
               Q == {n \in A : g[n] = c}
    <2>1. \A n \in A : g[n] \in Nat
      BY <1>5 DEF Threads
    <2>2. {n \in A : g[n] <= cursor'} = P \cup Q /\ P \cap Q = {}
      BY <1>0, <1>1, <2>1
    <2>3. IsFiniteSet(P) /\ IsFiniteSet(Q) /\ Cardinality(P) \in Nat /\ Cardinality(Q) \in Nat
      BY <1>5, GivenFinite
    <2>4. Cardinality(P \cup Q) = Cardinality(P) + Cardinality(Q) - Cardinality(P \cap Q)
      BY <2>3, FS_Union
    <2>5. Cardinality(P \cap Q) = 0
      BY <2>2, FS_EmptySet
    <2> HIDE DEF P, Q
    <2>6. Cardinality(P \cup Q) = Cardinality(P) + Cardinality(Q)
      BY <2>3, <2>4, <2>5
    <2> QED
      BY <2>2, <2>6 DEF P, Q
  <1>6. loaded \subseteq Given
    BY DEF Ledger
  <1>7. Cardinality({n \in Given' : g[n] <= cursor'}) = cursor' * S
    <2>1. Cardinality({n \in Given : g[n] <= cursor}) = cursor * S
      BY DEF Ledger
    <2>2. Cardinality({n \in Given : g[n] = c}) = S
      BY <1>1, <1>4 DEF Ledger
    <2>3. cursor' * S = cursor * S + S
      BY <1>0, <1>1, ShareType, NextMultiple, CountAssumption
    <2>4. {n \in Given' : g[n] <= cursor'} = {n \in Given : g[n] <= cursor'}
      BY <1>1
    <2> QED
      BY <1>5, <2>1, <2>2, <2>3, <2>4
  <1>8. Cardinality({n \in loaded' : g[n] <= cursor'}) = sum'
    <2>1. Cardinality({n \in loaded : g[n] <= cursor}) = sum
      BY DEF Ledger
    <2>2. Cardinality({n \in loaded : g[n] = c}) = th[c].oks
      BY <1>1 DEF Ledger
    <2>3. {n \in loaded' : g[n] <= cursor'} = {n \in loaded : g[n] <= cursor'}
      BY <1>1
    <2> QED
      BY <1>1, <1>5, <1>6, <2>1, <2>2, <2>3
  <1>9. ASSUME NEW t \in Threads
        PROVE  /\ Cardinality({n \in Given' : g[n] = t}) = Drawn(t)'
               /\ Cardinality({n \in loaded' : g[n] = t}) = th'[t].oks
               /\ th'[t].pc = "call" => /\ call'[t].num \in Given' \ loaded'
                                        /\ g[call'[t].num] = t
    <2>1. /\ {n \in Given' : g[n] = t} = {n \in Given : g[n] = t}
          /\ {n \in loaded' : g[n] = t} = {n \in loaded : g[n] = t}
      BY <1>1
    <2>2. /\ Cardinality({n \in Given' : g[n] = t}) = Drawn(t)'
          /\ Cardinality({n \in loaded' : g[n] = t}) = th'[t].oks
      BY <1>3, <2>1 DEF Ledger
    <2>3. th'[t].pc = "call" => call[t].num \in Given \ loaded /\ g[call[t].num] = t
      BY <1>3 DEF Ledger
    <2> QED
      BY <1>1, <2>2, <2>3
  <1> QED
    BY <1>1, <1>7, <1>8, <1>9 DEF Ledger

\* When main has joined every loading client, the numbers given out are an equal
\* share for each, and sum is the number of records loaded.
LEMMA LedgerClosed ==
    ASSUME DriverInv, NEW g, g \in [Given -> Threads], Ledger(g),
           main = "load_join", cursor = num_threads
    PROVE  /\ counter = LoadEnd /\ sum = Cardinality(loaded)
           /\ loaded \subseteq insert_start .. (LoadEnd - 1)
  <1>1. /\ counter \in Nat /\ insert_start \in Nat /\ counter >= insert_start
        /\ loaded \subseteq Given
    BY CountAssumption DEF DriverInv, TypeOK, Ledger
  <1>2. \A n \in Given : g[n] <= cursor
    BY CountAssumption DEF Threads
  <1>3. {n \in Given : g[n] <= cursor} = Given /\ {n \in loaded : g[n] <= cursor} = loaded
    BY <1>1, <1>2
  <1>4. Cardinality(Given) = num_threads * Share(record_count) /\ Cardinality(loaded) = sum
    BY <1>3 DEF Ledger
  <1>5. Cardinality(Given) = counter - insert_start
    <2>1. Cardinality(Given) = IF insert_start > counter - 1 THEN 0 ELSE counter - 1 - insert_start + 1
      BY <1>1, FS_Interval DEF Given
    <2> QED
      BY <1>1, <2>1
  <1>6. counter = LoadEnd
    BY <1>1, <1>4, <1>5, ShareType, NextMultiple, CountAssumption DEF LoadEnd
  <1> QED
    BY <1>1, <1>4, <1>6 DEF Given

LEMMA MainLoadCounted ==
    ASSUME DriverInv, Progress, LoadCounted, Main
    PROVE  LoadCounted'
  <1> USE CountAssumption
  <1>0. /\ counter' = counter /\ loaded' = loaded /\ call' = call /\ Given' = Given
    BY DEF Main, CreateDB, Spawn, SpawnDone, Join, JoinDone, Close, Report, Given
  <1>1. CASE main \in {"create", "load_spawn", "load_join"}
    <2>1. PICK g \in [Given -> Threads] : Ledger(g)
      BY <1>1 DEF LoadCounted
    <2>2. g \in [Given' -> Threads]
      BY <1>0
    <2>3. ASSUME main' \in {"create", "load_spawn", "load_join"}, Ledger(g)'
          PROVE  LoadCounted'
      BY <2>2, <2>3 DEF LoadCounted
    <2>4. ASSUME NEW created \in BOOLEAN, CreateDB(created) PROVE LoadCounted'
      <3>1. main' \in {"load_spawn", "exit"} /\ th' = th
        BY <2>4 DEF CreateDB
      <3>2. Ledger(g)'
        BY <1>0, <2>1, <3>1, LedgerKept DEF Drawn
      <3> QED
        BY <2>3, <3>1, <3>2 DEF LoadCounted
    <2>5. CASE Spawn
      <3>1. /\ cursor + 1 \in Threads /\ main = "load_spawn" /\ main' = main
            /\ \A t \in Threads : t # cursor + 1 => th'[t] = th[t]
        BY <1>1, <2>5 DEF Spawn, DriverInv, TypeOK, Threads
      <3>2. th'[cursor + 1].i = 0 /\ th'[cursor + 1].oks = 0 /\ th'[cursor + 1].pc = "init"
        BY <2>5, <3>1 DEF Spawn, DriverInv, TypeOK
      <3>3. /\ th[cursor + 1].pc = "none" /\ th[cursor + 1].i = 0
            /\ th[cursor + 1].oks <= th[cursor + 1].i /\ th[cursor + 1].oks \in Nat
        <4>1. cursor + 1 > cursor
          BY DEF DriverInv, TypeOK
        <4> QED
          BY <3>1, <4>1 DEF DriverInv, TypeOK, ClientsPlaced, Progress
      <3>4. \A t \in Threads : /\ Drawn(t)' = Drawn(t) /\ th'[t].oks = th[t].oks
                               /\ th'[t].pc = "call" => th[t].pc = "call"
        BY <3>1, <3>2, <3>3 DEF Drawn
      <3>5. Ledger(g)'
        BY <1>0, <2>1, <3>1, <3>4, LedgerKept
      <3> QED
        BY <2>3, <3>1, <3>5
    <2>6. CASE SpawnDone
      <3>1. main = "load_spawn" /\ main' = "load_join" /\ cursor' = 0 /\ sum' = 0 /\ th' = th
        BY <1>1, <2>6 DEF SpawnDone
      <3>2. {n \in Given' : g[n] <= cursor'} = {} /\ {n \in loaded' : g[n] <= cursor'} = {}
        <4>1. \A n \in Given : ~(g[n] <= 0)
          BY <2>1 DEF Threads
        <4> QED
          BY <1>0, <2>1, <3>1, <4>1 DEF Ledger
      <3>3. cursor' * Share(record_count) = 0
        BY <3>1, ShareType, NextMultiple
      <3>4. /\ Cardinality({n \in Given' : g[n] <= cursor'}) = cursor' * Share(record_count)
            /\ Cardinality({n \in loaded' : g[n] <= cursor'}) = sum'
        BY <3>1, <3>2, <3>3, FS_EmptySet
      <3>5. \A t \in Threads : Drawn(t)' = Drawn(t)
        BY <3>1 DEF Drawn
      <3>6. ASSUME NEW t \in Threads
            PROVE  /\ Cardinality({n \in Given' : g[n] = t}) = Drawn(t)'
                   /\ Cardinality({n \in loaded' : g[n] = t}) = th'[t].oks
                   /\ th'[t].pc = "call" => /\ call'[t].num \in Given' \ loaded'
                                            /\ g[call'[t].num] = t
        <4>1. /\ {n \in Given' : g[n] = t} = {n \in Given : g[n] = t}
              /\ {n \in loaded' : g[n] = t} = {n \in loaded : g[n] = t}
          BY <1>0
        <4>2. /\ Cardinality({n \in Given' : g[n] = t}) = Drawn(t)'
              /\ Cardinality({n \in loaded' : g[n] = t}) = th'[t].oks
          BY <2>1, <3>1, <3>5, <4>1 DEF Ledger
        <4> QED
          BY <1>0, <2>1, <3>1, <4>2 DEF Ledger
      <3>7. Ledger(g)'
        BY <1>0, <2>1, <2>2, <3>1, <3>4, <3>6 DEF Ledger
      <3> QED
        BY <2>3, <3>1, <3>7
    <2>7. CASE Join
      <3>1. main = "load_join" /\ main' = main
        BY <1>1, <2>7 DEF Join
      <3> QED
        BY <2>1, <2>3, <2>7, <3>1, LedgerJoin
    <2>8. CASE JoinDone
      <3>1. main = "load_join" /\ cursor = num_threads /\ main' = "txn_spawn" /\ sum' = sum
        BY <1>1, <2>8 DEF JoinDone
      <3>2. LoadEnd' = LoadEnd
        BY DEF LoadEnd, Share
      <3> QED
        BY <1>0, <2>1, <3>1, <3>2, LedgerClosed DEF LoadCounted
    <2> QED
      BY <1>1, <2>4, <2>5, <2>6, <2>7, <2>8 DEF Main, Close, Report
  <1>2. CASE main \notin {"create", "load_spawn", "load_join"}
    <2>1. /\ main' \notin {"create", "load_spawn", "load_join"}
          /\ main' \in {"txn_spawn", "txn_join"} => main \in {"txn_spawn", "txn_join"}
          /\ main' = "txn_spawn" => main = "txn_spawn" /\ cursor' # 0 /\ sum' = sum
      BY <1>2 DEF Main, CreateDB, Spawn, SpawnDone, Join, JoinDone, Close, Report, DriverInv, TypeOK
    <2> QED
      BY <1>0, <2>1 DEF LoadCounted
  <1> QED
    BY <1>1, <1>2

LEMMA ClientLoadCounted ==
    ASSUME DriverInv, CallsPlaced, LoadCounted, NEW t \in Threads, Client(t)
    PROVE  LoadCounted'
  <1>1. main' = main /\ cursor' = cursor /\ sum' = sum /\ th[t].pc # "none"
    BY ClientInv
  <1>2. CASE main \in {"create", "load_spawn", "load_join"}
    <2>1. PICK g \in [Given -> Threads] : Ledger(g)
      BY <1>2 DEF LoadCounted
    <2>2. \E h \in [Given' -> Threads] : Ledger(h)'
      BY <1>2, <2>1, ClientLedger
    <2> QED
      BY <1>1, <1>2, <2>2 DEF LoadCounted
  <1>3. CASE main \notin {"create", "load_spawn", "load_join"}
    <2>1. ~th[t].loading /\ ~(main = "txn_spawn" /\ cursor = 0)
      BY <1>1, <1>3, CountAssumption DEF DriverInv, TypeOK, ClientsPlaced, Threads
    <2>2. loaded' = loaded
      BY <2>1 DEF Client, DelegateInit, Finish, ReturnRead, ReturnLast, DoInsert, DoTransaction,
                  NextSequenceKey, NextTransactionKey, Invoke
    <2> QED
      BY <1>1, <1>3, <2>1, <2>2 DEF LoadCounted
  <1> QED
    BY <1>2, <1>3

LEMMA LoadCountedNext ==
    ASSUME DriverInv, Progress, CallsPlaced, LoadCounted, [Next]_driverVars
    PROVE  LoadCounted'
  <1>1. CASE UNCHANGED driverVars
    <2>1. /\ main' = main /\ cursor' = cursor /\ sum' = sum /\ th' = th /\ call' = call
          /\ counter' = counter /\ loaded' = loaded /\ Given' = Given
      BY <1>1 DEF driverVars, Given
    <2>2. ASSUME NEW g, Ledger(g) PROVE Ledger(g)'
      BY <2>1, <2>2, LedgerKept DEF Drawn
    <2> QED
      BY <2>1, <2>2 DEF LoadCounted
  <1> QED
    BY <1>1, MainLoadCounted, ClientLoadCounted DEF Next

\* What the load hands out is counted, and what it loaded stays within that.
THEOREM LoadAccounted == Spec => [](CallsPlaced /\ LoadCounted)
  <1>1. Init => CallsPlaced /\ LoadCounted
    BY CallsInit, LoadCountedInit
  <1>2. /\ DriverInv /\ Progress /\ (CallsPlaced /\ LoadCounted) /\ [Next]_driverVars
        => (CallsPlaced /\ LoadCounted)'
    BY CallsNext, LoadCountedNext
  <1> QED
    BY <1>1, <1>2, DriverInductive, DriverProgress, PTL DEF Spec

\* For any number of threads and records: when the load is over each client has
\* drawn an equal share of the key numbers from the shared counter, and the
\* number main prints is the number of key numbers whose insert returned kOK.
THEOREM LoadIsExact == Spec => []LoadExact
  <1>1. CallsPlaced /\ LoadCounted => LoadExact
    BY DEF LoadCounted, LoadExact, LoadEnd
  <1> QED
    BY <1>1, LoadAccounted, PTL

\* When num_threads divides recordcount and insertstart is 0, its default, a load
\* without a failed insert leaves no key that a read, an update or a scan could
\* ask for in vain, whatever the chooser draws and whatever the hash.
THEOREM TransactionKeysLoaded ==
    ASSUME num_threads * Share(record_count) = record_count, insert_start = 0
    PROVE  Spec => []TransactionKeyLoaded
  <1>1. DriverInv /\ (CallsPlaced /\ LoadCounted) => TransactionKeyLoaded
    <2> SUFFICES ASSUME DriverInv, CallsPlaced, LoadCounted, NEW t \in Threads,
                        call[t].dbop \in {"Read", "Update", "Scan"},
                        Cardinality(loaded) = num_threads * Share(record_count)
                 PROVE  BuildKeyName(call[t].num) \in {BuildKeyName(n) : n \in loaded}
      BY DEF TransactionKeyLoaded
    <2>1. th[t].pc = "call" /\ ~th[t].loading /\ call[t].num \in TransactionNums
      BY DEF CallsPlaced, NoCall
    <2>2. main \in {"txn_spawn", "txn_join"}
      BY <2>1, CountAssumption DEF DriverInv, TypeOK, ClientsPlaced, Threads
    <2>3. loaded \subseteq 0 .. (record_count - 1)
      BY <2>2, CountAssumption DEF LoadCounted, LoadEnd
    <2>4. /\ IsFiniteSet(0 .. (record_count - 1))
          /\ Cardinality(0 .. (record_count - 1)) = record_count
      BY CountAssumption, FS_Interval
    <2>5. loaded = 0 .. (record_count - 1)
      BY <2>3, <2>4, FS_Subset
    <2>6. call[t].num \in loaded
      <3>1. call[t].num \in Nat /\ call[t].num <= record_count - 1
        BY <2>1, ChooserAssumption DEF TransactionNums, LastInserted
      <3>2. call[t].num \in 0 .. (record_count - 1)
        BY <3>1, CountAssumption
      <3> QED
        BY <2>5, <3>2
    <2> QED
      BY <2>6
  <1> QED
    BY <1>1, LoadAccounted, DriverInductive, PTL

-----------------------------------------------------------------------------
(***************************************************************************)
(* Every step of the system is a step of the driver or leaves it alone:    *)
(* SysNext is composed so.                                                 *)
(***************************************************************************)
LEMMA StepOfDriver == ASSUME [SysNext]_sysVars PROVE [Next]_driverVars
  <1>1. CASE MainStep
    BY <1>1 DEF MainStep, CreateCeph, MainOnly, CloseStep, Next, Main
  <1>2. ASSUME NEW t \in Threads, ClientStep(t) PROVE [Next]_driverVars
    <2>1. Client(t) \/ UNCHANGED driverVars
      BY <1>2, CephStatus
      DEF ClientStep, InitCall, ClientOnly, BeginIO, EndIO, NoIO, Return, Client
    <2> QED
      BY <2>1 DEF Next
  <1>3. ASSUME CreateFails \/ Wakeup \/ (\E n \in DOMAIN io : Callback(n) \/ WriteError(n))
        PROVE  UNCHANGED driverVars
    BY <1>3 DEF CreateFails, Wakeup, Callback, WriteError
  <1>4. CASE UNCHANGED sysVars
    BY <1>4 DEF sysVars
  <1> QED
    BY <1>1, <1>2, <1>3, <1>4 DEF SysNext

\* Run against RealCephDB the driver does what Ycsbc says it does, by the way the
\* composition is written: so what is proved of the driver holds here too.
LEMMA DriverIncluded == SysSpec => Spec
  <1>1. SysInit => Init
    BY DEF SysInit
  <1> QED
    BY <1>1, StepOfDriver, PTL DEF SysSpec, Spec

-----------------------------------------------------------------------------
(***************************************************************************)
(* The inductive invariant.                                                *)
(***************************************************************************)
Keys == {BuildKeyName(n) : n \in Nat}

IORecs == [op : {"Read", "Update", "Insert"}, key : Keys,
           st : {"flight", "notify", "done"}]

CephTypes == /\ phase \in {"INVALID", "LOAD", "TRANSACTION"}
             /\ ops \in Nat
             /\ samples \in [DbOps -> Nat]
             /\ mutex_ \in Threads \cup {NoClient}
             /\ io \in Seq(IORecs)
             /\ async_op_count \in Int

\* mutex_ is held, between steps, only by a client that has submitted an I/O
\* and is about to count it.
HolderInCall ==
    mutex_ # NoClient => /\ th[mutex_].pc = "call"
                         /\ call[mutex_].dbop \in {"Read", "Update", "Insert"}

\* Close waits while main is in it; once past the wait the count is zero, and
\* the image stays open from its opening to the end of Close.
CloseWaits == /\ waiter # "out" => main = "close"
              /\ waiter = "passed" => async_op_count = 0
              /\ main \notin {"create", "report", "exit"} => image = "open"

\* One sample for each operation counted, but for the call under way.
OpsCounted ==
    ops = samples["Read"] + samples["Update"] + samples["Insert"] + samples["Scan"]
            + (IF mutex_ = NoClient THEN 0 ELSE 1)

SysInv == /\ DriverInv
          /\ CephTypes
          /\ HolderInCall
          /\ CountExact
          /\ CloseWaits
          /\ CloseSafe
          /\ PhaseCoherent
          /\ OpsCounted

LEMMA SysInitInv == SysInit => SysInv
  <1> SUFFICES ASSUME SysInit PROVE SysInv
    OBVIOUS
  <1> USE DEF SysInit, CephInit
  <1>1. DriverInv
    BY DriverInitInv
  <1>2. CephTypes /\ HolderInCall /\ CloseWaits /\ OpsCounted
    BY DEF CephTypes, HolderInCall, CloseWaits, OpsCounted, DbOps, NoClient, Init
  <1>3. InState("flight") = {}
    BY DEF InState
  <1>4. CountExact /\ CloseSafe
    BY <1>3, FS_EmptySet DEF CountExact, CloseSafe
  <1>5. PhaseCoherent
    BY DEF PhaseCoherent, Init
  <1> QED
    BY <1>1, <1>2, <1>4, <1>5 DEF SysInv

LEMMA FlightFinite ==
    ASSUME io \in Seq(IORecs)
    PROVE  /\ IsFiniteSet(InState("flight"))
           /\ Cardinality(InState("flight")) \in Nat
  <1>1. IsFiniteSet(1 .. Len(io))
    BY FS_Interval
  <1>2. InState("flight") \in SUBSET (1 .. Len(io))
    BY DEF InState
  <1>3. IsFiniteSet(InState("flight"))
    BY <1>1, <1>2, FS_Subset
  <1> QED
    BY <1>3, FS_CardinalityType

\* Clients exist only while main starts or joins them, and then all of them are
\* of one phase.
LEMMA LiveClient ==
    ASSUME DriverInv, NEW t \in Threads, th[t].pc # "none"
    PROVE  /\ main \in {"load_spawn", "load_join", "txn_spawn", "txn_join"}
           /\ \A u \in Threads : th[u].pc # "none" => th[u].loading = th[t].loading
  <1>1. main \in {"load_spawn", "load_join", "txn_spawn", "txn_join"}
    BY DEF DriverInv, TypeOK, ClientsPlaced
  <1>2. th[t].loading = (main \in {"load_spawn", "load_join"})
    BY <1>1 DEF DriverInv, TypeOK, ClientsPlaced, Threads
  <1>3. ASSUME NEW u \in Threads, th[u].pc # "none"
        PROVE  th[u].loading = (main \in {"load_spawn", "load_join"})
    BY <1>1, <1>3 DEF DriverInv, TypeOK, ClientsPlaced, Threads
  <1> QED
    BY <1>1, <1>2, <1>3

\* A step of client t leaves the calls of the others alone.
LEMMA OtherCalls ==
    ASSUME DriverInv, NEW t \in Threads, Client(t), NEW u \in Threads, u # t
    PROVE  call'[u] = call[u]
  <1> USE DEF DriverInv, TypeOK
  <1>1. ASSUME NEW op, NEW dbop, NEW n, Invoke(t, op, dbop, n) PROVE call'[u] = call[u]
    BY <1>1 DEF Invoke
  <1>2. CASE DoInsert(t) \/ DoTransaction(t)
    BY <1>1, <1>2 DEF DoInsert, DoTransaction, NextSequenceKey, NextTransactionKey
  <1>3. CASE \E status \in Statuses : ReturnLast(t, status)
    BY <1>3 DEF ReturnLast
  <1> QED
    BY <1>2, <1>3 DEF Client, DelegateInit, Finish, ReturnRead

LEMMA CephUnchanged ==
    ASSUME UNCHANGED cephVars
    PROVE  /\ CephTypes' <=> CephTypes
           /\ CountExact' <=> CountExact
           /\ CloseSafe' <=> CloseSafe
           /\ OpsCounted' <=> OpsCounted
  BY DEF cephVars, CephTypes, CountExact, CloseSafe, OpsCounted, InState, IORecs, Keys

-----------------------------------------------------------------------------
(***************************************************************************)
(* Steps of main.                                                          *)
(***************************************************************************)
LEMMA CreateInv == ASSUME SysInv, CreateCeph PROVE SysInv'
  <1> USE DEF CreateCeph, CreateDB, Open
  <1>1. DriverInv'
    BY MainInv DEF SysInv, Main
  <1>2. CephTypes' /\ OpsCounted' /\ CountExact'
    BY DEF SysInv, CephTypes, IORecs, Keys, OpsCounted, CountExact, InState
  <1>3. HolderInCall' /\ PhaseCoherent'
    BY DEF SysInv, HolderInCall, PhaseCoherent
  <1>4. CloseWaits' /\ CloseSafe'
    BY DEF SysInv, CloseWaits, CloseSafe, InState
  <1> QED
    BY <1>1, <1>2, <1>3, <1>4 DEF SysInv

LEMMA MainOnlyInv == ASSUME SysInv, MainOnly PROVE SysInv'
  <1> USE DEF MainOnly
  <1>1. DriverInv'
    BY MainInv DEF SysInv, Main
  <1>2. CephTypes' /\ OpsCounted' /\ CountExact' /\ CloseSafe'
    BY CephUnchanged DEF SysInv
  <1>3. /\ call' = call
        /\ \A t \in Threads : th[t].pc \in {"run", "call"} => th'[t] = th[t]
        /\ \A t \in Threads : th'[t].pc \in {"run", "call"} => th'[t] = th[t]
    <2> USE DEF SysInv, DriverInv, TypeOK, ClientsPlaced
    <2>1. CASE Spawn
      BY <2>1, CountAssumption DEF Spawn, Threads
    <2>2. CASE Join
      BY <2>2, CountAssumption DEF Join, Threads
    <2> QED
      BY <2>1, <2>2 DEF SpawnDone, JoinDone, Report
  <1>4. HolderInCall'
    BY <1>3 DEF SysInv, HolderInCall, cephVars, CephTypes, NoClient
  <1>5. PhaseCoherent'
    BY <1>3 DEF SysInv, PhaseCoherent, cephVars
  <1>6. CloseWaits'
    BY DEF SysInv, CloseWaits, cephVars, Spawn, SpawnDone, Join, JoinDone, Report
  <1> QED
    BY <1>1, <1>2, <1>4, <1>5, <1>6 DEF SysInv

\* Past the wait the count is zero and, the clients being gone, nobody holds
\* mutex_: no I/O is under way when the image is closed.
LEMMA CloseInv == ASSUME SysInv, CloseStep PROVE SysInv'
  <1>1. mutex_ = NoClient
    <2>1. main = "close"
      BY DEF CloseStep, Close
    <2> QED
      BY <2>1 DEF SysInv, CephTypes, HolderInCall, DriverInv, ClientsPlaced
  <1>2. CASE /\ main = "close"
             /\ WaitBegin \/ WaitTest \/ WaitBlock
             /\ UNCHANGED <<driverVars, killed>>
    <2> USE <1>2 DEF WaitBegin, WaitTest, WaitBlock, driverVars
    <2>1. DriverInv'
      BY DriverNextInv DEF SysInv
    <2>2. CephTypes' /\ OpsCounted' /\ CountExact' /\ CloseSafe'
      BY DEF SysInv, CephTypes, IORecs, Keys, OpsCounted, CountExact, InState, CloseSafe
    <2>3. HolderInCall' /\ PhaseCoherent' /\ CloseWaits'
      BY DEF SysInv, HolderInCall, PhaseCoherent, CloseWaits
    <2> QED
      BY <2>1, <2>2, <2>3 DEF SysInv
  <1>3. CASE Close /\ CloseImage /\ UNCHANGED killed
    <2> USE <1>3 DEF Close, CloseImage
    <2>1. DriverInv'
      BY MainInv DEF SysInv, Main
    <2>2. CephTypes' /\ OpsCounted' /\ CountExact'
      BY DEF SysInv, CephTypes, IORecs, Keys, OpsCounted, CountExact, InState
    <2>3. HolderInCall' /\ PhaseCoherent' /\ CloseWaits'
      BY DEF SysInv, HolderInCall, PhaseCoherent, CloseWaits
    <2>4. InState("flight") = {}
      <3>1. Cardinality(InState("flight")) = 0
        BY <1>1, FlightFinite DEF SysInv, CephTypes, CloseWaits, CountExact
      <3> QED
        BY <3>1, FlightFinite, FS_EmptySet DEF SysInv, CephTypes
    <2>5. CloseSafe'
      BY <2>4 DEF CloseSafe, InState
    <2> QED
      BY <2>1, <2>2, <2>3, <2>5 DEF SysInv
  <1> QED
    BY <1>2, <1>3 DEF CloseStep

-----------------------------------------------------------------------------
(***************************************************************************)
(* Steps of a client.                                                      *)
(***************************************************************************)
\* What a step of client t that is a step of the driver leaves as it was.
LEMMA ClientFrame ==
    ASSUME SysInv, NEW t \in Threads, Client(t)
    PROVE  /\ DriverInv'
           /\ main' = main
           /\ th[t].pc # "none" /\ th'[t].loading = th[t].loading
           /\ main \in {"load_spawn", "load_join", "txn_spawn", "txn_join"}
           /\ image = "open" /\ waiter = "out"
           /\ \A u \in Threads \ {t} : th'[u] = th[u] /\ call'[u] = call[u]
  <1>1. /\ DriverInv' /\ main' = main
        /\ th'[t].loading = th[t].loading
        /\ \A u \in Threads \ {t} : th'[u] = th[u]
    BY ClientInv DEF SysInv
  <1>2. \A u \in Threads \ {t} : call'[u] = call[u]
    BY OtherCalls DEF SysInv
  <1>3. th[t].pc # "none"
    BY DEF Client, DelegateInit, DoInsert, DoTransaction, NextSequenceKey,
           NextTransactionKey, Invoke, Finish, ReturnRead, ReturnLast
  <1>4. main \in {"load_spawn", "load_join", "txn_spawn", "txn_join"}
    BY <1>3, LiveClient DEF SysInv
  <1>5. image = "open" /\ waiter = "out"
    BY <1>4 DEF SysInv, CloseWaits
  <1> QED
    BY <1>1, <1>2, <1>3, <1>4, <1>5

LEMMA InitCallInv == ASSUME SysInv, NEW t \in Threads, InitCall(t) PROVE SysInv'
  <1> USE DEF InitCall, SetPhase
  <1>1. Client(t)
    BY DEF Client
  <1>2. CephTypes' /\ OpsCounted' /\ CountExact' /\ CloseSafe'
    BY DEF SysInv, CephTypes, IORecs, Keys, OpsCounted, CountExact, InState, CloseSafe
  <1>3. HolderInCall' /\ CloseWaits'
    BY <1>1, ClientFrame DEF SysInv, HolderInCall, CloseWaits
  <1>4. PhaseCoherent'
    <2>1. \A u \in Threads : th[u].pc # "none" => th[u].loading = th[t].loading
      BY <1>1, ClientFrame, LiveClient DEF SysInv
    <2>2. ASSUME NEW u \in Threads, th'[u].pc \in {"run", "call"}
          PROVE  th'[u].loading = th[t].loading
      BY <1>1, <2>1, <2>2, ClientFrame
    <2> QED
      BY <2>2 DEF PhaseCoherent
  <1> QED
    BY <1>1, <1>2, <1>3, <1>4, ClientFrame DEF SysInv

LEMMA ClientOnlyInv == ASSUME SysInv, NEW t \in Threads, ClientOnly(t) PROVE SysInv'
  <1> USE DEF ClientOnly
  <1>1. Client(t)
    BY DEF Client
  <1>2. th[t].pc = "run"
    BY DEF DoInsert, DoTransaction, NextSequenceKey, NextTransactionKey, Invoke, Finish
  <1>3. CephTypes' /\ OpsCounted' /\ CountExact' /\ CloseSafe'
    BY CephUnchanged DEF SysInv
  <1>4. HolderInCall' /\ CloseWaits'
    <2>1. mutex_ # t
      BY <1>2 DEF SysInv, HolderInCall, NoClient, Threads
    <2> QED
      BY <1>1, <2>1, ClientFrame
      DEF SysInv, CephTypes, HolderInCall, CloseWaits, cephVars, NoClient
  <1>5. PhaseCoherent'
    BY <1>1, <1>2, ClientFrame DEF SysInv, PhaseCoherent, cephVars
  <1> QED
    BY <1>1, <1>3, <1>4, <1>5, ClientFrame DEF SysInv

\* The I/O submitted is not counted yet, and mutex_ says so.
LEMMA BeginIOInv == ASSUME SysInv, NEW t \in Threads, BeginIO(t) PROVE SysInv'
  <1> USE DEF BeginIO, Submit
  <1> DEFINE k == Len(io) + 1
             rec == [op |-> call[t].dbop, key |-> BuildKeyName(call[t].num), st |-> "flight"]
  <1>1. /\ main \in {"load_spawn", "load_join", "txn_spawn", "txn_join"}
        /\ image = "open" /\ waiter = "out"
    <2>1. main \in {"load_spawn", "load_join", "txn_spawn", "txn_join"}
      BY LiveClient DEF SysInv
    <2> QED
      BY <2>1 DEF SysInv, CloseWaits
  <1>2. DriverInv'
    BY DriverNextInv DEF SysInv
  <1>3. rec \in IORecs
    <2>1. call[t].num \in Nat
      BY DEF SysInv, DriverInv, TypeOK
    <2>2. BuildKeyName(call[t].num) \in Keys
      BY <2>1 DEF Keys
    <2> QED
      BY <2>2 DEF IORecs
  <1>4. io' = Append(io, rec) /\ io' \in Seq(IORecs) /\ io \in Seq(IORecs)
    BY <1>3 DEF SysInv, CephTypes
  <1>5. CephTypes'
    BY <1>4 DEF SysInv, CephTypes, IORecs, Keys
  <1>6. HolderInCall' /\ PhaseCoherent' /\ CloseWaits'
    BY <1>1 DEF SysInv, HolderInCall, PhaseCoherent, CloseWaits, driverVars
  <1>7. OpsCounted'
    BY SMTT(30) DEF SysInv, CephTypes, OpsCounted, DbOps, NoClient, Threads
  <1>8. CloseSafe'
    BY <1>1 DEF CloseSafe
  <1>9. CountExact'
    <2>1. InState("flight")' = InState("flight") \cup {k}
      <3> HIDE DEF rec
      <3>1. DOMAIN io' = DOMAIN io \cup {k} /\ io'[k] = rec
            /\ \A n \in DOMAIN io : io'[n] = io[n]
        BY <1>3, <1>4
      <3>2. rec.st = "flight"
        BY DEF rec
      <3> QED
        BY <3>1, <3>2 DEF InState
    <2>2. k \notin InState("flight")
      BY <1>4 DEF InState
    <2>3. Cardinality(InState("flight")') = Cardinality(InState("flight")) + 1
      BY <1>4, <2>1, <2>2, FlightFinite, FS_AddElement
    <2>4. mutex_' # NoClient
      BY DEF NoClient, Threads
    <2> QED
      BY <1>4, <2>3, <2>4, FlightFinite DEF SysInv, CountExact
  <1> QED
    BY <1>2, <1>5, <1>6, <1>7, <1>8, <1>9 DEF SysInv

\* A client that returns from its call stays in its phase.
LEMMA ReturnFrame ==
    ASSUME SysInv, NEW t \in Threads, Return(t), UNCHANGED <<phase, waiter, image>>
    PROVE  /\ DriverInv' /\ PhaseCoherent' /\ main' = main /\ waiter' = "out" /\ image' = "open"
  <1>1. Client(t) /\ th[t].pc = "call"
    BY CephStatus DEF Return, Client, ReturnRead, ReturnLast
  <1>2. PhaseCoherent'
    BY <1>1, ClientFrame DEF SysInv, PhaseCoherent
  <1> QED
    BY <1>1, <1>2, ClientFrame

LEMMA EndIOInv == ASSUME SysInv, NEW t \in Threads, EndIO(t) PROVE SysInv'
  <1> USE DEF EndIO, Count
  <1>1. DriverInv' /\ PhaseCoherent' /\ CloseWaits'
    BY ReturnFrame DEF CloseWaits
  <1>2. t # NoClient /\ call[t].dbop \in {"Read", "Update", "Insert"}
    BY DEF SysInv, HolderInCall, NoClient, Threads
  <1> DEFINE o == call[t].dbop
  <1>3. /\ samples' \in [DbOps -> Nat] /\ samples \in [DbOps -> Nat]
        /\ samples'[o] = samples[o] + 1
        /\ \A p \in DbOps \ {o} : samples'[p] = samples[p]
    BY <1>2 DEF SysInv, CephTypes, DbOps
  <1>4. CephTypes' /\ OpsCounted'
    <2>1. CephTypes'
      BY <1>3 DEF SysInv, CephTypes, IORecs, Keys
    <2>2. /\ ops' = ops /\ mutex_' = NoClient /\ mutex_ # NoClient
          /\ ops = samples["Read"] + samples["Update"] + samples["Insert"] + samples["Scan"] + 1
      BY <1>2 DEF SysInv, OpsCounted
    <2>3. /\ samples["Read"] \in Nat /\ samples["Update"] \in Nat
          /\ samples["Insert"] \in Nat /\ samples["Scan"] \in Nat
      BY <1>3 DEF DbOps
    <2> HIDE DEF EndIO, Count, o
    <2>4. CASE o = "Read"
      BY <1>3, <2>1, <2>2, <2>3, <2>4 DEF OpsCounted, DbOps
    <2>5. CASE o = "Update"
      BY <1>3, <2>1, <2>2, <2>3, <2>5 DEF OpsCounted, DbOps
    <2>6. CASE o = "Insert"
      BY <1>3, <2>1, <2>2, <2>3, <2>6 DEF OpsCounted, DbOps
    <2> QED
      BY <1>2, <2>4, <2>5, <2>6 DEF o
  <1>5. HolderInCall' /\ CloseSafe'
    BY DEF SysInv, HolderInCall, CloseSafe, InState
  <1>6. CountExact'
    <2>1. InState("flight")' = InState("flight")
      BY DEF InState
    <2> QED
      BY <1>2, <2>1, FlightFinite DEF SysInv, CephTypes, CountExact
  <1> QED
    BY <1>1, <1>4, <1>5, <1>6 DEF SysInv

LEMMA NoIOInv == ASSUME SysInv, NEW t \in Threads, NoIO(t) PROVE SysInv'
  <1>1. DriverInv' /\ PhaseCoherent' /\ CloseWaits'
    BY ReturnFrame DEF NoIO, InsertSkipped, Scan, cephVars, CloseWaits
  <1>2. HolderInCall' /\ CloseSafe' /\ CountExact'
    BY DEF NoIO, InsertSkipped, Scan, cephVars,
           SysInv, HolderInCall, CloseSafe, CountExact, InState
  <1>3. ASSUME InsertSkipped PROVE CephTypes' /\ OpsCounted'
    BY <1>3, CephUnchanged DEF SysInv, InsertSkipped
  <1>4. ASSUME Scan PROVE CephTypes' /\ OpsCounted'
    <2>1. /\ samples' \in [DbOps -> Nat] /\ samples \in [DbOps -> Nat]
          /\ samples'["Scan"] = samples["Scan"] + 1
          /\ \A p \in DbOps \ {"Scan"} : samples'[p] = samples[p]
      BY <1>4 DEF Scan, SysInv, CephTypes, DbOps
    <2>2. CephTypes'
      BY <1>4, <2>1 DEF Scan, SysInv, CephTypes, IORecs, Keys
    <2>3. /\ samples["Read"] \in Nat /\ samples["Update"] \in Nat
          /\ samples["Insert"] \in Nat /\ samples["Scan"] \in Nat
          /\ samples'["Read"] = samples["Read"] /\ samples'["Update"] = samples["Update"]
          /\ samples'["Insert"] = samples["Insert"]
      BY <2>1 DEF DbOps
    <2>4. ops' = ops + 1 /\ mutex_ = NoClient /\ mutex_' = NoClient
      BY <1>4 DEF Scan
    <2>5. OpsCounted'
      BY <2>1, <2>3, <2>4 DEF SysInv, OpsCounted
    <2> QED
      BY <2>2, <2>5
  <1> QED
    BY <1>1, <1>2, <1>3, <1>4 DEF NoIO, SysInv

-----------------------------------------------------------------------------
(***************************************************************************)
(* Steps of librbd.                                                        *)
(***************************************************************************)
\* Updating the state of one I/O keeps the sequence well-formed.
LEMMA SetState ==
    ASSUME io \in Seq(IORecs), NEW n \in DOMAIN io, NEW s \in {"flight", "notify", "done"},
           io' = [io EXCEPT ![n].st = s]
    PROVE  /\ io' \in Seq(IORecs)
           /\ DOMAIN io' = DOMAIN io
           /\ io'[n].st = s
           /\ \A m \in DOMAIN io \ {n} : io'[m] = io[m]
  <1>1. io[n] \in IORecs
    OBVIOUS
  <1>2. [io[n] EXCEPT !.st = s] \in IORecs /\ [io[n] EXCEPT !.st = s].st = s
    BY <1>1 DEF IORecs
  <1>3. io' = [io EXCEPT ![n] = [io[n] EXCEPT !.st = s]]
    OBVIOUS
  <1> DEFINE r == [io[n] EXCEPT !.st = s]
  <1> HIDE DEF r
  <1>4. /\ io' = [io EXCEPT ![n] = r] /\ r \in IORecs /\ r.st = s
    BY <1>2, <1>3 DEF r
  <1>5. n \in 1 .. Len(io) /\ io \in [1 .. Len(io) -> IORecs]
    OBVIOUS
  <1>6. DOMAIN io' = DOMAIN io /\ io'[n] = r /\ \A m \in DOMAIN io \ {n} : io'[m] = io[m]
    BY <1>4, <1>5
  <1>7. io' \in Seq(IORecs)
    BY <1>4, <1>5
  <1> QED
    BY <1>4, <1>6, <1>7

\* Past the wait there is no I/O left whose callback could move the count.
LEMMA CallbackInv == ASSUME SysInv, NEW n \in DOMAIN io, Callback(n) PROVE SysInv'
  <1> USE DEF Callback
  <1>1. io \in Seq(IORecs)
    BY DEF SysInv, CephTypes
  <1>2. DriverInv'
    BY DriverNextInv DEF SysInv
  <1>3. CASE aio_callback(n)
    <2> USE <1>3 DEF aio_callback
    <2>1. /\ io' \in Seq(IORecs) /\ DOMAIN io' = DOMAIN io /\ io'[n].st = "notify"
          /\ \A m \in DOMAIN io \ {n} : io'[m] = io[m]
      BY <1>1, SetState
    <2>2. CephTypes'
      BY <2>1 DEF SysInv, CephTypes, IORecs, Keys
    <2>3. HolderInCall' /\ PhaseCoherent' /\ OpsCounted'
      BY DEF SysInv, HolderInCall, PhaseCoherent, OpsCounted, driverVars
    <2>4. n \in InState("flight") /\ InState("flight")' = InState("flight") \ {n}
      BY <2>1 DEF InState
    <2>5. /\ Cardinality(InState("flight")') = Cardinality(InState("flight")) - 1
          /\ Cardinality(InState("flight")) \in Nat \ {0}
      BY <1>1, <2>4, FlightFinite, FS_RemoveElement, FS_EmptySet, ZenonT(30)
    <2>6. CountExact'
      BY <1>1, <2>5 DEF SysInv, CephTypes, CountExact
    <2>7. CloseSafe'
      BY <2>4 DEF SysInv, CloseSafe
    <2>8. waiter # "passed"
      <3>1. SUFFICES ASSUME waiter = "passed" PROVE FALSE
        OBVIOUS
      <3>2. main = "close" /\ async_op_count = 0
        BY <3>1 DEF SysInv, CloseWaits
      <3>3. mutex_ = NoClient
        BY <3>2 DEF SysInv, CephTypes, HolderInCall, DriverInv, ClientsPlaced
      <3> QED
        BY <2>5, <3>2, <3>3 DEF SysInv, CountExact
    <2>9. CloseWaits'
      BY <2>8 DEF SysInv, CloseWaits, driverVars
    <2> QED
      BY <1>2, <2>2, <2>3, <2>6, <2>7, <2>9 DEF SysInv
  <1>4. CASE notify_all(n)
    <2> USE <1>4 DEF notify_all
    <2>1. /\ io' \in Seq(IORecs) /\ DOMAIN io' = DOMAIN io /\ io'[n].st = "done"
          /\ \A m \in DOMAIN io \ {n} : io'[m] = io[m]
      BY <1>1, SetState
    <2>2. CephTypes'
      BY <2>1 DEF SysInv, CephTypes, IORecs, Keys
    <2>3. HolderInCall' /\ PhaseCoherent' /\ OpsCounted' /\ CloseWaits'
      BY DEF SysInv, HolderInCall, PhaseCoherent, OpsCounted, CloseWaits, driverVars
    <2>4. InState("flight")' = InState("flight")
      BY <2>1 DEF InState
    <2>5. CountExact' /\ CloseSafe'
      BY <2>4 DEF SysInv, CountExact, CloseSafe
    <2> QED
      BY <1>2, <2>2, <2>3, <2>5 DEF SysInv
  <1> QED
    BY <1>3, <1>4

LEMMA SysNextInv == ASSUME SysInv, [SysNext]_sysVars PROVE SysInv'
  <1>1. CASE MainStep
    BY <1>1, CreateInv, MainOnlyInv, CloseInv DEF MainStep
  <1>2. ASSUME NEW t \in Threads, ClientStep(t) PROVE SysInv'
    BY <1>2, InitCallInv, ClientOnlyInv, BeginIOInv, EndIOInv, NoIOInv DEF ClientStep
  <1>3. CASE UNCHANGED <<driverVars, cephVars>>
    <2>1. DriverInv'
      BY <1>3, DriverNextInv DEF SysInv
    <2>2. HolderInCall' /\ CloseWaits' /\ PhaseCoherent'
      BY <1>3 DEF SysInv, HolderInCall, CloseWaits, PhaseCoherent, driverVars, cephVars
    <2> QED
      BY <1>3, <2>1, <2>2, CephUnchanged DEF SysInv
  <1>4. ASSUME NEW n \in DOMAIN io, Callback(n) \/ WriteError(n) PROVE SysInv'
    BY <1>3, <1>4, CallbackInv DEF WriteError, aio_write_failed
  <1>5. CASE Wakeup
    <2> USE <1>5 DEF Wakeup, SpuriousWake
    <2>1. DriverInv'
      BY DriverNextInv DEF SysInv
    <2>2. CephTypes' /\ OpsCounted' /\ CountExact' /\ CloseSafe'
      BY DEF SysInv, CephTypes, IORecs, Keys, OpsCounted, CountExact, InState, CloseSafe
    <2>3. HolderInCall' /\ PhaseCoherent' /\ CloseWaits'
      BY DEF SysInv, HolderInCall, PhaseCoherent, CloseWaits, driverVars
    <2> QED
      BY <2>1, <2>2, <2>3 DEF SysInv
  <1>6. CASE CreateFails \/ UNCHANGED sysVars
    BY <1>3, <1>6 DEF CreateFails, sysVars
  <1> QED
    BY <1>1, <1>2, <1>4, <1>5, <1>6 DEF SysNext

-----------------------------------------------------------------------------
\* The invariant is inductive.
THEOREM SysInductive == SysSpec => []SysInv
  BY SysInitInv, SysNextInv, PTL DEF SysSpec

\* async_op_count is exact, whichever callbacks outrun their submitters.
THEOREM CountIsExact == SysSpec => []CountExact
  BY SysInductive, PTL DEF SysInv

\* Close never closes the image while an I/O is under way.
THEOREM ImageOutlivesIO == SysSpec => []CloseSafe
  BY SysInductive, PTL DEF SysInv

\* A client finds in the shared phase the phase it was started for.
THEOREM PhaseIsOwn == SysSpec => []PhaseCoherent
  BY SysInductive, PTL DEF SysInv

LEMMA CountedMatch == SysInv => OpsMatchSamples
  BY DEF SysInv, CephTypes, OpsCounted, OpsMatchSamples, DbOps

\* Outside the calls there is one sample for each operation HandleAllData counts.
THEOREM SamplesMatch == SysSpec => []OpsMatchSamples
  BY SysInductive, CountedMatch, PTL

\* What is proved of the driver alone holds of it on this database: the phases
\* are apart, and the number printed after the load is that of the key numbers
\* drawn whose Insert returned kOK, each drawn by one client.
THEOREM DriverKeepsItsWord == SysSpec => [](PhasesSeparate /\ LoadExact)
  BY DriverIncluded, LoadThenTransactions, LoadIsExact, PTL

-----------------------------------------------------------------------------
\* The variables that CephTypes leaves out.
RestTypes == /\ waiter \in {"out", "check", "sleep", "blocked", "passed"}
             /\ image \in {"none", "open", "closed"}
             /\ killed \in BOOLEAN

LEMMA RestTypesNext == ASSUME RestTypes, [SysNext]_sysVars PROVE RestTypes'
  <1> USE DEF RestTypes
  <1>1. CASE MainStep
    BY <1>1 DEF MainStep, CreateCeph, Open, MainOnly, CloseStep, WaitBegin, WaitTest, WaitBlock,
                CloseImage, cephVars
  <1>2. ASSUME NEW t \in Threads, ClientStep(t) PROVE RestTypes'
    BY <1>2 DEF ClientStep, InitCall, SetPhase, ClientOnly, BeginIO, Submit, EndIO, Count, NoIO,
                InsertSkipped, Scan, cephVars
  <1>3. ASSUME NEW n \in DOMAIN io, Callback(n) \/ WriteError(n) PROVE RestTypes'
    BY <1>3 DEF Callback, WriteError, aio_callback, notify_all, aio_write_failed, cephVars
  <1>4. CASE CreateFails \/ Wakeup \/ UNCHANGED sysVars
    BY <1>4 DEF CreateFails, Wakeup, SpuriousWake, sysVars, cephVars
  <1> QED
    BY <1>1, <1>2, <1>3, <1>4 DEF SysNext

\* Every variable of the composed system keeps its type, when the hash yields a
\* number for every key number (utils::Hash does, for every uint64_t).
THEOREM SysTypeCorrect ==
    ASSUME \A n \in Nat : Hash(n) \in Nat
    PROVE  SysSpec => []SysTypeOK
  <1>1. SysInit => RestTypes
    BY DEF SysInit, CephInit, RestTypes
  <1>2. SysInv /\ RestTypes => SysTypeOK
    <2> SUFFICES ASSUME SysInv, RestTypes PROVE SysTypeOK
      OBVIOUS
    <2> DEFINE Recs == [op : {"Read", "Update", "Insert"}, key : 0 .. record_count - 1,
                        st : {"flight", "notify", "done"}]
    <2>1. Keys \subseteq 0 .. record_count - 1
      BY CountAssumption DEF Keys, BuildKeyName
    <2>2. IORecs \subseteq Recs
      BY <2>1 DEF IORecs
    <2>3. io \in Seq(Recs)
      <3> HIDE DEF Recs
      <3>1. io \in Seq(IORecs)
        BY DEF SysInv, CephTypes
      <3>2. io = [i \in 1 .. Len(io) |-> io[i]] /\ Len(io) \in Nat
        BY <3>1
      <3>3. \A i \in 1 .. Len(io) : io[i] \in Recs
        BY <3>1, <2>2
      <3>4. [i \in 1 .. Len(io) |-> io[i]] \in Seq(Recs)
        BY <3>2, <3>3
      <3> QED
        BY <3>2, <3>4
    <2> QED
      BY <2>3 DEF SysInv, DriverInv, CephTypes, RestTypes, SysTypeOK
  <1> QED
    BY <1>1, <1>2, RestTypesNext, SysInductive, PTL DEF SysSpec

-----------------------------------------------------------------------------
(***************************************************************************)
(* The system implements Benchmark.                                        *)
(***************************************************************************)
\* Every status is 0, so every operation done is counted and main's sums are
\* whole shares.
CountedOnce ==
    /\ \A t \in Threads : th[t].oks = th[t].i
    /\ main = "load_join" => sum = cursor * Share(record_count)
    /\ main = "txn_spawn" => sum = num_threads * Share(record_count)
    /\ main = "txn_join" => sum = cursor * Share(operation_count)
    /\ main \in {"close", "report", "exit"} => sum = num_threads * Share(operation_count)

\* Only transactions start I/Os, and none outlives Close.
IOInTransactions ==
    main \notin {"txn_spawn", "txn_join", "close"} => InState("flight") = {}

BenchInv == CountedOnce /\ IOInTransactions

LEMMA BenchInvInit == SysInit => BenchInv
  BY CountAssumption DEF SysInit, Init, CephInit, BenchInv, CountedOnce, IOInTransactions, InState

\* The sums of main's joins: the client joined has used its share up and
\* counted all of it.
LEMMA MainCounts ==
    ASSUME DriverInv, Progress, CountedOnce,
           Spawn \/ SpawnDone \/ Join \/ JoinDone \/ Close \/ Report
    PROVE  CountedOnce'
  <1> USE CountAssumption DEF DriverInv
  <1>1. \A s \in Nat : 0 * s = 0
    OBVIOUS
  <1>2. CASE Spawn
    <2>1. /\ cursor + 1 \in Threads /\ main' = main /\ sum' = sum
          /\ main \in {"load_spawn", "txn_spawn"}
          /\ \A t \in Threads : t # cursor + 1 => th'[t] = th[t]
          /\ th'[cursor + 1].oks = 0 /\ th'[cursor + 1].i = 0
      BY <1>2 DEF Spawn, TypeOK, Threads
    <2> QED
      BY <2>1 DEF CountedOnce
  <1>3. CASE SpawnDone
    BY <1>1, <1>3, ShareType DEF SpawnDone, CountedOnce
  <1>4. CASE Join
    <2>1. /\ cursor + 1 \in Threads /\ cursor' = cursor + 1 /\ main' = main
          /\ main \in {"load_join", "txn_join"} /\ cursor \in Nat
          /\ \A t \in Threads : th'[t].i = th[t].i /\ th'[t].oks = th[t].oks
          /\ th[cursor + 1].pc = "done"
          /\ sum' = sum + th[cursor + 1].oks
      BY <1>4 DEF Join, TypeOK, Threads
    <2>2. th[cursor + 1].oks = IF main = "load_join" THEN Share(record_count)
                               ELSE Share(operation_count)
      <3>1. th[cursor + 1].oks = num_ops(cursor + 1)
        BY <2>1 DEF Progress, CountedOnce
      <3>2. th[cursor + 1].loading = (main = "load_join")
        BY <2>1 DEF ClientsPlaced
      <3> QED
        BY <3>1, <3>2 DEF num_ops
    <2>3. \A s \in Nat : (cursor + 1) * s = cursor * s + s
      BY <2>1, NextMultiple
    <2> QED
      BY <2>1, <2>2, <2>3, ShareType DEF CountedOnce
  <1>5. CASE JoinDone
    BY <1>5 DEF JoinDone, CountedOnce
  <1> QED
    BY <1>2, <1>3, <1>4, <1>5 DEF Close, Report, CountedOnce

\* What a client's step against this database does to the counts: the last call
\* of an operation counts it, no other step counts anything.
LEMMA ClientCounts ==
    ASSUME SysInv, NEW t \in Threads, ClientStep(t)
    PROVE  /\ main' = main /\ cursor' = cursor /\ sum' = sum
           /\ \A u \in Threads \ {t} : th'[u] = th[u]
           /\ \/ th'[t].i = th[t].i /\ th'[t].oks = th[t].oks
              \/ /\ th[t].pc = "call" /\ UNCHANGED io
                 /\ th'[t].i = th[t].i + 1 /\ th'[t].oks = th[t].oks + 1
  <1> USE DEF SysInv, DriverInv, TypeOK
  <1>1. CASE BeginIO(t)
    BY <1>1 DEF BeginIO, driverVars
  <1>2. CASE InitCall(t)
    BY <1>2 DEF InitCall, DelegateInit
  <1>3. CASE ClientOnly(t)
    <2>1. CASE Finish(t)
      BY <2>1 DEF Finish
    <2>2. CASE DoInsert(t) \/ DoTransaction(t)
      <3>1. \E op, dbop, n : Invoke(t, op, dbop, n)
        BY <2>2 DEF DoInsert, DoTransaction, NextSequenceKey, NextTransactionKey
      <3> QED
        BY <3>1 DEF Invoke
    <2> QED
      BY <1>3, <2>1, <2>2 DEF ClientOnly
  <1>4. CASE EndIO(t) \/ NoIO(t)
    <2>1. Return(t) /\ UNCHANGED io
      BY <1>4 DEF EndIO, NoIO, Count, InsertSkipped, Scan, cephVars
    <2>2. CASE ReturnRead(t)
      BY <2>2 DEF ReturnRead
    <2>3. CASE ReturnLast(t, kOK)
      BY <2>1, <2>3 DEF ReturnLast
    <2> QED
      BY <2>1, <2>2, <2>3 DEF Return
  <1> QED
    BY <1>1, <1>2, <1>3, <1>4 DEF ClientStep

LEMMA ClientCountedOnce ==
    ASSUME SysInv, CountedOnce, NEW t \in Threads, ClientStep(t)
    PROVE  CountedOnce'
  <1>1. th[t].oks = th[t].i /\ \A u \in Threads \ {t} : th'[u].oks = th'[u].i
    BY ClientCounts DEF CountedOnce
  <1>2. th'[t].oks = th'[t].i
    BY <1>1, ClientCounts
  <1> QED
    BY <1>1, <1>2, ClientCounts DEF CountedOnce

\* A callback never puts an I/O back under way.
LEMMA FlightShrinks ==
    ASSUME io \in Seq(IORecs), NEW n \in DOMAIN io, aio_callback(n) \/ notify_all(n)
    PROVE  /\ aio_callback(n) => /\ n \in InState("flight")
                                 /\ InState("flight")' = InState("flight") \ {n}
           /\ notify_all(n) => InState("flight")' = InState("flight")
  <1>1. CASE aio_callback(n)
    <2>1. /\ DOMAIN io' = DOMAIN io /\ io'[n].st = "notify" /\ io[n].st = "flight"
          /\ \A m \in DOMAIN io \ {n} : io'[m] = io[m]
      BY <1>1, SetState DEF aio_callback
    <2> QED
      BY <2>1 DEF InState, notify_all
  <1>2. CASE notify_all(n)
    <2>1. /\ DOMAIN io' = DOMAIN io /\ io'[n].st = "done" /\ io[n].st = "notify"
          /\ \A m \in DOMAIN io \ {n} : io'[m] = io[m]
      BY <1>2, SetState DEF notify_all
    <2> QED
      BY <2>1 DEF InState, aio_callback
  <1> QED
    BY <1>1, <1>2

\* A client that starts an I/O runs transactions, and main has not joined it.
LEMMA StartsInTxn ==
    ASSUME SysInv, CallsPlaced, Progress, NEW t \in Threads, BeginIO(t)
    PROVE  /\ main \in {"txn_spawn", "txn_join"}
           /\ main = "txn_spawn" => t <= cursor
           /\ th[t].i < Share(operation_count)
  <1>1. th[t].pc = "call"
    BY DEF BeginIO
  <1>2. ~th[t].loading
    <2>1. SUFFICES ASSUME th[t].loading PROVE FALSE
      OBVIOUS
    <2>2. phase = "LOAD"
      BY <1>1, <2>1 DEF SysInv, PhaseCoherent
    <2>3. call[t].dbop = "Insert"
      BY <1>1, <2>1 DEF CallsPlaced
    <2> QED
      BY <2>2, <2>3 DEF BeginIO, Submit
  <1>3. main \in {"load_spawn", "load_join", "txn_spawn", "txn_join"}
    BY <1>1, LiveClient DEF SysInv
  <1>4. th[t].i < num_ops(t)
    BY <1>1 DEF Progress
  <1> QED
    BY <1>1, <1>2, <1>3, <1>4 DEF SysInv, DriverInv, TypeOK, ClientsPlaced, Threads, num_ops

LEMMA BenchInvNext ==
    ASSUME SysInv, CallsPlaced, Progress, BenchInv, [SysNext]_sysVars
    PROVE  BenchInv'
  <1> USE DEF BenchInv
  <1>1. CASE CreateCeph
    BY <1>1 DEF CreateCeph, CreateDB, Open, CountedOnce, IOInTransactions, InState
  <1>2. CASE MainOnly
    <2>1. CountedOnce'
      BY <1>2, MainCounts DEF MainOnly, SysInv
    <2>2. IOInTransactions'
      BY <1>2 DEF MainOnly, Spawn, SpawnDone, Join, JoinDone, Report, cephVars,
                  IOInTransactions, InState
    <2> QED
      BY <2>1, <2>2
  <1>3. CASE CloseStep
    <2>1. UNCHANGED driverVars \/ Close
      BY <1>3 DEF CloseStep
    <2>2. CountedOnce'
      BY <2>1, MainCounts DEF SysInv, CountedOnce, driverVars
    <2>3. UNCHANGED io /\ SysInv'
      BY <1>3, CloseInv DEF CloseStep, WaitBegin, WaitTest, WaitBlock, CloseImage
    <2>4. ASSUME Close, CloseImage PROVE InState("flight")' = {}
      BY <2>3, <2>4 DEF SysInv, CloseSafe, CloseImage
    <2>5. IOInTransactions'
      <3>1. CASE UNCHANGED driverVars
        BY <2>3, <3>1 DEF driverVars, IOInTransactions, InState
      <3>2. CASE Close /\ CloseImage
        BY <2>4, <3>2 DEF IOInTransactions
      <3> QED
        BY <1>3, <3>1, <3>2 DEF CloseStep
    <2> QED
      BY <2>2, <2>5
  <1>4. ASSUME NEW t \in Threads, ClientStep(t) PROVE BenchInv'
    <2>1. CountedOnce' /\ main' = main
      BY <1>4, ClientCountedOnce, ClientCounts
    <2>2. CASE BeginIO(t)
      BY <2>1, <2>2, StartsInTxn DEF IOInTransactions
    <2>3. ASSUME ~BeginIO(t) PROVE UNCHANGED io
      BY <1>4, <2>3 DEF ClientStep, InitCall, SetPhase, ClientOnly, EndIO, Count, NoIO,
                        InsertSkipped, Scan, cephVars
    <2> QED
      BY <2>1, <2>2, <2>3 DEF IOInTransactions, InState
  <1>5. ASSUME NEW n \in DOMAIN io, Callback(n) PROVE BenchInv'
    <2>1. InState("flight")' \subseteq InState("flight")
      BY <1>5, FlightShrinks DEF Callback, SysInv, CephTypes
    <2> QED
      BY <1>5, <2>1 DEF Callback, driverVars, CountedOnce, IOInTransactions
  <1>6. ASSUME UNCHANGED driverVars, UNCHANGED io PROVE BenchInv'
    BY <1>6 DEF driverVars, CountedOnce, IOInTransactions, InState
  <1>7. ASSUME CreateFails \/ Wakeup \/ UNCHANGED sysVars
        PROVE  UNCHANGED driverVars /\ UNCHANGED io
    BY <1>7 DEF CreateFails, Wakeup, SpuriousWake, cephVars, sysVars
  <1>8. ASSUME NEW n \in DOMAIN io, WriteError(n)
        PROVE  UNCHANGED driverVars /\ UNCHANGED io
    BY <1>8 DEF WriteError, aio_write_failed, cephVars
  <1> HIDE DEF BenchInv
  <1> QED
    BY <1>1, <1>2, <1>3, <1>4, <1>5, <1>6, <1>7, <1>8 DEF SysNext, MainStep

-----------------------------------------------------------------------------
(* Steps map to steps *)

\* The operations that remain, told apart by client and number.
LEMMA RemainingOf ==
    ASSUME NEW x
    PROVE  x \in Remaining <=>
             \/ /\ StageOf[main] = "load" /\ x \in Pieces(record_count) /\ Undone(x)
             \/ /\ StageOf[main] = "txn" /\ x \in Pieces(operation_count) /\ Undone(x)
  BY DEF Remaining

LEMMA PiecesCount ==
    ASSUME NEW total \in Nat
    PROVE  Cardinality(Pieces(total)) = num_threads * Share(total)
  <1>1. \A k \in Nat : IsFiniteSet(1 .. k) /\ Cardinality(1 .. k) = k
    BY FS_Interval
  <1>2. num_threads \in Nat /\ Share(total) \in Nat
    BY CountAssumption, ShareType
  <1>3. /\ IsFiniteSet(Threads) /\ Cardinality(Threads) = num_threads
        /\ IsFiniteSet(1 .. Share(total)) /\ Cardinality(1 .. Share(total)) = Share(total)
    BY <1>1, <1>2 DEF Threads
  <1>4. Cardinality(Threads \X (1 .. Share(total))) =
           Cardinality(Threads) * Cardinality(1 .. Share(total))
    BY <1>3, FS_Product
  <1> QED
    BY <1>3, <1>4 DEF Pieces

LEMMA BenchInitMaps == SysInit => Run!BenchInit
  <1> SUFFICES ASSUME SysInit PROVE Run!BenchInit
    OBVIOUS
  <1> USE DEF SysInit, Init, CephInit
  <1>1. InState("flight") = {}
    BY DEF InState
  <1>2. \A x : x \in Pieces(record_count) => Undone(x)
    BY ShareType, CountAssumption DEF Pieces, Undone
  <1>3. Remaining = Pieces(record_count)
    BY <1>2 DEF Remaining, StageOf
  <1> QED
    BY <1>1, <1>3, FS_EmptySet DEF Run!BenchInit, StageOf

\* The set of operations that remain is the same as long as the stage is and
\* each client has done as many as before.
LEMMA SameRemaining ==
    ASSUME StageOf[main'] = StageOf[main],
           \A t \in Threads : (IF main' = "txn_spawn" /\ t > cursor' THEN 0 ELSE th'[t].i)
                              = (IF main = "txn_spawn" /\ t > cursor THEN 0 ELSE th[t].i)
    PROVE  Remaining' = Remaining
  <1>1. ASSUME NEW total \in {record_count, operation_count}, NEW x \in Pieces(total)
        PROVE  Undone(x)' <=> Undone(x)
    <2>1. x[1] \in Threads
      BY <1>1 DEF Pieces
    <2> QED
      BY <2>1 DEF Undone
  <1> QED
    BY <1>1 DEF Remaining

LEMMA StartAdds ==
    ASSUME SysInv, NEW t \in Threads, BeginIO(t)
    PROVE  Cardinality(InState("flight"))' = Cardinality(InState("flight")) + 1
  <1> DEFINE k == Len(io) + 1
  <1>1. io \in Seq(IORecs)
    BY DEF SysInv, CephTypes
  <1>2. PICK rec : io' = Append(io, rec) /\ rec.st = "flight"
    BY DEF BeginIO, Submit
  <1>3. DOMAIN io' = DOMAIN io \cup {k} /\ io'[k] = rec
        /\ \A n \in DOMAIN io : io'[n] = io[n]
    BY <1>1, <1>2
  <1>4. InState("flight")' = InState("flight") \cup {k}
    BY <1>2, <1>3 DEF InState
  <1>5. k \notin InState("flight")
    BY <1>1 DEF InState
  <1>6. IsFiniteSet(InState("flight"))
    BY <1>1, FlightFinite
  <1> QED
    BY <1>4, <1>5, <1>6, FS_AddElement

LEMMA MainMaps ==
    ASSUME SysInv, Progress, BenchInv, BenchInv', ~killed, MainStep
    PROVE  [Run!BenchNext]_(Run!benchVars)
  <1> USE CountAssumption
  <1> DEFINE flight == Cardinality(InState("flight"))
             told == IF main \in {"txn_spawn", "close", "report", "exit"} THEN sum ELSE 0
  <1>0. TypeOK
    BY DEF SysInv, DriverInv
  <1>1. ~killed' /\ UNCHANGED io
    <2>1. UNCHANGED killed /\ UNCHANGED io
      BY DEF MainStep, CreateCeph, Open, MainOnly, CloseStep, WaitBegin, WaitTest, WaitBlock,
             CloseImage, cephVars
    <2> QED
      BY <2>1
  <1>2. flight' = flight
    BY <1>1 DEF InState
  <1> HIDE DEF flight
  <1>3. ASSUME StageOf[main'] = StageOf[main], Remaining' = Remaining, told' = told
        PROVE  UNCHANGED Run!benchVars
    BY <1>1, <1>2, <1>3 DEF Run!benchVars, flight
  <1>4. CASE UNCHANGED driverVars
    <2>1. UNCHANGED <<main, cursor, sum, th>>
      BY <1>4 DEF driverVars
    <2>2. Remaining' = Remaining
      BY <2>1, SameRemaining
    <2> QED
      BY <1>3, <2>1, <2>2
  <1>5. CASE CreateDB(TRUE)
    <2>1. main = "create" /\ main' = "load_spawn" /\ th' = th
      BY <1>5 DEF CreateDB
    <2>2. Remaining' = Remaining /\ told' = told /\ StageOf[main'] = StageOf[main]
      BY <2>1, SameRemaining DEF StageOf
    <2> QED
      BY <1>3, <2>2
  <1>6. CASE Spawn
    <2>1. /\ cursor + 1 \in Threads /\ cursor' = cursor + 1 /\ main' = main /\ sum' = sum
          /\ main \in {"load_spawn", "txn_spawn"} /\ cursor \in Nat
          /\ \A t \in Threads : t # cursor + 1 => th'[t] = th[t]
          /\ th'[cursor + 1].i = 0
      BY <1>0, <1>6 DEF Spawn, TypeOK, Threads
    <2>2. main = "load_spawn" => th[cursor + 1].i = 0
      BY <2>1 DEF Progress
    <2>3. ASSUME NEW t \in Threads
          PROVE  (IF main' = "txn_spawn" /\ t > cursor' THEN 0 ELSE th'[t].i)
                 = (IF main = "txn_spawn" /\ t > cursor THEN 0 ELSE th[t].i)
      BY <2>1, <2>2 DEF Threads
    <2>4. Remaining' = Remaining
      BY <2>1, <2>3, SameRemaining
    <2> QED
      BY <1>3, <2>1, <2>4
  <1>7. CASE SpawnDone
    <2>1. /\ cursor = num_threads /\ cursor' = 0 /\ sum' = 0 /\ th' = th
          /\ \/ main = "load_spawn" /\ main' = "load_join"
             \/ main = "txn_spawn" /\ main' = "txn_join"
      BY <1>7 DEF SpawnDone
    <2>2. Remaining' = Remaining /\ StageOf[main'] = StageOf[main]
      BY <2>1, SameRemaining DEF StageOf, Threads
    <2>3. CASE main = "load_spawn"
      BY <1>3, <2>1, <2>2, <2>3
    <2>4. CASE main = "txn_spawn"
      <3>1. Run!Forget
        BY <1>1, <1>2, <2>1, <2>2, <2>4 DEF Run!Forget, StageOf, flight
      <3> QED
        BY <3>1 DEF Run!BenchNext
    <2> QED
      BY <2>1, <2>3, <2>4
  <1>8. CASE Join
    <2>1. /\ main' = main /\ main \in {"load_join", "txn_join"}
          /\ \A t \in Threads : th'[t].i = th[t].i
      BY <1>0, <1>8 DEF Join, TypeOK, Threads
    <2>2. Remaining' = Remaining
      BY <2>1, SameRemaining
    <2> QED
      BY <1>3, <2>1, <2>2
  <1>9. CASE JoinDone
    <2>1. /\ cursor = num_threads /\ cursor' = 0 /\ sum' = sum /\ th' = th
          /\ \/ main = "load_join" /\ main' = "txn_spawn"
             \/ main = "txn_join" /\ main' = "close"
          /\ \A t \in Threads : t <= cursor
      BY <1>9 DEF JoinDone, Threads
    <2>2. CASE main = "load_join"
      <3>1. \A t \in Threads : th[t].i = Share(record_count)
        BY <2>1, <2>2 DEF Progress
      <3>2. \A x \in Pieces(record_count) : ~Undone(x)
        BY <2>2, <3>1, ShareType DEF Pieces, Undone
      <3>3. Remaining = {}
        BY <2>2, <3>2 DEF Remaining, StageOf
      <3>4. \A x \in Pieces(operation_count) : Undone(x)'
        BY <2>1, <2>2, ShareType DEF Pieces, Undone, Threads
      <3>5. Remaining' = Pieces(operation_count)
        BY <2>1, <2>2, <3>4 DEF Remaining, StageOf
      <3>6. sum' = Cardinality(Pieces(record_count))
        BY <2>1, <2>2, PiecesCount DEF BenchInv, CountedOnce
      <3>7. Run!Switch
        BY <1>1, <1>2, <2>1, <2>2, <3>3, <3>5, <3>6 DEF Run!Switch, StageOf, flight
      <3> QED
        BY <3>7 DEF Run!BenchNext
    <2>3. CASE main = "txn_join"
      <3>1. \A t \in Threads : th[t].i = Share(operation_count)
        BY <2>1, <2>3 DEF Progress
      <3>2. \A x \in Pieces(operation_count) : ~Undone(x)
        BY <2>3, <3>1, ShareType DEF Pieces, Undone
      <3>3. Remaining = {} /\ Remaining' = {}
        BY <2>1, <2>3, <3>2 DEF Remaining, StageOf
      <3>4. sum' = Cardinality(Pieces(operation_count))
        BY <2>1, <2>3, PiecesCount DEF BenchInv, CountedOnce
      <3>5. Run!Joined
        BY <1>1, <1>2, <2>1, <2>3, <3>3, <3>4 DEF Run!Joined, StageOf, flight
      <3> QED
        BY <3>5 DEF Run!BenchNext
    <2> QED
      BY <2>1, <2>2, <2>3
  <1>10. CASE Close
    <2>1. main = "close" /\ main' = "report" /\ sum' = sum
      BY <1>10 DEF Close
    <2>2. Remaining = {} /\ Remaining' = {}
      BY <2>1 DEF Remaining, StageOf
    <2>3. InState("flight")' = {}
      BY <2>1 DEF BenchInv, IOInTransactions
    <2>4. flight = 0
      BY <1>2, <2>3, FS_EmptySet DEF flight
    <2>5. Run!Closed
      BY <1>1, <1>2, <2>1, <2>2, <2>4 DEF Run!Closed, StageOf, flight
    <2> QED
      BY <2>5 DEF Run!BenchNext
  <1>11. CASE Report
    <2>1. main = "report" /\ main' = "exit" /\ sum' = sum
      BY <1>11 DEF Report
    <2>2. Remaining = {} /\ Remaining' = {}
      BY <2>1 DEF Remaining, StageOf
    <2>3. Run!End
      BY <1>1, <1>2, <2>1, <2>2 DEF Run!End, StageOf, flight
    <2> QED
      BY <2>3 DEF Run!BenchNext
  <1> QED
    BY <1>4, <1>5, <1>6, <1>7, <1>8, <1>9, <1>10, <1>11
    DEF MainStep, CreateCeph, MainOnly, CloseStep

LEMMA ClientMaps ==
    ASSUME SysInv, CallsPlaced, Progress, ~killed, NEW t \in Threads, ClientStep(t)
    PROVE  [Run!BenchNext]_(Run!benchVars)
  <1> USE CountAssumption
  <1>0. TypeOK /\ th[t].i \in Nat
    BY DEF SysInv, DriverInv, TypeOK
  <1>1. ~killed' /\ main' = main /\ cursor' = cursor /\ sum' = sum
    BY ClientCounts DEF ClientStep, InitCall, ClientOnly, BeginIO, EndIO, NoIO
  <1>2. CASE th'[t].i = th[t].i
    <2>1. \A u \in Threads : th'[u].i = th[u].i
      BY <1>2, ClientCounts
    <2>2. Remaining' = Remaining
      BY <1>1, <2>1, SameRemaining
    <2>3. CASE BeginIO(t)
      <3>1. main \in {"txn_spawn", "txn_join"}
        BY <2>3, StartsInTxn
      <3>2. <<t, th[t].i + 1>> \in Remaining
        <4>1. <<t, th[t].i + 1>> \in Pieces(operation_count)
          BY <1>0, <2>3, StartsInTxn, ShareType DEF Pieces
        <4>2. Undone(<<t, th[t].i + 1>>)
          BY <1>0 DEF Undone
        <4> QED
          BY <3>1, <4>1, <4>2 DEF Remaining, StageOf
      <3>3. Cardinality(InState("flight"))' = Cardinality(InState("flight")) + 1
        BY <2>3, StartAdds
      <3>4. Run!Start
        BY <1>1, <2>2, <3>1, <3>2, <3>3 DEF Run!Start, StageOf
      <3> QED
        BY <3>4 DEF Run!BenchNext
    <2>4. CASE ~BeginIO(t)
      <3>1. InState("flight")' = InState("flight")
        <4>1. CASE EndIO(t) \/ NoIO(t)
          BY <4>1 DEF EndIO, Count, NoIO, InsertSkipped, Scan, cephVars, InState
        <4>2. CASE InitCall(t) \/ ClientOnly(t)
          BY <4>2 DEF InitCall, SetPhase, ClientOnly, cephVars, InState
        <4> QED
          BY <2>4, <4>1, <4>2 DEF ClientStep
      <3> QED
        BY <1>1, <2>2, <3>1 DEF Run!benchVars
    <2> QED
      BY <2>3, <2>4
  <1>3. CASE /\ th[t].pc = "call" /\ UNCHANGED io
             /\ th'[t].i = th[t].i + 1 /\ \A u \in Threads \ {t} : th'[u] = th[u]
    <2> DEFINE piece == <<t, th[t].i + 1>>
    <2>1. /\ main \in {"load_spawn", "load_join", "txn_spawn", "txn_join"}
          /\ main = "txn_spawn" => ~(t > cursor)
      <3>1. th[t].pc # "none"
        BY <1>3
      <3>2. main \in {"load_spawn", "load_join", "txn_spawn", "txn_join"}
        BY <3>1, LiveClient DEF SysInv
      <3>3. main = "txn_spawn" => ~(t > cursor)
        BY <3>1 DEF SysInv, DriverInv, ClientsPlaced
      <3> QED
        BY <3>2, <3>3
    <2>2. th[t].i < Share(IF StageOf[main] = "load" THEN record_count ELSE operation_count)
      <3>1. th[t].i < num_ops(t)
        BY <1>3 DEF Progress
      <3>2. th[t].loading = (StageOf[main] = "load")
        BY <1>3, <2>1 DEF SysInv, DriverInv, TypeOK, ClientsPlaced, StageOf, Threads
      <3> QED
        BY <3>1, <3>2 DEF num_ops
    <2>3. piece \in Remaining
      BY <1>0, <2>1, <2>2, ShareType DEF Remaining, Pieces, Undone, StageOf
    <2>4. ASSUME NEW total \in {record_count, operation_count}, NEW x \in Pieces(total)
          PROVE  Undone(x)' <=> (Undone(x) /\ x # piece)
      <3>1. x[1] \in Threads /\ x[2] \in Nat /\ x = <<x[1], x[2]>>
        BY <2>4, ShareType DEF Pieces
      <3>2. CASE x[1] = t
        <4>1. Undone(x) <=> x[2] > th[t].i
          BY <2>1, <3>2 DEF Undone
        <4>2. Undone(x)' <=> x[2] > th[t].i + 1
          BY <1>1, <1>3, <2>1, <3>2 DEF Undone
        <4>3. x = piece <=> x[2] = th[t].i + 1
          BY <3>1, <3>2
        <4> QED
          BY <1>0, <3>1, <4>1, <4>2, <4>3
      <3>3. CASE x[1] # t
        BY <1>1, <1>3, <3>1, <3>3 DEF Undone
      <3> QED
        BY <3>2, <3>3
    <2>5. Remaining' = Remaining \ {piece}
      <3> HIDE DEF piece
      <3> QED
        BY <1>1, <2>4 DEF Remaining
    <2>6. Cardinality(InState("flight"))' = Cardinality(InState("flight"))
      BY <1>3 DEF InState
    <2>7. Run!Do
      <3> HIDE DEF piece
      <3> QED
        BY <1>1, <2>1, <2>3, <2>5, <2>6 DEF Run!Do, StageOf
    <2> QED
      BY <2>7 DEF Run!BenchNext
  <1> QED
    BY <1>2, <1>3, ClientCounts

LEMMA RbdMaps ==
    ASSUME SysInv, BenchInv, ~killed, NEW n \in DOMAIN io, Callback(n) \/ WriteError(n)
    PROVE  [Run!BenchNext]_(Run!benchVars)
  <1>1. UNCHANGED <<main, cursor, sum, th>> /\ io \in Seq(IORecs)
    BY DEF Callback, WriteError, driverVars, SysInv, CephTypes
  <1>2. Remaining' = Remaining
    BY <1>1, SameRemaining
  <1>3. CASE n \in InState("flight") /\ WriteError(n)
    <2>1. Cardinality(InState("flight")) > 0
      BY <1>1, <1>3, FlightFinite, FS_EmptySet
    <2>2. Cardinality(InState("flight"))' = Cardinality(InState("flight"))
      BY <1>3 DEF WriteError, aio_write_failed, cephVars, InState
    <2>3. Run!Die
      BY <1>1, <1>2, <1>3, <2>1, <2>2 DEF Run!Die, WriteError
    <2> QED
      BY <2>3 DEF Run!BenchNext
  <1>4. CASE Callback(n) /\ aio_callback(n)
    <2>1. n \in InState("flight") /\ InState("flight")' = InState("flight") \ {n}
      BY <1>1, <1>4, FlightShrinks
    <2>2. /\ Cardinality(InState("flight")') = Cardinality(InState("flight")) - 1
          /\ Cardinality(InState("flight")) \in Nat \ {0}
      BY <1>1, <2>1, FlightFinite, FS_RemoveElement, FS_EmptySet, ZenonT(30)
    <2>3. main \in {"txn_spawn", "txn_join", "close"}
      BY <2>1 DEF BenchInv, IOInTransactions
    <2>4. Run!Complete
      BY <1>1, <1>2, <1>4, <2>2, <2>3 DEF Run!Complete, Callback, StageOf
    <2> QED
      BY <2>4 DEF Run!BenchNext
  <1>5. CASE Callback(n) /\ notify_all(n)
    <2>1. InState("flight")' = InState("flight")
      BY <1>1, <1>5, FlightShrinks
    <2> QED
      BY <1>1, <1>2, <1>5, <2>1 DEF Run!benchVars, Callback
  <1>6. WriteError(n) => n \in InState("flight")
    BY DEF WriteError, aio_write_failed, InState
  <1> QED
    BY <1>3, <1>4, <1>5, <1>6 DEF Callback

LEMMA OtherMaps ==
    ASSUME SysInv, Progress, ~killed, CreateFails \/ Wakeup
    PROVE  [Run!BenchNext]_(Run!benchVars)
  <1>1. UNCHANGED <<main, cursor, sum, th, io>>
    BY DEF CreateFails, Wakeup, SpuriousWake, driverVars, cephVars
  <1>2. Remaining' = Remaining
    BY <1>1, SameRemaining
  <1>3. Cardinality(InState("flight"))' = Cardinality(InState("flight"))
    BY <1>1 DEF InState
  <1>4. CASE CreateFails
    <2>1. main = "create" /\ killed'
      BY <1>4 DEF CreateFails
    <2>2. \A t \in Threads : th[t].i = 0
      BY <2>1 DEF Progress, SysInv, DriverInv, ClientsPlaced, Threads
    <2>3. \A x \in Pieces(record_count) : Undone(x)
      BY <2>1, <2>2, ShareType, CountAssumption DEF Pieces, Undone
    <2>4. Remaining = Pieces(record_count)
      BY <2>1, <2>3 DEF Remaining, StageOf
    <2>5. Run!Die
      BY <1>1, <1>2, <1>3, <2>1, <2>4 DEF Run!Die, StageOf
    <2> QED
      BY <2>5 DEF Run!BenchNext
  <1>5. CASE Wakeup
    BY <1>1, <1>2, <1>3, <1>5 DEF Wakeup, Run!benchVars
  <1> QED
    BY <1>4, <1>5

LEMMA FrozenMaps == ASSUME UNCHANGED sysVars PROVE UNCHANGED Run!benchVars
  <1>1. UNCHANGED <<main, cursor, sum, th, io, killed>>
    BY DEF sysVars, driverVars, cephVars
  <1>2. Remaining' = Remaining
    BY <1>1, SameRemaining
  <1> QED
    BY <1>1, <1>2 DEF Run!benchVars, InState

\* Run against RealCephDB, for any number of threads, records and operations, the
\* benchmark is a Benchmark: although every client overwrites the phase of the
\* database, the status of a call says nothing and I/Os outlive their calls,
\* loads and transactions do not overlap, loads start no I/O, the sums of main
\* count each operation once, and the image is closed under no I/O.
THEOREM BenchmarkImplemented == SysSpec => BenchmarkSpec
  <1>1. SysSpec => [](CallsPlaced /\ Progress)
    BY DriverIncluded, LoadAccounted, DriverProgress, PTL
  <1>2. SysSpec => []BenchInv
    BY BenchInvInit, BenchInvNext, SysInductive, <1>1, PTL DEF SysSpec
  <1>3. ASSUME SysInv, CallsPlaced, Progress, BenchInv, BenchInv', [SysNext]_sysVars
        PROVE  [Run!BenchNext]_(Run!benchVars)
    <2>1. CASE UNCHANGED sysVars
      BY <2>1, FrozenMaps
    <2>2. CASE SysNext
      BY <1>3, <2>2, MainMaps, ClientMaps, RbdMaps, OtherMaps DEF SysNext, Running
    <2> QED
      BY <1>3, <2>1, <2>2
  <1> QED
    BY BenchInitMaps, <1>1, <1>2, <1>3, SysInductive, PTL
    DEF SysSpec, BenchmarkSpec, Run!BenchSpec
=============================================================================
