--------------------------- MODULE YcsbcRealCeph ---------------------------
(***************************************************************************)
(* The benchmark run against RealCephDB (ycsbc -db real_ceph): the driver  *)
(* of Ycsbc and the database of RealCephDB, with a step of both wherever   *)
(* the driver calls the database.  killed is the process ended by exit(1), *)
(* in the constructor or in the callback of a failed write.                *)
(***************************************************************************)
EXTENDS Ycsbc, RealCephDB

\* Every call of the database returns 0.
ASSUME CephStatus == kOK \in Statuses

VARIABLE killed

sysVars == <<driverVars, cephVars, killed>>

Running == ~killed

SysInit == Init /\ CephInit /\ killed = FALSE

-----------------------------------------------------------------------------
\* main.

CreateCeph == CreateDB(TRUE) /\ Open /\ UNCHANGED killed

\* rados_create, rados_connect, rbd_open ... failed.
CreateFails == /\ main = "create"
               /\ killed' = TRUE
               /\ UNCHANGED <<driverVars, cephVars>>

\* Steps of main that do not touch the database.
MainOnly == /\ Spawn \/ SpawnDone \/ Join \/ JoinDone \/ Report
            /\ UNCHANGED <<cephVars, killed>>

\* db->Close(): main is in it from WaitBegin to CloseImage.
CloseStep == \/ /\ main = "close"
                /\ WaitBegin \/ WaitTest \/ WaitBlock
                /\ UNCHANGED <<driverVars, killed>>
             \/ Close /\ CloseImage /\ UNCHANGED killed

MainStep == CreateCeph \/ MainOnly \/ CloseStep

-----------------------------------------------------------------------------
\* Client t.

InitCall(t) == /\ DelegateInit(t)
               /\ SetPhase(th[t].loading)
               /\ UNCHANGED killed

ClientOnly(t) == /\ DoInsert(t) \/ DoTransaction(t) \/ Finish(t)
                 /\ UNCHANGED <<cephVars, killed>>

\* Mutant of Return: the client of a read-modify-write counts both its calls.
ReturnTwice(t) ==
    \/ ReturnLast(t, kOK)
    \/ /\ call[t].op = "READMODIFYWRITE" /\ call[t].dbop = "Read"
       /\ th' = [th EXCEPT ![t].oks = @ + 1]
       /\ call' = [call EXCEPT ![t].dbop = "Update"]
       /\ UNCHANGED <<main, cursor, sum, counter, loaded>>

\* The status is 0 whatever the call did.
Return(t) == ReturnRead(t) \/ ReturnLast(t, kOK)

BeginIO(t) == /\ th[t].pc = "call"
              /\ Submit(t, call[t].dbop, BuildKeyName(call[t].num))
              /\ UNCHANGED <<driverVars, killed>>

EndIO(t) == /\ Count(t, call[t].dbop)
            /\ Return(t)
            /\ UNCHANGED killed

NoIO(t) == /\ th[t].pc = "call"
           /\ \/ call[t].dbop = "Insert" /\ InsertSkipped
              \/ call[t].dbop = "Scan" /\ Scan
           /\ Return(t)
           /\ UNCHANGED killed

ClientStep(t) == InitCall(t) \/ ClientOnly(t) \/ BeginIO(t) \/ EndIO(t) \/ NoIO(t)

-----------------------------------------------------------------------------
\* librbd.

Callback(n) == /\ aio_callback(n) \/ notify_all(n)
               /\ UNCHANGED <<driverVars, killed>>

WriteError(n) == /\ aio_write_failed(n)
                 /\ killed' = TRUE
                 /\ UNCHANGED driverVars

Wakeup == SpuriousWake /\ UNCHANGED <<driverVars, killed>>

SysNext == \/ Running /\ MainStep
           \/ Running /\ CreateFails
           \/ \E t \in Threads : Running /\ ClientStep(t)
           \/ \E n \in DOMAIN io : Running /\ (Callback(n) \/ WriteError(n))
           \/ Running /\ Wakeup

SysSpec == SysInit /\ [][SysNext]_sysVars

\* The most I/Os a run submits: two for each transaction, a read-modify-write.
MaxIO == 2 * operation_count

\* Threads are scheduled and every I/O ends; nothing promises a spurious wakeup.
SysFairSpec ==
    /\ SysSpec
    /\ WF_sysVars(Running /\ MainStep)
    /\ \A t \in Threads : WF_sysVars(Running /\ ClientStep(t))
    /\ \A n \in 1 .. MaxIO : WF_sysVars(Running /\ n \in DOMAIN io /\ Callback(n))

-----------------------------------------------------------------------------
\* Every variable of the composed system keeps its type.
SysTypeOK ==
    /\ TypeOK
    /\ phase \in {"INVALID", "LOAD", "TRANSACTION"}
    /\ ops \in Nat
    /\ samples \in [DbOps -> Nat]
    /\ mutex_ \in Threads \cup {NoClient}
    /\ io \in Seq([op : {"Read", "Update", "Insert"}, key : 0 .. record_count - 1,
                   st : {"flight", "notify", "done"}])
    /\ async_op_count \in Int
    /\ waiter \in {"out", "check", "sleep", "blocked", "passed"}
    /\ image \in {"none", "open", "closed"}
    /\ killed \in BOOLEAN

\* async_op_count is the number of I/Os whose callback has not decremented it,
\* less the one that is submitted and not yet counted (mutex_ is held only
\* there).  A callback that outruns its submitter takes the count to -1.
CountExact ==
    async_op_count = Cardinality(InState("flight")) - (IF mutex_ = NoClient THEN 0 ELSE 1)

\* The image is open as long as an I/O is under way: Close, which trusts the
\* count alone, never closes it under librbd.
CloseSafe == InState("flight") # {} => image = "open"

\* A client works in the phase it was started for, although phase is one
\* variable that every starting client overwrites.
PhaseCoherent ==
    \A t \in Threads : th[t].pc \in {"run", "call"} =>
        phase = IF th[t].loading THEN "LOAD" ELSE "TRANSACTION"

\* HandleAllData divides ops by the sum of the samples: outside the calls there
\* is one sample for each operation counted.
OpsMatchSamples ==
    mutex_ = NoClient =>
        ops = samples["Read"] + samples["Update"] + samples["Insert"] + samples["Scan"]

-----------------------------------------------------------------------------
\* The benchmark that a state of the system stands for: the stage main is in,
\* and of the share of each client the operations it has yet to do.
StageOf == [create |-> "load", load_spawn |-> "load", load_join |-> "load",
            txn_spawn |-> "txn", txn_join |-> "txn",
            close |-> "joined", report |-> "closed", exit |-> "exit"]

Pieces(total) == Threads \X (1 .. Share(total))

\* A client that main has not started again in txn_spawn has done nothing.
Undone(x) == x[2] > (IF main = "txn_spawn" /\ x[1] > cursor THEN 0 ELSE th[x[1]].i)

Remaining == {x \in Pieces(record_count) : StageOf[main] = "load" /\ Undone(x)}
             \cup {x \in Pieces(operation_count) : StageOf[main] = "txn" /\ Undone(x)}

Run == INSTANCE Benchmark
         WITH Loads <- Pieces(record_count),
              Txns <- Pieces(operation_count),
              NumLoads <- Cardinality(Pieces(record_count)),
              NumTxns <- Cardinality(Pieces(operation_count)),
              stage <- IF killed THEN "dead" ELSE StageOf[main],
              todo <- Remaining,
              flight <- Cardinality(InState("flight")),
              told <- IF main \in {"txn_spawn", "close", "report", "exit"} THEN sum ELSE 0

\* The status of a call is always 0 and an I/O outlives the call that started
\* it, yet the run is a Benchmark: loads and transactions do not overlap and
\* loads start no I/O, although the phase is one variable of the database that
\* every client overwrites; main's sums count each operation once, a
\* read-modify-write too; and the image is closed after the last I/O.
BenchmarkSpec == Run!BenchSpec

\* The clients finish: main gets to db->Close() unless the process was ended.
ClientsFinish == <>(main \in {"close", "report", "exit"} \/ killed)

\* ycsbc.cc:98, "HandleAllData is called here": after Close main calls HandleAllData.
ReportReached == <>(main = "exit" \/ killed)
=============================================================================
