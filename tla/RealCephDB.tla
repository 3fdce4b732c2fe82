----------------------------- MODULE RealCephDB -----------------------------
(***************************************************************************)
(* The database backed by a Ceph RBD image (db/real_ceph_db.h).  Read,     *)
(* Update and Insert hand the I/O to librbd and return; librbd runs a      *)
(* completion callback on a thread of its own.  async_op_count counts the  *)
(* I/Os under way: the client increments it after the submission, the      *)
(* callback decrements it and notifies async_op_cv, without taking         *)
(* async_op_mutex.  Close waits on async_op_cv until the count is zero and *)
(* closes the image.                                                       *)
(*                                                                         *)
(* The module gives the steps of the database for a client t; a module     *)
(* that composes it with its callers says when they are taken.             *)
(***************************************************************************)
EXTENDS Integers, Sequences, FiniteSets


VARIABLES phase,           \* phase
          ops,             \* ops
          samples,         \* the lengths of READ_TIME, INSERT_TIME, ...
          mutex_,          \* the client that holds mutex_, or NoClient
          io,              \* the I/Os submitted, in order: what each is and
                           \* where it is ("flight", "notify" or "done")
          async_op_count,  \* async_op_count
          waiter,          \* Close in async_op_cv.wait: "out", "check" (about
                           \* to test the count), "sleep" (found it non-zero,
                           \* about to block), "blocked" or "passed"
          image            \* "none", "open" or "closed"

cephVars == <<phase, ops, samples, mutex_, io, async_op_count, waiter, image>>

\* Clients are threads 1, 2, ...; nobody holds mutex_.
NoClient == 0

DbOps == {"Read", "Update", "Insert", "Scan"}

CephInit == /\ phase = "INVALID"
            /\ ops = 0
            /\ samples = [o \in DbOps |-> 0]
            /\ mutex_ = NoClient
            /\ io = <<>>
            /\ async_op_count = 0
            /\ waiter = "out"
            /\ image = "none"

\* The I/Os that librbd has not completed, and those completed whose callback
\* has yet to notify.
InState(s) == {n \in DOMAIN io : io[n].st = s}

-----------------------------------------------------------------------------
\* The constructor opened the image.  (It exits the process when it cannot.)
Open == /\ image = "none"
        /\ image' = "open"
        /\ UNCHANGED <<phase, ops, samples, mutex_, io, async_op_count, waiter>>

\* Mutant of SetPhase: the phase is set once.
SetPhaseOnce(loading) ==
    /\ mutex_ = NoClient
    /\ phase' = IF phase = "INVALID" THEN "LOAD" ELSE phase
    /\ UNCHANGED <<ops, samples, mutex_, io, async_op_count, waiter, image>>

\* Mutant of SetPhase: mutex_ is taken and not released.
SetPhaseKeepsLock(loading) ==
    /\ mutex_ = NoClient
    /\ mutex_' = IF loading THEN NoClient ELSE -1
    /\ phase' = IF loading THEN "LOAD" ELSE "TRANSACTION"
    /\ UNCHANGED <<ops, samples, io, async_op_count, waiter, image>>

\* Init(flag), under mutex_.
SetPhase(loading) ==
    /\ mutex_ = NoClient
    /\ phase' = IF loading THEN "LOAD" ELSE "TRANSACTION"
    /\ UNCHANGED <<ops, samples, mutex_, io, async_op_count, waiter, image>>


\* Insert before the transaction phase returns zero and does nothing.
InsertSkipped == /\ mutex_ = NoClient
                 /\ phase \in {"INVALID", "LOAD"}
                 /\ UNCHANGED cephVars

\* Read, Update and Insert up to the submission: mutex_ is taken, the call
\* counted and rbd_aio_read or rbd_aio_write called.
Submit(t, op, key) ==
    /\ mutex_ = NoClient
    /\ op \in {"Read", "Update"} \/ (op = "Insert" /\ phase = "TRANSACTION")
    /\ mutex_' = t
    /\ ops' = ops + 1
    /\ io' = Append(io, [op |-> op, key |-> key, st |-> "flight"])
    /\ UNCHANGED <<phase, samples, async_op_count, waiter, image>>

\* Mutant of Count: the count is not incremented for an I/O already complete.
CountUnlessDone(t, op) ==
    /\ mutex_ = t
    /\ mutex_' = NoClient
    /\ async_op_count' = IF io[Len(io)].st = "flight"
                         THEN async_op_count + 1 ELSE async_op_count
    /\ samples' = [samples EXCEPT ![op] = @ + 1]
    /\ UNCHANGED <<phase, ops, io, waiter, image>>

\* The rest of the call: async_op_count++, the sample, the end of the scope.
Count(t, op) ==
    /\ mutex_ = t
    /\ mutex_' = NoClient
    /\ async_op_count' = async_op_count + 1
    /\ samples' = [samples EXCEPT ![op] = @ + 1]
    /\ UNCHANGED <<phase, ops, io, waiter, image>>

\* Scan only counts and times itself.
Scan == /\ mutex_ = NoClient
        /\ ops' = ops + 1
        /\ samples' = [samples EXCEPT !["Scan"] = @ + 1]
        /\ UNCHANGED <<phase, mutex_, io, async_op_count, waiter, image>>

-----------------------------------------------------------------------------
\* librbd completes I/O n and its callback runs up to async_op_count--.  A failed
\* read is ignored; a failed write exits the process (see aio_write_failed).
aio_callback(n) ==
    /\ io[n].st = "flight"
    /\ io' = [io EXCEPT ![n].st = "notify"]
    /\ async_op_count' = async_op_count - 1
    /\ UNCHANGED <<phase, ops, samples, mutex_, waiter, image>>

\* async_op_cv.notify_all(): it reaches Close only if Close is blocked.
notify_all(n) ==
    /\ io[n].st = "notify"
    /\ io' = [io EXCEPT ![n].st = "done"]
    /\ waiter' = IF waiter = "blocked" THEN "check" ELSE waiter
    /\ UNCHANGED <<phase, ops, samples, mutex_, async_op_count, image>>

\* The callback of a write finds an error and calls exit(1).
aio_write_failed(n) == /\ io[n].st = "flight"
                       /\ io[n].op # "Read"
                       /\ UNCHANGED cephVars

-----------------------------------------------------------------------------
\* Close: wait_for_all_async_ops takes async_op_mutex, which nobody else does.
WaitBegin == /\ waiter = "out"
             /\ waiter' = "check"
             /\ UNCHANGED <<phase, ops, samples, mutex_, io, async_op_count, image>>

\* Mutant of WaitTest: the last I/O is not waited for.
WaitTestFirst == /\ waiter = "check"
                 /\ waiter' = IF async_op_count <= 1 THEN "passed" ELSE "sleep"
                 /\ UNCHANGED <<phase, ops, samples, mutex_, io, async_op_count, image>>

\* The predicate of wait is tested.
WaitTest == /\ waiter = "check"
            /\ waiter' = IF async_op_count = 0 THEN "passed" ELSE "sleep"
            /\ UNCHANGED <<phase, ops, samples, mutex_, io, async_op_count, image>>

\* wait blocks.
WaitBlock == /\ waiter = "sleep"
             /\ waiter' = "blocked"
             /\ UNCHANGED <<phase, ops, samples, mutex_, io, async_op_count, image>>

\* wait may return without a notification, and tests the predicate again.
SpuriousWake == /\ waiter = "blocked"
                /\ waiter' = "check"
                /\ UNCHANGED <<phase, ops, samples, mutex_, io, async_op_count, image>>

\* rbd_close, rados_ioctx_destroy, rados_shutdown.
CloseImage == /\ waiter = "passed"
              /\ image' = "closed"
              /\ waiter' = "out"
              /\ UNCHANGED <<phase, ops, samples, mutex_, io, async_op_count>>
=============================================================================
