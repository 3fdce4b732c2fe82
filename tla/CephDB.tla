------------------------------- MODULE CephDB -------------------------------
(***************************************************************************)
(* The database "ceph" (db/ceph_db.h as it is built, with MMAP and MSYNC): *)
(* a file of blocks, one for each key, mapped shared into the process.     *)
(* A write fills the block in memory and calls msync for it, under mutex_; *)
(* the system writes memory back to the disk whenever it likes.  The       *)
(* process may be killed, which leaves what the system has in memory, or   *)
(* the machine may lose power, which leaves the disk; and be run again.    *)
(***************************************************************************)
EXTENDS Integers, FiniteSets

CONSTANTS Clients,
          Blocks,       \* the blocks the file has
          Keys,         \* the keys clients ask for
          SyncFails,    \* whether msync may fail
          MaxCalls,     \* bound: calls of the database in a behaviour
          MaxKills,     \* bound: times the process is killed
          MaxLosses     \* bound: times power is lost

ASSUME CephAssumption == /\ 0 \notin Clients
                         /\ Blocks \subseteq Keys
                         /\ SyncFails \in BOOLEAN
                         /\ MaxCalls \in Nat /\ MaxKills \in Nat /\ MaxLosses \in Nat

Free == 0

\* Contents of a block: as found, filled by Update or by Insert, or in part.
Contents == {"found", "a", "b", "torn"}
Fill(op) == IF op = "Update" THEN "a" ELSE "b"

VARIABLES up,        \* the process runs
          phase, mutex_, ops,
          samples,   \* the entries of READ_TIME, UPDATE_TIME and so on
          mem,       \* each block as the mapping shows it
          disk,      \* each block as power loss leaves it
          cl,        \* the call each client is in
          allowed,   \* what each block may hold, by what clients were told
          calls, kills, losses

cephVars == <<up, phase, mutex_, ops, samples, mem, disk, cl, allowed, calls, kills, losses>>

Idle == [pc |-> "idle", op |-> "none", key |-> 0, got |-> "found"]

CInit == /\ up = FALSE /\ phase = "INVALID" /\ mutex_ = Free
         /\ ops = 0 /\ samples = 0
         /\ mem = [b \in Blocks |-> "found"] /\ disk = mem
         /\ cl = [c \in Clients |-> Idle]
         /\ allowed = [b \in Blocks |-> {"found"}]
         /\ calls = 0 /\ kills = 0 /\ losses = 0

-----------------------------------------------------------------------------
\* CephDB::CephDB, in a new process; when open, fstat or mmap fails it exits.
Open == /\ ~up
        /\ up' = TRUE /\ phase' = "INVALID" /\ ops' = 0 /\ samples' = 0
        /\ UNCHANGED <<mutex_, mem, disk, cl, allowed, calls, kills, losses>>

\* The process has ended: its threads and all but the file are gone.
Gone == /\ up' = FALSE
        /\ mutex_' = Free
        /\ cl' = [c \in Clients |-> Idle]

\* CephDB::Init.  The driver starts clients that load, and when they have ended
\* clients for transactions.
Init(c, flag) ==
    /\ up /\ cl[c].pc = "idle" /\ mutex_ = Free
    /\ flag => phase # "TRANSACTION"
    /\ ~flag => phase # "INVALID" /\ \A d \in Clients : cl[d].pc = "idle"
    /\ phase' = IF flag THEN "LOAD" ELSE "TRANSACTION"
    /\ UNCHANGED <<up, mutex_, ops, samples, mem, disk, cl, allowed, calls, kills, losses>>

\* Clients that load insert.
Call(c, op, key) ==
    /\ up /\ cl[c].pc = "idle" /\ phase # "INVALID"
    /\ phase = "LOAD" => op = "Insert"
    /\ calls < MaxCalls
    /\ calls' = calls + 1
    /\ cl' = [cl EXCEPT ![c] = [Idle EXCEPT !.pc = "lock", !.op = op, !.key = key]]
    /\ UNCHANGED <<up, phase, mutex_, ops, samples, mem, disk, allowed, kills, losses>>

\* Insert while loading returns zero and does nothing else.
InsertSkipped(c) ==
    /\ cl[c].pc = "lock" /\ mutex_ = Free
    /\ cl[c].op = "Insert" /\ phase \in {"INVALID", "LOAD"}
    /\ cl' = [cl EXCEPT ![c].pc = "idle"]
    /\ UNCHANGED <<up, phase, mutex_, ops, samples, mem, disk, allowed, calls, kills, losses>>

\* Scan and Delete count themselves and print.
Printed(c) ==
    /\ cl[c].pc = "lock" /\ mutex_ = Free
    /\ cl[c].op \in {"Scan", "Delete"}
    /\ ops' = ops + 1 /\ samples' = samples + 1
    /\ cl' = [cl EXCEPT ![c].pc = "idle"]
    /\ UNCHANGED <<up, phase, mutex_, mem, disk, allowed, calls, kills, losses>>

\* Mutant of Read: it does not take mutex_.
ReadUnlocked(c) ==
    /\ cl[c].pc = "lock"
    /\ cl[c].op = "Read" /\ cl[c].key \in Blocks
    /\ ops' = ops + 1 /\ samples' = samples + 1
    /\ cl' = [cl EXCEPT ![c].pc = "idle", ![c].got = mem[cl[c].key]]
    /\ UNCHANGED <<up, phase, mutex_, mem, disk, allowed, calls, kills, losses>>

\* Read copies the block out of the mapping.
Read(c) ==
    /\ cl[c].pc = "lock" /\ mutex_ = Free
    /\ cl[c].op = "Read" /\ cl[c].key \in Blocks
    /\ ops' = ops + 1 /\ samples' = samples + 1
    /\ cl' = [cl EXCEPT ![c].pc = "idle", ![c].got = mem[cl[c].key]]
    /\ UNCHANGED <<up, phase, mutex_, mem, disk, allowed, calls, kills, losses>>

\* Update, and Insert of the transactions, up to the memset.
BeginWrite(c) ==
    /\ cl[c].pc = "lock" /\ mutex_ = Free
    /\ cl[c].op = "Update" \/ (cl[c].op = "Insert" /\ phase = "TRANSACTION")
    /\ cl[c].key \in Blocks
    /\ mutex_' = c
    /\ ops' = ops + 1
    /\ cl' = [cl EXCEPT ![c].pc = "memset"]
    /\ allowed' = [allowed EXCEPT ![cl[c].key] = @ \cup {"torn", Fill(cl[c].op)}]
    /\ UNCHANGED <<up, phase, samples, mem, disk, calls, kills, losses>>

\* A key that has no block is an address outside the mapping: the process is gone.
Fault(c) ==
    /\ cl[c].pc = "lock" /\ mutex_ = Free
    /\ cl[c].op \in {"Read", "Update"} \/ (cl[c].op = "Insert" /\ phase = "TRANSACTION")
    /\ cl[c].key \notin Blocks
    /\ Gone
    /\ UNCHANGED <<phase, ops, samples, mem, disk, allowed, calls, kills, losses>>

\* Mutant of Memset: it is cut short.
MemsetShort(c) ==
    LET v == Fill(cl[c].op) IN
    /\ cl[c].pc = "memset"
    /\ mem' = [mem EXCEPT ![cl[c].key] = IF @ = v THEN v ELSE "torn"]
    /\ cl' = [cl EXCEPT ![c].pc = "msync"]
    /\ UNCHANGED <<up, phase, mutex_, ops, samples, disk, allowed, calls, kills, losses>>

\* memset, seen in the middle and at its end.
Memset(c) ==
    LET v == Fill(cl[c].op) IN
    /\ cl[c].pc \in {"memset", "rest"}
    /\ mem' = [mem EXCEPT ![cl[c].key] = IF cl[c].pc = "rest" \/ @ = v THEN v ELSE "torn"]
    /\ cl' = [cl EXCEPT ![c].pc = IF @ = "memset" THEN "rest" ELSE "msync"]
    /\ UNCHANGED <<up, phase, mutex_, ops, samples, disk, allowed, calls, kills, losses>>

\* Mutant of Msync: only the first msync of the process, as under an interval.
MsyncSometimes(c) ==
    /\ cl[c].pc = "msync"
    /\ disk' = IF samples > 0 THEN disk ELSE [disk EXCEPT ![cl[c].key] = mem[cl[c].key]]
    /\ cl' = [cl EXCEPT ![c].pc = "ret"]
    /\ UNCHANGED <<up, phase, mutex_, ops, samples, mem, allowed, calls, kills, losses>>

\* msync of the block; nobody looks at its result.
Msync(c) ==
    /\ cl[c].pc = "msync"
    /\ \/ disk' = [disk EXCEPT ![cl[c].key] = mem[cl[c].key]]
       \/ SyncFails /\ UNCHANGED disk
    /\ cl' = [cl EXCEPT ![c].pc = "ret"]
    /\ UNCHANGED <<up, phase, mutex_, ops, samples, mem, allowed, calls, kills, losses>>

\* The write returns zero: from now on the block holds what it wrote.
EndWrite(c) ==
    /\ cl[c].pc = "ret"
    /\ samples' = samples + 1
    /\ mutex_' = Free
    /\ cl' = [cl EXCEPT ![c].pc = "idle"]
    /\ allowed' = [allowed EXCEPT ![cl[c].key] = {Fill(cl[c].op)}]
    /\ UNCHANGED <<up, phase, ops, mem, disk, calls, kills, losses>>

\* FinalFlushDisk: msync of the whole file, which exits when it fails.  The
\* driver's call of it, when the clients have ended, is commented out.
FinalFlushDisk ==
    /\ up /\ \A c \in Clients : cl[c].pc = "idle"
    /\ \/ disk' = mem /\ allowed' = [b \in Blocks |-> {mem[b]}]
          /\ UNCHANGED <<up, mutex_, cl>>
       \/ SyncFails /\ Gone /\ UNCHANGED <<disk, allowed>>
    /\ UNCHANGED <<phase, ops, samples, mem, calls, kills, losses>>

\* The system writes a block back.
WriteBack(b) ==
    /\ disk[b] # mem[b]
    /\ disk' = [disk EXCEPT ![b] = mem[b]]
    /\ UNCHANGED <<up, phase, mutex_, ops, samples, mem, cl, allowed, calls, kills, losses>>

\* The process is killed.
Kill == /\ up /\ kills < MaxKills
        /\ kills' = kills + 1
        /\ Gone
        /\ UNCHANGED <<phase, ops, samples, mem, disk, allowed, calls, losses>>

\* The machine loses power.
PowerLoss == /\ losses < MaxLosses
             /\ losses' = losses + 1
             /\ Gone
             /\ mem' = disk
             /\ UNCHANGED <<phase, ops, samples, disk, allowed, calls, kills>>

-----------------------------------------------------------------------------
Step(c) == \/ \E flag \in BOOLEAN : Init(c, flag)
           \/ \E op \in {"Read", "Scan", "Update", "Insert", "Delete"}, k \in Keys : Call(c, op, k)
           \/ InsertSkipped(c) \/ Printed(c) \/ Read(c) \/ BeginWrite(c) \/ Fault(c)
           \/ Memset(c) \/ Msync(c) \/ EndWrite(c)

CNext == \/ Open \/ FinalFlushDisk \/ Kill \/ PowerLoss
         \/ \E c \in Clients : Step(c)
         \/ \E b \in Blocks : WriteBack(b)

CSpec == CInit /\ [][CNext]_cephVars

-----------------------------------------------------------------------------
Writing == {"memset", "rest", "msync", "ret"}

\* Every variable of the database keeps its type.
CTypeOK ==
    /\ up \in BOOLEAN
    /\ phase \in {"INVALID", "LOAD", "TRANSACTION"}
    /\ mutex_ \in Clients \cup {Free}
    /\ ops \in Nat /\ samples \in Nat
    /\ mem \in [Blocks -> Contents] /\ disk \in [Blocks -> Contents]
    /\ cl \in [Clients -> [pc : {"idle", "lock"} \cup Writing,
                           op : {"none", "Read", "Scan", "Update", "Insert", "Delete"},
                           key : Keys \cup {0}, got : Contents]]
    /\ allowed \in [Blocks -> SUBSET Contents]
    /\ calls \in Nat /\ kills \in Nat /\ losses \in Nat

\* MSYNC is "synchronous to disk" (ceph_db.h:6): a block on the disk is the one
\* the last write that returned left there, or that of a write under way or cut
\* off since, whenever the process is killed or power is lost.
Durable == \A b \in Blocks : disk[b] \in allowed[b]

\* As long as no process was killed and no power lost, no client reads a block
\* that is partly written.
ReadWhole == kills = 0 /\ losses = 0 => \A c \in Clients : cl[c].got # "torn"

\* As long as no power is lost, what the mapping shows, to this process and the
\* next, is what clients were told was written, even where msync failed.
Visible == losses = 0 => \A b \in Blocks : mem[b] \in allowed[b]

\* HandleAllData divides ops by the sum of the samples: between calls there is a
\* sample for each operation counted.
OpsTimed == up /\ mutex_ = Free => ops = samples
=============================================================================
