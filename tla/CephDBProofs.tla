---------------------------- MODULE CephDBProofs ----------------------------
(***************************************************************************)
(* Proofs about CephDB, for any clients, blocks and keys and any number of *)
(* calls, kills and power losses: writes that returned are on the disk     *)
(* unless msync fails, readers see whole blocks, and the counts agree.     *)
(***************************************************************************)
EXTENDS CephDB, TLAPS

CallRecs == [pc : {"idle", "lock"} \cup Writing,
             op : {"none", "Read", "Scan", "Update", "Insert", "Delete"},
             key : Keys \cup {0}, got : Contents]

\* A client that writes holds mutex_, and its block may be anything that comes of
\* the write; the block is filled before msync and on the disk after it.
WriterInv ==
    \A c \in Clients : cl[c].pc \in Writing =>
        /\ mutex_ = c
        /\ cl[c].key \in Blocks
        /\ {"torn", Fill(cl[c].op)} \subseteq allowed[cl[c].key]
        /\ cl[c].pc \in {"msync", "ret"} => mem[cl[c].key] = Fill(cl[c].op)
        /\ cl[c].pc = "ret" /\ ~SyncFails => disk[cl[c].key] = Fill(cl[c].op)

\* No process, no calls.
DownInv == ~up => mutex_ = Free /\ \A c \in Clients : cl[c].pc = "idle"

MemInv == losses = 0 \/ ~SyncFails => \A b \in Blocks : mem[b] \in allowed[b]

DiskInv == ~SyncFails => Durable

\* While nothing was stopped, a block is torn only in the middle of its memset.
TornInv == kills = 0 /\ losses = 0 =>
              \A b \in Blocks : mem[b] = "torn" =>
                  \E c \in Clients : cl[c].pc = "rest" /\ cl[c].key = b

CountInv == up => ops = samples + (IF mutex_ = Free THEN 0 ELSE 1)

CInv == CTypeOK /\ WriterInv /\ DownInv /\ MemInv /\ DiskInv /\ TornInv /\ ReadWhole /\ CountInv

LEMMA CInitInv == CInit => CInv
  <1> SUFFICES ASSUME CInit PROVE CInv
    OBVIOUS
  <1>1. \A c \in Clients : cl[c] = Idle
    BY DEF CInit
  <1>2. Idle \in CallRecs
    BY DEF Idle, CallRecs, Contents
  <1>3. CTypeOK
    BY <1>2 DEF CInit, CTypeOK, Contents, CallRecs
  <1>4. WriterInv /\ DownInv /\ ReadWhole /\ CountInv
    BY <1>1 DEF CInit, WriterInv, DownInv, ReadWhole, CountInv, Idle, Writing
  <1>5. MemInv /\ DiskInv /\ TornInv
    BY DEF CInit, MemInv, DiskInv, Durable, TornInv
  <1> QED
    BY <1>3, <1>4, <1>5 DEF CInv

-----------------------------------------------------------------------------
\* A step of client c that writes nothing and leaves mutex_ free.
LEMMA QuietStep ==
    ASSUME CInv, NEW c \in Clients, NEW r \in CallRecs,
           up, cl[c].pc \notin Writing, r.pc \notin Writing,
           cl' = [cl EXCEPT ![c] = r],
           kills = 0 /\ losses = 0 => r.got # "torn",
           UNCHANGED <<up, mutex_, mem, disk, allowed, kills, losses>>,
           phase' \in {"INVALID", "LOAD", "TRANSACTION"}, calls' \in Nat,
           (ops' = ops /\ samples' = samples) \/ (ops' = ops + 1 /\ samples' = samples + 1)
    PROVE  CInv'
  <1>1. cl \in [Clients -> CallRecs]
    BY DEF CInv, CTypeOK, CallRecs
  <1>2. cl' \in [Clients -> CallRecs] /\ cl'[c] = r /\ \A d \in Clients \ {c} : cl'[d] = cl[d]
    BY <1>1
  <1>0. ops \in Nat /\ samples \in Nat
    BY DEF CInv, CTypeOK
  <1>8. ops' \in Nat /\ samples' \in Nat
    BY <1>0
  <1>3. CTypeOK'
    BY <1>2, <1>8 DEF CInv, CTypeOK, CallRecs
  <1>4. WriterInv' /\ ReadWhole'
    BY <1>2 DEF CInv, WriterInv, ReadWhole
  <1>5. DownInv' /\ MemInv' /\ DiskInv'
    BY DEF CInv, DownInv, MemInv, DiskInv, Durable
  <1>6. TornInv'
    BY <1>2 DEF CInv, TornInv, Writing
  <1>7. CountInv'
    <2>1. ASSUME NEW n \in Nat, ops = samples + n PROVE ops' = samples' + n
      BY <1>0, <2>1
    <2>2. ops = samples + (IF mutex_ = Free THEN 0 ELSE 1) /\ mutex_' = mutex_
      BY DEF CInv, CountInv
    <2> QED
      BY <2>1, <2>2 DEF CountInv
  <1> QED
    BY <1>3, <1>4, <1>5, <1>6, <1>7 DEF CInv

LEMMA Typed ==
    ASSUME CInv, NEW c \in Clients
    PROVE  /\ cl \in [Clients -> CallRecs] /\ cl[c] \in CallRecs
           /\ ops \in Nat /\ samples \in Nat /\ calls \in Nat
           /\ phase \in {"INVALID", "LOAD", "TRANSACTION"}
           /\ mem \in [Blocks -> Contents]
           /\ cl[c].pc # "idle" => up
           /\ kills = 0 /\ losses = 0 => cl[c].got # "torn"
  BY DEF CInv, CTypeOK, CallRecs, DownInv, ReadWhole

\* A block that a reader finds with mutex_ free is whole.
LEMMA ReadFindsWhole ==
    ASSUME CInv, mutex_ = Free, kills = 0, losses = 0, NEW b \in Blocks
    PROVE  mem[b] # "torn"
  BY CephAssumption DEF CInv, TornInv, WriterInv, Writing, Free

LEMMA QuietInv ==
    ASSUME CInv, NEW c \in Clients,
           \/ \E flag \in BOOLEAN : Init(c, flag)
           \/ \E op \in {"Read", "Scan", "Update", "Insert", "Delete"}, k \in Keys : Call(c, op, k)
           \/ InsertSkipped(c) \/ Printed(c) \/ Read(c)
    PROVE  CInv'
  <1>1. /\ cl \in [Clients -> CallRecs] /\ cl[c] \in CallRecs
        /\ ops \in Nat /\ samples \in Nat /\ calls \in Nat
        /\ phase \in {"INVALID", "LOAD", "TRANSACTION"}
        /\ mem \in [Blocks -> Contents]
        /\ cl[c].pc # "idle" => up
        /\ kills = 0 /\ losses = 0 => cl[c].got # "torn"
    BY Typed
  <1>2. ASSUME NEW flag \in BOOLEAN, Init(c, flag) PROVE CInv'
    <2>1. cl' = [cl EXCEPT ![c] = cl[c]]
      BY <1>1, <1>2 DEF Init
    <2>2. up /\ cl[c].pc \notin Writing /\ phase' \in {"INVALID", "LOAD", "TRANSACTION"}
          /\ UNCHANGED <<up, mutex_, ops, samples, mem, disk, allowed, calls, kills, losses>>
      BY <1>2 DEF Init, Writing
    <2> QED
      BY <1>1, <2>1, <2>2, QuietStep
  <1>3. ASSUME NEW op \in {"Read", "Scan", "Update", "Insert", "Delete"}, NEW k \in Keys,
               Call(c, op, k)
        PROVE  CInv'
    <2> DEFINE r == [Idle EXCEPT !.pc = "lock", !.op = op, !.key = k]
    <2>1. r \in CallRecs /\ r.pc = "lock" /\ r.got = "found"
      BY DEF CallRecs, Idle, Contents
    <2>2. cl' = [cl EXCEPT ![c] = r]
      BY <1>3 DEF Call
    <2>4. calls' \in Nat
      <3>1. calls' = calls + 1
        BY <1>3 DEF Call
      <3> QED
        BY <1>1, <3>1
    <2>3. up /\ cl[c].pc = "idle"
          /\ UNCHANGED <<up, phase, mutex_, ops, samples, mem, disk, allowed, kills, losses>>
      BY <1>3 DEF Call
    <2> HIDE DEF r
    <2> QED
      BY <1>1, <2>1, <2>2, <2>3, <2>4, QuietStep DEF Writing
  <1>4. ASSUME cl' = [cl EXCEPT ![c].pc = "idle"], cl[c].pc = "lock",
               (ops' = ops /\ samples' = samples) \/ (ops' = ops + 1 /\ samples' = samples + 1),
               UNCHANGED <<up, phase, mutex_, mem, disk, allowed, calls, kills, losses>>
        PROVE  CInv'
    <2> DEFINE r == [cl[c] EXCEPT !.pc = "idle"]
    <2>1. r \in CallRecs /\ r.pc = "idle" /\ r.got = cl[c].got /\ cl' = [cl EXCEPT ![c] = r]
      BY <1>1, <1>4 DEF CallRecs
    <2> HIDE DEF r
    <2> QED
      BY <1>1, <1>4, <2>1, QuietStep DEF Writing
  <1>5. CASE InsertSkipped(c)
    BY <1>1, <1>4, <1>5 DEF InsertSkipped
  <1>6. CASE Printed(c)
    BY <1>1, <1>4, <1>6 DEF Printed
  <1>7. CASE Read(c)
    <2> DEFINE b == cl[c].key
               r == [cl[c] EXCEPT !.pc = "idle", !.got = mem[b]]
    <2>1. /\ b \in Blocks /\ mutex_ = Free /\ cl[c].pc = "lock"
          /\ UNCHANGED <<up, phase, mutex_, mem, disk, allowed, calls, kills, losses>>
          /\ ops' = ops + 1 /\ samples' = samples + 1
      BY <1>7 DEF Read
    <2>2. r \in CallRecs /\ r.pc = "idle" /\ r.got = mem[b]
      BY <1>1, <2>1 DEF CallRecs
    <2>3. cl' = [cl EXCEPT ![c] = r]
      BY <1>7 DEF Read
    <2>4. kills = 0 /\ losses = 0 => mem[b] # "torn"
      BY <2>1, ReadFindsWhole
    <2> HIDE DEF r, b
    <2> QED
      BY <1>1, <2>1, <2>2, <2>3, <2>4, QuietStep DEF Writing
  <1> QED
    BY <1>2, <1>3, <1>5, <1>6, <1>7

-----------------------------------------------------------------------------
\* A block is filled with one of two whole contents.
LEMMA FillTyped ==
    ASSUME NEW op PROVE Fill(op) \in Contents /\ Fill(op) # "torn" /\ "torn" \in Contents
  BY DEF Fill, Contents

\* No two clients write.
LEMMA OneWriter ==
    ASSUME CInv, NEW c \in Clients, mutex_ \in {c, Free}
    PROVE  \A d \in Clients \ {c} : cl[d].pc \notin Writing
  BY CephAssumption DEF CInv, WriterInv, Free

LEMMA BeginWriteInv == ASSUME CInv, NEW c \in Clients, BeginWrite(c) PROVE CInv'
  <1> DEFINE b == cl[c].key
             v == Fill(cl[c].op)
             r == [cl[c] EXCEPT !.pc = "memset"]
  <1>1. /\ cl \in [Clients -> CallRecs] /\ cl[c] \in CallRecs
        /\ ops \in Nat /\ samples \in Nat /\ allowed \in [Blocks -> SUBSET Contents]
        /\ cl[c].pc = "lock" /\ mutex_ = Free /\ up /\ b \in Blocks
    BY Typed DEF BeginWrite, CInv, CTypeOK
  <1>2. r \in CallRecs /\ r.pc = "memset" /\ r.key = b /\ r.op = cl[c].op /\ r.got = cl[c].got
    BY <1>1 DEF CallRecs, Writing
  <1>3. /\ cl' = [cl EXCEPT ![c] = r] /\ mutex_' = c
        /\ ops' = ops + 1
        /\ allowed' = [allowed EXCEPT ![b] = @ \cup {"torn", v}]
        /\ UNCHANGED <<up, phase, samples, mem, disk, calls, kills, losses>>
    BY DEF BeginWrite
  <1>4. v \in Contents /\ v # "torn" /\ "torn" \in Contents
    BY FillTyped
  <1>5. \A d \in Clients \ {c} : cl[d].pc \notin Writing
    BY <1>1, OneWriter
  <1>6. Fill(r.op) = v
    BY <1>2
  <1> HIDE DEF b, v, r
  <1>7. cl' \in [Clients -> CallRecs] /\ cl'[c] = r /\ \A d \in Clients \ {c} : cl'[d] = cl[d]
    BY <1>1, <1>2, <1>3
  <1>8. /\ allowed' \in [Blocks -> SUBSET Contents]
        /\ \A d \in Blocks : allowed[d] \subseteq allowed'[d]
        /\ {"torn", v} \subseteq allowed'[b]
    BY <1>1, <1>3, <1>4
  <1>9. ops' \in Nat
    BY <1>1, <1>3
  <1>10. CTypeOK'
    BY <1>3, <1>7, <1>8, <1>9 DEF CInv, CTypeOK, CallRecs
  <1>11. WriterInv'
    BY <1>1, <1>2, <1>3, <1>5, <1>6, <1>7, <1>8 DEF WriterInv, Writing
  <1>12. DownInv' /\ MemInv' /\ DiskInv'
    BY <1>1, <1>3, <1>8 DEF CInv, DownInv, MemInv, DiskInv, Durable
  <1>13. TornInv'
    BY <1>1, <1>3, ReadFindsWhole DEF TornInv
  <1>14. ReadWhole'
    BY <1>2, <1>3, <1>7 DEF CInv, ReadWhole
  <1>15. CountInv'
    <2>1. ops = samples
      BY <1>1 DEF CInv, CountInv
    <2>2. ops' = samples' + 1
      BY <1>3, <2>1
    <2> QED
      BY <1>3, <2>2, CephAssumption DEF CountInv, Free
  <1> QED
    BY <1>10, <1>11, <1>12, <1>13, <1>14, <1>15 DEF CInv

LEMMA MemsetInv == ASSUME CInv, NEW c \in Clients, Memset(c) PROVE CInv'
  <1> DEFINE b == cl[c].key
             v == Fill(cl[c].op)
             w == IF cl[c].pc = "rest" \/ mem[b] = v THEN v ELSE "torn"
             r == [cl[c] EXCEPT !.pc = IF cl[c].pc = "memset" THEN "rest" ELSE "msync"]
  <1>1. /\ cl \in [Clients -> CallRecs] /\ cl[c] \in CallRecs
        /\ cl[c].pc \in {"memset", "rest"} /\ up /\ mem \in [Blocks -> Contents]
    BY Typed DEF Memset
  <1>2. mutex_ = c /\ b \in Blocks /\ {"torn", v} \subseteq allowed[b]
    BY <1>1 DEF CInv, WriterInv, Writing
  <1>3. /\ r \in CallRecs /\ r.key = b /\ r.op = cl[c].op /\ r.got = cl[c].got
        /\ (cl[c].pc = "memset" /\ r.pc = "rest") \/ (cl[c].pc = "rest" /\ r.pc = "msync")
    BY <1>1 DEF CallRecs, Writing
  <1>4. /\ cl' = [cl EXCEPT ![c] = r]
        /\ mem' = [mem EXCEPT ![b] = w]
        /\ UNCHANGED <<up, phase, mutex_, ops, samples, disk, allowed, calls, kills, losses>>
    BY <1>2 DEF Memset
  <1>5. /\ v \in Contents /\ v # "torn" /\ w \in {v, "torn"} /\ w \in Contents
        /\ cl[c].pc = "rest" => w = v
    BY FillTyped
  <1>6. \A d \in Clients \ {c} : cl[d].pc \notin Writing
    BY <1>2, OneWriter
  <1>7. Fill(r.op) = v
    BY <1>3
  <1> HIDE DEF b, v, w, r
  <1>8. cl' \in [Clients -> CallRecs] /\ cl'[c] = r /\ \A d \in Clients \ {c} : cl'[d] = cl[d]
    BY <1>1, <1>3, <1>4
  <1>9. mem' \in [Blocks -> Contents] /\ mem'[b] = w /\ \A d \in Blocks \ {b} : mem'[d] = mem[d]
    BY <1>1, <1>2, <1>4, <1>5
  <1>10. CTypeOK'
    BY <1>4, <1>8, <1>9 DEF CInv, CTypeOK, CallRecs
  <1>11. WriterInv'
    BY <1>2, <1>3, <1>4, <1>5, <1>6, <1>7, <1>8, <1>9 DEF WriterInv
  <1>12. DownInv' /\ MemInv' /\ DiskInv'
    BY <1>1, <1>2, <1>4, <1>5, <1>9 DEF CInv, DownInv, MemInv, DiskInv, Durable
  <1>13. TornInv'
    <2> SUFFICES ASSUME kills = 0, losses = 0, NEW d \in Blocks, mem'[d] = "torn"
                 PROVE  \E e \in Clients : cl'[e].pc = "rest" /\ cl'[e].key = d
      BY <1>4 DEF TornInv
    <2>1. CASE d = b
      BY <1>3, <1>5, <1>8, <1>9, <2>1
    <2>2. CASE d # b
      <3>1. PICK e \in Clients : cl[e].pc = "rest" /\ cl[e].key = d
        BY <1>9, <2>2 DEF CInv, TornInv
      <3>2. e = c
        BY <1>6, <3>1 DEF Writing
      <3> QED
        BY <2>2, <3>1, <3>2 DEF b
    <2> QED
      BY <2>1, <2>2
  <1>14. ReadWhole' /\ CountInv'
    BY <1>3, <1>4, <1>8 DEF CInv, ReadWhole, CountInv
  <1> QED
    BY <1>10, <1>11, <1>12, <1>13, <1>14 DEF CInv

LEMMA MsyncInv == ASSUME CInv, NEW c \in Clients, Msync(c) PROVE CInv'
  <1> DEFINE b == cl[c].key
             v == Fill(cl[c].op)
             r == [cl[c] EXCEPT !.pc = "ret"]
  <1>1. /\ cl \in [Clients -> CallRecs] /\ cl[c] \in CallRecs
        /\ cl[c].pc = "msync" /\ up /\ disk \in [Blocks -> Contents]
    BY Typed DEF Msync, CInv, CTypeOK
  <1>2. mutex_ = c /\ b \in Blocks /\ {"torn", v} \subseteq allowed[b] /\ mem[b] = v
    BY <1>1 DEF CInv, WriterInv, Writing
  <1>3. r \in CallRecs /\ r.key = b /\ r.op = cl[c].op /\ r.got = cl[c].got /\ r.pc = "ret"
    BY <1>1 DEF CallRecs, Writing
  <1>4. /\ cl' = [cl EXCEPT ![c] = r]
        /\ disk' = [disk EXCEPT ![b] = v] \/ (SyncFails /\ disk' = disk)
        /\ UNCHANGED <<up, phase, mutex_, ops, samples, mem, allowed, calls, kills, losses>>
    BY <1>2 DEF Msync
  <1>5. v \in Contents
    BY FillTyped
  <1>6. \A d \in Clients \ {c} : cl[d].pc \notin Writing
    BY <1>2, OneWriter
  <1>7. Fill(r.op) = v
    BY <1>3
  <1> HIDE DEF b, v, r
  <1>8. cl' \in [Clients -> CallRecs] /\ cl'[c] = r /\ \A d \in Clients \ {c} : cl'[d] = cl[d]
    BY <1>1, <1>3, <1>4
  <1>9. /\ disk' \in [Blocks -> Contents]
        /\ ~SyncFails => disk'[b] = v /\ \A d \in Blocks \ {b} : disk'[d] = disk[d]
    BY <1>1, <1>2, <1>4, <1>5
  <1>10. CTypeOK'
    BY <1>4, <1>8, <1>9 DEF CInv, CTypeOK, CallRecs
  <1>11. WriterInv'
    BY <1>2, <1>3, <1>4, <1>6, <1>7, <1>8, <1>9 DEF WriterInv
  <1>12. DownInv' /\ MemInv' /\ DiskInv'
    BY <1>1, <1>2, <1>4, <1>9 DEF CInv, DownInv, MemInv, DiskInv, Durable
  <1>13. TornInv'
    BY <1>1, <1>4, <1>8 DEF CInv, TornInv
  <1>14. ReadWhole' /\ CountInv'
    BY <1>3, <1>4, <1>8 DEF CInv, ReadWhole, CountInv
  <1> QED
    BY <1>10, <1>11, <1>12, <1>13, <1>14 DEF CInv

LEMMA EndWriteInv == ASSUME CInv, NEW c \in Clients, EndWrite(c) PROVE CInv'
  <1> DEFINE b == cl[c].key
             v == Fill(cl[c].op)
             r == [cl[c] EXCEPT !.pc = "idle"]
  <1>1. /\ cl \in [Clients -> CallRecs] /\ cl[c] \in CallRecs
        /\ ops \in Nat /\ samples \in Nat /\ allowed \in [Blocks -> SUBSET Contents]
        /\ cl[c].pc = "ret" /\ up
    BY Typed DEF EndWrite, CInv, CTypeOK
  <1>2. mutex_ = c /\ b \in Blocks /\ mem[b] = v /\ (~SyncFails => disk[b] = v)
    BY <1>1 DEF CInv, WriterInv, Writing
  <1>3. r \in CallRecs /\ r.got = cl[c].got /\ r.pc = "idle"
    BY <1>1 DEF CallRecs
  <1>4. /\ cl' = [cl EXCEPT ![c] = r] /\ mutex_' = Free
        /\ allowed' = [allowed EXCEPT ![b] = {v}]
        /\ samples' = samples + 1
        /\ UNCHANGED <<up, phase, ops, mem, disk, calls, kills, losses>>
    BY DEF EndWrite
  <1>5. v \in Contents
    BY FillTyped
  <1>6. \A d \in Clients \ {c} : cl[d].pc \notin Writing
    BY <1>2, OneWriter
  <1> HIDE DEF b, v, r
  <1>7. cl' \in [Clients -> CallRecs] /\ cl'[c] = r /\ \A d \in Clients \ {c} : cl'[d] = cl[d]
    BY <1>1, <1>3, <1>4
  <1>8. /\ allowed' \in [Blocks -> SUBSET Contents]
        /\ allowed'[b] = {v} /\ \A d \in Blocks \ {b} : allowed'[d] = allowed[d]
    BY <1>1, <1>2, <1>4, <1>5
  <1>9. samples' \in Nat
    BY <1>1, <1>4
  <1>10. CTypeOK'
    BY <1>4, <1>7, <1>8, <1>9 DEF CInv, CTypeOK, CallRecs
  <1>11. WriterInv'
    BY <1>3, <1>6, <1>7 DEF WriterInv, Writing
  <1>12. DownInv' /\ MemInv' /\ DiskInv'
    BY <1>1, <1>2, <1>4, <1>8 DEF CInv, DownInv, MemInv, DiskInv, Durable
  <1>13. TornInv'
    BY <1>1, <1>4, <1>7 DEF CInv, TornInv
  <1>14. ReadWhole'
    BY <1>3, <1>4, <1>7 DEF CInv, ReadWhole
  <1>15. CountInv'
    <2>1. ops = samples + 1
      BY <1>1, <1>2, CephAssumption DEF CInv, CountInv, Free
    <2>2. ops' = samples' + 0
      BY <1>1, <1>4, <2>1
    <2> QED
      BY <1>4, <2>2 DEF CountInv
  <1> QED
    BY <1>10, <1>11, <1>12, <1>13, <1>14, <1>15 DEF CInv

-----------------------------------------------------------------------------
\* The process goes: what is left are the blocks, and mem may become disk where a
\* loss is counted.
LEMMA GoneInv ==
    ASSUME CInv, Gone, UNCHANGED <<phase, ops, samples, disk, allowed, calls>>,
           kills' \in Nat, losses' \in Nat,
           \/ mem' = mem /\ kills' = kills /\ losses' = losses
              /\ \A c \in Clients : cl[c].pc \notin Writing
           \/ mem' = mem /\ kills' # 0 /\ losses' = losses
           \/ mem' = disk /\ losses' # 0
    PROVE  CInv'
  <1>1. ~up' /\ mutex_' = Free /\ cl' = [c \in Clients |-> Idle]
    BY DEF Gone
  <1>2. Idle \in CallRecs /\ Idle.pc = "idle" /\ Idle.got = "found"
    BY DEF Idle, CallRecs, Contents
  <1>3. cl' \in [Clients -> CallRecs] /\ \A c \in Clients : cl'[c].pc = "idle" /\ cl'[c].got = "found"
    BY <1>1, <1>2
  <1>4. CTypeOK'
    <2>1. up' \in BOOLEAN
      BY DEF Gone
    <2>2. mem' \in [Blocks -> Contents]
      BY DEF CInv, CTypeOK
    <2>3. mutex_' \in Clients \cup {Free}
      BY <1>1
    <2> QED
      BY <1>3, <2>1, <2>2, <2>3 DEF CInv, CTypeOK, CallRecs
  <1>5. WriterInv' /\ DownInv' /\ ReadWhole' /\ CountInv'
    BY <1>1, <1>3 DEF WriterInv, DownInv, ReadWhole, CountInv, Writing
  <1>6. DiskInv' /\ MemInv'
    BY DEF CInv, DiskInv, MemInv, Durable
  <1>7. TornInv'
    BY DEF CInv, TornInv, Writing
  <1> QED
    BY <1>4, <1>5, <1>6, <1>7 DEF CInv

LEMMA FaultInv == ASSUME CInv, NEW c \in Clients, Fault(c) PROVE CInv'
  <1>1. \A d \in Clients : cl[d].pc \notin Writing
    BY CephAssumption DEF Fault, CInv, WriterInv, Free
  <1>2. kills' \in Nat /\ losses' \in Nat
    BY DEF Fault, CInv, CTypeOK
  <1> QED
    BY <1>1, <1>2, GoneInv DEF Fault

LEMMA KillInv == ASSUME CInv, Kill PROVE CInv'
  <1>1. kills \in Nat /\ losses \in Nat
    BY DEF CInv, CTypeOK
  <1>2. kills' = kills + 1 /\ losses' = losses
    BY DEF Kill
  <1>3. kills' \in Nat /\ kills' # 0 /\ losses' \in Nat
    BY <1>1, <1>2
  <1> QED
    BY <1>2, <1>3, GoneInv DEF Kill

LEMMA PowerLossInv == ASSUME CInv, PowerLoss PROVE CInv'
  <1>1. kills \in Nat /\ losses \in Nat
    BY DEF CInv, CTypeOK
  <1>2. losses' = losses + 1 /\ kills' = kills
    BY DEF PowerLoss
  <1>3. losses' \in Nat /\ losses' # 0 /\ kills' \in Nat
    BY <1>1, <1>2
  <1> QED
    BY <1>2, <1>3, GoneInv DEF PowerLoss

LEMMA OpenInv == ASSUME CInv, Open PROVE CInv'
  <1>1. CTypeOK'
    BY DEF Open, CInv, CTypeOK
  <1>2. WriterInv' /\ DownInv' /\ ReadWhole' /\ CountInv'
    BY DEF Open, CInv, WriterInv, DownInv, ReadWhole, CountInv
  <1>3. MemInv' /\ DiskInv' /\ TornInv'
    BY DEF Open, CInv, MemInv, DiskInv, Durable, TornInv
  <1> QED
    BY <1>1, <1>2, <1>3 DEF CInv

LEMMA FinalFlushDiskInv == ASSUME CInv, FinalFlushDisk PROVE CInv'
  <1>1. \A c \in Clients : cl[c].pc = "idle"
    BY DEF FinalFlushDisk
  <1>2. CASE disk' = mem /\ allowed' = [b \in Blocks |-> {mem[b]}] /\ UNCHANGED <<up, mutex_, cl>>
    <2>1. /\ UNCHANGED <<up, mutex_, cl, phase, ops, samples, mem, calls, kills, losses>>
          /\ disk' = mem /\ \A b \in Blocks : allowed'[b] = {mem[b]}
      BY <1>2 DEF FinalFlushDisk
    <2>2. CTypeOK'
      BY <1>2, <2>1 DEF CInv, CTypeOK
    <2>3. WriterInv' /\ DownInv' /\ ReadWhole' /\ CountInv'
      BY <1>1, <2>1 DEF CInv, WriterInv, DownInv, ReadWhole, CountInv, Writing
    <2>4. MemInv' /\ DiskInv' /\ TornInv'
      BY <2>1 DEF CInv, MemInv, DiskInv, Durable, TornInv
    <2> QED
      BY <2>2, <2>3, <2>4 DEF CInv
  <1>3. CASE SyncFails /\ Gone /\ UNCHANGED <<disk, allowed>>
    <2>1. UNCHANGED <<phase, ops, samples, mem, calls, kills, losses>>
      BY DEF FinalFlushDisk
    <2>2. kills' \in Nat /\ losses' \in Nat
      BY <2>1 DEF CInv, CTypeOK
    <2> QED
      BY <1>1, <1>3, <2>1, <2>2, GoneInv DEF Writing
  <1> QED
    BY <1>2, <1>3 DEF FinalFlushDisk

LEMMA WriteBackInv == ASSUME CInv, NEW b \in Blocks, WriteBack(b) PROVE CInv'
  <1>1. mem \in [Blocks -> Contents] /\ disk \in [Blocks -> Contents]
    BY DEF CInv, CTypeOK
  <1>2. /\ UNCHANGED <<up, phase, mutex_, ops, samples, mem, cl, allowed, calls, kills, losses>>
        /\ disk' = [disk EXCEPT ![b] = mem[b]]
    BY DEF WriteBack
  <1>3. /\ disk' \in [Blocks -> Contents]
        /\ disk'[b] = mem[b] /\ \A d \in Blocks \ {b} : disk'[d] = disk[d]
    BY <1>1, <1>2
  <1>4. CTypeOK'
    BY <1>2, <1>3 DEF CInv, CTypeOK
  <1>5. WriterInv'
    BY <1>2, <1>3 DEF CInv, WriterInv
  <1>6. DownInv' /\ ReadWhole' /\ CountInv' /\ MemInv' /\ TornInv'
    BY <1>2 DEF CInv, DownInv, ReadWhole, CountInv, MemInv, TornInv
  <1>7. DiskInv'
    BY <1>2, <1>3 DEF CInv, MemInv, DiskInv, Durable
  <1> QED
    BY <1>4, <1>5, <1>6, <1>7 DEF CInv

LEMMA CNextInv == ASSUME CInv, [CNext]_cephVars PROVE CInv'
  <1>1. CASE UNCHANGED cephVars
    BY <1>1 DEF cephVars, CInv, CTypeOK, WriterInv, DownInv, MemInv, DiskInv, Durable, TornInv,
                ReadWhole, CountInv
  <1>2. ASSUME NEW c \in Clients, Step(c) PROVE CInv'
    BY <1>2, QuietInv, BeginWriteInv, FaultInv, MemsetInv, MsyncInv, EndWriteInv DEF Step
  <1> QED
    BY <1>1, <1>2, OpenInv, FinalFlushDiskInv, KillInv, PowerLossInv, WriteBackInv DEF CNext

\* The inductive invariant of the database holds always.
THEOREM CInductive == CSpec => []CInv
  <1>1. CInit => CInv
    BY CInitInv
  <1>2. CInv /\ [CNext]_cephVars => CInv'
    BY CNextInv
  <1> QED
    BY <1>1, <1>2, PTL DEF CSpec

\* Every variable of the database keeps its type.
THEOREM CTypeCorrect == CSpec => []CTypeOK
  <1>1. CInv => CTypeOK
    BY DEF CInv
  <1> QED
    BY <1>1, CInductive, PTL

\* Where msync does not fail, the disk holds each write that Update or Insert has
\* returned from, whatever is killed and however often power is lost.
THEOREM WritesDurable == CSpec => [](~SyncFails => Durable)
  <1>1. CInv => (~SyncFails => Durable)
    BY DEF CInv, DiskInv
  <1> QED
    BY <1>1, CInductive, PTL

\* Read, under mutex_, never copies a block in the middle of a memset.
THEOREM ReadsWhole == CSpec => []ReadWhole
  <1>1. CInv => ReadWhole
    BY DEF CInv
  <1> QED
    BY <1>1, CInductive, PTL

\* The mapping shows every write that returned, msync failing or not, until power is lost.
THEOREM WritesVisible == CSpec => []Visible
  <1>1. CInv => Visible
    BY DEF CInv, MemInv, Visible
  <1> QED
    BY <1>1, CInductive, PTL

\* With mutex_ free, ops is the number of samples HandleAllData sums.
THEOREM OpsAreTimed == CSpec => []OpsTimed
  <1>1. CInv => OpsTimed
    <2> SUFFICES ASSUME CInv, up, mutex_ = Free PROVE ops = samples
      BY DEF OpsTimed
    <2>1. ops = samples + 0 /\ samples \in Nat
      BY DEF CInv, CTypeOK, CountInv
    <2> QED
      BY <2>1
  <1> QED
    BY <1>1, CInductive, PTL
=============================================================================
