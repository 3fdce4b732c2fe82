---------------------------- MODULE XihuClient ----------------------------
(***************************************************************************)
(* The Xihu block-service client (db/xihu_client.h, db/xihu_common.h): one *)
(* blocking read or write of len blocks is carried out as len one-block    *)
(* requests over eRPC, at most PIPLINE_PKT_DEPTH of them outstanding.  The *)
(* progress of the call is the global Mission ms; each outstanding request *)
(* owns a pair of message buffers taken from the FIFO pool avail; when a   *)
(* response arrives the event loop runs cont_func, which gives the buffer  *)
(* back and sends the next block, if there is one.                         *)
(*                                                                         *)
(* The client runs on one thread at a time (XihuDB holds its mutex around  *)
(* every call), so a call of cont_func is one step.  The eRPC transport    *)
(* and the server are external: each request is served once, in any order, *)
(* and its response is delivered once.                                     *)
(***************************************************************************)
EXTENDS Integers, Sequences, FiniteSets

CONSTANTS MSG_BUFFER_NUM,     \* message buffers in the pool (50)
          PIPLINE_PKT_DEPTH,  \* most requests outstanding (30)
          NumBlocks,          \* blocks of the server (BLOCKS_PER_SERVER)
          U32,                \* 2^32: bid and seq are uint32_t
          Values, NoData

ASSUME PoolAssumption ==
    /\ MSG_BUFFER_NUM \in Nat
    /\ PIPLINE_PKT_DEPTH \in Nat \ {0}
    /\ PIPLINE_PKT_DEPTH <= MSG_BUFFER_NUM
ASSUME WidthAssumption ==
    /\ NumBlocks \in Nat
    /\ U32 \in Nat
    /\ NumBlocks + PIPLINE_PKT_DEPTH <= U32
ASSUME DataAssumption == NoData \notin Values

VARIABLES pc,     \* where the calling thread is: "idle", "issue" or "loop"
          i,      \* the index of the first for loop of read and write
          ms,     \* the Mission
          mem,    \* the caller's memory at ms.ptr, one entry per block
          avail,  \* the FIFO pool of free message buffers
          msgs,   \* the message in each buffer pair: the request until it is
                  \* served, then the response; blank while the pair is free
          net,    \* what eRPC is doing with each buffer pair
          disk    \* the server's blocks

vars == <<pc, i, ms, mem, avail, msgs, net, disk>>

Blocks  == 0 .. NumBlocks - 1
Buffers == 0 .. MSG_BUFFER_NUM - 1
Memory  == [Blocks -> Values \cup {NoData}]
MsgType == {"Read", "Write"}

CommonMsg == [type : MsgType, bid : 0 .. U32 - 1, data : Values \cup {NoData}]
Mission   == [type : MsgType, bid : Nat, nxt : Nat, tot : Nat, pip : Nat]

BlankMsg == [type |-> "Read", bid |-> 0, data |-> NoData]

min(a, b) == IF a < b THEN a ELSE b

\* The constructor: every buffer is allocated and free, the session connected.
Init == /\ pc = "idle"
        /\ i = 0
        /\ ms = [type |-> "Read", bid |-> 0, nxt |-> 0, tot |-> 0, pip |-> 0]
        /\ mem = [b \in Blocks |-> NoData]
        /\ avail = [n \in 1 .. MSG_BUFFER_NUM |-> n - 1]
        /\ msgs = [k \in Buffers |-> BlankMsg]
        /\ net = [k \in Buffers |-> "free"]
        /\ disk \in [Blocks -> Values]

-----------------------------------------------------------------------------
\* Mutant of Begin: the pipeline is as deep as the call is long.
BeginUnbounded(type, blockID, len, m) ==
    /\ pc = "idle"
    /\ blockID + len <= NumBlocks
    /\ ms' = [type |-> type, bid |-> blockID, tot |-> len, nxt |-> len, pip |-> len]
    /\ mem' = m
    /\ i' = 0
    /\ pc' = "issue"
    /\ UNCHANGED <<avail, msgs, net, disk>>

\* The head of read and of write: the mission is set up for the whole call.
Begin(type, blockID, len, m) ==
    /\ pc = "idle"
    /\ blockID + len <= NumBlocks
    /\ ms' = [type |-> type, bid |-> blockID, tot |-> len,
              nxt |-> min(PIPLINE_PKT_DEPTH, len),
              pip |-> min(PIPLINE_PKT_DEPTH, len)]
    /\ mem' = m
    /\ i' = 0
    /\ pc' = "issue"
    /\ UNCHANGED <<avail, msgs, net, disk>>

\* The caller of read passes uninitialised memory, the caller of write its data.
read(blockID, len) == Begin("Read", blockID, len, [b \in Blocks |-> NoData])

write(blockID, len, src) == Begin("Write", blockID, len, src)

\* Take the buffer at the front of pool and send the request for block ms.bid+n.
Enqueue(pool, busy, blank, n) ==
    LET k == Head(pool) IN
    /\ pool # <<>>
    /\ avail' = Tail(pool)
    /\ msgs' = [blank EXCEPT ![k] =
                  [type |-> ms.type, bid |-> (ms.bid + n) % U32,
                   data |-> IF ms.type = "Write" THEN mem[n] ELSE NoData]]
    /\ net' = [busy EXCEPT ![k] = "sent"]

\* One round of the for loop that fills the pipeline.
Issue == /\ pc = "issue"
         /\ i < ms.nxt
         /\ Enqueue(avail, net, msgs, i)
         /\ i' = i + 1
         /\ UNCHANGED <<pc, ms, mem, disk>>

\* The for loop ends and the thread enters the event loop.
IssueDone == /\ pc = "issue"
             /\ i >= ms.nxt
             /\ pc' = "loop"
             /\ UNCHANGED <<i, ms, mem, avail, msgs, net, disk>>

\* External: the server serves the request of buffer k and answers it.
ServerHandle(k) ==
    /\ net[k] = "sent"
    /\ net' = [net EXCEPT ![k] = "served"]
    /\ \/ /\ msgs[k].type = "Write"
          /\ disk' = [disk EXCEPT ![msgs[k].bid] = msgs[k].data]
          /\ UNCHANGED msgs
       \/ /\ msgs[k].type = "Read"
          /\ msgs' = [msgs EXCEPT ![k].data = disk[msgs[k].bid]]
          /\ UNCHANGED disk
    /\ UNCHANGED <<pc, i, ms, mem, avail>>

\* Mutant of CopyIn: the copy comes after the early return, as it does for Write.
CopyInUnlessLast(k) ==
    mem' = IF ms.type = "Read" /\ ms.nxt < ms.tot
           THEN [mem EXCEPT ![msgs[k].bid - ms.bid] = msgs[k].data] ELSE mem

\* Mutant of CopyIn: responses are taken to arrive in the order of the requests.
CopyInOrder(k) ==
    mem' = IF ms.type = "Read"
           THEN [mem EXCEPT ![ms.nxt - ms.pip] = msgs[k].data] ELSE mem

\* The response block of buffer k copied to its place in the caller's memory.
CopyIn(k) ==
    mem' = IF ms.type = "Read"
           THEN [mem EXCEPT ![msgs[k].bid - ms.bid] = msgs[k].data] ELSE mem

\* Mutant of cont_func: the buffer of a last response is not given back.
ContLeak(k) ==
    LET seq   == ms.nxt % U32
        pool  == Append(avail, k)
        busy  == [net EXCEPT ![k] = "free"]
        blank == [msgs EXCEPT ![k] = BlankMsg]
    IN
    /\ pc = "loop"
    /\ ms.nxt < ms.tot + ms.pip
    /\ net[k] = "served"
    /\ ms' = [ms EXCEPT !.nxt = @ + 1]
    /\ CopyIn(k)
    /\ \/ /\ seq >= ms.tot
          /\ net' = busy
          /\ msgs' = blank
          /\ UNCHANGED avail
       \/ /\ seq < ms.tot
          /\ Enqueue(pool, busy, blank, seq)
    /\ UNCHANGED <<pc, i, disk>>

\* Mutant of cont_func: nxt is counted only when there is nothing left to send.
ContResend(k) ==
    LET seq   == ms.nxt % U32
        pool  == Append(avail, k)
        busy  == [net EXCEPT ![k] = "free"]
        blank == [msgs EXCEPT ![k] = BlankMsg]
    IN
    /\ pc = "loop"
    /\ ms.nxt < ms.tot + ms.pip
    /\ net[k] = "served"
    /\ CopyIn(k)
    /\ \/ /\ seq >= ms.tot
          /\ ms' = [ms EXCEPT !.nxt = @ + 1]
          /\ avail' = pool
          /\ net' = busy
          /\ msgs' = blank
       \/ /\ seq < ms.tot
          /\ Enqueue(pool, busy, blank, seq)
          /\ UNCHANGED ms
    /\ UNCHANGED <<pc, i, disk>>

\* run_event_loop_once, inside the while loop, runs the continuation of k.
cont_func(k) ==
    LET seq   == ms.nxt % U32
        pool  == Append(avail, k)
        busy  == [net EXCEPT ![k] = "free"]
        blank == [msgs EXCEPT ![k] = BlankMsg]
    IN
    /\ pc = "loop"
    /\ ms.nxt < ms.tot + ms.pip
    /\ net[k] = "served"
    /\ ms' = [ms EXCEPT !.nxt = @ + 1]
    /\ CopyIn(k)
    /\ \/ /\ seq >= ms.tot
          /\ avail' = pool
          /\ net' = busy
          /\ msgs' = blank
       \/ /\ seq < ms.tot
          /\ Enqueue(pool, busy, blank, seq)
    /\ UNCHANGED <<pc, i, disk>>

\* Mutant of Return: the loop waits until every block was requested.
ReturnEarly == /\ pc = "loop"
               /\ ~(ms.nxt < ms.tot)
               /\ pc' = "idle"
               /\ UNCHANGED <<i, ms, mem, avail, msgs, net, disk>>

\* The while loop ends: read or write returns 0.
Return == /\ pc = "loop"
          /\ ~(ms.nxt < ms.tot + ms.pip)
          /\ pc' = "idle"
          /\ UNCHANGED <<i, ms, mem, avail, msgs, net, disk>>

Call == \E blockID \in Blocks, len \in 0 .. NumBlocks :
            \/ read(blockID, len)
            \/ \E src \in [Blocks -> Values] : write(blockID, len, src)

Client == Issue \/ IssueDone \/ Return \/ \E k \in Buffers : cont_func(k)

Server == \E k \in Buffers : ServerHandle(k)

Next == Call \/ Client \/ Server

Spec == Init /\ [][Next]_vars

\* The thread runs its loops; the server answers every request it was sent.
Fairness == /\ WF_vars(Client)
            /\ \A k \in Buffers : WF_vars(ServerHandle(k))

FairSpec == Spec /\ Fairness

-----------------------------------------------------------------------------
\* Buffers whose request is outstanding, and how many requests were sent.
Flight == {k \in Buffers : net[k] # "free"}

Requested == IF pc = "issue" THEN i ELSE min(ms.nxt, ms.tot)

\* The index, in the request, of the block buffer k asks for.
IndexOf(k) == msgs[k].bid - ms.bid

\* Indices of the request that have been sent for and not yet moved: a write
\* moves its block when the server stores it, a read when cont_func copies it.
Pending == {IndexOf(k) : k \in
              {b \in Flight : ms.type = "Read" \/ net[b] = "sent"}}

Moved == IF pc = "idle" THEN {} ELSE (0 .. Requested - 1) \ Pending

Transfer == INSTANCE BlockTransfer WITH
    op <- IF pc = "idle" THEN [type |-> "none", bid |-> 0, tot |-> 0]
          ELSE [type |-> ms.type, bid |-> ms.bid, tot |-> ms.tot],
    moved <- Moved

\* Every variable of the client keeps its type.
TypeOK == /\ pc \in {"idle", "issue", "loop"}
          /\ i \in Nat
          /\ ms \in Mission
          /\ mem \in Memory
          /\ avail \in Seq(Buffers)
          /\ msgs \in [Buffers -> CommonMsg]
          /\ net \in [Buffers -> {"free", "sent", "served"}]
          /\ disk \in [Blocks -> Values]

\* The pool and eRPC never share a buffer, the pool holds none twice, and none
\* is lost: pushes and pops of avail in read, write and cont_func balance.
BuffersConserved ==
    /\ \A m, n \in DOMAIN avail : avail[m] = avail[n] => m = n
    /\ \A n \in DOMAIN avail : net[avail[n]] = "free"
    /\ Len(avail) + Cardinality(Flight) = MSG_BUFFER_NUM

\* avail.front() is never called on an empty pool by the loop that fills the
\* pipeline, and no more than PIPLINE_PKT_DEPTH requests are outstanding.
PoolSuffices ==
    /\ pc = "issue" /\ i < ms.nxt => avail # <<>>
    /\ Cardinality(Flight) <= PIPLINE_PKT_DEPTH

\* When read or write returns no request of that call is outstanding, so no
\* continuation of it can act on the Mission of the next call.
NoLateCompletion == pc = "idle" => Flight = {}

\* When a call returns, each of its blocks was transferred: a read left the
\* stored blocks in the caller's memory, a write left the caller's in the store.
ResultComplete ==
    pc = "idle" => \A j \in 0 .. ms.tot - 1 : mem[j] = disk[ms.bid + j]

\* The requests outstanding ask for different blocks, all of this call: no
\* block is requested twice and none outside the range is touched.
RequestsDistinct ==
    /\ \A k \in Flight : IndexOf(k) \in 0 .. Requested - 1
    /\ \A k, l \in Flight : IndexOf(k) = IndexOf(l) => k = l

\* The pipelined client implements the one-block-at-a-time transfer.
TransferSpec == Transfer!BTSpec

\* Every call of read and write returns (the comment says they are blocking).
EveryCallReturns == pc # "idle" ~> pc = "idle"
=============================================================================
