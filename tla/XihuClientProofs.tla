------------------------- MODULE XihuClientProofs -------------------------
(***************************************************************************)
(* Proofs about the Xihu client, for every pool size, pipeline depth and   *)
(* number of blocks.                                                       *)
(***************************************************************************)
EXTENDS XihuClient, FiniteSetTheorems, TLAPS

LEMMA ModSmall ==
    ASSUME NEW a \in Nat, NEW b \in Nat, a < b
    PROVE  a % b = a
  BY SMT

LEMMA ModRange ==
    ASSUME NEW a \in Nat, NEW b \in Nat \ {0}
    PROVE  a % b \in 0 .. b - 1
  BY SMT

LEMMA FlightFinite ==
    ASSUME NEW S \in SUBSET Buffers
    PROVE  /\ IsFiniteSet(S)
           /\ Cardinality(S) \in Nat
  <1>1. IsFiniteSet(0 .. MSG_BUFFER_NUM - 1)
    BY PoolAssumption, FS_Interval
  <1>2. IsFiniteSet(S)
    BY <1>1, FS_Subset DEF Buffers
  <1> QED
    BY <1>2, FS_CardinalityType

LEMMA PoolTake ==
    ASSUME NEW pool \in Seq(Buffers), NEW nt \in [Buffers -> {"free", "sent", "served"}],
           pool # <<>>,
           \A m, n \in DOMAIN pool : pool[m] = pool[n] => m = n,
           \A n \in DOMAIN pool : nt[pool[n]] = "free"
    PROVE  /\ Head(pool) \in Buffers
           /\ nt[Head(pool)] = "free"
           /\ Tail(pool) \in Seq(Buffers)
           /\ Len(Tail(pool)) = Len(pool) - 1
           /\ \A m, n \in DOMAIN Tail(pool) : Tail(pool)[m] = Tail(pool)[n] => m = n
           /\ \A n \in DOMAIN Tail(pool) :
                [nt EXCEPT ![Head(pool)] = "sent"][Tail(pool)[n]] = "free"
  <1>1. /\ Len(pool) \in Nat /\ Len(pool) > 0
        /\ DOMAIN pool = 1 .. Len(pool)
        /\ Head(pool) = pool[1]
        /\ Tail(pool) \in Seq(Buffers)
        /\ Len(Tail(pool)) = Len(pool) - 1
        /\ DOMAIN Tail(pool) = 1 .. Len(pool) - 1
    OBVIOUS
  <1>2. \A n \in DOMAIN Tail(pool) : Tail(pool)[n] = pool[n + 1] /\ n + 1 \in DOMAIN pool
    BY <1>1
  <1>3. Head(pool) \in Buffers /\ nt[Head(pool)] = "free"
    BY <1>1
  <1>4. \A m, n \in DOMAIN Tail(pool) : Tail(pool)[m] = Tail(pool)[n] => m = n
    BY <1>1, <1>2
  <1>5. ASSUME NEW n \in DOMAIN Tail(pool)
        PROVE  [nt EXCEPT ![Head(pool)] = "sent"][Tail(pool)[n]] = "free"
    BY <1>1, <1>2
  <1> QED
    BY <1>1, <1>3, <1>4, <1>5

LEMMA PoolGive ==
    ASSUME NEW pool \in Seq(Buffers), NEW nt \in [Buffers -> {"free", "sent", "served"}],
           NEW k \in Buffers, nt[k] # "free",
           \A m, n \in DOMAIN pool : pool[m] = pool[n] => m = n,
           \A n \in DOMAIN pool : nt[pool[n]] = "free"
    PROVE  LET q == Append(pool, k) IN
           /\ q \in Seq(Buffers)
           /\ q # <<>>
           /\ Len(q) = Len(pool) + 1
           /\ \A m, n \in DOMAIN q : q[m] = q[n] => m = n
           /\ \A n \in DOMAIN q : [nt EXCEPT ![k] = "free"][q[n]] = "free"
  <1> DEFINE q == Append(pool, k)
  <1>1. /\ Len(pool) \in Nat
        /\ DOMAIN pool = 1 .. Len(pool)
        /\ q \in Seq(Buffers)
        /\ Len(q) = Len(pool) + 1
        /\ DOMAIN q = 1 .. Len(pool) + 1
        /\ q[Len(pool) + 1] = k
        /\ \A n \in DOMAIN pool : q[n] = pool[n]
    OBVIOUS
  <1>2. q # <<>>
    BY <1>1
  <1>3. \A n \in DOMAIN pool : pool[n] # k
    OBVIOUS
  <1> HIDE DEF q
  <1>4. \A m, n \in DOMAIN q : q[m] = q[n] => m = n
    BY <1>1, <1>3
  <1>5. ASSUME NEW n \in DOMAIN q PROVE [nt EXCEPT ![k] = "free"][q[n]] = "free"
    BY <1>1
  <1> QED
    BY <1>1, <1>2, <1>4, <1>5 DEF q

-----------------------------------------------------------------------------
(***************************************************************************)
(* The inductive invariant.                                                *)
(***************************************************************************)

\* The counters of the mission: pip is fixed for the call, nxt runs from pip to
\* tot + pip, and no continuation has run while the pipeline is being filled.
MissionOK == /\ ms.bid + ms.tot <= NumBlocks
             /\ ms.pip = min(PIPLINE_PKT_DEPTH, ms.tot)
             /\ ms.pip <= ms.nxt
             /\ ms.nxt <= ms.tot + ms.pip
             /\ pc = "issue" => ms.nxt = ms.pip /\ i <= ms.nxt
             /\ pc = "idle" => ms.nxt = ms.tot + ms.pip
             /\ ms.type = "Write" => mem \in [Blocks -> Values]

\* Each continuation that ran, nxt - pip of them, ended one request.
FlightCount == Cardinality(Flight) = Requested - (ms.nxt - ms.pip)

\* A message in flight is of this call, carries what the caller gave while it
\* is a write to be served, and what the server holds once it is a served read.
MessagesOK ==
    \A k \in Flight :
        /\ msgs[k].type = ms.type
        /\ ms.type = "Write" => msgs[k].data = mem[IndexOf(k)]
        /\ ms.type = "Read" /\ net[k] = "served" => msgs[k].data = disk[msgs[k].bid]

\* A block requested is still pending or is the same in memory and in the store.
RequestedDone ==
    \A j \in 0 .. Requested - 1 : j \in Pending \/ mem[j] = disk[ms.bid + j]

IInv == /\ TypeOK
        /\ MissionOK
        /\ BuffersConserved
        /\ FlightCount
        /\ RequestsDistinct
        /\ MessagesOK
        /\ RequestedDone

LEMMA InitInv == Init => IInv
  <1> SUFFICES ASSUME Init PROVE IInv
    OBVIOUS
  <1> USE PoolAssumption, WidthAssumption DEF Init
  <1>1. avail \in Seq(Buffers) /\ Len(avail) = MSG_BUFFER_NUM
    BY DEF Buffers
  <1>2. TypeOK
    BY <1>1 DEF TypeOK, Mission, MsgType, Memory, CommonMsg, BlankMsg
  <1>3. MissionOK
    BY DEF MissionOK, min
  <1>4. Flight = {}
    BY DEF Flight
  <1>5. Cardinality(Flight) = 0
    BY <1>4, FS_EmptySet
  <1>6. BuffersConserved
    BY <1>1, <1>5 DEF BuffersConserved, Buffers
  <1>7. FlightCount
    BY <1>5 DEF FlightCount, Requested, min
  <1>8. RequestsDistinct /\ MessagesOK
    BY <1>4 DEF RequestsDistinct, MessagesOK
  <1>9. RequestedDone
    BY DEF RequestedDone, Requested, min
  <1> QED
    BY <1>2, <1>3, <1>6, <1>7, <1>8, <1>9 DEF IInv

LEMMA IdleEmpty == ASSUME IInv, pc = "idle" PROVE Flight = {}
  <1>1. Requested - (ms.nxt - ms.pip) = 0
    BY DEF IInv, TypeOK, MissionOK, Mission, Requested, min
  <1>2. Cardinality(Flight) = 0
    BY <1>1 DEF IInv, FlightCount
  <1> QED
    BY <1>2, FlightFinite, FS_EmptySet DEF Flight

LEMMA BeginInv ==
    ASSUME IInv, NEW type \in MsgType, NEW blockID \in Blocks,
           NEW len \in 0 .. NumBlocks, NEW m \in Memory,
           type = "Write" => m \in [Blocks -> Values],
           Begin(type, blockID, len, m)
    PROVE  IInv'
  <1> USE PoolAssumption, WidthAssumption DEF Begin
  <1>1. TypeOK'
    BY DEF IInv, TypeOK, Mission, Blocks, min
  <1>2. MissionOK'
    BY DEF IInv, TypeOK, MissionOK, Mission, Blocks, min
  <1>3. Flight = {} /\ Flight' = {}
    BY IdleEmpty DEF Flight
  <1>4. Cardinality(Flight) = 0 /\ Cardinality(Flight') = 0
    BY <1>3, FS_EmptySet
  <1>5. BuffersConserved'
    BY <1>4 DEF IInv, BuffersConserved
  <1>6. FlightCount'
    BY <1>1, <1>4 DEF FlightCount, Requested, TypeOK, Mission
  <1>7. RequestsDistinct' /\ MessagesOK'
    BY <1>3 DEF RequestsDistinct, MessagesOK
  <1>8. RequestedDone'
    BY DEF RequestedDone, Requested
  <1> QED
    BY <1>1, <1>2, <1>5, <1>6, <1>7, <1>8 DEF IInv

LEMMA IssueDoneInv == ASSUME IInv, IssueDone PROVE IInv'
  <1> USE PoolAssumption, WidthAssumption DEF IssueDone, IInv
  <1>1. TypeOK' /\ MissionOK'
    BY DEF TypeOK, MissionOK
  <1>2. Flight' = Flight /\ Pending' = Pending
    BY DEF Flight, Pending, IndexOf
  <1>3. Requested' = Requested
    BY DEF TypeOK, MissionOK, Mission, Requested, min
  <1> QED
    BY <1>1, <1>2, <1>3 DEF BuffersConserved, FlightCount, RequestsDistinct,
       MessagesOK, RequestedDone, IndexOf

LEMMA ReturnInv == ASSUME IInv, Return PROVE IInv'
  <1> USE PoolAssumption, WidthAssumption DEF Return, IInv
  <1>1. TypeOK' /\ MissionOK'
    BY SMTT(30) DEF TypeOK, MissionOK, Mission
  <1>2. Flight' = Flight /\ Pending' = Pending /\ Requested' = Requested
    BY DEF Flight, Pending, IndexOf, Requested
  <1> QED
    BY <1>1, <1>2 DEF BuffersConserved, FlightCount, RequestsDistinct,
       MessagesOK, RequestedDone, IndexOf

\* Facts of every state that the proofs of the steps use: where the numbers lie.
LEMMA Bounds ==
    ASSUME IInv
    PROVE  /\ ms.bid \in Nat /\ ms.tot \in Nat /\ ms.nxt \in Nat /\ ms.pip \in Nat
           /\ ms.type \in MsgType
           /\ Requested \in Nat /\ Requested <= ms.tot
           /\ ms.bid + ms.tot <= NumBlocks
  BY PoolAssumption, WidthAssumption
  DEF IInv, TypeOK, MissionOK, Mission, Requested, min

LEMMA FlightBounds ==
    ASSUME IInv, NEW k \in Flight
    PROVE  /\ k \in Buffers
           /\ msgs[k].bid = ms.bid + IndexOf(k)
           /\ IndexOf(k) \in 0 .. Requested - 1
           /\ IndexOf(k) \in Blocks
           /\ msgs[k].bid \in Blocks
  <1>1. msgs[k].bid \in Nat
    BY WidthAssumption DEF IInv, TypeOK, CommonMsg, Flight
  <1>2. /\ msgs[k].bid = ms.bid + IndexOf(k)
        /\ IndexOf(k) \in 0 .. Requested - 1
    BY <1>1, Bounds DEF IInv, RequestsDistinct, IndexOf
  <1> QED
    BY <1>2, Bounds, WidthAssumption DEF Blocks, Flight

LEMMA IssueInv == ASSUME IInv, Issue PROVE IInv' /\ Moved' = Moved
  <1> DEFINE k == Head(avail)
  <1> USE PoolAssumption, WidthAssumption
  <1>a. /\ avail # <<>>
        /\ avail' = Tail(avail)
        /\ net' = [net EXCEPT ![k] = "sent"]
        /\ pc = "issue" /\ i < ms.nxt /\ i' = i + 1
        /\ pc' = pc /\ ms' = ms /\ mem' = mem /\ disk' = disk
    BY DEF Issue, Enqueue
  <1>b. /\ k \in Buffers /\ net[k] = "free"
        /\ avail' \in Seq(Buffers)
        /\ Len(avail') = Len(avail) - 1
        /\ \A m, n \in DOMAIN avail' : avail'[m] = avail'[n] => m = n
        /\ \A n \in DOMAIN avail' : net'[avail'[n]] = "free"
    BY <1>a, PoolTake DEF IInv, TypeOK, BuffersConserved
  <1>c. i \in Nat /\ i < ms.tot /\ i \in Blocks /\ Requested = i /\ Requested' = i + 1
    BY <1>a, Bounds, SMTT(30) DEF IInv, TypeOK, MissionOK, Requested, Blocks, min
  <1>d. (ms.bid + i) % U32 = ms.bid + i /\ ms.bid + i \in 0 .. U32 - 1
    <2>1. ms.bid + i \in Nat /\ ms.bid + i < U32
      BY <1>c, Bounds
    <2> QED
      BY <2>1, ModSmall
  <1>e. msgs' = [msgs EXCEPT ![k] =
                   [type |-> ms.type, bid |-> ms.bid + i,
                    data |-> IF ms.type = "Write" THEN mem[i] ELSE NoData]]
    BY <1>d DEF Issue, Enqueue
  <1>f. /\ msgs' \in [Buffers -> CommonMsg]
        /\ \A b \in Buffers \ {k} : msgs'[b] = msgs[b] /\ net'[b] = net[b]
        /\ net'[k] = "sent"
        /\ msgs'[k] = [type |-> ms.type, bid |-> ms.bid + i,
                       data |-> IF ms.type = "Write" THEN mem[i] ELSE NoData]
    <2>1. (IF ms.type = "Write" THEN mem[i] ELSE NoData) \in Values \cup {NoData}
      BY <1>c DEF IInv, TypeOK, Memory
    <2> QED
      BY <1>a, <1>b, <1>d, <1>e, <2>1, Bounds DEF IInv, TypeOK, CommonMsg
  <1> HIDE DEF k
  <1>1. TypeOK'
    <2>1. pc' \in {"idle", "issue", "loop"} /\ i' \in Nat
      BY <1>a, <1>c
    <2>2. ms' \in Mission /\ mem' \in Memory /\ disk' \in [Blocks -> Values]
      BY <1>a DEF IInv, TypeOK
    <2>3. net' \in [Buffers -> {"free", "sent", "served"}]
      BY <1>a, <1>b DEF IInv, TypeOK
    <2> QED
      BY <1>b, <1>f, <2>1, <2>2, <2>3 DEF TypeOK
  <1>2. MissionOK'
    BY <1>a, <1>c, Bounds DEF IInv, MissionOK
  <1>3. Flight' = Flight \cup {k} /\ k \notin Flight
    BY <1>b, <1>f DEF Flight
  <1>4. Cardinality(Flight') = Cardinality(Flight) + 1 /\ Cardinality(Flight) \in Nat
    BY <1>3, FlightFinite, FS_AddElement DEF Flight
  <1>5. BuffersConserved'
    BY <1>b, <1>4 DEF IInv, TypeOK, BuffersConserved
  <1>6. FlightCount'
    <2>1. Cardinality(Flight) = i - (ms.nxt - ms.pip)
      BY <1>c DEF IInv, FlightCount
    <2>2. Cardinality(Flight') = i + 1 - (ms.nxt - ms.pip)
      BY <1>c, <1>4, <2>1, Bounds
    <2> QED
      <3>1. ms'.nxt = ms.nxt /\ ms'.pip = ms.pip
        BY <1>a
      <3> QED
        BY <1>c, <2>2, <3>1, Bounds DEF FlightCount
  <1>7. /\ msgs'[k].bid - ms'.bid = i
        /\ \A b \in Flight : b \in Buffers \ {k}
    BY <1>a, <1>c, <1>3, <1>f, Bounds DEF Flight
  <1>8. RequestsDistinct'
    <2>1. ASSUME NEW b \in Flight
          PROVE  /\ msgs'[b].bid - ms'.bid = IndexOf(b)
                 /\ IndexOf(b) \in 0 .. i - 1
      BY <1>a, <1>c, <1>7, <1>f, <2>1, FlightBounds DEF IndexOf
    <2> QED
      BY <1>c, <1>3, <1>7, <2>1 DEF IInv, RequestsDistinct, IndexOf
  <1>9. MessagesOK'
    <2>1. ASSUME NEW b \in Flight'
          PROVE  /\ msgs'[b].type = ms.type
                 /\ ms.type = "Write" => msgs'[b].data = mem[msgs'[b].bid - ms.bid]
                 /\ ms.type = "Read" /\ net'[b] = "served" =>
                        msgs'[b].data = disk[msgs'[b].bid]
      <3>1. CASE b = k
        BY <1>a, <1>7, <1>f, <3>1
      <3>2. CASE b # k
        BY <1>3, <1>7, <1>f, <2>1, <3>2 DEF IInv, MessagesOK, IndexOf
      <3> QED
        BY <3>1, <3>2
    <2> QED
      BY <1>a, <2>1 DEF MessagesOK, IndexOf
  <1>10. Pending' = Pending \cup {i}
    <2>1. Pending' = {msgs'[b].bid - ms.bid : b \in
                       {b \in Flight' : ms.type = "Read" \/ net'[b] = "sent"}}
      BY <1>a DEF Pending, IndexOf
    <2>2. {b \in Flight' : ms.type = "Read" \/ net'[b] = "sent"}
            = {b \in Flight : ms.type = "Read" \/ net[b] = "sent"} \cup {k}
      BY <1>3, <1>7, <1>f
    <2> QED
      BY <1>a, <1>7, <1>f, <2>1, <2>2 DEF Pending, IndexOf
  <1>11. RequestedDone'
    <2>1. ASSUME NEW j \in 0 .. i
          PROVE  j \in Pending' \/ mem[j] = disk[ms.bid + j]
      <3>1. CASE j = i
        BY <1>10, <3>1
      <3>2. CASE j # i
        <4>1. j \in 0 .. Requested - 1
          BY <1>c, <3>2
        <4> QED
          BY <1>10, <4>1 DEF IInv, RequestedDone
      <3> QED
        BY <3>1, <3>2
    <2>2. ms'.bid = ms.bid /\ mem' = mem /\ disk' = disk /\ Requested' - 1 = i
      BY <1>a, <1>c
    <2> QED
      BY <2>1, <2>2 DEF RequestedDone
  <1>12. Moved' = Moved
    BY <1>a, <1>c, <1>10 DEF Moved
  <1> QED
    BY <1>1, <1>2, <1>5, <1>6, <1>8, <1>9, <1>11, <1>12 DEF IInv

LEMMA ServerInv ==
    ASSUME IInv, NEW k \in Buffers, ServerHandle(k)
    PROVE  /\ IInv'
           /\ Pending' = IF ms.type = "Write" THEN Pending \ {IndexOf(k)} ELSE Pending
           /\ IndexOf(k) \in Pending /\ k \in Flight
  <1> USE PoolAssumption, WidthAssumption
  <1>a. /\ net[k] = "sent" /\ net' = [net EXCEPT ![k] = "served"]
        /\ pc' = pc /\ i' = i /\ ms' = ms /\ mem' = mem /\ avail' = avail
    BY DEF ServerHandle
  <1>b. k \in Flight /\ Flight' = Flight /\ Requested' = Requested
    BY <1>a DEF IInv, TypeOK, Flight, Requested
  <1>c. /\ msgs[k].bid \in Blocks /\ IndexOf(k) \in Blocks
        /\ msgs[k].type = ms.type /\ msgs[k].bid = ms.bid + IndexOf(k)
    BY <1>b, FlightBounds DEF IInv, MessagesOK
  <1>d. \A b \in Flight : /\ msgs'[b].type = msgs[b].type
                          /\ msgs'[b].bid = msgs[b].bid
                          /\ b # k => msgs'[b] = msgs[b] /\ net'[b] = net[b]
    <2>1. CASE UNCHANGED msgs
      BY <1>a, <2>1 DEF IInv, TypeOK, Flight
    <2>2. CASE msgs' = [msgs EXCEPT ![k].data = disk[msgs[k].bid]]
      BY <1>a, <2>2 DEF IInv, TypeOK, CommonMsg, Flight
    <2> QED
      BY <2>1, <2>2 DEF ServerHandle
  <1>e. \A b \in Flight : msgs'[b].bid - ms'.bid = msgs[b].bid - ms.bid
    <2>1. ms'.bid = ms.bid
      BY <1>a
    <2> TAKE b \in Flight
    <2>2. msgs'[b].bid = msgs[b].bid
      BY <1>d
    <2> QED
      BY <2>1, <2>2
  <1>8. Pending' = IF ms.type = "Write" THEN Pending \ {IndexOf(k)} ELSE Pending
    <2> DEFINE P == {b \in Flight : ms.type = "Read" \/ net[b] = "sent"}
    <2>1. Pending' = {msgs[b].bid - ms.bid : b \in
                        {b \in Flight : ms.type = "Read" \/ net'[b] = "sent"}}
      BY <1>a, <1>b, <1>e DEF Pending, IndexOf
    <2>2. CASE ms.type = "Write"
      <3>1. {b \in Flight : ms.type = "Read" \/ net'[b] = "sent"} = P \ {k}
        BY <1>a, <1>b, <1>d, <2>2 DEF IInv, TypeOK, Flight
      <3>2. \A b \in P : IndexOf(b) = IndexOf(k) => b = k
        BY <1>b DEF IInv, RequestsDistinct
      <3> QED
        BY <2>1, <2>2, <3>1, <3>2 DEF Pending, IndexOf
    <2>3. CASE ms.type = "Read"
      BY <2>1, <2>3 DEF Pending, IndexOf
    <2> QED
      BY <2>2, <2>3, Bounds DEF MsgType
  <1>9. IndexOf(k) \in Pending
    BY <1>a, <1>b DEF Pending
  <1>1. TypeOK'
    <2>1. CASE ms.type = "Write"
      <3>1. msgs[k].data \in Values
        BY <1>b, <1>c, <2>1 DEF IInv, MessagesOK, MissionOK
      <3> QED
        BY <1>a, <1>c, <2>1, <3>1 DEF ServerHandle, IInv, TypeOK
    <2>2. CASE ms.type = "Read"
      <3>1. disk[msgs[k].bid] \in Values \cup {NoData}
        BY <1>c DEF IInv, TypeOK
      <3>2. UNCHANGED disk /\ msgs' = [msgs EXCEPT ![k].data = disk[msgs[k].bid]]
        BY <1>c, <2>2 DEF ServerHandle
      <3>3. msgs' \in [Buffers -> CommonMsg]
        BY <3>1, <3>2 DEF IInv, TypeOK, CommonMsg
      <3> QED
        BY <1>a, <3>2, <3>3 DEF IInv, TypeOK
    <2> QED
      BY <2>1, <2>2, Bounds DEF MsgType
  <1>2. MissionOK'
    BY <1>a DEF IInv, MissionOK
  <1>3. BuffersConserved'
    BY <1>a, <1>b DEF IInv, TypeOK, BuffersConserved
  <1>4. FlightCount'
    BY <1>a, <1>b DEF IInv, FlightCount
  <1>7. RequestsDistinct'
    BY <1>b, <1>e DEF IInv, RequestsDistinct, IndexOf
  <1>5. MessagesOK'
    <2>1. CASE ms.type = "Write"
      BY <1>a, <1>b, <1>c, <1>d, <2>1 DEF ServerHandle, IInv, MessagesOK, IndexOf
    <2>2. CASE ms.type = "Read"
      <3>1. UNCHANGED disk /\ msgs' = [msgs EXCEPT ![k].data = disk[msgs[k].bid]]
        BY <1>c, <2>2 DEF ServerHandle
      <3>2. msgs'[k].data = disk[msgs[k].bid]
        BY <3>1 DEF IInv, TypeOK, CommonMsg
      <3> QED
        BY <1>a, <1>b, <1>d, <2>2, <3>1, <3>2 DEF IInv, MessagesOK
    <2> QED
      BY <2>1, <2>2, Bounds DEF MsgType
  <1>6. RequestedDone'
    <2>1. CASE ms.type = "Write"
      <3>1. /\ disk' = [disk EXCEPT ![msgs[k].bid] = msgs[k].data]
            /\ msgs[k].data = mem[IndexOf(k)]
        BY <1>b, <1>c, <2>1 DEF ServerHandle, IInv, MessagesOK
      <3>2. ASSUME NEW j \in 0 .. Requested - 1
            PROVE  j \in Pending' \/ mem[j] = disk'[ms.bid + j]
        <4>1. CASE j = IndexOf(k)
          BY <1>c, <3>1, <4>1 DEF IInv, TypeOK
        <4>2. CASE j # IndexOf(k)
          <5>1. disk'[ms.bid + j] = disk[ms.bid + j]
            BY <1>c, <3>1, <4>2, Bounds DEF IInv, TypeOK, Blocks
          <5>2. j \in Pending => j \in Pending'
            BY <1>8, <2>1, <4>2
          <5> QED
            BY <5>1, <5>2 DEF IInv, RequestedDone
        <4> QED
          BY <4>1, <4>2
      <3> QED
        BY <1>a, <1>b, <3>2 DEF RequestedDone
    <2>2. CASE ms.type = "Read"
      <3>1. Pending' = Pending
        BY <1>8, <2>2
      <3>2. UNCHANGED disk
        BY <1>c, <2>2 DEF ServerHandle
      <3> QED
        BY <1>a, <1>b, <3>1, <3>2 DEF IInv, RequestedDone
    <2> QED
      BY <2>1, <2>2, Bounds DEF MsgType
  <1> QED
    BY <1>1, <1>2, <1>3, <1>4, <1>5, <1>6, <1>7, <1>8, <1>9, <1>b DEF IInv

\* What a continuation does before it looks whether there is more to send: the
\* block of buffer k is in place, and the other requests are as they were.
LEMMA ContCopies ==
    ASSUME IInv, NEW k \in Buffers, cont_func(k)
    PROVE  /\ k \in Flight
           /\ mem' \in Memory
           /\ ms.type = "Write" => mem' = mem
           /\ ms.type = "Read" => mem' = [mem EXCEPT ![IndexOf(k)] = disk[ms.bid + IndexOf(k)]]
           /\ \A j \in 0 .. Requested - 1 :
                 \/ \E b \in Flight \ {k} : IndexOf(b) = j /\ (ms.type = "Read" \/ net[b] = "sent")
                 \/ mem'[j] = disk[ms.bid + j]
  <1>1. net[k] = "served" /\ CopyIn(k)
    BY DEF cont_func
  <1>2. k \in Flight
    BY <1>1 DEF Flight
  <1>3. /\ IndexOf(k) \in Blocks /\ IndexOf(k) \in 0 .. Requested - 1
        /\ msgs[k].bid \in Blocks /\ msgs[k].bid = ms.bid + IndexOf(k)
    BY <1>2, FlightBounds
  <1>4. ms.type = "Write" => mem' = mem
    BY <1>1 DEF CopyIn
  <1>5. ms.type = "Read" => mem' = [mem EXCEPT ![IndexOf(k)] = disk[ms.bid + IndexOf(k)]]
    BY <1>1, <1>2, <1>3 DEF CopyIn, IInv, MessagesOK, IndexOf
  <1>6. mem' \in Memory
    <2>1. disk[ms.bid + IndexOf(k)] \in Values
      BY <1>3 DEF IInv, TypeOK
    <2> QED
      BY <1>3, <1>4, <1>5, <2>1, Bounds DEF MsgType, IInv, TypeOK, Memory
  <1>7. ASSUME NEW j \in 0 .. Requested - 1
        PROVE  \/ \E b \in Flight \ {k} : IndexOf(b) = j /\ (ms.type = "Read" \/ net[b] = "sent")
               \/ mem'[j] = disk[ms.bid + j]
    <2>1. j \in Pending \/ mem[j] = disk[ms.bid + j]
      BY DEF IInv, RequestedDone
    <2>2. j \in Blocks
      BY Bounds, WidthAssumption DEF Blocks
    <2>3. CASE ms.type = "Write"
      BY <1>1, <1>4, <2>1, <2>3 DEF Pending
    <2>4. CASE ms.type = "Read" /\ j = IndexOf(k)
      BY <1>3, <1>5, <2>4 DEF IInv, TypeOK, Memory
    <2>5. CASE ms.type = "Read" /\ j # IndexOf(k)
      <3>1. mem'[j] = mem[j]
        BY <1>3, <1>5, <2>2, <2>5 DEF IInv, TypeOK, Memory
      <3> QED
        BY <2>1, <2>5, <3>1 DEF Pending
    <2> QED
      BY <2>3, <2>4, <2>5, Bounds DEF MsgType
  <1> QED
    BY <1>2, <1>4, <1>5, <1>6, <1>7

LEMMA ContInv ==
    ASSUME IInv, NEW k \in Buffers, cont_func(k)
    PROVE  /\ IInv'
           /\ Moved' = IF ms.type = "Read" THEN Moved \cup {IndexOf(k)} ELSE Moved
  <1> DEFINE seq   == ms.nxt
             pool  == Append(avail, k)
             busy  == [net EXCEPT ![k] = "free"]
             blank == [msgs EXCEPT ![k] = BlankMsg]
             rest  == Flight \ {k}
  <1> USE PoolAssumption, WidthAssumption
  <1>a. /\ pc = "loop" /\ ms.nxt < ms.tot + ms.pip /\ net[k] = "served"
        /\ ms' = [ms EXCEPT !.nxt = ms.nxt + 1]
        /\ pc' = pc /\ i' = i /\ disk' = disk
    BY DEF cont_func
  <1>b. /\ ms'.bid = ms.bid /\ ms'.tot = ms.tot /\ ms'.pip = ms.pip
        /\ ms'.type = ms.type /\ ms'.nxt = ms.nxt + 1 /\ ms' \in Mission
        /\ ms.pip <= ms.nxt /\ ms.pip <= ms.tot
    <2>1. ms' \in Mission
      <3>1. ms.nxt + 1 \in Nat
        BY Bounds
      <3> QED
        BY <1>a, <3>1 DEF IInv, TypeOK, Mission
    <2>2. /\ ms'.bid = ms.bid /\ ms'.tot = ms.tot /\ ms'.pip = ms.pip
          /\ ms'.type = ms.type /\ ms'.nxt = ms.nxt + 1
      BY <1>a DEF IInv, TypeOK, Mission
    <2> QED
      BY <2>1, <2>2, Bounds DEF IInv, MissionOK, min
  <1>c. ms.nxt % U32 = seq
    <2>1. ms.nxt < U32
      BY <1>a, Bounds DEF IInv, MissionOK, min
    <2> QED
      BY <2>1, Bounds, ModSmall
  <1>d. /\ k \in Flight /\ mem' \in Memory
        /\ ms.type = "Write" => mem' = mem
        /\ \A j \in 0 .. Requested - 1 :
              \/ \E b \in rest : IndexOf(b) = j /\ (ms.type = "Read" \/ net[b] = "sent")
              \/ mem'[j] = disk[ms.bid + j]
    BY ContCopies
  <1>e. MissionOK'
    BY <1>a, <1>b, <1>d, Bounds DEF IInv, MissionOK
  <1>f. /\ pool \in Seq(Buffers) /\ pool # <<>> /\ Len(pool) = Len(avail) + 1
        /\ \A m, n \in DOMAIN pool : pool[m] = pool[n] => m = n
        /\ \A n \in DOMAIN pool : busy[pool[n]] = "free"
    <2>1. /\ avail \in Seq(Buffers) /\ net \in [Buffers -> {"free", "sent", "served"}]
          /\ \A m, n \in DOMAIN avail : avail[m] = avail[n] => m = n
          /\ \A n \in DOMAIN avail : net[avail[n]] = "free"
          /\ net[k] # "free"
      BY <1>a DEF IInv, TypeOK, BuffersConserved
    <2> QED
      BY <2>1, PoolGive
  <1>g. /\ busy \in [Buffers -> {"free", "sent", "served"}]
        /\ blank \in [Buffers -> CommonMsg]
        /\ busy[k] = "free"
        /\ \A b \in Buffers \ {k} : busy[b] = net[b] /\ blank[b] = msgs[b]
    BY DEF IInv, TypeOK, CommonMsg, BlankMsg, MsgType
  <1>h. /\ Cardinality(rest) = Cardinality(Flight) - 1
        /\ Cardinality(rest) \in Nat /\ Cardinality(Flight) \in Nat
        /\ IsFiniteSet(rest)
        /\ Cardinality(Flight) = Requested - (ms.nxt - ms.pip)
        /\ Len(avail) + Cardinality(Flight) = MSG_BUFFER_NUM
        /\ Len(avail) \in Nat
    <2>1. Flight \in SUBSET Buffers /\ rest \in SUBSET Buffers
      BY DEF Flight
    <2>2. /\ IsFiniteSet(Flight) /\ IsFiniteSet(rest)
          /\ Cardinality(Flight) \in Nat /\ Cardinality(rest) \in Nat
      BY <2>1, FlightFinite
    <2>3. Cardinality(rest) = Cardinality(Flight) - 1
      BY <1>d, <2>2, FS_RemoveElement
    <2>4. /\ Cardinality(Flight) = Requested - (ms.nxt - ms.pip)
          /\ Len(avail) + Cardinality(Flight) = MSG_BUFFER_NUM
      BY DEF IInv, FlightCount, BuffersConserved
    <2>5. Len(avail) \in Nat
      BY DEF IInv, TypeOK
    <2> QED
      BY <2>2, <2>3, <2>4, <2>5
  <1>i. /\ rest \subseteq Buffers /\ k \notin rest
        /\ rest = {b \in Buffers : busy[b] # "free"}
    BY <1>g DEF Flight
  <1>j. \A b \in rest : /\ IndexOf(b) \in 0 .. Requested - 1
                        /\ msgs[b].bid \in Int
                        /\ msgs[b].type = ms.type
                        /\ ms.type = "Write" => msgs[b].data = mem'[IndexOf(b)]
                        /\ ms.type = "Read" /\ net[b] = "served" =>
                              msgs[b].data = disk[msgs[b].bid]
    BY <1>d, FlightBounds DEF IInv, MessagesOK, Blocks
  <1>k. \A b, c \in rest : IndexOf(b) = IndexOf(c) => b = c
    BY DEF IInv, RequestsDistinct
  <1>l. {IndexOf(b) : b \in {b \in rest : ms.type = "Read" \/ net[b] = "sent"}}
            = IF ms.type = "Read" THEN Pending \ {IndexOf(k)} ELSE Pending
    <2>1. \A b \in rest : IndexOf(b) # IndexOf(k)
      BY <1>d DEF IInv, RequestsDistinct
    <2>2. CASE ms.type = "Read"
      BY <2>1, <2>2 DEF Pending
    <2>3. CASE ms.type # "Read"
      <3>1. {b \in rest : ms.type = "Read" \/ net[b] = "sent"}
              = {b \in Flight : ms.type = "Read" \/ net[b] = "sent"}
        BY <1>a, <2>3
      <3> QED
        BY <2>3, <3>1 DEF Pending
    <2> QED
      BY <2>2, <2>3
  <1>m. IndexOf(k) \in 0 .. Requested - 1
    BY <1>d, FlightBounds
  <1>1. CASE seq >= ms.tot
    <2>1. avail' = pool /\ net' = busy /\ msgs' = blank
      BY <1>1, <1>c, Bounds DEF cont_func
    <2>2. Flight' = rest /\ Requested' = Requested
      BY <1>1, <1>a, <1>b, <1>i, <2>1, Bounds, SMTT(30) DEF Flight, Requested, min
    <2>3. \A b \in rest : /\ msgs'[b].bid - ms'.bid = IndexOf(b)
                          /\ msgs'[b] = msgs[b] /\ net'[b] = net[b]
      BY <1>b, <1>g, <1>i, <1>j, <2>1, Bounds DEF IndexOf
    <2> HIDE DEF seq, pool, busy, blank, rest
    <2>4. TypeOK'
      BY <1>a, <1>b, <1>d, <1>f, <1>g, <2>1 DEF IInv, TypeOK
    <2>5. BuffersConserved'
      BY <1>f, <1>h, <2>1, <2>2 DEF BuffersConserved
    <2>6. FlightCount'
      BY <1>b, <1>h, <2>2, Bounds, SMTT(30) DEF FlightCount
    <2>7. RequestsDistinct'
      BY <1>j, <1>k, <2>2, <2>3 DEF RequestsDistinct, IndexOf
    <2>8. MessagesOK'
      BY <1>a, <1>b, <1>j, <2>2, <2>3 DEF MessagesOK, IndexOf
    <2>9. RequestedDone'
      BY <1>a, <1>b, <1>d, <2>2, <2>3 DEF RequestedDone, Pending, IndexOf
    <2>10. Moved' = IF ms.type = "Read" THEN Moved \cup {IndexOf(k)} ELSE Moved
      <3>1. Pending' = {IndexOf(b) : b \in {b \in rest : ms.type = "Read" \/ net[b] = "sent"}}
        BY <1>b, <2>2, <2>3 DEF Pending, IndexOf
      <3> QED
        BY <1>a, <1>l, <1>m, <2>2, <3>1 DEF Moved
    <2> QED
      BY <1>e, <2>4, <2>5, <2>6, <2>7, <2>8, <2>9, <2>10 DEF IInv
  <1>2. CASE seq < ms.tot
    <2> DEFINE h == Head(pool)
    <2>1. /\ avail' = Tail(pool)
          /\ net' = [busy EXCEPT ![h] = "sent"]
          /\ msgs' = [blank EXCEPT ![h] =
                        [type |-> ms.type, bid |-> (ms.bid + seq) % U32,
                         data |-> IF ms.type = "Write" THEN mem[seq] ELSE NoData]]
      <3>1. \/ ms.nxt >= ms.tot
            \/ Enqueue(pool, busy, blank, ms.nxt)
        BY <1>c DEF cont_func
      <3>2. Enqueue(pool, busy, blank, ms.nxt)
        BY <1>2, <3>1, Bounds
      <3> HIDE DEF pool, busy, blank
      <3> QED
        BY <3>2 DEF Enqueue
    <2>2. Requested = seq /\ Requested' = seq + 1 /\ seq \in Blocks /\ seq \in Nat
      BY <1>2, <1>a, <1>b, Bounds DEF Requested, min, Blocks
    <2>3. (ms.bid + seq) % U32 = ms.bid + seq /\ ms.bid + seq \in 0 .. U32 - 1
      <3>1. ms.bid + seq \in Nat /\ ms.bid + seq < U32
        BY <1>2, Bounds
      <3> QED
        BY <3>1, ModSmall
    <2>4. /\ h \in Buffers /\ busy[h] = "free"
          /\ avail' \in Seq(Buffers) /\ Len(avail') = Len(avail)
          /\ \A m, n \in DOMAIN avail' : avail'[m] = avail'[n] => m = n
          /\ \A n \in DOMAIN avail' : net'[avail'[n]] = "free"
      <3> HIDE DEF pool, busy
      <3> QED
        <4>1. /\ Head(pool) \in Buffers /\ busy[Head(pool)] = "free"
              /\ Tail(pool) \in Seq(Buffers) /\ Len(Tail(pool)) = Len(pool) - 1
              /\ \A m, n \in DOMAIN Tail(pool) : Tail(pool)[m] = Tail(pool)[n] => m = n
              /\ \A n \in DOMAIN Tail(pool) :
                   [busy EXCEPT ![Head(pool)] = "sent"][Tail(pool)[n]] = "free"
          BY <1>f, <1>g, PoolTake
        <4> QED
          BY <1>f, <1>h, <2>1, <4>1
    <2>5. (IF ms.type = "Write" THEN mem[seq] ELSE NoData) \in Values \cup {NoData}
      BY <2>2 DEF IInv, TypeOK, Memory
    <2> HIDE DEF seq, pool, busy, blank, rest, h
    <2>6. /\ net' \in [Buffers -> {"free", "sent", "served"}]
          /\ msgs' \in [Buffers -> CommonMsg]
          /\ net'[h] = "sent"
          /\ msgs'[h].type = ms.type /\ msgs'[h].bid = ms.bid + seq
          /\ ms.type = "Write" => msgs'[h].data = mem[seq]
          /\ \A b \in Buffers \ {h} : net'[b] = busy[b] /\ msgs'[b] = blank[b]
      BY <1>g, <2>1, <2>3, <2>4, <2>5, Bounds, SMTT(30) DEF CommonMsg
    <2>7. h \notin rest /\ Flight' = rest \cup {h}
      BY <1>i, <2>4, <2>6 DEF Flight
    <2>8. /\ msgs'[h].bid - ms'.bid = seq
          /\ \A b \in rest : /\ msgs'[b].bid - ms'.bid = IndexOf(b)
                             /\ msgs'[b] = msgs[b] /\ net'[b] = net[b]
      BY <1>b, <1>g, <1>i, <1>j, <2>2, <2>6, <2>7, Bounds DEF IndexOf
    <2>9. TypeOK'
      BY <1>a, <1>b, <1>d, <2>4, <2>6 DEF IInv, TypeOK
    <2>10. Cardinality(Flight') = Cardinality(Flight)
      <3>1. Cardinality(rest \cup {h}) = Cardinality(rest) + 1
        BY <1>h, <2>7, FS_AddElement
      <3> QED
        BY <1>h, <2>7, <3>1
    <2>11. BuffersConserved'
      BY <1>h, <2>4, <2>10 DEF BuffersConserved
    <2>12. FlightCount'
      BY <1>b, <1>h, <2>2, <2>10, Bounds, SMTT(30) DEF FlightCount, seq
    <2>13. RequestsDistinct'
      BY <1>j, <1>k, <2>2, <2>7, <2>8 DEF RequestsDistinct, IndexOf
    <2>14. MessagesOK'
      <3>1. ASSUME NEW b \in Flight'
            PROVE  /\ msgs'[b].type = ms.type
                   /\ ms.type = "Write" => msgs'[b].data = mem'[msgs'[b].bid - ms'.bid]
                   /\ ms.type = "Read" /\ net'[b] = "served" =>
                          msgs'[b].data = disk[msgs'[b].bid]
        <4>1. CASE b = h
          BY <1>d, <2>6, <2>8, <4>1
        <4>2. CASE b \in rest
          BY <1>j, <2>8, <4>2 DEF IndexOf
        <4> QED
          BY <2>7, <4>1, <4>2
      <3> QED
        BY <1>a, <1>b, <3>1 DEF MessagesOK, IndexOf
    <2>15. RequestedDone'
      <3>1. seq \in Pending'
        BY <2>6, <2>7, <2>8 DEF Pending, IndexOf
      <3>2. ASSUME NEW j \in 0 .. seq - 1
            PROVE  j \in Pending' \/ mem'[j] = disk[ms.bid + j]
        BY <1>b, <1>d, <2>2, <2>7, <2>8 DEF Pending, IndexOf
      <3> QED
        BY <1>a, <1>b, <2>2, <3>1, <3>2 DEF RequestedDone
    <2>16. Moved' = IF ms.type = "Read" THEN Moved \cup {IndexOf(k)} ELSE Moved
      <3> DEFINE P == {IndexOf(b) : b \in {b \in rest : ms.type = "Read" \/ net[b] = "sent"}}
      <3>1. {b \in Flight' : ms'.type = "Read" \/ net'[b] = "sent"}
              = {b \in rest : ms.type = "Read" \/ net[b] = "sent"} \cup {h}
        BY <1>b, <2>6, <2>7, <2>8
      <3>2. Pending' = P \cup {seq}
        BY <2>8, <3>1 DEF Pending, IndexOf
      <3> HIDE DEF P
      <3>3. P = IF ms.type = "Read" THEN Pending \ {IndexOf(k)} ELSE Pending
        BY <1>l DEF P
      <3> QED
        BY <1>a, <1>m, <2>2, <3>2, <3>3 DEF Moved
    <2> QED
      BY <1>e, <2>9, <2>11, <2>12, <2>13, <2>14, <2>15, <2>16 DEF IInv
  <1> QED
    BY <1>1, <1>2, Bounds

LEMMA NextInv == ASSUME IInv, [Next]_vars PROVE IInv'
  <1>1. ASSUME NEW blockID \in Blocks, NEW len \in 0 .. NumBlocks, read(blockID, len)
        PROVE  IInv'
    <2>1. Begin("Read", blockID, len, [b \in Blocks |-> NoData])
      BY <1>1 DEF read
    <2>2. [b \in Blocks |-> NoData] \in Memory
      BY DEF Memory
    <2> QED
      BY <2>1, <2>2, BeginInv DEF MsgType
  <1>2. ASSUME NEW blockID \in Blocks, NEW len \in 0 .. NumBlocks,
               NEW src \in [Blocks -> Values], write(blockID, len, src)
        PROVE  IInv'
    <2>1. Begin("Write", blockID, len, src)
      BY <1>2 DEF write
    <2>2. src \in Memory
      BY DEF Memory
    <2> QED
      BY <2>1, <2>2, BeginInv DEF MsgType
  <1>3. CASE UNCHANGED vars
    <2>1. /\ pc' = pc /\ i' = i /\ ms' = ms /\ mem' = mem
          /\ avail' = avail /\ msgs' = msgs /\ net' = net /\ disk' = disk
      BY <1>3 DEF vars
    <2>2. Flight' = Flight /\ Requested' = Requested /\ Pending' = Pending
      BY <2>1 DEF Flight, Requested, Pending, IndexOf
    <2> QED
      BY <2>1, <2>2 DEF IInv, TypeOK, MissionOK, BuffersConserved, FlightCount,
         RequestsDistinct, MessagesOK, RequestedDone, IndexOf
  <1> QED
    BY <1>1, <1>2, <1>3, IssueInv, IssueDoneInv, ReturnInv, ContInv, ServerInv
    DEF Next, Call, Client, Server

\* The invariant is inductive.
THEOREM Inductive == Spec => []IInv
  BY InitInv, NextInv, PTL DEF Spec

\* Every variable of the client keeps its type, for pools and pipelines of any
\* size: no buffer number, counter or block index ever leaves its range.
THEOREM TypeCorrect == Spec => []TypeOK
  BY Inductive, PTL DEF IInv

\* No message buffer is lost, shared or freed twice by read, write and cont_func.
THEOREM PoolConserved == Spec => []BuffersConserved
  BY Inductive, PTL DEF IInv

\* avail.front() is never called on an empty pool while the pipeline is filled.
THEOREM PoolNeverEmpty == Spec => []PoolSuffices
  <1>1. IInv => PoolSuffices
    <2> SUFFICES ASSUME IInv PROVE PoolSuffices
      OBVIOUS
    <2>1. /\ Cardinality(Flight) = Requested - (ms.nxt - ms.pip)
          /\ Len(avail) + Cardinality(Flight) = MSG_BUFFER_NUM
          /\ Len(avail) \in Nat /\ i \in Nat
      BY DEF IInv, FlightCount, BuffersConserved, TypeOK
    <2>2. ms.pip <= PIPLINE_PKT_DEPTH
      BY Bounds, PoolAssumption DEF IInv, MissionOK, min
    <2>3. Requested <= ms.nxt /\ (pc = "issue" => ms.nxt = ms.pip /\ Requested = i)
      BY <2>1, Bounds DEF IInv, MissionOK, Requested, min
    <2>4. Cardinality(Flight) <= PIPLINE_PKT_DEPTH
      BY <2>1, <2>2, <2>3, Bounds, PoolAssumption
    <2>5. ASSUME pc = "issue", i < ms.nxt PROVE avail # <<>>
      <3>1. Len(avail) > 0
        BY <2>1, <2>2, <2>3, <2>5, Bounds, PoolAssumption
      <3> QED
        BY <3>1
    <2> QED
      BY <2>4, <2>5 DEF PoolSuffices
  <1> QED
    BY <1>1, Inductive, PTL

\* When read or write returns, none of its requests is outstanding: the loop
\* condition nxt < tot + pip waits for exactly the continuations there are.
THEOREM NoneLeftBehind == Spec => []NoLateCompletion
  <1>1. IInv => NoLateCompletion
    BY IdleEmpty DEF NoLateCompletion
  <1> QED
    BY <1>1, Inductive, PTL

\* When a call returns, the caller's memory and the store agree on every block
\* of the call, in whatever order the responses came.
THEOREM CallComplete == Spec => []ResultComplete
  <1>1. IInv => ResultComplete
    <2> SUFFICES ASSUME IInv, pc = "idle", NEW j \in 0 .. ms.tot - 1
                 PROVE  mem[j] = disk[ms.bid + j]
      BY DEF ResultComplete
    <2>1. Pending = {}
      BY IdleEmpty DEF Pending
    <2>2. Requested = ms.tot
      BY Bounds DEF IInv, MissionOK, Requested, min
    <2> QED
      BY <2>1, <2>2 DEF IInv, RequestedDone
  <1> QED
    BY <1>1, Inductive, PTL

\* The requests outstanding are for different blocks of the call.
THEOREM NoDuplicateRequest == Spec => []RequestsDistinct
  BY Inductive, PTL DEF IInv

-----------------------------------------------------------------------------
(***************************************************************************)
(* The client implements BlockTransfer: op is the Mission while a call is  *)
(* under way, and a block is moved when the server stores it (write) or    *)
(* when its continuation copies it (read).                                 *)
(***************************************************************************)

\* The value of op in the mapping.
Op == IF pc = "idle" THEN [type |-> "none", bid |-> 0, tot |-> 0]
      ELSE [type |-> ms.type, bid |-> ms.bid, tot |-> ms.tot]

LEMMA MapInit == Init => Transfer!BTInit
  BY DEF Init, Transfer!BTInit, Transfer!NoOp, Transfer!Memory, Transfer!Blocks,
         Moved, Blocks

LEMMA MapBegin ==
    ASSUME NEW type \in MsgType, NEW blockID \in Blocks,
           NEW len \in 0 .. NumBlocks, NEW m \in Memory,
           Begin(type, blockID, len, m)
    PROVE  Transfer!BTNext
  <1> DEFINE r == [type |-> type, bid |-> blockID, tot |-> len]
  <1>1. /\ ms'.type = type /\ ms'.bid = blockID /\ ms'.tot = len
        /\ pc = "idle" /\ pc' = "issue" /\ i' = 0
        /\ mem' = m /\ disk' = disk /\ net' = net
        /\ blockID + len <= NumBlocks
    BY DEF Begin
  <1>2. r \in Transfer!Requests /\ m \in Transfer!Memory
    BY DEF Transfer!Requests, Transfer!Memory, Transfer!Blocks, MsgType, Memory, Blocks
  <1>3. Op = Transfer!NoOp /\ Op' = r
    BY <1>1 DEF Op, Transfer!NoOp
  <1>4. Moved' = {}
    BY <1>1 DEF Moved, Requested
  <1>5. Transfer!Start(r, m)
    BY <1>1, <1>3, <1>4 DEF Transfer!Start, Op
  <1> QED
    BY <1>2, <1>5 DEF Transfer!BTNext

LEMMA MapServer ==
    ASSUME IInv, NEW k \in Buffers, ServerHandle(k), pc # "idle"
    PROVE  Transfer!BTNext \/ UNCHANGED Transfer!btVars
  <1>1. /\ pc' = pc /\ ms' = ms /\ mem' = mem /\ Requested' = Requested
        /\ net[k] = "sent"
    BY DEF ServerHandle, Requested
  <1>2. /\ Pending' = IF ms.type = "Write" THEN Pending \ {IndexOf(k)} ELSE Pending
        /\ IndexOf(k) \in Pending /\ k \in Flight
    BY ServerInv
  <1>3. /\ msgs[k].bid = ms.bid + IndexOf(k) /\ IndexOf(k) \in 0 .. Requested - 1
        /\ IndexOf(k) \in 0 .. ms.tot - 1 /\ IndexOf(k) \in Blocks
        /\ msgs[k].type = ms.type /\ (ms.type = "Write" => msgs[k].data = mem[IndexOf(k)])
    BY <1>2, FlightBounds, Bounds DEF IInv, MessagesOK
  <1>4. Op' = Op /\ Op.type = ms.type /\ Op.bid = ms.bid /\ Op.tot = ms.tot
    BY <1>1 DEF Op
  <1>5. Op # Transfer!NoOp
    BY <1>4, Bounds DEF MsgType, Transfer!NoOp
  <1>6. CASE ms.type = "Write"
    <2>1. disk' = [disk EXCEPT ![ms.bid + IndexOf(k)] = mem[IndexOf(k)]]
      BY <1>3, <1>6 DEF ServerHandle
    <2>2. Moved' = Moved \cup {IndexOf(k)} /\ IndexOf(k) \notin Moved
      BY <1>1, <1>2, <1>3, <1>6 DEF Moved
    <2>3. Transfer!MoveOut(IndexOf(k))
      BY <1>1, <1>3, <1>4, <1>5, <1>6, <2>1, <2>2 DEF Transfer!MoveOut, Op
    <2> QED
      BY <1>3, <2>3 DEF Transfer!BTNext, Transfer!Blocks, Blocks
  <1>7. CASE ms.type = "Read"
    <2>1. disk' = disk
      BY <1>3, <1>7 DEF ServerHandle
    <2>2. Moved' = Moved
      BY <1>1, <1>2, <1>7 DEF Moved
    <2> QED
      BY <1>1, <1>4, <2>1, <2>2 DEF Transfer!btVars, Op
  <1> QED
    BY <1>6, <1>7, Bounds DEF MsgType

LEMMA MapCont ==
    ASSUME IInv, NEW k \in Buffers, cont_func(k)
    PROVE  Transfer!BTNext \/ UNCHANGED Transfer!btVars
  <1>1. /\ pc = "loop" /\ pc' = pc /\ disk' = disk
        /\ ms'.type = ms.type /\ ms'.bid = ms.bid /\ ms'.tot = ms.tot
    BY DEF cont_func, IInv, TypeOK, Mission
  <1>2. /\ k \in Flight
        /\ ms.type = "Write" => mem' = mem
        /\ ms.type = "Read" => mem' = [mem EXCEPT ![IndexOf(k)] = disk[ms.bid + IndexOf(k)]]
    BY ContCopies
  <1>3. Moved' = IF ms.type = "Read" THEN Moved \cup {IndexOf(k)} ELSE Moved
    BY ContInv
  <1>4. /\ IndexOf(k) \in 0 .. Requested - 1
        /\ IndexOf(k) \in 0 .. ms.tot - 1 /\ IndexOf(k) \in Blocks
    BY <1>2, FlightBounds, Bounds
  <1>5. Op' = Op /\ Op.type = ms.type /\ Op.bid = ms.bid /\ Op.tot = ms.tot
    BY <1>1 DEF Op
  <1>6. Op # Transfer!NoOp
    BY <1>5, Bounds DEF MsgType, Transfer!NoOp
  <1>7. CASE ms.type = "Read"
    <2>1. IndexOf(k) \notin Moved
      BY <1>1, <1>2, <1>7 DEF Moved, Pending
    <2>2. Transfer!MoveIn(IndexOf(k))
      BY <1>1, <1>2, <1>3, <1>4, <1>5, <1>6, <1>7, <2>1 DEF Transfer!MoveIn, Op
    <2> QED
      BY <1>4, <2>2 DEF Transfer!BTNext, Transfer!Blocks, Blocks
  <1>8. CASE ms.type = "Write"
    BY <1>1, <1>2, <1>3, <1>5, <1>8 DEF Transfer!btVars, Op
  <1> QED
    BY <1>7, <1>8, Bounds DEF MsgType

LEMMA MapReturn == ASSUME IInv, Return PROVE Transfer!BTNext
  <1>1. pc = "loop" /\ pc' = "idle" /\ mem' = mem /\ disk' = disk
        /\ ~(ms.nxt < ms.tot + ms.pip)
    BY DEF Return
  <1>2. Flight = {}
    <2>1. IInv' /\ pc' = "idle" /\ net' = net
      BY ReturnInv DEF Return
    <2>2. Requested = ms.tot /\ ms.nxt = ms.tot + ms.pip
      BY <1>1, Bounds DEF IInv, MissionOK, Requested, min
    <2>3. Cardinality(Flight) = 0
      BY <2>2, Bounds DEF IInv, FlightCount
    <2> QED
      BY <2>3, FlightFinite, FS_EmptySet DEF Flight
  <1>3. Moved = 0 .. ms.tot - 1 /\ Moved' = {}
    BY <1>1, <1>2, Bounds DEF Moved, Pending, IInv, MissionOK, Requested, min
  <1>4. Op' = Transfer!NoOp /\ Op.tot = ms.tot /\ Op.type = ms.type
    BY <1>1 DEF Op, Transfer!NoOp
  <1>5. Op # Transfer!NoOp
    BY <1>4, Bounds DEF MsgType, Transfer!NoOp
  <1>6. Transfer!Finish
    BY <1>1, <1>3, <1>4, <1>5 DEF Transfer!Finish, Op
  <1> QED
    BY <1>6 DEF Transfer!BTNext

LEMMA MapStep == ASSUME IInv, [Next]_vars PROVE [Transfer!BTNext]_(Transfer!btVars)
  <1>1. ASSUME NEW blockID \in Blocks, NEW len \in 0 .. NumBlocks,
               read(blockID, len) \/ \E src \in [Blocks -> Values] : write(blockID, len, src)
        PROVE  Transfer!BTNext
    <2>1. [b \in Blocks |-> NoData] \in Memory /\ \A src \in [Blocks -> Values] : src \in Memory
      BY DEF Memory
    <2> QED
      BY <1>1, <2>1, MapBegin DEF read, write, MsgType
  <1>2. CASE Issue
    <2>1. Moved' = Moved
      BY <1>2, IssueInv
    <2>2. pc' = pc /\ ms' = ms /\ mem' = mem /\ disk' = disk
      BY <1>2 DEF Issue
    <2> QED
      BY <2>1, <2>2 DEF Transfer!btVars
  <1>3. CASE IssueDone
    <2>1. /\ pc = "issue" /\ pc' = "loop" /\ ms' = ms /\ mem' = mem /\ disk' = disk
          /\ net' = net /\ msgs' = msgs /\ i' = i /\ i >= ms.nxt
      BY <1>3 DEF IssueDone
    <2>2. Requested' = Requested
      BY <2>1, PoolAssumption DEF IInv, TypeOK, MissionOK, Mission, Requested, min
    <2>3. Pending' = Pending
      BY <2>1 DEF Pending, IndexOf, Flight
    <2> QED
      BY <2>1, <2>2, <2>3 DEF Transfer!btVars, Moved
  <1>4. ASSUME NEW k \in Buffers, ServerHandle(k) PROVE pc # "idle"
    BY <1>4, IdleEmpty DEF ServerHandle, Flight
  <1>5. CASE UNCHANGED vars
    BY <1>5 DEF vars, Transfer!btVars, Moved, Pending, IndexOf, Flight, Requested
  <1> QED
    BY <1>1, <1>2, <1>3, <1>4, <1>5, MapServer, MapCont, MapReturn
    DEF Next, Call, Client, Server

\* The pipelined client, with its buffer pool and out-of-order responses,
\* implements the transfer that moves each block of a call exactly once.
THEOREM ImplementsTransfer == Spec => TransferSpec
  <1>1. Init => Transfer!BTInit
    BY MapInit
  <1>2. IInv /\ [Next]_vars => [Transfer!BTNext]_(Transfer!btVars)
    BY MapStep
  <1> QED
    BY <1>1, <1>2, Inductive, PTL DEF Spec, TransferSpec, Transfer!BTSpec
=============================================================================
