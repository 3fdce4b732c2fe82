------------------------- MODULE RedisContextProofs -------------------------
(***************************************************************************)
(* Theorems about RedisContext: what a connection attempt leaves behind,   *)
(* the descriptors of the process, errors, and the parser's memory.        *)
(***************************************************************************)
EXTENDS RedisContext, FiniteSetTheorems, SeqFacts

-----------------------------------------------------------------------------
(* The shape of the state *)

CFields == {"made", "fd", "err", "flags", "kind", "timeout", "source", "rcvtimeo", "obuf", "reader", "open",
            "mode", "misses", "bad"}
TFields == {"pc", "ids", "reply", "ptr"}

CtxShape ==
    /\ DOMAIN c = CFields
    /\ DOMAIN th = Threads
    /\ \A t \in Threads : DOMAIN th[t] = TFields /\ th[t].ptr \in {"uninit", "reply", "dangling"}
    /\ left \in 0 .. MaxReconnects
    /\ "pc" \in DOMAIN nc
    /\ nc.pc \in {"no", "resolve", "try", "done", "error", "up", "down"}
    /\ app \in Apps

\* x and y agree on what only connecting, reconnecting and freeing change.
Alike(x, y) ==
    /\ DOMAIN y = CFields
    /\ y.made = x.made /\ y.fd = x.fd /\ y.open = x.open /\ y.misses = x.misses
    /\ y.flags = x.flags /\ y.mode = x.mode

ThKept == /\ DOMAIN th' = Threads
          /\ \A u \in Threads : DOMAIN th'[u] = TFields /\ th'[u].ptr \in {"uninit", "reply", "dangling"}

\* What a step of a thread does to the connection: nothing, redisFree, or
\* redisFreeKeepFd and redisConnectFd.
Uses == Alike(c, c') /\ ThKept /\ UNCHANGED <<nc, left, app>>
Frees == /\ c' = FreeContext(c) \/ \E b \in {"uninit", "reply", "dangling"} :
                c' = [FreeContext(c) EXCEPT !.bad = @ \cup {b}]
         /\ th' = [u \in Threads |-> [th[u] EXCEPT !.pc = "exit"]]
         /\ UNCHANGED <<nc, left, app>>
KeepsFd == /\ DOMAIN c' = CFields /\ c'.made = TRUE /\ c'.fd = c.fd /\ c'.open = c.open /\ c'.misses = c.misses
           /\ c'.flags = {"BLOCK", "CONNECTED"} /\ c'.err = "no"
           /\ nc.pc = "up" /\ left > 0 /\ left' = left - 1 /\ UNCHANGED <<nc, app, th>>

LEMMA OneThreadMoves ==
    ASSUME CtxShape, NEW t \in Threads, NEW y, DOMAIN y = TFields, y.ptr \in {"uninit", "reply", "dangling"},
           th' = [th EXCEPT ![t] = y]
    PROVE  ThKept
BY DEF CtxShape, ThKept

LEMMA AlikeOps ==
    ASSUME NEW x, DOMAIN x = CFields
    PROVE  /\ \A r : Alike(x, AfterReader(x, r))
           /\ \A n : Alike(x, BufferWrite(x, n)) /\ \A e : Alike(x, Appended(x, n, e))
           /\ \A e : Alike(x, SetError(x, e))
           /\ \A o : Alike(x, FreeReply(x, o)) /\ Alike(x, [x EXCEPT !.reader.out = o])
           /\ \A b : Alike(x, [x EXCEPT !.rcvtimeo = b])
BY DEF Alike, CFields, AfterReader, BufferWrite, Appended, SetError, FreeReply

LEMMA AlikeTrans ==
    ASSUME NEW x, NEW y, NEW z, Alike(x, y), Alike(y, z)
    PROVE  Alike(x, z)
BY DEF Alike

LEMMA RepliedUses ==
    ASSUME CtxShape, NEW t \in Threads, NEW x, NEW wait, Alike(c, x), Replied(t, x, wait)
    PROVE  Alike(c, c') /\ ThKept
<1>1. Alike(c, c')
  <2>1. DOMAIN x = CFields /\ c' = [x EXCEPT !.reader.out = None]
    BY DEF Alike, Replied
  <2> QED BY <2>1, AlikeOps, AlikeTrans
<1>2. CASE x.reader.err = "segv"
  <2>1. ThKept
    BY <1>2 DEF CtxShape, ThKept, Replied, Exit, TFields
  <2> QED BY <1>1, <2>1
<1>3. CASE x.reader.err # "segv"
  <2> DEFINE y == CASE ~x.reader.ok        -> [th[t] EXCEPT !.pc = "failed"]
                    [] x.reader.out # None -> [th[t] EXCEPT !.pc = "use", !.reply = x.reader.out, !.ptr = "reply"]
                    [] OTHER               -> [th[t] EXCEPT !.pc = IF "BLOCK" \in c.flags THEN wait ELSE "idle"]
  <2>1. DOMAIN y = TFields /\ y.ptr \in {"uninit", "reply", "dangling"}
    BY DEF CtxShape, TFields
  <2>2. th' = [th EXCEPT ![t] = y]
    BY <1>3 DEF CtxShape, Replied
  <2> HIDE DEF y
  <2> QED BY <1>1, <2>1, <2>2, OneThreadMoves
<1> QED BY <1>2, <1>3

LEMMA GetPendingUses == ASSUME CtxShape, NEW t \in Threads, GetPending(t) PROVE Uses
<1>1. PICK m : Replied(t, FromReader(c, m), "write")
  BY DEF GetPending
<1>2. Alike(c, FromReader(c, m))
  BY AlikeOps DEF CtxShape, FromReader
<1> QED BY <1>1, <1>2, RepliedUses DEF GetPending, Uses

LEMMA GetWriteUses == ASSUME CtxShape, NEW t \in Threads, GetWrite(t) PROVE Uses
<1>1. Alike(c, c')
  <2>1. c' = c \/ \E n : c' = BufferWrite(c, n)
    BY DEF GetWrite
  <2>2. Alike(c, c)
    BY DEF CtxShape, Alike
  <2> QED BY <2>1, <2>2, AlikeOps DEF CtxShape
<1>2. ThKept
  <2>1. \E y : th' = [th EXCEPT ![t].pc = y]
    BY DEF GetWrite, CtxShape, TFields
  <2> QED BY <2>1 DEF CtxShape, ThKept, TFields
<1> QED BY <1>1, <1>2 DEF GetWrite, Uses

LEMMA GetReadUses == ASSUME CtxShape, NEW t \in Threads, GetRead(t) PROVE Uses
<1>0. UNCHANGED <<nc, left, app>>
  BY DEF GetRead
<1>1. CASE (c' = c \/ \E e : c' = SetError(c, e)) /\ th' = [th EXCEPT ![t].pc = "failed"]
  <2>1. Alike(c, c)
    BY DEF CtxShape, Alike
  <2>2. Alike(c, c')
    BY <1>1, <2>1, AlikeOps DEF CtxShape
  <2>3. ThKept
    BY <1>1 DEF CtxShape, ThKept, TFields
  <2> QED BY <1>0, <2>2, <2>3 DEF Uses
<1>2. ASSUME NEW n, NEW m,
             LET fed == BufferRead(c, SubSeq(net.down, 1, n), m)
             IN  Replied(t, IF fed.err # "no" THEN fed ELSE FromReader(fed, m), "read")
      PROVE  Uses
  <2> DEFINE fed == BufferRead(c, SubSeq(net.down, 1, n), m)
  <2>1. Alike(c, fed) /\ DOMAIN fed = CFields
    BY AlikeOps DEF CtxShape, BufferRead, Alike
  <2> HIDE DEF fed
  <2>2. Alike(fed, FromReader(fed, m))
    BY <2>1, AlikeOps DEF FromReader
  <2>3. Alike(c, IF fed.err # "no" THEN fed ELSE FromReader(fed, m))
    BY <2>1, <2>2, AlikeTrans
  <2>4. Replied(t, IF fed.err # "no" THEN fed ELSE FromReader(fed, m), "read")
    BY <1>2 DEF fed
  <2> QED BY <1>0, <2>3, <2>4, RepliedUses DEF Uses
<1> QED BY <1>1, <1>2 DEF GetRead

LEMMA IssueUses ==
    ASSUME CtxShape, NEW t \in Threads, NEW shape, NEW e, Issue(shape, e), UNCHANGED <<nc, left, app>>,
           \/ \E pc, ids : Calls(t, pc, ids)
           \/ \E ids : th' = [th EXCEPT ![t].ids = ids]
    PROVE  Uses
<1>1. Alike(c, c')
  BY AlikeOps DEF CtxShape, Issue
<1>2. ThKept
  <2>1. CASE \E pc, ids : Calls(t, pc, ids)
    <3>1. PICK p, n : Calls(t, p, n)
      BY <2>1
    <3>2. PICK y : y = [th[t] EXCEPT !.pc = p, !.ids = n, !.ptr = "uninit"]
      OBVIOUS
    <3>3. DOMAIN y = TFields /\ y.ptr = "uninit"
      BY <3>2 DEF CtxShape, TFields
    <3>4. th' = [th EXCEPT ![t] = y]
      BY <3>1, <3>2, Zenon DEF Calls
    <3> QED BY <3>3, <3>4, OneThreadMoves
  <2>2. CASE \E ids : th' = [th EXCEPT ![t].ids = ids]
    <3>1. PICK ids : th' = [th EXCEPT ![t].ids = ids]
      BY <2>2
    <3> QED BY <3>1 DEF CtxShape, ThKept, TFields
  <2> QED BY <2>1, <2>2
<1> QED BY <1>1, <1>2 DEF Uses

\* What a program does with a context that it neither renews nor frees.
Plain(t) ==
    \/ Read(t) \/ Update(t) \/ Scan(t)
    \/ redisAppendCommand(t) \/ redisGetReply(t) \/ redisBufferWrite(t) \/ redisBufferRead(t)
    \/ redisSetTimeout(t) \/ redisEnableKeepAlive(t)

LEMMA PlainUses == ASSUME CtxShape, NEW t \in Threads, Plain(t) PROVE Uses
<1>0. Alike(c, c)
  BY DEF CtxShape, Alike
<1>1. CASE Read(t)
  BY <1>1, IssueUses DEF Read
<1>2. CASE Update(t)
  BY <1>2, IssueUses DEF Update
<1>3. CASE Scan(t)
  <2>1. ThKept
    BY <1>3 DEF Scan, CtxShape, ThKept, TFields
  <2> QED BY <1>0, <1>3, <2>1 DEF Scan, Uses
<1>4. CASE redisAppendCommand(t)
  <2>1. \E shape, e : Issue(shape, e) /\ \E ids : th' = [th EXCEPT ![t].ids = ids]
    BY <1>4 DEF redisAppendCommand, CtxShape, TFields
  <2> QED BY <1>4, <2>1, IssueUses DEF redisAppendCommand
<1>5. CASE redisGetReply(t)
  <2>1. ThKept
    BY <1>5 DEF redisGetReply, Calls, CtxShape, ThKept, TFields
  <2> QED BY <1>0, <1>5, <2>1 DEF redisGetReply, Uses
<1>6. CASE redisBufferWrite(t) \/ redisBufferRead(t) \/ redisSetTimeout(t) \/ redisEnableKeepAlive(t)
  <2>1. th' = th /\ UNCHANGED <<nc, left, app>>
    BY <1>6 DEF redisBufferWrite, redisBufferRead, redisSetTimeout, redisEnableKeepAlive
  <2>2. Alike(c, c')
    <3>1. CASE redisBufferWrite(t)
      BY <3>1, AlikeOps DEF redisBufferWrite, CtxShape
    <3>2. CASE redisBufferRead(t)
      <4>1. (\E e : c' = SetError(c, e)) \/ (\E b, m : c' = BufferRead(c, b, m))
        BY <3>2 DEF redisBufferRead
      <4> QED BY <4>1, AlikeOps, ZenonT(30) DEF CtxShape, BufferRead
    <3>3. CASE redisSetTimeout(t)
      <4>1. c' = SetError(c, "io") \/ c' = [c EXCEPT !.rcvtimeo = TRUE]
        BY <3>3 DEF redisSetTimeout
      <4> QED BY <4>1, AlikeOps DEF CtxShape
    <3>4. CASE redisEnableKeepAlive(t)
      BY <1>0, <3>4, AlikeOps DEF redisEnableKeepAlive, CtxShape
    <3> QED BY <1>6, <3>1, <3>2, <3>3, <3>4
  <2> QED BY <2>1, <2>2 DEF Uses, CtxShape, ThKept
<1> QED BY <1>1, <1>2, <1>3, <1>4, <1>5, <1>6 DEF Plain

LEMMA ProgramUses ==
    ASSUME CtxShape, NEW t \in Threads, Program(t)
    PROVE  Uses \/ Frees \/ KeepsFd \/ redisReconnect(t)
<1>1. CASE Plain(t)
  BY <1>1, PlainUses
<1>2. CASE redisReconnect(t)
  BY <1>2
<1>3. CASE redisFree(t)
  BY <1>3 DEF redisFree, Frees, Exit
<1>4. CASE redisFreeKeepFd(t)
  <2>1. PICK y : y = [c EXCEPT !.fd = -1]
    OBVIOUS
  <2>2. DOMAIN y = CFields /\ y.fd = -1 /\ y.open = c.open /\ y.misses = c.misses
    BY <2>1 DEF CtxShape, CFields
  <2>3. PICK z : z = FreeContext(y)
    OBVIOUS
  <2>4. DOMAIN z = CFields /\ z.open = c.open /\ z.misses = c.misses
    BY <2>2, <2>3 DEF FreeContext, CFields
  <2>5. c' = [z EXCEPT !.made = TRUE, !.fd = c.fd, !.flags = {"BLOCK", "CONNECTED"}, !.kind = "tcp", !.err = "no",
                       !.obuf = <<>>, !.timeout = FALSE, !.source = FALSE]
    BY <1>4, <2>1, <2>3 DEF redisFreeKeepFd
  <2>6. nc.pc = "up" /\ left > 0 /\ left' = left - 1 /\ UNCHANGED <<nc, app, th>>
    BY <1>4 DEF redisFreeKeepFd
  <2> QED BY <2>4, <2>5, <2>6 DEF KeepsFd, CFields
<1> QED BY <1>1, <1>2, <1>3, <1>4 DEF Program, Plain

LEMMA GoOnUses ==
    ASSUME CtxShape, NEW t \in Threads, GoOn(t)
    PROVE  Uses \/ Frees
<1>0. Alike(c, c)
  BY DEF CtxShape, Alike
<1>1. CASE GetPending(t)
  BY <1>1, GetPendingUses
<1>2. CASE GetWrite(t)
  BY <1>2, GetWriteUses
<1>3. CASE GetRead(t)
  BY <1>3, GetReadUses
<1>4. CASE AppendWait(t)
  BY <1>4, IssueUses DEF AppendWait
<1>5. CASE UseReply(t)
  <2>1. CASE Exit("abort") /\ c' = c
    <3>1. ThKept
      BY <2>1 DEF Exit, CtxShape, ThKept, TFields
    <3> QED BY <1>0, <1>5, <2>1, <3>1 DEF UseReply, Uses
  <2>2. CASE /\ c' = FreeReply(c, th[t].reply)
             /\ th' = [th EXCEPT ![t] = [@ EXCEPT !.reply = None, !.ptr = "dangling", !.ids = Tail(@),
                                                 !.pc = IF Len(th[t].ids) > 1 THEN "get" ELSE "idle"]]
    <3>1. ThKept
      BY <2>2 DEF CtxShape, ThKept, TFields
    <3>2. Alike(c, c')
      BY <2>2, AlikeOps DEF CtxShape
    <3> QED BY <1>5, <3>1, <3>2 DEF UseReply, Uses
  <2> QED BY <1>5, <2>1, <2>2 DEF UseReply
<1>6. CASE NoReply(t)
  <2>1. CASE th' = [th EXCEPT ![t].pc = "idle"] /\ c' = c
    <3>1. ThKept
      BY <2>1 DEF CtxShape, ThKept, TFields
    <3> QED BY <1>0, <1>6, <2>1, <3>1 DEF NoReply, Uses
  <2>2. CASE /\ c' = [FreeContext(c) EXCEPT !.bad = @ \cup {th[t].ptr}]
             /\ Exit("exit")
    BY <1>6, <2>2 DEF NoReply, Exit, Frees, CtxShape
  <2> QED BY <1>6, <2>1, <2>2 DEF NoReply
<1>7. CASE ApiUses(t)
  <2>1. ThKept
    BY <1>7 DEF ApiUses, CtxShape, ThKept, TFields
  <2>2. Alike(c, c')
    BY <1>7, AlikeOps DEF ApiUses, CtxShape
  <2> QED BY <1>7, <2>1, <2>2 DEF ApiUses, Uses
<1> QED BY <1>1, <1>2, <1>3, <1>4, <1>5, <1>6, <1>7 DEF GoOn

-----------------------------------------------------------------------------
(* Connecting *)

\* Nobody asks for SO_REUSEADDR, or it never matters: bind(2) and its option
\* succeed.  (With it, an attempt may fail without an error in the context.)
NoReuse == Outcomes \cap {"noreuse", "notavail"} = {} \/ \A f \in Flavours : ~f.reuse

\* Threads wait while the context is connected, and are over when it is freed.
Waiting ==
    /\ nc.pc \notin {"up", "down"} => \A t \in Threads : th[t].pc = "idle"
    /\ (nc.pc # "no" /\ ~c.made) => nc.pc \in {"up", "down"} /\ \A t \in Threads : th[t].pc = "exit"

\* What the loop over the addresses relies on and what it achieves.
Outcome ==
    /\ nc.pc \in {"no", "resolve", "try"} => c.err = "no"
    /\ "REUSEADDR" \in c.flags => \E f \in Flavours : f.reuse
    /\ ConnectOutcome

CtxInv == CtxShape /\ Waiting /\ Outcome

LEMMA CtxStart == CtxInit => CtxInv
BY CtxAssumption DEF CtxInit, CtxInv, CtxShape, Waiting, Outcome, ConnectOutcome, CFields, TFields, Idle

LEMMA ResolveInv == ASSUME CtxInv, Resolve PROVE CtxInv'
BY ZenonT(30) DEF Resolve, SetError, CtxInv, CtxShape, Waiting, Outcome, ConnectOutcome, CFields

\* What becomes of the context in one attempt.
Attempted(x, a) ==
    /\ DOMAIN a.c = CFields /\ a.c.made = x.made
    /\ a.c.flags \subseteq x.flags \cup {"CONNECTED"}
    /\ a.then \in {"next", "error", "done"}
    /\ a.then = "next" => a.c.err = x.err
    /\ a.then = "error" => a.c.err # "no"
    /\ a.then = "done" => /\ a.c.err = x.err /\ "CONNECTED" \in a.c.flags /\ a.c.fd \in a.c.open
                          /\ a.c.mode = "block" <=> "BLOCK" \in a.c.flags

LEMMA SocketMade ==
    ASSUME NEW x, DOMAIN x = CFields
    PROVE  /\ DOMAIN Socket(x) = CFields /\ Socket(x).fd \in Socket(x).open /\ Socket(x).mode = "nonblock"
           /\ Socket(x).made = x.made /\ Socket(x).err = x.err /\ Socket(x).flags = x.flags
BY DEF Socket, CFields

LEMMA CloseFdKeeps ==
    ASSUME NEW x, DOMAIN x = CFields
    PROVE  /\ DOMAIN CloseFd(x) = CFields /\ CloseFd(x).made = x.made /\ CloseFd(x).err = x.err
           /\ CloseFd(x).flags = x.flags
BY DEF CloseFd, Close, CFields

LEMMA FailedKeeps ==
    ASSUME NEW x, DOMAIN x = CFields, NEW e, e # "no"
    PROVE  /\ DOMAIN Failed(x, e).c = CFields /\ Failed(x, e).c.made = x.made /\ Failed(x, e).c.err = e
           /\ Failed(x, e).c.flags = x.flags /\ Failed(x, e).then = "error"
<1>1. DOMAIN SetError(x, e) = CFields /\ SetError(x, e).made = x.made /\ SetError(x, e).err = e
      /\ SetError(x, e).flags = x.flags
  BY DEF SetError, CFields
<1> QED BY <1>1, CloseFdKeeps DEF Failed

\* A socket s that was made for x is connected, or not.
LEMMA Reached ==
    ASSUME NEW x, NEW s, NEW what, DOMAIN s = CFields, s.made = x.made, s.err = x.err, s.flags = x.flags,
           s.fd \in s.open, s.mode = "nonblock", x.err = "no"
    PROVE  Attempted(x, Reach(s, what))
<1>1. CASE what = "ok"
  BY <1>1 DEF Attempted, Reach, Connected, CFields
<1>2. CASE what = "sockerr"
  BY <1>2 DEF Attempted, Reach, SetError, CFields
<1>3. CASE what \notin {"ok", "sockerr"}
  <2>1. Reach(s, what) = Failed(s, "io")
    BY <1>3 DEF Reach
  <2> QED BY <2>1, FailedKeeps DEF Attempted
<1> QED BY <1>1, <1>2, <1>3

LEMMA AttemptUnixMade ==
    ASSUME NEW x, DOMAIN x = CFields, x.err = "no", NEW what
    PROVE  Attempted(x, AttemptUnix(x, what))
<1>1. CASE what = "nosocket"
  BY <1>1 DEF AttemptUnix, Attempted, SetError, CFields
<1>2. CASE what = "fcntl"
  BY <1>2, SocketMade, FailedKeeps DEF AttemptUnix, Attempted
<1>3. CASE what \notin {"nosocket", "fcntl"}
  <2>1. PICK s : s = [Socket(x) EXCEPT !.kind = "unix"]
    OBVIOUS
  <2>2. /\ DOMAIN s = CFields /\ s.made = x.made /\ s.err = x.err /\ s.flags = x.flags
        /\ s.fd \in s.open /\ s.mode = "nonblock"
    BY <2>1, SocketMade DEF CFields
  <2>3. AttemptUnix(x, what) = Reach(s, what)
    BY <1>3, <2>1 DEF AttemptUnix
  <2> QED BY <2>2, <2>3, Reached
<1> QED BY <1>1, <1>2, <1>3

LEMMA AttemptTcpMade ==
    ASSUME NEW x, DOMAIN x = CFields, x.err = "no", NEW what \in Outcomes,
           what \notin {"noreuse", "notavail"} \/ "REUSEADDR" \notin x.flags,
           what = "noreuse" => "REUSEADDR" \in x.flags
    PROVE  Attempted(x, AttemptTcp(x, what))
<1>1. CASE what = "nosocket"
  BY <1>1 DEF AttemptTcp, Attempted
<1>2. CASE what \in {"nosource", "unbound"}
  <2>1. AttemptTcp(x, what) = [c |-> SetError(Socket(x), "other"), then |-> "error"]
    BY <1>2 DEF AttemptTcp
  <2>2. PICK s : s = Socket(x)
    OBVIOUS
  <2>3. DOMAIN s = CFields /\ s.made = x.made /\ s.flags = x.flags
    BY <2>2, SocketMade
  <2> QED BY <2>1, <2>2, <2>3 DEF Attempted, SetError, CFields
<1>3. CASE what = "unreach"
  BY <1>3, SocketMade, CloseFdKeeps DEF AttemptTcp, Attempted
<1>4. CASE what \notin {"nosocket", "nosource", "unbound", "unreach"}
  <2>1. AttemptTcp(x, what) = Reach(Socket(x), what)
    BY <1>4 DEF AttemptTcp
  <2> QED BY <2>1, SocketMade, Reached
<1> QED BY <1>1, <1>2, <1>3, <1>4

LEMMA TryAttempts ==
    ASSUME NoReuse, CtxInv, NEW what \in Outcomes, Try(what)
    PROVE  Attempted(c, IF nc.kind = "unix" THEN AttemptUnix(c, what) ELSE AttemptTcp(c, what))
<1>1. DOMAIN c = CFields /\ c.err = "no"
  BY DEF Try, CtxInv, CtxShape, Outcome
<1>2. what = "noreuse" => "REUSEADDR" \in c.flags
  BY DEF Try, Possible
<1>3. what \notin {"noreuse", "notavail"} \/ "REUSEADDR" \notin c.flags
  BY DEF NoReuse, CtxInv, Outcome
<1> QED BY <1>1, <1>2, <1>3, AttemptUnixMade, AttemptTcpMade

LEMMA TryInv == ASSUME NoReuse, CtxInv, NEW what \in Outcomes, Try(what) PROVE CtxInv'
<1>1. PICK a : a = IF nc.kind = "unix" THEN AttemptUnix(c, what) ELSE AttemptTcp(c, what)
  OBVIOUS
<1>2. Attempted(c, a)
  BY <1>1, TryAttempts
<1>3. /\ c' = IF a.then = "next" /\ nc.addrs = 1 THEN SetError(a.c, "other") ELSE a.c
      /\ nc' = CASE a.then = "next"  -> [nc EXCEPT !.addrs = @ - 1, !.pc = IF nc.addrs = 1 THEN "error" ELSE "try"]
                  [] a.then = "retry" -> [nc EXCEPT !.reuses = @ + 1]
                  [] OTHER            -> [nc EXCEPT !.pc = a.then]
      /\ nc.pc = "try" /\ UNCHANGED <<app, th, left>>
  BY <1>1 DEF Try
<1>4. /\ DOMAIN c' = CFields /\ c'.made = c.made /\ "pc" \in DOMAIN nc' /\ nc'.pc \in {"try", "error", "done"}
      /\ c'.flags \subseteq c.flags \cup {"CONNECTED"}
      /\ nc'.pc = "try" => c'.err = "no"
      /\ nc'.pc = "error" => c'.err # "no"
      /\ nc'.pc = "done" => a.then = "done" /\ c' = a.c
  <2>0. "pc" \in DOMAIN nc /\ c.err = "no"
    BY <1>3 DEF CtxInv, CtxShape, Outcome
  <2>1. CASE a.then = "next"
    BY <1>2, <1>3, <2>0, <2>1 DEF Attempted, SetError, CFields
  <2>2. CASE a.then # "next"
    BY <1>2, <1>3, <2>0, <2>2 DEF Attempted
  <2> QED BY <2>1, <2>2
<1>5. CtxShape'
  BY <1>3, <1>4 DEF CtxInv, CtxShape
<1>6. Waiting'
  BY <1>3, <1>4 DEF CtxInv, Waiting
<1>7. Outcome'
  BY <1>2, <1>3, <1>4 DEF CtxInv, Outcome, ConnectOutcome, Attempted
<1> QED BY <1>5, <1>6, <1>7 DEF CtxInv

LEMMA FreeKeeps ==
    ASSUME NEW x, DOMAIN x = CFields
    PROVE  /\ DOMAIN FreeContext(x) = CFields /\ FreeContext(x).made = FALSE /\ FreeContext(x).flags = x.flags
           /\ FreeContext(x).err = x.err
BY DEF FreeContext, Close, CFields

LEMMA ConnectReturnsInv == ASSUME CtxInv, ConnectReturns PROVE CtxInv'
<1>1. CASE app = "db" /\ c.err # "no"
  <2>1. /\ c' = FreeContext(c) /\ th' = [t \in Threads |-> [th[t] EXCEPT !.pc = "exit"]]
        /\ nc'.pc \in {"up", "down"} /\ "pc" \in DOMAIN nc' /\ UNCHANGED <<app, left>>
    BY <1>1 DEF ConnectReturns
  <2> QED BY <2>1, FreeKeeps DEF CtxInv, CtxShape, Waiting, Outcome, ConnectOutcome, TFields
<1>2. CASE ~(app = "db" /\ c.err # "no")
  <2>1. /\ c' = c /\ th' = th
        /\ nc'.pc \in {"up", "down"} /\ "pc" \in DOMAIN nc' /\ UNCHANGED <<app, left>>
        /\ nc.pc \in {"done", "error"}
    BY <1>2 DEF ConnectReturns
  <2> QED BY <2>1 DEF CtxInv, CtxShape, Waiting, Outcome, ConnectOutcome
<1> QED BY <1>1, <1>2

LEMMA ConnectInv ==
    ASSUME CtxInv, NEW f, f \in Flavours \/ f.reuse = FALSE, redisConnect(f)
    PROVE  CtxInv'
<1>1. /\ DOMAIN c' = CFields /\ c'.made = TRUE /\ c'.err = c.err
      /\ "REUSEADDR" \in c'.flags => f.reuse
  BY DEF redisConnect, CtxInv, CtxShape, CFields
<1>2. /\ nc'.pc = "resolve" /\ "pc" \in DOMAIN nc' /\ nc.pc = "no" /\ UNCHANGED <<app, th, left>>
  BY DEF redisConnect, StartConnect
<1>3. CtxShape' /\ Waiting'
  BY <1>1, <1>2 DEF CtxInv, CtxShape, Waiting
<1>4. Outcome'
  BY <1>1, <1>2 DEF CtxInv, Outcome, ConnectOutcome
<1> QED BY <1>3, <1>4 DEF CtxInv

\* A thread does something only with a context that is there and connected.
LEMMA ThreadActs ==
    ASSUME CtxInv, NEW t \in Threads, Program(t) \/ GoOn(t)
    PROVE  nc.pc \in {"up", "down"} /\ c.made
<1>1. CASE Program(t)
  BY <1>1 DEF Program, Read, Update, Scan, redisAppendCommand, redisGetReply, redisBufferWrite, redisBufferRead,
              redisSetTimeout, redisEnableKeepAlive, redisReconnect, redisFree, redisFreeKeepFd, InApi, Ready
<1>2. CASE GoOn(t)
  <2>1. th[t].pc \notin {"idle", "exit"}
    BY <1>2 DEF GoOn, GetPending, GetWrite, GetRead, AppendWait, UseReply, NoReply, ApiUses, InDB
  <2> QED BY <2>1 DEF CtxInv, Waiting, CtxShape
<1> QED BY <1>1, <1>2

LEMMA UsesInv == ASSUME CtxInv, nc.pc \in {"up", "down"}, c.made, Uses PROVE CtxInv'
BY DEF Uses, ThKept, Alike, CtxInv, CtxShape, Waiting, Outcome, ConnectOutcome

LEMMA FreesInv == ASSUME CtxInv, nc.pc \in {"up", "down"}, Frees PROVE CtxInv'
<1>1. DOMAIN c' = CFields /\ c'.flags = c.flags
  BY FreeKeeps DEF Frees, CtxInv, CtxShape, CFields
<1>2. CtxShape'
  BY <1>1 DEF Frees, CtxInv, CtxShape, TFields
<1>3. Waiting' /\ Outcome'
  BY <1>1 DEF Frees, CtxInv, CtxShape, Waiting, Outcome, ConnectOutcome, TFields
<1> QED BY <1>2, <1>3 DEF CtxInv

LEMMA KeepsFdInv == ASSUME CtxInv, KeepsFd PROVE CtxInv'
BY CtxAssumption DEF KeepsFd, CtxInv, CtxShape, Waiting, Outcome, ConnectOutcome

LEMMA RenewedKeeps ==
    ASSUME NEW x, DOMAIN x = CFields
    PROVE  /\ DOMAIN Renewed(x) = CFields /\ Renewed(x).made = x.made /\ Renewed(x).flags = x.flags
           /\ Renewed(x).err = "no"
BY DEF Renewed, Close, CFields

LEMMA ReconnectInv ==
    ASSUME CtxInv, NEW t \in Threads, redisReconnect(t)
    PROVE  CtxInv' /\ nc'.pc = "resolve" /\ left' < MaxReconnects
<1>1. /\ c' = Renewed(c) /\ nc'.pc = "resolve" /\ "pc" \in DOMAIN nc'
      /\ left > 0 /\ left' = left - 1 /\ th' = [th EXCEPT ![t] = Idle] /\ app' = app /\ c.made
  BY DEF redisReconnect, StartConnect, InApi, Ready
<1>2. \A u \in Threads : u = t
  BY CtxAssumption DEF redisReconnect, InApi, CtxInv, CtxShape
<1>3. \A u \in Threads : th'[u] = Idle
  BY <1>1, <1>2 DEF CtxInv, CtxShape
<1>4. DOMAIN c' = CFields /\ c'.made = c.made /\ c'.flags = c.flags /\ c'.err = "no"
  BY <1>1, RenewedKeeps DEF CtxInv, CtxShape
<1>5. CtxShape' /\ left' < MaxReconnects
  BY <1>1, <1>3, <1>4, CtxAssumption DEF CtxInv, CtxShape, Idle, TFields
<1>6. Waiting'
  BY <1>1, <1>3, <1>4 DEF Waiting, Idle
<1>7. Outcome'
  BY <1>1, <1>4 DEF CtxInv, Outcome, ConnectOutcome
<1> QED BY <1>1, <1>5, <1>6, <1>7 DEF CtxInv

LEMMA ServerKeeps ==
    ASSUME ServerAnswers \/ ServerCloses \/ UNCHANGED ctxVars
    PROVE  UNCHANGED <<app, c, nc, th, left>>
BY DEF ServerAnswers, ServerCloses, ctxVars

LEMMA CtxStep == ASSUME NoReuse, CtxInv, [CtxNext]_ctxVars PROVE CtxInv'
<1>1. CASE redisConnect(ByRedisDB)
  BY <1>1, ConnectInv DEF ByRedisDB
<1>2. ASSUME NEW f \in Flavours, redisConnect(f) PROVE CtxInv'
  BY <1>2, ConnectInv
<1>3. CASE Connecting
  BY <1>3, ResolveInv, TryInv, ConnectReturnsInv DEF Connecting
<1>4. ASSUME NEW t \in Threads, Program(t) \/ GoOn(t) PROVE CtxInv'
  <2>1. Uses \/ Frees \/ KeepsFd \/ redisReconnect(t)
    BY <1>4, ProgramUses, GoOnUses DEF CtxInv
  <2>2. nc.pc \in {"up", "down"} /\ c.made
    BY <1>4, ThreadActs
  <2> QED BY <2>1, <2>2, UsesInv, FreesInv, KeepsFdInv, ReconnectInv
<1>5. CASE ServerAnswers \/ ServerCloses \/ UNCHANGED ctxVars
  BY <1>5, ServerKeeps DEF CtxInv, CtxShape, Waiting, Outcome, ConnectOutcome
<1> QED BY <1>1, <1>2, <1>3, <1>4, <1>5 DEF CtxNext

\* However many addresses a host has and whatever becomes of the attempts, a
\* call that connects or reconnects ends with an error in the context or with a
\* connected socket in the mode the context asked for (net.c:324-402,
\* hiredis.c:671-672).
THEOREM ConnectTellsOutcome ==
    ASSUME NoReuse
    PROVE  CtxSpec => []ConnectOutcome
<1>1. CtxInv /\ [CtxNext]_ctxVars => CtxInv'
  BY CtxStep
<1>2. CtxInv => ConnectOutcome
  BY DEF CtxInv, Outcome
<1> QED BY <1>1, <1>2, CtxStart, PTL DEF CtxSpec

-----------------------------------------------------------------------------
(* The numbers in a line *)

LEMMA DigitsValued == ASSUME NEW d \in ToSet(Digits) PROVE DigitValue(d) \in 0 .. 9
<1>1. PICK i \in 1 .. 10 : Digits[i] = d
  BY DEF Digits, ToSet
<1>2. i - 1 \in 0 .. 9 /\ Digits[(i - 1) + 1] = d
  BY <1>1
<1> QED BY <1>2 DEF DigitValue

\* What one more digit makes of the number read so far.
Longer(v, d) == Wrap(10 * v + DigitValue(d), LongRange)

\* n is put into the range of an integer type, one way or another.
LEMMA WrapInt == ASSUME NEW n \in Int, NEW h \in Nat \ {0} PROVE Wrap(n, h) \in Int
<1>1. PICK d : d = 2 * h
  OBVIOUS
<1>2. d \in Nat \ {0}
  BY <1>1
<1>3. (n + h) % d \in Int
  BY <1>2
<1> QED BY <1>1, <1>3 DEF Wrap

LEMMA UpToCRIs == ASSUME NEW line, ASeq(line) PROVE ASeq(UpToCR(line))
<1>1. Len(line) \in Nat
  BY ASeqLen
<1>2. PICK S : S = {i \in 1 .. Len(line) : line[i] = "cr"} \cup {Len(line) + 1}
  OBVIOUS
<1>3. S \subseteq 1 .. Len(line) + 1 /\ S \subseteq Nat /\ S # {}
  BY <1>1, <1>2
<1>4. Min(S) \in 1 .. Len(line) + 1
  BY <1>3, MinIn
<1>5. UpToCR(line) = SubSeq(line, 1, Min(S) - 1)
  BY <1>2 DEF UpToCR
<1> QED BY <1>1, <1>4, <1>5, ASeqSub

\* The recursion of readLongLong defines a function.
LEMMA NumberBuilt ==
    ASSUME NEW s, NEW n \in Nat
    PROVE  \E f : f = [k \in 0 .. n |-> IF k = 0 THEN 0 ELSE Longer(f[k - 1], s[k])]
<1> DEFINE Is(f, m) == f = [k \in 0 .. m |-> IF k = 0 THEN 0 ELSE Longer(f[k - 1], s[k])]
           S == {m \in Nat : \E f : Is(f, m)}
<1>1. 0 \in S
  <2>1. Is([k \in 0 .. 0 |-> 0], 0)
    OBVIOUS
  <2> QED BY <2>1
<1>2. ASSUME NEW m \in Nat, m \in S PROVE m + 1 \in S
  <2>1. PICK f : Is(f, m)
    BY <1>2
  <2> DEFINE g == [k \in 0 .. m + 1 |-> IF k <= m THEN f[k] ELSE Longer(f[m], s[m + 1])]
  <2>2. \A k \in 0 .. m + 1 : g[k] = IF k = 0 THEN 0 ELSE Longer(g[k - 1], s[k])
    <3> TAKE k \in 0 .. m + 1
    <3>1. CASE k <= m
      <4>1. g[k] = f[k] /\ (k # 0 => g[k - 1] = f[k - 1])
        BY <3>1
      <4>2. f[k] = IF k = 0 THEN 0 ELSE Longer(f[k - 1], s[k])
        BY <2>1, <3>1
      <4> HIDE DEF g
      <4> QED BY <4>1, <4>2
    <3>2. CASE k = m + 1
      <4>1. g[k] = Longer(f[m], s[m + 1]) /\ g[k - 1] = f[m]
        BY <3>2
      <4> HIDE DEF g
      <4> QED BY <3>2, <4>1
    <3> QED BY <3>1, <3>2
  <2>3. g = [k \in 0 .. m + 1 |-> g[k]]
    OBVIOUS
  <2> HIDE DEF g
  <2>4. Is(g, m + 1)
    BY <2>2, <2>3
  <2> QED BY <2>4
<1>3. Nat \subseteq S
  <2> HIDE DEF S
  <2> QED BY <1>1, <1>2, NatSetInduction
<1> QED BY <1>3

\* Whatever a line holds, reading a number from it gives one.
LEMMA NumberRead == ASSUME NEW line, ASeq(line) PROVE readLongLong(line) \in Int
<1>1. PICK text : text = UpToCR(line)
  OBVIOUS
<1> DEFINE digits == IF text # <<>> /\ text[1] \in {"-", "+"} THEN Tail(text) ELSE text
           mult   == IF (text # <<>> /\ text[1] \in {"-", "+"}) /\ text[1] = "-" THEN -1 ELSE 1
           F == CHOOSE f : f = [k \in 0 .. Len(digits) |->
                                   IF k = 0 THEN 0 ELSE Wrap(10 * f[k - 1] + DigitValue(digits[k]), LongRange)]
<1>2. readLongLong(line) =
        IF ToSet(digits) \subseteq ToSet(Digits) THEN Wrap(mult * F[Len(digits)], LongRange) ELSE -1
  BY <1>1 DEF readLongLong
<1>3. ASeq(digits)
  BY <1>1, UpToCRIs, ASeqTail
<1>4. mult \in {-1, 1}
  OBVIOUS
<1> HIDE DEF digits, mult
<1>5. Len(digits) \in Nat
  BY <1>3, ASeqLen
<1>6. ASSUME ToSet(digits) \subseteq ToSet(Digits) PROVE F[Len(digits)] \in Int
  <2>1. \E f : f = [k \in 0 .. Len(digits) |-> IF k = 0 THEN 0 ELSE Longer(f[k - 1], digits[k])]
    BY <1>5, NumberBuilt
  <2>2. F = [k \in 0 .. Len(digits) |-> IF k = 0 THEN 0 ELSE Longer(F[k - 1], digits[k])]
    BY <2>1 DEF Longer
  <2> DEFINE S == {m \in Nat : m <= Len(digits) => F[m] \in Int}
  <2> HIDE DEF F
  <2>3. 0 \in S
    BY <1>5, <2>2
  <2>4. ASSUME NEW m \in Nat, m \in S PROVE m + 1 \in S
    <3> SUFFICES ASSUME m + 1 <= Len(digits) PROVE F[m + 1] \in Int
      BY <1>5
    <3>1. F[m] \in Int
      BY <2>4, <1>5
    <3>2. digits[m + 1] \in ToSet(digits)
      BY <1>3, <1>5, ASeqLen DEF ToSet
    <3>3. DigitValue(digits[m + 1]) \in Nat
      BY <1>6, <3>2, DigitsValued
    <3>4. F[m + 1] = Longer(F[m], digits[m + 1])
      BY <1>5, <2>2
    <3>5. PICK v : v = 10 * F[m] + DigitValue(digits[m + 1])
      OBVIOUS
    <3>6. v \in Int
      BY <3>1, <3>3, <3>5
    <3> QED BY <3>4, <3>5, <3>6, WrapInt, ReaderAssumption DEF Longer
  <2>5. Nat \subseteq S
    <3> HIDE DEF S
    <3> QED BY <2>3, <2>4, NatSetInduction
  <2> QED BY <1>5, <2>5
<1> HIDE DEF F
<1>7. CASE ToSet(digits) \subseteq ToSet(Digits)
  <2>1. mult * F[Len(digits)] \in Int
    BY <1>4, <1>6, <1>7
  <2> QED BY <1>2, <1>7, <2>1, WrapInt, ReaderAssumption
<1> QED BY <1>2, <1>7

-----------------------------------------------------------------------------
(* The parser: its fields, its tasks and the objects it has built *)

RFields == {"buf", "pos", "stack", "reply", "err", "live", "mem", "ok", "out"}
ATask(k) == DOMAIN k = {"type", "elements", "idx"} /\ k.idx \in Int /\ k.elements \in Int
Tasks(st) == ASeq(st) /\ \A k \in 1 .. Len(st) : ATask(st[k])

\* A task is for an element of the array it is in, if that has any.
Bounded(st) == \A k \in 2 .. Len(st) : st[k - 1].elements > 0 => st[k].idx \in 0 .. st[k - 1].elements - 1

\* Where the current task hangs its object.
PathOf(st) == [k \in 1 .. Len(st) - 1 |-> st[k + 1].idx + 1]

\* An object at q was created before one at p: it is above it or to its left.
Ahead(q, p) ==
    \E k \in 1 .. Len(p) : /\ Len(q) >= k - 1 /\ \A j \in 1 .. k - 1 : q[j] = p[j]
                           /\ Len(q) = k - 1 \/ q[k] < p[k]

ReaderOK(r) ==
    /\ DOMAIN r = RFields
    /\ ASeq(r.buf) /\ r.pos \in 0 .. Len(r.buf)
    /\ Tasks(r.stack) /\ Bounded(r.stack) /\ Len(r.stack) <= MaxDepth + 1
    /\ r.err \in {"no", "protocol", "oom", "segv"} /\ r.ok \in BOOLEAN /\ r.live \in Int
    /\ r.err = "segv" => NoVector(r.stack)
    /\ IsFiniteSet(DOMAIN r.reply) /\ DOMAIN r.reply \subseteq Seq(Int)
    /\ r.stack # <<>> => \A q \in DOMAIN r.reply : Ahead(q, PathOf(r.stack))

\* The objects that are not part of the reply being built.
Loose(r) == r.live - Objects(r.reply)

\* s follows r in the parser.
Then(r, s) == /\ ReaderOK(s) /\ Loose(s) = Loose(r) /\ s.out = r.out
              /\ s.err # "no" => ~s.ok /\ (s.err # "segv" => s.stack = <<>> /\ s.reply = None)

LEMMA NoneIsEmpty == DOMAIN None = {} /\ Objects(None) = 0 /\ IsFiniteSet(DOMAIN None)
<1>1. DOMAIN None = {}
  BY DEF None
<1> QED BY <1>1, FS_EmptySet DEF Objects

LEMMA ObjectsCounted == ASSUME NEW tree, IsFiniteSet(DOMAIN tree) PROVE Objects(tree) \in Nat
BY FS_CardinalityType DEF Objects

LEMMA RestIs ==
    ASSUME NEW r, ReaderOK(r)
    PROVE  ASeq(Rest(r)) /\ Len(Rest(r)) = Len(r.buf) - r.pos
<1>1. Len(r.buf) \in Nat /\ r.pos \in 0 .. Len(r.buf) /\ ASeq(r.buf)
  BY ASeqLen DEF ReaderOK
<1> QED BY <1>1, ASeqSub DEF Rest

LEMMA LineIs ==
    ASSUME NEW r, ReaderOK(r), seekNewline(Rest(r)) # -1
    PROVE  ASeq(Line(r)) /\ Len(Line(r)) \in Nat /\ r.pos + (Len(Line(r)) + 2) <= Len(r.buf)
<1>1. Len(r.buf) \in Nat /\ r.pos \in 0 .. Len(r.buf)
  BY ASeqLen DEF ReaderOK
<1>2. PICK s : s = Rest(r)
  OBVIOUS
<1>3. ASeq(s) /\ Len(s) = Len(r.buf) - r.pos
  BY <1>2, RestIs
<1>4. PICK ends : ends = {i \in 1 .. Len(s) - 1 : s[i] = "cr" /\ s[i + 1] = "lf"}
  OBVIOUS
<1>5. seekNewline(s) = IF ends = {} THEN -1 ELSE Min(ends) - 1
  BY <1>4 DEF seekNewline
<1>6. ends # {} /\ Min(ends) \in ends
  <2>1. ends # {} /\ ends \subseteq Nat
    BY <1>2, <1>4, <1>5
  <2> QED BY <2>1, MinIn
<1>7. seekNewline(s) \in 0 .. Len(s) - 2
  <2>1. PICK e : e = Min(ends)
    OBVIOUS
  <2>2. e \in 1 .. Len(s) - 1 /\ seekNewline(s) = e - 1
    BY <1>4, <1>5, <1>6, <2>1
  <2> QED BY <1>1, <1>3, <2>2
<1>8. ASeq(Line(r)) /\ Len(Line(r)) = seekNewline(s)
  BY <1>1, <1>2, <1>3, <1>7, ASeqSub DEF Line
<1> QED BY <1>1, <1>3, <1>7, <1>8

LEMMA PathIs ==
    ASSUME NEW st, Tasks(st), st # <<>>
    PROVE  PathOf(st) \in Seq(Int) /\ Len(PathOf(st)) = Len(st) - 1
           /\ \A k \in 1 .. Len(st) - 1 : PathOf(st)[k] = st[k + 1].idx + 1
<1>1. Len(st) \in Nat /\ Len(st) > 0
  BY ASeqLen DEF Tasks
<1>2. \A k \in 1 .. Len(st) - 1 : st[k + 1].idx + 1 \in Int
  BY <1>1 DEF Tasks, ATask
<1> QED BY <1>1, <1>2 DEF PathOf

\* st takes its turn after a task at path p.
After(p, st) ==
    /\ Tasks(st) /\ Bounded(st) /\ Len(st) <= MaxDepth + 1
    /\ st # <<>> => \A q \in Seq(Int) : (q = p \/ Ahead(q, p)) => Ahead(q, PathOf(st))

LEMMA NextTask ==
    ASSUME NEW st, Tasks(st), Bounded(st), st # <<>>, Len(st) <= MaxDepth + 1
    PROVE  After(PathOf(st), moveToNextTask(st))
<1>0. Len(st) \in Nat /\ Len(st) > 0 /\ MaxDepth \in Nat
  BY ASeqLen, ReaderAssumption DEF Tasks
<1>1. PICK open : open = {k \in 2 .. Len(st) : st[k].idx # st[k - 1].elements - 1}
  OBVIOUS
<1>2. moveToNextTask(st) = IF open = {} THEN <<>>
                           ELSE [SubSeq(st, 1, Max(open)) EXCEPT ![Max(open)] = Task(@.idx + 1)]
  BY <1>1 DEF moveToNextTask
<1>3. CASE open = {}
  <2>1. Tasks(<<>>) /\ Bounded(<<>>) /\ Len(<<>>) = 0
    BY EmptyIsASeq DEF Tasks, Bounded
  <2> QED BY <1>0, <1>2, <1>3, <2>1 DEF After
<1>4. CASE open # {}
  <2>1. PICK m : m = Max(open)
    OBVIOUS
  <2>0. m \in open
    <3>1. open \subseteq 0 .. Len(st)
      BY <1>1
    <3> QED BY <1>0, <1>4, <2>1, <3>1, MaxIn
  <2>2. m \in 2 .. Len(st)
    BY <1>1, <2>0
  <2>3. PICK u : u = SubSeq(st, 1, m)
    OBVIOUS
  <2>4. ASeq(u) /\ Len(u) = m /\ \A i \in 1 .. m : u[i] = st[i]
    BY <1>0, <2>2, <2>3, ASeqSub DEF Tasks
  <2>5. PICK v : v = [u EXCEPT ![m] = Task(@.idx + 1)]
    OBVIOUS
  <2>6. moveToNextTask(st) = v
    BY <1>2, <1>4, <2>1, <2>3, <2>5
  <2>7. DOMAIN v = 1 .. m /\ v = [i \in DOMAIN v |-> v[i]] /\ ASeq(v) /\ Len(v) = m
    <3>1. DOMAIN u = 1 .. m
      BY <2>4, ASeqLen
    <3>2. DOMAIN v = 1 .. m /\ v = [i \in DOMAIN v |-> v[i]]
      BY <2>5, <3>1
    <3> QED BY <2>2, <3>2, AFunction
  <2>8. \A i \in 1 .. m : v[i] = IF i = m THEN Task(st[m].idx + 1) ELSE st[i]
    BY <2>2, <2>4, <2>5, <2>7
  <2>9. Tasks(v)
    <3> SUFFICES ASSUME NEW k \in 1 .. m PROVE ATask(v[k])
      BY <2>7 DEF Tasks
    <3>1. ATask(st[k])
      BY <2>2 DEF Tasks
    <3>2. CASE k = m
      <4>1. v[k] = Task(st[k].idx + 1)
        BY <2>8, <3>2
      <4> QED BY <3>1, <4>1 DEF ATask, Task
    <3>3. CASE k # m
      BY <2>8, <3>1, <3>3
    <3> QED BY <3>2, <3>3
  <2>18. Bounded(v)
    <3> SUFFICES ASSUME NEW k \in 2 .. m, v[k - 1].elements > 0 PROVE v[k].idx \in 0 .. v[k - 1].elements - 1
      BY <2>7 DEF Bounded
    <3>1. k \in 1 .. m /\ k - 1 \in 1 .. m /\ k - 1 # m /\ k \in 2 .. Len(st) /\ k - 1 \in 1 .. Len(st)
      BY <1>0, <2>2
    <3>2. v[k - 1] = st[k - 1] /\ v[k] = IF k = m THEN Task(st[k].idx + 1) ELSE st[k]
      BY <2>8, <3>1
    <3>3. st[k].idx \in 0 .. st[k - 1].elements - 1 /\ st[k - 1].elements \in Int
      BY <3>1, <3>2 DEF Bounded, Tasks, ATask
    <3>4. CASE k = m
      <4>1. v[k].idx = st[k].idx + 1 /\ st[k].idx # st[k - 1].elements - 1
        BY <1>1, <2>0, <3>2, <3>4 DEF Task
      <4>2. st[k].idx + 1 \in 0 .. st[k - 1].elements - 1
        BY <3>3, <4>1
      <4>3. v[k - 1].elements = st[k - 1].elements
        BY <3>2
      <4> QED BY <4>1, <4>2, <4>3
    <3>5. CASE k # m
      BY <3>2, <3>3, <3>5
    <3> QED BY <3>4, <3>5
  <2>10. v # <<>>
    BY <2>2, <2>7, ASeqLen
  <2>11. PICK p : p = PathOf(st)
    OBVIOUS
  <2>12. PICK w : w = PathOf(v)
    OBVIOUS
  <2>13. p \in Seq(Int) /\ Len(p) = Len(st) - 1 /\ \A k \in 1 .. Len(st) - 1 : p[k] = st[k + 1].idx + 1 /\ p[k] \in Int
    <3>1. p \in Seq(Int) /\ Len(p) = Len(st) - 1 /\ \A k \in 1 .. Len(st) - 1 : p[k] = st[k + 1].idx + 1
      BY <2>11, PathIs
    <3> QED BY <3>1
  <2>14. w \in Seq(Int) /\ Len(w) = m - 1 /\ \A k \in 1 .. m - 1 : w[k] = v[k + 1].idx + 1
    BY <2>7, <2>9, <2>10, <2>12, PathIs
  <2>15. w[m - 1] = p[m - 1] + 1 /\ \A k \in 1 .. m - 2 : w[k] = p[k]
    <3>1. w[m - 1] = p[m - 1] + 1
      <4>1. m - 1 \in 1 .. m - 1 /\ m - 1 \in 1 .. Len(st) - 1 /\ (m - 1) + 1 = m /\ m \in 1 .. m
        BY <1>0, <2>2
      <4>2. w[m - 1] = v[(m - 1) + 1].idx + 1 /\ p[m - 1] = st[(m - 1) + 1].idx + 1
        BY <2>13, <2>14, <4>1
      <4>3. v[m].idx = st[m].idx + 1
        BY <2>8, <4>1 DEF Task
      <4> QED BY <4>1, <4>2, <4>3
    <3>2. ASSUME NEW k \in 1 .. m - 2 PROVE w[k] = p[k]
      <4>1. k \in 1 .. m - 1 /\ k \in 1 .. Len(st) - 1 /\ k + 1 \in 1 .. m /\ k + 1 # m
        BY <2>2
      <4>2. w[k] = v[k + 1].idx + 1 /\ v[k + 1] = st[k + 1]
        BY <2>8, <2>14, <4>1
      <4> QED BY <2>13, <4>1, <4>2
    <3> QED BY <3>1, <3>2
  <2>16. ASSUME NEW q \in Seq(Int), q = p \/ Ahead(q, p) PROVE Ahead(q, w)
    <3>1. m - 1 \in 1 .. Len(w) /\ m - 1 \in 1 .. Len(p) /\ p[m - 1] \in Int /\ Len(q) \in Nat
      BY <2>2, <2>13, <2>14
    <3>2. CASE q = p
      <4>1. /\ Len(q) >= (m - 1) - 1 /\ \A j \in 1 .. (m - 1) - 1 : q[j] = w[j]
            /\ q[m - 1] < w[m - 1]
        BY <3>1, <3>2, <2>2, <2>13, <2>15
      <4> QED BY <3>1, <4>1 DEF Ahead
    <3>3. CASE Ahead(q, p)
      <4>1. PICK k \in 1 .. Len(p) : /\ Len(q) >= k - 1 /\ \A j \in 1 .. k - 1 : q[j] = p[j]
                                     /\ Len(q) = k - 1 \/ q[k] < p[k]
        BY <3>3 DEF Ahead
      <4>2. CASE k < m - 1
        <5>1. k \in 1 .. Len(w) /\ w[k] = p[k] /\ \A j \in 1 .. k - 1 : w[j] = p[j]
          <6>1. k \in 1 .. m - 2 /\ k \in 1 .. Len(w) /\ \A j \in 1 .. k - 1 : j \in 1 .. m - 2
            BY <1>0, <2>2, <2>13, <2>14, <4>2
          <6> QED BY <2>15, <6>1
        <5> QED BY <4>1, <5>1 DEF Ahead
      <4>3. CASE k = m - 1
        <5>1. /\ Len(q) >= k - 1 /\ \A j \in 1 .. k - 1 : q[j] = w[j]
          BY <2>2, <2>15, <4>1, <4>3
        <5>2. Len(q) = k - 1 \/ q[k] < w[k]
          <6>1. CASE Len(q) # k - 1
            <7>1. q[k] \in Int /\ q[k] < p[k] /\ w[k] = p[k] + 1 /\ p[k] \in Int
              BY <3>1, <4>1, <4>3, <6>1, <2>15, <2>2
            <7> QED BY <7>1
          <6> QED BY <6>1
        <5> QED BY <3>1, <4>3, <5>1, <5>2 DEF Ahead
      <4>4. CASE k > m - 1
        <5>1. q[m - 1] = p[m - 1] /\ Len(q) >= (m - 1) - 1 /\ \A j \in 1 .. (m - 1) - 1 : q[j] = w[j]
          <6>1. m - 1 \in 1 .. k - 1 /\ \A j \in 1 .. (m - 1) - 1 : j \in 1 .. k - 1 /\ j \in 1 .. m - 2
            BY <1>0, <2>2, <2>13, <4>4
          <6>2. Len(q) >= (m - 1) - 1
            BY <2>2, <2>13, <3>1, <4>1, <4>4
          <6> QED BY <2>15, <4>1, <6>1, <6>2
        <5>2. q[m - 1] < w[m - 1]
          BY <3>1, <5>1, <2>15
        <5> QED BY <3>1, <5>1, <5>2 DEF Ahead
      <4> QED BY <2>2, <2>13, <4>2, <4>3, <4>4
    <3> QED BY <2>16, <3>2, <3>3
  <2>17. Len(v) <= MaxDepth + 1
    BY <1>0, <2>2, <2>7
  <2> QED BY <2>6, <2>9, <2>11, <2>12, <2>16, <2>17, <2>18 DEF After
<1> QED BY <1>3, <1>4

LEMMA DeepTask ==
    ASSUME NEW st, Tasks(st), Bounded(st), st # <<>>, Len(st) <= MaxDepth, NEW n \in Int
    PROVE  After(PathOf(st), Append([st EXCEPT ![Len(st)].elements = n], Task(0)))
<1>0. Len(st) \in Nat /\ Len(st) > 0 /\ MaxDepth \in Nat /\ DOMAIN st = 1 .. Len(st)
  BY ASeqLen, ReaderAssumption DEF Tasks
<1>1. PICK u : u = [st EXCEPT ![Len(st)].elements = n]
  OBVIOUS
<1>2. DOMAIN u = 1 .. Len(st) /\ u = [i \in DOMAIN u |-> u[i]]
  BY <1>0, <1>1
<1>3. ASeq(u) /\ Len(u) = Len(st)
  BY <1>0, <1>2, AFunction
<1>4. \A k \in 1 .. Len(st) :
        ATask(u[k]) /\ u[k].idx = st[k].idx /\ u[k].elements = IF k = Len(st) THEN n ELSE st[k].elements
  <2> SUFFICES ASSUME NEW k \in 1 .. Len(st)
               PROVE  ATask(u[k]) /\ u[k].idx = st[k].idx
                      /\ u[k].elements = IF k = Len(st) THEN n ELSE st[k].elements
    OBVIOUS
  <2>1. u[k] = IF k = Len(st) THEN [st[k] EXCEPT !.elements = n] ELSE st[k]
    BY <1>0, <1>1
  <2>2. ATask(st[k])
    BY DEF Tasks
  <2> QED BY <2>1, <2>2 DEF ATask
<1>5. PICK v : v = Append(u, Task(0))
  OBVIOUS
<1>6. /\ ASeq(v) /\ Len(v) = Len(st) + 1 /\ v # <<>> /\ v[Len(st) + 1] = Task(0)
      /\ \A k \in 1 .. Len(st) : v[k] = u[k]
  BY <1>2, <1>3, <1>5, ASeqAppend
<1>7. Tasks(v)
  <2> SUFFICES ASSUME NEW k \in 1 .. Len(st) + 1 PROVE ATask(v[k])
    BY <1>6 DEF Tasks
  <2>1. CASE k = Len(st) + 1
    BY <1>6, <2>1 DEF Task, ATask
  <2>2. CASE k # Len(st) + 1
    <3>1. k \in 1 .. Len(st)
      BY <1>0, <2>2
    <3> QED BY <1>4, <1>6, <3>1
  <2> QED BY <2>1, <2>2
<1>15. Bounded(v)
  <2> SUFFICES ASSUME NEW k \in 2 .. Len(st) + 1, v[k - 1].elements > 0 PROVE v[k].idx \in 0 .. v[k - 1].elements - 1
    BY <1>6 DEF Bounded
  <2>1. k - 1 \in 1 .. Len(st) /\ v[k - 1] = u[k - 1]
    BY <1>0, <1>6
  <2>2. CASE k = Len(st) + 1
    <3>1. v[k].idx = 0
      BY <1>6, <2>2 DEF Task
    <3>2. k - 1 = Len(st)
      BY <1>0, <2>2
    <3>3. v[k - 1].elements = n
      BY <1>4, <2>1, <3>2
    <3> QED BY <3>1, <3>3
  <2>3. CASE k # Len(st) + 1
    <3>1. k \in 1 .. Len(st) /\ k \in 2 .. Len(st) /\ k - 1 # Len(st)
      BY <1>0, <2>3
    <3>2. v[k].idx = st[k].idx /\ v[k - 1].elements = st[k - 1].elements
      BY <1>4, <1>6, <2>1, <3>1
    <3> QED BY <3>1, <3>2 DEF Bounded
  <2> QED BY <2>2, <2>3
<1>8. PICK p : p = PathOf(st)
  OBVIOUS
<1>9. PICK w : w = PathOf(v)
  OBVIOUS
<1>10. p \in Seq(Int) /\ Len(p) = Len(st) - 1 /\ \A k \in 1 .. Len(st) - 1 : p[k] = st[k + 1].idx + 1
  BY <1>8, PathIs
<1>11. Len(w) = Len(st) /\ \A k \in 1 .. Len(st) : w[k] = v[k + 1].idx + 1
  <2>1. Len(v) - 1 = Len(st)
    BY <1>0, <1>6
  <2> QED BY <1>6, <1>7, <1>9, <2>1, PathIs
<1>12. \A k \in 1 .. Len(st) - 1 : w[k] = p[k]
  <2> TAKE k \in 1 .. Len(st) - 1
  <2>1. k \in 1 .. Len(st) /\ k + 1 \in 1 .. Len(st)
    BY <1>0
  <2>2. w[k] = v[k + 1].idx + 1 /\ v[k + 1] = u[k + 1] /\ u[k + 1].idx = st[k + 1].idx
    BY <1>4, <1>6, <1>11, <2>1
  <2> QED BY <1>10, <2>2
<1>13. ASSUME NEW q \in Seq(Int), q = p \/ Ahead(q, p) PROVE Ahead(q, w)
  <2>1. CASE q = p
    <3>1. Len(st) \in 1 .. Len(w)
      BY <1>0, <1>11
    <3>2. Len(q) = Len(st) - 1 /\ Len(q) >= Len(st) - 1
      <4>1. Len(q) = Len(st) - 1
        BY <1>10, <2>1, Zenon
      <4> QED BY <1>0, <4>1
    <3>3. \A j \in 1 .. Len(st) - 1 : q[j] = w[j]
      BY <1>12, <2>1
    <3> QED BY <3>1, <3>2, <3>3 DEF Ahead
  <2>2. CASE Ahead(q, p)
    <3>1. PICK k \in 1 .. Len(p) : /\ Len(q) >= k - 1 /\ \A j \in 1 .. k - 1 : q[j] = p[j]
                                   /\ Len(q) = k - 1 \/ q[k] < p[k]
      BY <2>2 DEF Ahead
    <3>2. k \in 1 .. Len(w) /\ k \in 1 .. Len(st) - 1 /\ \A j \in 1 .. k - 1 : j \in 1 .. Len(st) - 1
      BY <1>0, <1>10, <1>11
    <3>3. w[k] = p[k] /\ \A j \in 1 .. k - 1 : q[j] = w[j]
      BY <1>12, <3>1, <3>2
    <3> QED BY <3>1, <3>2, <3>3 DEF Ahead
  <2> QED BY <1>13, <2>1, <2>2
<1>14. Len(v) <= MaxDepth + 1
  BY <1>0, <1>6
<1> QED BY <1>1, <1>5, <1>7, <1>8, <1>9, <1>13, <1>14, <1>15 DEF After

LEMMA SetErrorThen ==
    ASSUME NEW r, ReaderOK(r), NEW e \in {"protocol", "oom"}
    PROVE  /\ Then(r, readerSetError(r, e)) /\ ~readerSetError(r, e).ok
           /\ readerSetError(r, e).err = e
<1>1. PICK s : s = readerSetError(r, e)
  OBVIOUS
<1>2. /\ DOMAIN s = RFields /\ s.buf = <<>> /\ s.pos = 0 /\ s.stack = <<>> /\ s.err = e /\ s.ok = FALSE
      /\ s.reply = None /\ s.live = r.live - Objects(r.reply) /\ s.out = r.out
  BY <1>1 DEF readerSetError, ReaderOK, RFields
<1>3. Objects(r.reply) \in Nat /\ r.live \in Int /\ MaxDepth \in Nat
  BY ObjectsCounted, ReaderAssumption DEF ReaderOK
<1>4. ReaderOK(s)
  <2>1. Tasks(<<>>) /\ Bounded(<<>>) /\ ASeq(<<>>) /\ Len(<<>>) = 0
    BY EmptyIsASeq DEF Tasks, Bounded
  <2>2. s.pos \in 0 .. Len(s.buf) /\ Len(s.stack) <= MaxDepth + 1 /\ s.live \in Int
    BY <1>2, <1>3, <2>1
  <2>3. IsFiniteSet(DOMAIN s.reply) /\ DOMAIN s.reply \subseteq Seq(Int)
    BY <1>2, NoneIsEmpty
  <2> QED BY <1>2, <2>1, <2>2, <2>3 DEF ReaderOK
<1>5. Loose(s) = Loose(r)
  BY <1>2, <1>3, NoneIsEmpty DEF Loose
<1> QED BY <1>1, <1>2, <1>4, <1>5 DEF Then

LEMMA WaitThen == ASSUME NEW r, ReaderOK(r), r.err = "no" PROVE Then(r, Wait(r)) /\ ~Wait(r).ok /\ Wait(r).err = "no"
<1>1. PICK s : s = Wait(r)
  OBVIOUS
<1>2. /\ DOMAIN s = RFields /\ s.buf = r.buf /\ s.pos = r.pos /\ s.stack = r.stack /\ s.err = r.err /\ s.ok = FALSE
      /\ s.reply = r.reply /\ s.live = r.live /\ s.out = r.out
  BY <1>1 DEF Wait, ReaderOK, RFields
<1>3. ReaderOK(s)
  BY <1>2 DEF ReaderOK
<1> QED BY <1>1, <1>2, <1>3 DEF Then, Loose

\* The parser writes through a null element vector.
LEMMA CrashThen ==
    ASSUME NEW r, ReaderOK(r), r.err = "no", NoVector(r.stack)
    PROVE  Then(r, Crash(r)) /\ ~Crash(r).ok
<1>1. PICK s : s = Crash(r)
  OBVIOUS
<1>2. /\ DOMAIN s = RFields /\ s.buf = r.buf /\ s.pos = r.pos /\ s.stack = r.stack /\ s.err = "segv" /\ s.ok = FALSE
      /\ s.reply = r.reply /\ s.live = r.live /\ s.out = r.out
  BY <1>1 DEF Crash, ReaderOK, RFields
<1>3. ReaderOK(s)
  BY <1>2 DEF ReaderOK
<1> QED BY <1>1, <1>2, <1>3 DEF Then, Loose

\* s has gone on: it has consumed bytes and can go on again.
Further(r, s) == Then(r, s) /\ (s.ok => s.err = "no" /\ s.buf = r.buf /\ s.pos > r.pos)

LEMMA MadeThen ==
    ASSUME NEW r, ReaderOK(r), r.err = "no", r.stack # <<>>, NEW o, NEW n \in Nat, n > 0, r.pos + n <= Len(r.buf),
           NEW st, After(PathOf(r.stack), st)
    PROVE  Further(r, Made(r, o, n, st))
<1>1. CASE r.mem < Cost(o)
  <2>1. Made(r, o, n, st) = readerSetError(r, "oom")
    BY <1>1 DEF Made
  <2> QED BY <2>1, SetErrorThen DEF Further
<1>3. CASE ~(r.mem < Cost(o)) /\ NoVector(r.stack)
  <2>1. Made(r, o, n, st) = Crash(r)
    BY <1>3 DEF Made
  <2> QED BY <1>3, <2>1, CrashThen DEF Further
<1>2. CASE ~(r.mem < Cost(o)) /\ ~NoVector(r.stack)
  <2>1. PICK p : p = PathOf(r.stack)
    OBVIOUS
  <2>2. PICK s : s = Made(r, o, n, st)
    OBVIOUS
  <2>3. PICK y : y = Create(r, o)
    OBVIOUS
  <2>4. /\ DOMAIN y = RFields /\ y.buf = r.buf /\ y.pos = r.pos /\ y.err = r.err /\ y.ok = r.ok /\ y.out = r.out
        /\ y.reply = Plant(r.reply, p, o) /\ y.live = r.live + 1
    BY <2>1, <2>3 DEF Create, PathOf, ReaderOK, RFields
  <2>5. s = [y EXCEPT !.pos = @ + n, !.stack = st]
    BY <1>2, <2>2, <2>3 DEF Made
  <2>6. /\ DOMAIN s = RFields /\ s.buf = r.buf /\ s.pos = r.pos + n /\ s.stack = st /\ s.err = r.err /\ s.ok = r.ok
        /\ s.reply = Plant(r.reply, p, o) /\ s.live = r.live + 1 /\ s.out = r.out
    BY <2>4, <2>5 DEF RFields
  <2>7. p \in Seq(Int) /\ Len(p) = Len(r.stack) - 1 /\ Len(r.stack) \in Nat /\ Len(r.stack) > 0
    <3>1. Tasks(r.stack) /\ ASeq(r.stack)
      BY DEF ReaderOK, Tasks
    <3>2. Len(r.stack) \in Nat /\ Len(r.stack) # 0
      BY <3>1, ASeqLen
    <3>3. p \in Seq(Int) /\ Len(p) = Len(r.stack) - 1
      BY <2>1, <3>1, PathIs
    <3> QED BY <3>2, <3>3
  <2>8. p \notin DOMAIN r.reply
    <3>1. ~Ahead(p, p)
      <4> SUFFICES ASSUME NEW k \in 1 .. Len(p), Len(p) = k - 1 \/ p[k] < p[k] PROVE FALSE
        BY DEF Ahead
      <4>1. p[k] \in Int /\ Len(p) \in Nat
        BY <2>7
      <4> QED BY <4>1
    <3> QED BY <2>1, <3>1 DEF ReaderOK
  <2>9. p = <<>> => DOMAIN r.reply = {}
    <3>1. ASSUME p = <<>>, NEW q \in DOMAIN r.reply PROVE FALSE
      <4>1. \E k \in 1 .. Len(p) : TRUE
        BY <2>1, <3>1 DEF ReaderOK, Ahead
      <4>2. Len(p) = 0
        BY <3>1
      <4> QED BY <4>1, <4>2
    <3> QED BY <3>1
  <2>10. DOMAIN s.reply = DOMAIN r.reply \cup {p}
    BY <2>6, <2>9 DEF Plant
  <2>11. IsFiniteSet(DOMAIN s.reply) /\ Objects(s.reply) = Objects(r.reply) + 1
    BY <2>8, <2>10, FS_AddElement DEF ReaderOK, Objects
  <2>12. DOMAIN s.reply \subseteq Seq(Int)
    BY <2>7, <2>10 DEF ReaderOK
  <2>13. st # <<>> => \A q \in DOMAIN s.reply : Ahead(q, PathOf(st))
    <3> SUFFICES ASSUME st # <<>>, NEW q \in DOMAIN s.reply PROVE Ahead(q, PathOf(st))
      OBVIOUS
    <3>1. q \in Seq(Int) /\ (q = p \/ Ahead(q, p))
      BY <2>1, <2>10, <2>12 DEF ReaderOK
    <3> QED BY <2>1, <3>1 DEF After
  <2>14. s.pos \in 0 .. Len(s.buf) /\ s.pos > r.pos /\ s.live \in Int
    BY <2>6, ASeqLen DEF ReaderOK
  <2>15. ReaderOK(s)
    BY <2>6, <2>11, <2>12, <2>13, <2>14 DEF ReaderOK, After
  <2>16. Loose(s) = Loose(r)
    BY <2>6, <2>11, ObjectsCounted DEF Loose, ReaderOK
  <2> QED BY <2>2, <2>6, <2>14, <2>15, <2>16 DEF Further, Then
<1> QED BY <1>1, <1>2, <1>3

LEMMA LineItemThen ==
    ASSUME NEW r, ReaderOK(r), r.err = "no", r.stack # <<>>
    PROVE  Further(r, processLineItem(r))
<1>1. CASE seekNewline(Rest(r)) = -1
  BY <1>1, WaitThen DEF processLineItem, Further
<1>2. CASE seekNewline(Rest(r)) # -1
  <2>1. Len(Line(r)) + 2 \in Nat /\ Len(Line(r)) + 2 > 0 /\ r.pos + (Len(Line(r)) + 2) <= Len(r.buf)
    BY <1>2, LineIs
  <2>2. After(PathOf(r.stack), moveToNextTask(r.stack))
    BY NextTask DEF ReaderOK
  <2>3. \E o : processLineItem(r) = Made(r, o, Len(Line(r)) + 2, moveToNextTask(r.stack))
    BY <1>2 DEF processLineItem
  <2> QED BY <2>1, <2>2, <2>3, MadeThen
<1> QED BY <1>1, <1>2

LEMMA BulkItemThen ==
    ASSUME NEW r, ReaderOK(r), r.err = "no", r.stack # <<>>
    PROVE  Further(r, processBulkItem(r))
<1>1. CASE seekNewline(Rest(r)) = -1
  BY <1>1, WaitThen DEF processBulkItem, Further
<1>2. CASE seekNewline(Rest(r)) # -1
  <2>1. PICK head : head = Len(Line(r)) + 2
    OBVIOUS
  <2>2. PICK size : size = readLongLong(Line(r))
    OBVIOUS
  <2>3. head \in Nat /\ head > 0 /\ r.pos + head <= Len(r.buf) /\ size \in Int
    BY <1>2, <2>1, <2>2, LineIs, NumberRead
  <2>4. After(PathOf(r.stack), moveToNextTask(r.stack))
    BY NextTask DEF ReaderOK
  <2>5. CASE size < 0
    <3>1. processBulkItem(r) = Made(r, Object("nil", 0), head, moveToNextTask(r.stack))
      BY <1>2, <2>1, <2>2, <2>5 DEF processBulkItem
    <3> QED BY <2>3, <2>4, <3>1, MadeThen
  <2>6. CASE ~(size < 0) /\ ~Whole(r, head + size + 2)
    <3>1. processBulkItem(r) = Wait(r)
      BY <1>2, <2>1, <2>2, <2>6 DEF processBulkItem
    <3> QED BY <3>1, WaitThen DEF Further
  <2>7. CASE ~(size < 0) /\ Whole(r, head + size + 2)
    <3>1. \E o : processBulkItem(r) = Made(r, o, head + size + 2, moveToNextTask(r.stack))
      BY <1>2, <2>1, <2>2, <2>7 DEF processBulkItem
    <3>2. head + size + 2 \in Nat /\ head + size + 2 > 0 /\ r.pos + (head + size + 2) <= Len(r.buf)
      BY <2>3, <2>7 DEF Whole
    <3> QED BY <2>4, <3>1, <3>2, MadeThen
  <2> QED BY <2>5, <2>6, <2>7
<1> QED BY <1>1, <1>2

LEMMA MultiBulkItemThen ==
    ASSUME NEW r, ReaderOK(r), r.err = "no", r.stack # <<>>
    PROVE  Further(r, processMultiBulkItem(r))
<1>0. Tasks(r.stack) /\ Len(r.stack) \in Nat /\ Len(r.stack) <= MaxDepth + 1 /\ MaxDepth \in Nat
  BY ASeqLen, ReaderAssumption DEF ReaderOK, Tasks
<1>1. CASE Len(r.stack) - 1 = MaxDepth
  BY <1>1, SetErrorThen DEF processMultiBulkItem, Further
<1>2. CASE Len(r.stack) - 1 # MaxDepth /\ seekNewline(Rest(r)) = -1
  BY <1>2, WaitThen DEF processMultiBulkItem, Further
<1>3. CASE Len(r.stack) - 1 # MaxDepth /\ seekNewline(Rest(r)) # -1
  <2>1. PICK head : head = Len(Line(r)) + 2
    OBVIOUS
  <2>2. PICK n : n = readLongLong(Line(r))
    OBVIOUS
  <2>8. PICK int : int = Wrap(n, IntRange)
    OBVIOUS
  <2>9. int \in Int
    BY <1>3, <2>2, <2>8, LineIs, NumberRead, WrapInt, ReaderAssumption
  <2>3. PICK deep : deep = Append([r.stack EXCEPT ![Len(r.stack)].elements = int], Task(0))
    OBVIOUS
  <2>4. head \in Nat /\ head > 0 /\ r.pos + head <= Len(r.buf)
    BY <1>3, <2>1, LineIs
  <2>5. After(PathOf(r.stack), moveToNextTask(r.stack))
    BY <1>0, NextTask DEF ReaderOK
  <2>6. After(PathOf(r.stack), deep)
    <3>1. Len(r.stack) <= MaxDepth
      BY <1>0, <1>3
    <3> QED BY <1>0, <2>3, <2>9, <3>1, DeepTask DEF ReaderOK
  <2>7. \E o : \E st \in {deep, moveToNextTask(r.stack)} : processMultiBulkItem(r) = Made(r, o, head, st)
    BY <1>3, <2>1, <2>2, <2>3, <2>8 DEF processMultiBulkItem
  <2> QED BY <2>4, <2>5, <2>6, <2>7, MadeThen
<1> QED BY <1>1, <1>2, <1>3

LEMMA TypedThen ==
    ASSUME NEW r, ReaderOK(r), r.err = "no", r.stack # <<>>
    PROVE  Further(r, processTyped(r))
<1>1. processTyped(r) \in {processBulkItem(r), processMultiBulkItem(r), processLineItem(r)}
  BY DEF processTyped
<1> QED BY <1>1, LineItemThen, BulkItemThen, MultiBulkItemThen

\* One item: the parser stays inside its buffer and its tasks, and hangs every
\* object it creates where there was none.
LEMMA ItemThen ==
    ASSUME NEW r, ReaderOK(r), r.err = "no", r.stack # <<>>
    PROVE  Further(r, processItem(r))
<1>1. CASE Last(r.stack).type # "any"
  BY <1>1, TypedThen DEF processItem
<1>2. CASE Last(r.stack).type = "any" /\ Rest(r) = <<>>
  BY <1>2, WaitThen DEF processItem, Further
<1>3. CASE Last(r.stack).type = "any" /\ Rest(r) # <<>> /\ Rest(r)[1] \notin DOMAIN TypeByte
  BY <1>3, SetErrorThen DEF processItem, Further
<1>4. CASE Last(r.stack).type = "any" /\ Rest(r) # <<>> /\ Rest(r)[1] \in DOMAIN TypeByte
  <2>1. PICK n : n = Len(r.stack)
    OBVIOUS
  <2>2. PICK s : s = [r EXCEPT !.pos = @ + 1, !.stack[n].type = TypeByte[Rest(r)[1]]]
    OBVIOUS
  <2>3. processItem(r) = processTyped(s)
    BY <1>4, <2>1, <2>2 DEF processItem
  <2>4. PICK u : u = [r.stack EXCEPT ![n].type = TypeByte[Rest(r)[1]]]
    OBVIOUS
  <2>5. /\ DOMAIN s = RFields /\ s.buf = r.buf /\ s.pos = r.pos + 1 /\ s.stack = u /\ s.err = r.err /\ s.ok = r.ok
        /\ s.reply = r.reply /\ s.live = r.live /\ s.out = r.out
    BY <2>2, <2>4 DEF ReaderOK, RFields
  <2>6. Len(r.buf) \in Nat /\ r.pos \in 0 .. Len(r.buf) /\ Len(r.buf) - r.pos # 0
    BY <1>4, RestIs, ASeqLen DEF ReaderOK
  <2>7. ASeq(r.stack) /\ n \in Nat /\ n > 0 /\ DOMAIN r.stack = 1 .. n
    BY <2>1, ASeqLen DEF ReaderOK, Tasks
  <2>8. DOMAIN u = 1 .. n /\ u = [i \in DOMAIN u |-> u[i]]
    BY <2>4, <2>7
  <2>9. ASeq(u) /\ Len(u) = n /\ u # <<>>
    BY <2>7, <2>8, AFunction, ASeqLen
  <2>10. \A k \in 1 .. n : ATask(u[k]) /\ u[k].idx = r.stack[k].idx /\ u[k].elements = r.stack[k].elements
    <3> SUFFICES ASSUME NEW k \in 1 .. n
                 PROVE  ATask(u[k]) /\ u[k].idx = r.stack[k].idx /\ u[k].elements = r.stack[k].elements
      OBVIOUS
    <3>1. u[k] = IF k = n THEN [r.stack[k] EXCEPT !.type = TypeByte[Rest(r)[1]]] ELSE r.stack[k]
      BY <2>4, <2>7
    <3>2. ATask(r.stack[k])
      BY <2>1 DEF ReaderOK, Tasks
    <3> QED BY <3>1, <3>2 DEF ATask
  <2>11. Tasks(u) /\ Bounded(u) /\ Len(u) <= MaxDepth + 1
    <3>1. Bounded(r.stack) /\ Len(r.stack) <= MaxDepth + 1
      BY DEF ReaderOK
    <3>2. Tasks(u)
      BY <2>9, <2>10 DEF Tasks
    <3>3. \A k \in 2 .. n : k \in 1 .. n /\ k - 1 \in 1 .. n
      BY <2>7
    <3>4. Bounded(u)
      BY <2>1, <2>9, <2>10, <3>1, <3>3 DEF Bounded
    <3> QED BY <2>1, <2>9, <3>1, <3>2, <3>4
  <2>12. PathOf(u) = PathOf(r.stack)
    <3>1. \A k \in 1 .. n - 1 : u[k + 1].idx = r.stack[k + 1].idx
      BY <2>7, <2>10
    <3> QED BY <2>1, <2>9, <3>1 DEF PathOf
  <2>13. s.pos \in 0 .. Len(s.buf)
    BY <2>5, <2>6
  <2>14. ReaderOK(s)
    BY <2>5, <2>9, <2>11, <2>12, <2>13 DEF ReaderOK
  <2>15. Further(s, processTyped(s))
    BY <2>5, <2>9, <2>14, TypedThen
  <2>16. Loose(s) = Loose(r)
    BY <2>5 DEF Loose
  <2>17. PICK z : z = processTyped(s)
    OBVIOUS
  <2>18. z.ok => z.pos > r.pos
    BY <2>5, <2>6, <2>15, <2>17, ASeqLen DEF Further, Then, ReaderOK
  <2> QED BY <2>3, <2>5, <2>15, <2>16, <2>17, <2>18 DEF Further, Then
<1> QED BY <1>1, <1>2, <1>3, <1>4

\* The recursion of processItems defines a function.
LEMMA TurnsTaken ==
    ASSUME NEW r, NEW n \in Nat
    PROVE  \E f : f = [k \in 0 .. n |-> IF k = 0 THEN r ELSE Turn(f[k - 1])]
<1> DEFINE Is(f, m) == f = [k \in 0 .. m |-> IF k = 0 THEN r ELSE Turn(f[k - 1])]
           S == {m \in Nat : \E f : Is(f, m)}
<1>1. 0 \in S
  <2>1. Is([k \in 0 .. 0 |-> r], 0)
    OBVIOUS
  <2> QED BY <2>1
<1>2. ASSUME NEW m \in Nat, m \in S PROVE m + 1 \in S
  <2>1. PICK f : Is(f, m)
    BY <1>2
  <2> DEFINE g == [k \in 0 .. m + 1 |-> IF k <= m THEN f[k] ELSE Turn(f[m])]
  <2>2. \A k \in 0 .. m + 1 : g[k] = IF k = 0 THEN r ELSE Turn(g[k - 1])
    <3> TAKE k \in 0 .. m + 1
    <3>1. CASE k <= m
      <4>1. g[k] = f[k] /\ (k # 0 => g[k - 1] = f[k - 1])
        BY <3>1
      <4>2. f[k] = IF k = 0 THEN r ELSE Turn(f[k - 1])
        BY <2>1, <3>1
      <4> HIDE DEF g
      <4> QED BY <4>1, <4>2
    <3>2. CASE k = m + 1
      <4>1. g[k] = Turn(f[m]) /\ g[k - 1] = f[m]
        BY <3>2
      <4> HIDE DEF g
      <4> QED BY <3>2, <4>1
    <3> QED BY <3>1, <3>2
  <2>3. g = [k \in 0 .. m + 1 |-> g[k]]
    OBVIOUS
  <2> HIDE DEF g
  <2>4. Is(g, m + 1)
    BY <2>2, <2>3
  <2> QED BY <2>4
<1>3. Nat \subseteq S
  <2> HIDE DEF S
  <2> QED BY <1>1, <1>2, NatSetInduction
<1> QED BY <1>3

\* The loop is over.
Done(r) == r.stack = <<>> \/ ~r.ok

\* The loop of the parser: every turn but the last consumes bytes, so that the
\* turns the model takes are all there are.
LEMMA LoopThen ==
    ASSUME NEW r, ReaderOK(r), r.err = "no"
    PROVE  Then(r, processItems(r)) /\ Done(processItems(r))
<1>0. Len(r.buf) \in Nat
  BY ASeqLen DEF ReaderOK
<1> DEFINE N == Len(r.buf) + 1
           F == CHOOSE f : f = [k \in 0 .. N |-> IF k = 0 THEN r ELSE Turn(f[k - 1])]
<1>1. F = [k \in 0 .. N |-> IF k = 0 THEN r ELSE Turn(F[k - 1])]
  <2>1. \E f : f = [k \in 0 .. N |-> IF k = 0 THEN r ELSE Turn(f[k - 1])]
    <3>1. N \in Nat
      BY <1>0
    <3> HIDE DEF N
    <3> QED BY <3>1, TurnsTaken
  <2> QED BY <2>1
<1>2. processItems(r) = F[N]
  BY DEF processItems
<1> HIDE DEF F
<1> DEFINE OK(m) == Then(r, F[m]) /\ (Done(F[m]) \/ (F[m].buf = r.buf /\ F[m].pos >= m))
           S == {m \in Nat : m <= N => OK(m)}
<1>3. 0 \in S
  <2>1. F[0] = r
    BY <1>0, <1>1
  <2>2. Then(r, r)
    BY DEF Then
  <2>3. r.pos >= 0
    BY DEF ReaderOK
  <2> QED BY <2>1, <2>2, <2>3
<1>4. ASSUME NEW m \in Nat, m \in S PROVE m + 1 \in S
  <2> SUFFICES ASSUME m + 1 <= N PROVE OK(m + 1)
    BY <1>0
  <2>1. OK(m)
    BY <1>0, <1>4
  <2>2. F[m + 1] = Turn(F[m])
    BY <1>0, <1>1
  <2>3. PICK y : y = F[m]
    OBVIOUS
  <2>4. CASE Done(y)
    BY <2>1, <2>2, <2>3, <2>4 DEF Turn, Done
  <2>5. CASE ~Done(y)
    <3>1. PICK z : z = processItem(y)
      OBVIOUS
    <3>2. F[m + 1] = z
      BY <2>2, <2>3, <2>5, <3>1 DEF Turn, Done
    <3>3. ReaderOK(y) /\ y.err = "no" /\ y.stack # <<>>
      BY <2>1, <2>3, <2>5 DEF Then, Done
    <3>4. Further(y, z)
      BY <3>1, <3>3, ItemThen
    <3>5. Then(r, z)
      BY <2>1, <2>3, <3>4 DEF Further, Then
    <3>6. Done(z) \/ (z.buf = r.buf /\ z.pos >= m + 1)
      <4>1. CASE z.ok
        <5>1. y.buf = r.buf /\ y.pos >= m /\ z.buf = y.buf /\ z.pos > y.pos
          BY <2>1, <2>3, <2>5, <3>4, <4>1 DEF Further
        <5>2. y.pos \in Int /\ z.pos \in Int
          BY <3>3, <3>4, ASeqLen DEF Further, Then, ReaderOK
        <5> QED BY <5>1, <5>2
      <4>2. CASE ~z.ok
        BY <4>2 DEF Done
      <4> QED BY <4>1, <4>2
    <3> QED BY <3>2, <3>5, <3>6
  <2> QED BY <2>4, <2>5
<1>5. Nat \subseteq S
  <2> HIDE DEF S
  <2> QED BY <1>3, <1>4, NatSetInduction
<1>6. OK(N)
  BY <1>0, <1>5
<1>7. ~(F[N].buf = r.buf /\ F[N].pos >= N)
  BY <1>0, <1>6 DEF Then, ReaderOK
<1> QED BY <1>2, <1>6, <1>7

-----------------------------------------------------------------------------
(* The calls of the parser *)

\* Between two calls a reader without a task has no reply either.
AtRest(r) == ReaderOK(r) /\ (r.stack = <<>> => r.reply = None)

\* What a call of a reader leaves: the objects of `out' are the caller's.
Called(r, s) ==
    /\ AtRest(s) /\ IsFiniteSet(DOMAIN s.out)
    /\ Loose(s) = Loose(r) + Objects(s.out)
    /\ s.ok => s.err = "no"
    /\ ~s.ok => s.err # "no" /\ s.out = None

LEMMA CreateAtRest ==
    /\ AtRest(redisReaderCreate) /\ Objects(redisReaderCreate.reply) = 0 /\ redisReaderCreate.out = None
    /\ DOMAIN redisReaderCreate = RFields
<1>1. Tasks(<<>>) /\ Bounded(<<>>) /\ ASeq(<<>>) /\ Len(<<>>) = 0
  BY EmptyIsASeq DEF Tasks, Bounded
<1>2. PICK s : s = redisReaderCreate
  OBVIOUS
<1>3. /\ DOMAIN s = RFields /\ s.buf = <<>> /\ s.pos = 0 /\ s.stack = <<>> /\ s.err = "no" /\ s.ok = TRUE
      /\ s.reply = None /\ s.live = 0 /\ s.out = None
  BY <1>2 DEF redisReaderCreate, RFields
<1>4. ReaderOK(s)
  <2>1. s.pos \in 0 .. Len(s.buf) /\ Len(s.stack) <= MaxDepth + 1
    BY <1>1, <1>3, ReaderAssumption
  <2>2. IsFiniteSet(DOMAIN s.reply) /\ DOMAIN s.reply \subseteq Seq(Int)
    BY <1>3, NoneIsEmpty
  <2>3. ASeq(s.buf) /\ Tasks(s.stack) /\ Bounded(s.stack)
    BY <1>1, <1>3, Zenon
  <2>4. s.ok \in BOOLEAN
    BY <1>3, Zenon
  <2>5. s.live \in Int
    BY <1>3
  <2> QED BY <1>3, <2>1, <2>2, <2>3, <2>4, <2>5 DEF ReaderOK
<1> QED BY <1>2, <1>3, <1>4, NoneIsEmpty DEF AtRest

LEMMA FeedCalled ==
    ASSUME NEW r, AtRest(r), r.out = None, NEW bytes, ASeq(bytes)
    PROVE  Called(r, redisReaderFeed(r, bytes)) /\ redisReaderFeed(r, bytes).out = None
<1>0. PICK s : s = redisReaderFeed(r, bytes)
  OBVIOUS
<1>1. r.live \in Int /\ Objects(r.reply) \in Nat
  BY ObjectsCounted DEF AtRest, ReaderOK
<1>2. CASE r.err # "no"
  <2>1. s = [r EXCEPT !.ok = FALSE]
    BY <1>0, <1>2 DEF redisReaderFeed
  <2>2. /\ DOMAIN s = RFields /\ s.buf = r.buf /\ s.pos = r.pos /\ s.stack = r.stack /\ s.err = r.err /\ s.ok = FALSE
        /\ s.reply = r.reply /\ s.live = r.live /\ s.out = r.out
    BY <2>1 DEF AtRest, ReaderOK, RFields
  <2>3. AtRest(s)
    BY <2>2 DEF AtRest, ReaderOK
  <2> QED BY <1>0, <1>1, <1>2, <2>2, <2>3, NoneIsEmpty DEF Called, Loose
<1>3. CASE r.err = "no" /\ r.mem = 0
  <2>1. s = readerSetError(r, "oom")
    BY <1>0, <1>3 DEF redisReaderFeed
  <2>2. Then(r, s) /\ s.err = "oom"
    BY <2>1, SetErrorThen DEF AtRest
  <2> QED BY <1>0, <1>1, <2>2, NoneIsEmpty DEF Called, Then, AtRest, Loose
<1>4. CASE r.err = "no" /\ r.mem # 0
  <2>1. s = [r EXCEPT !.buf = @ \o bytes, !.ok = TRUE]
    BY <1>0, <1>4 DEF redisReaderFeed
  <2>2. /\ DOMAIN s = RFields /\ s.buf = r.buf \o bytes /\ s.pos = r.pos /\ s.stack = r.stack /\ s.err = r.err
        /\ s.ok = TRUE /\ s.reply = r.reply /\ s.live = r.live /\ s.out = r.out
    BY <2>1 DEF AtRest, ReaderOK, RFields
  <2>3. ASeq(s.buf) /\ s.pos \in 0 .. Len(s.buf)
    <3>1. ASeq(r.buf) /\ Len(r.buf) \in Nat /\ Len(bytes) \in Nat /\ r.pos \in 0 .. Len(r.buf)
      BY ASeqLen DEF AtRest, ReaderOK
    <3>2. ASeq(s.buf) /\ Len(s.buf) = Len(r.buf) + Len(bytes)
      BY <2>2, <3>1, ASeqConcat
    <3> QED BY <2>2, <3>1, <3>2
  <2>4. AtRest(s)
    BY <2>2, <2>3 DEF AtRest, ReaderOK
  <2> QED BY <1>0, <1>1, <1>4, <2>2, <2>4, NoneIsEmpty DEF Called, Loose
<1> QED BY <1>2, <1>3, <1>4

LEMMA DiscardedThen ==
    ASSUME NEW r, ReaderOK(r)
    PROVE  LET s == Discarded(r)
           IN  ReaderOK(s) /\ s.stack = r.stack /\ s.reply = r.reply /\ s.live = r.live /\ s.err = r.err
               /\ s.ok = r.ok /\ s.out = r.out
<1>1. CASE r.pos < Discard
  BY <1>1 DEF Discarded
<1>2. CASE ~(r.pos < Discard)
  <2>1. PICK s : s = [r EXCEPT !.buf = Rest(r), !.pos = 0]
    OBVIOUS
  <2>2. /\ DOMAIN s = RFields /\ s.buf = Rest(r) /\ s.pos = 0 /\ s.stack = r.stack /\ s.err = r.err
        /\ s.ok = r.ok /\ s.reply = r.reply /\ s.live = r.live /\ s.out = r.out
    BY <2>1 DEF ReaderOK, RFields
  <2>3. ASeq(s.buf) /\ s.pos \in 0 .. Len(s.buf)
    <3>1. ASeq(s.buf) /\ Len(s.buf) \in Nat
      BY <2>2, RestIs, ASeqLen
    <3> QED BY <2>2, <3>1
  <2>4. ReaderOK(s)
    BY <2>2, <2>3 DEF ReaderOK
  <2>5. Discarded(r) = s
    BY <1>2, <2>1 DEF Discarded
  <2> QED BY <2>2, <2>4, <2>5
<1> QED BY <1>1, <1>2

LEMMA StoppedCalled ==
    ASSUME NEW r, NEW y, r.live \in Int, Objects(r.reply) \in Nat, Then(r, y), r.out = None
    PROVE  Called(r, Stopped(y))
<1>0. y.live \in Int /\ Objects(y.reply) \in Nat /\ ReaderOK(y) /\ y.out = None /\ Loose(y) = Loose(r)
  BY ObjectsCounted DEF Then, ReaderOK
<1>1. CASE y.err # "no"
  <2>1. Stopped(y) = y
    BY <1>1 DEF Stopped
  <2>2. y.stack = <<>> => y.reply = None
    <3>1. CASE y.err # "segv"
      BY <1>1, <3>1 DEF Then
    <3>2. CASE y.err = "segv"
      <4>1. Len(y.stack) > 1
        BY <1>0, <3>2 DEF ReaderOK, NoVector
      <4> QED BY <4>1, EmptyIsASeq
    <3> QED BY <3>1, <3>2
  <2>3. AtRest(y) /\ ~y.ok
    BY <1>0, <1>1, <2>2 DEF Then, AtRest
  <2> QED BY <1>0, <1>1, <2>1, <2>3, NoneIsEmpty DEF Called, Loose
<1>2. CASE y.err = "no"
  <2>1. PICK a : a = [y EXCEPT !.ok = TRUE]
    OBVIOUS
  <2>2. /\ DOMAIN a = RFields /\ a.buf = y.buf /\ a.pos = y.pos /\ a.stack = y.stack /\ a.err = y.err
        /\ a.ok = TRUE /\ a.reply = y.reply /\ a.live = y.live /\ a.out = y.out
    BY <1>0, <2>1 DEF ReaderOK, RFields
  <2>3. ReaderOK(a)
    BY <1>0, <2>2 DEF ReaderOK
  <2>4. PICK b : b = Discarded(a)
    OBVIOUS
  <2>5. /\ ReaderOK(b) /\ b.stack = y.stack /\ b.reply = y.reply /\ b.live = y.live /\ b.ok = TRUE /\ b.out = y.out
        /\ b.err = "no"
    BY <1>2, <2>2, <2>3, <2>4, DiscardedThen
  <2>6. Stopped(y) = Emitted(b)
    BY <1>2, <2>1, <2>4 DEF Stopped
  <2>7. CASE b.stack # <<>>
    <3>1. Stopped(y) = b
      BY <2>6, <2>7 DEF Emitted
    <3> QED BY <1>0, <2>5, <2>7, <3>1, NoneIsEmpty DEF Called, AtRest, Loose
  <2>8. CASE b.stack = <<>>
    <3>1. PICK z : z = [b EXCEPT !.out = b.reply, !.reply = None]
      OBVIOUS
    <3>2. Stopped(y) = z
      BY <2>6, <2>8, <3>1 DEF Emitted
    <3>3. /\ DOMAIN z = RFields /\ z.buf = b.buf /\ z.pos = b.pos /\ z.stack = <<>> /\ z.err = "no"
          /\ z.ok = TRUE /\ z.reply = None /\ z.live = b.live /\ z.out = b.reply
      BY <2>5, <2>8, <3>1 DEF ReaderOK, RFields
    <3>4. AtRest(z)
      <4>1. IsFiniteSet(DOMAIN z.reply) /\ DOMAIN z.reply \subseteq Seq(Int)
        BY <3>3, NoneIsEmpty
      <4> QED BY <2>5, <2>8, <3>3, <4>1 DEF AtRest, ReaderOK
    <3>5. IsFiniteSet(DOMAIN z.out)
      BY <2>5, <3>3 DEF ReaderOK
    <3>6. Loose(z) = Loose(r) + Objects(z.out)
      BY <1>0, <2>5, <3>3, NoneIsEmpty DEF Loose
    <3> QED BY <3>2, <3>3, <3>4, <3>5, <3>6 DEF Called
  <2> QED BY <2>7, <2>8
<1> QED BY <1>1, <1>2

\* redisReaderGetReply, however it ends, accounts for every object.
LEMMA GetReplyCalled ==
    ASSUME NEW r, AtRest(r)
    PROVE  Called(r, redisReaderGetReply(r))
<1>0. r.live \in Int /\ Objects(r.reply) \in Nat /\ ReaderOK(r)
  BY ObjectsCounted DEF AtRest, ReaderOK
<1>1. PICK s : s = [r EXCEPT !.out = None, !.ok = TRUE]
  OBVIOUS
<1>2. /\ DOMAIN s = RFields /\ s.buf = r.buf /\ s.pos = r.pos /\ s.stack = r.stack /\ s.err = r.err
      /\ s.ok = TRUE /\ s.reply = r.reply /\ s.live = r.live /\ s.out = None
  BY <1>0, <1>1 DEF ReaderOK, RFields
<1>3. ReaderOK(s)
  BY <1>0, <1>2 DEF ReaderOK
<1>4. AtRest(s) /\ Loose(s) = Loose(r)
  BY <1>2, <1>3 DEF AtRest, Loose
<1>5. CASE r.err # "no"
  <2>1. PICK z : z = [s EXCEPT !.ok = FALSE]
    OBVIOUS
  <2>2. redisReaderGetReply(r) = z
    BY <1>1, <1>5, <2>1 DEF redisReaderGetReply
  <2>3. /\ DOMAIN z = RFields /\ z.buf = r.buf /\ z.pos = r.pos /\ z.stack = r.stack /\ z.err = r.err
        /\ z.ok = FALSE /\ z.reply = r.reply /\ z.live = r.live /\ z.out = None
    BY <1>2, <2>1 DEF RFields
  <2>4. AtRest(z)
    BY <2>3 DEF AtRest, ReaderOK
  <2> QED BY <1>0, <1>5, <2>2, <2>3, <2>4, NoneIsEmpty DEF Called, Loose
<1>6. CASE r.err = "no" /\ r.buf = <<>>
  <2>1. redisReaderGetReply(r) = s
    BY <1>1, <1>6 DEF redisReaderGetReply
  <2> QED BY <1>0, <1>2, <1>4, <1>6, <2>1, NoneIsEmpty DEF Called, Loose
<1>7. CASE r.err = "no" /\ r.buf # <<>>
  <2>1. PICK u : u = IF r.stack = <<>> THEN [s EXCEPT !.stack = <<Task(-1)>>] ELSE s
    OBVIOUS
  <2>2. redisReaderGetReply(r) = Stopped(processItems(u))
    BY <1>1, <1>7, <2>1 DEF redisReaderGetReply
  <2>3. /\ ReaderOK(u) /\ u.err = "no" /\ u.out = None /\ u.live = r.live /\ u.reply = r.reply
    <3>1. CASE r.stack # <<>>
      BY <1>2, <1>3, <1>7, <2>1, <3>1
    <3>2. CASE r.stack = <<>>
      <4>1. /\ DOMAIN u = RFields /\ u.buf = s.buf /\ u.pos = s.pos /\ u.stack = <<Task(-1)>> /\ u.err = s.err
            /\ u.ok = s.ok /\ u.reply = s.reply /\ u.live = s.live /\ u.out = s.out
        BY <1>2, <2>1, <3>2 DEF RFields
      <4>2. ASeq(<<Task(-1)>>) /\ Len(<<Task(-1)>>) = 1
        <5>1. <<Task(-1)>> \in Seq({Task(-1)}) /\ Len(<<Task(-1)>>) = 1
          OBVIOUS
        <5> QED BY <5>1 DEF ASeq
      <4>3. Tasks(u.stack) /\ Bounded(u.stack) /\ Len(u.stack) <= MaxDepth + 1
        <5>1. <<Task(-1)>>[1] = Task(-1)
          OBVIOUS
        <5>2. ATask(Task(-1))
          BY DEF Task, ATask
        <5>3. Len(u.stack) <= MaxDepth + 1
          BY <4>1, <4>2, ReaderAssumption
        <5>4. \A k \in 1 .. 1 : k = 1
          OBVIOUS
        <5>5. Tasks(u.stack)
          BY <4>1, <4>2, <5>1, <5>2, <5>4 DEF Tasks
        <5>6. \A k \in 2 .. 1 : FALSE
          OBVIOUS
        <5>7. Bounded(u.stack)
          BY <4>1, <4>2, <5>6 DEF Bounded
        <5> QED BY <5>3, <5>5, <5>7
      <4>4. DOMAIN u.reply = {}
        BY <1>2, <1>4, <3>2, <4>1, NoneIsEmpty DEF AtRest
      <4>5. ReaderOK(u)
        BY <1>2, <1>3, <1>7, <4>1, <4>3, <4>4 DEF ReaderOK
      <4> QED BY <1>2, <1>7, <4>1, <4>5
    <3> QED BY <3>1, <3>2
  <2>4. Then(u, processItems(u))
    BY <2>3, LoopThen
  <2>5. Called(u, Stopped(processItems(u)))
    BY <1>0, <2>3, <2>4, StoppedCalled
  <2>6. Loose(u) = Loose(r)
    BY <2>3 DEF Loose
  <2> QED BY <2>2, <2>5, <2>6 DEF Called
<1> QED BY <1>5, <1>6, <1>7

-----------------------------------------------------------------------------
(* The reply objects in the hands of the threads *)

HeldIn(h, T) == UNION {{t} \X DOMAIN h[t].reply : t \in T}

LEMMA HeldFinite ==
    ASSUME NEW h, NEW T \in SUBSET Threads, \A t \in Threads : IsFiniteSet(DOMAIN h[t].reply)
    PROVE  IsFiniteSet(HeldIn(h, T))
<1>1. IsFiniteSet(T)
  BY CtxAssumption, FS_Subset
<1> DEFINE f == [t \in T |-> {t} \X DOMAIN h[t].reply]
           S == {{t} \X DOMAIN h[t].reply : t \in T}
<1>2. IsFiniteSet(S)
  <2>1. f \in Surjection(T, S)
    BY DEF Surjection
  <2> HIDE DEF f, S
  <2> QED BY <1>1, <2>1, FS_Surjection
<1>3. \A X \in S : IsFiniteSet(X)
  <2> SUFFICES ASSUME NEW t \in T PROVE IsFiniteSet({t} \X DOMAIN h[t].reply)
    OBVIOUS
  <2>1. IsFiniteSet({t}) /\ IsFiniteSet(DOMAIN h[t].reply)
    BY FS_Singleton
  <2> QED BY <2>1, FS_Product
<1>4. IsFiniteSet(UNION S)
  <2> HIDE DEF S
  <2> QED BY <1>2, <1>3, FS_UNION
<1> QED BY <1>4 DEF HeldIn

LEMMA HeldBy ==
    ASSUME NEW h, NEW t \in Threads, \A u \in Threads : IsFiniteSet(DOMAIN h[u].reply)
    PROVE  /\ Cardinality(HeldIn(h, Threads)) = Cardinality(HeldIn(h, Threads \ {t})) + Objects(h[t].reply)
           /\ Cardinality(HeldIn(h, Threads \ {t})) \in Nat /\ Objects(h[t].reply) \in Nat
<1>1. PICK A : A = HeldIn(h, Threads \ {t})
  OBVIOUS
<1>2. PICK B : B = {t} \X DOMAIN h[t].reply
  OBVIOUS
<1>3. IsFiniteSet(A)
  BY <1>1, HeldFinite
<1>4. IsFiniteSet(B) /\ Cardinality(B) = Objects(h[t].reply) /\ Objects(h[t].reply) \in Nat
  <2>1. IsFiniteSet({t}) /\ Cardinality({t}) = 1 /\ IsFiniteSet(DOMAIN h[t].reply)
    BY FS_Singleton
  <2>2. Cardinality(DOMAIN h[t].reply) \in Nat
    BY <2>1, FS_CardinalityType
  <2> QED BY <1>2, <2>1, <2>2, FS_Product DEF Objects
<1>5. HeldIn(h, Threads) = A \cup B
  BY <1>1, <1>2 DEF HeldIn
<1>6. A \cap B = {}
  <2> SUFFICES ASSUME NEW x, x \in A, x \in B PROVE FALSE
    OBVIOUS
  <2>1. PICK u \in Threads \ {t} : x \in {u} \X DOMAIN h[u].reply
    BY <1>1 DEF HeldIn
  <2>2. x[1] = u
    BY <2>1
  <2>3. x[1] = t
    BY <1>2
  <2> QED BY <2>1, <2>2, <2>3
<1>7. Cardinality(A \cup B) = Cardinality(A) + Cardinality(B) - Cardinality({})
  BY <1>3, <1>4, <1>6, FS_Union
<1>8. Cardinality({}) = 0 /\ Cardinality(A) \in Nat /\ Cardinality(B) \in Nat
  BY <1>3, <1>4, FS_EmptySet, FS_CardinalityType
<1> QED BY <1>1, <1>4, <1>5, <1>7, <1>8

\* Only thread t takes or gives up a reply.
LEMMA HeldMoves ==
    ASSUME NEW g, NEW h, NEW t \in Threads,
           \A u \in Threads : IsFiniteSet(DOMAIN g[u].reply) /\ IsFiniteSet(DOMAIN h[u].reply),
           \A u \in Threads \ {t} : h[u].reply = g[u].reply
    PROVE  /\ Cardinality(HeldIn(h, Threads))
                 = Cardinality(HeldIn(g, Threads)) - Objects(g[t].reply) + Objects(h[t].reply)
           /\ Objects(g[t].reply) \in Nat /\ Objects(h[t].reply) \in Nat
<1>1. HeldIn(h, Threads \ {t}) = HeldIn(g, Threads \ {t})
  BY DEF HeldIn
<1>2. PICK A : A = HeldIn(g, Threads \ {t})
  OBVIOUS
<1>3. /\ Cardinality(HeldIn(g, Threads)) = Cardinality(A) + Objects(g[t].reply)
      /\ Cardinality(A) \in Nat /\ Objects(g[t].reply) \in Nat
  BY <1>2, HeldBy
<1>4. /\ Cardinality(HeldIn(h, Threads)) = Cardinality(A) + Objects(h[t].reply)
      /\ Objects(h[t].reply) \in Nat
  BY <1>1, <1>2, HeldBy
<1> QED BY <1>3, <1>4

LEMMA HeldSame ==
    ASSUME NEW g, NEW h, \A u \in Threads : h[u].reply = g[u].reply
    PROVE  HeldIn(h, Threads) = HeldIn(g, Threads)
BY DEF HeldIn

-----------------------------------------------------------------------------
(* The context with its parser, its stream and its threads *)

Errs == {"no", "io", "eof", "protocol", "other", "oom", "segv"}
PCs == {"idle", "slaves", "get", "write", "read", "use", "failed", "thrown", "exit", "abort"}
AllShapes == {"hmget", "hgetall", "hmset", "wait", "nested", "error"}

\* Every command under way is one that was issued.
Streams ==
    /\ cmds \in Seq(AllShapes) /\ c.obuf \in Seq(1 .. Len(cmds))
    /\ DOMAIN net = {"up", "down", "open"} /\ net.up \in Seq(1 .. Len(cmds)) /\ ASeq(net.down)

\* Only a thread that uses a reply, or was stopped while it did, holds one.
Replies ==
    \A t \in Threads : /\ th[t].pc \in PCs /\ IsFiniteSet(DOMAIN th[t].reply)
                       /\ th[t].pc \notin {"use", "exit", "abort"} => th[t].reply = None

\* Every object that is not part of the reply being built is in some hand.
Accounts == AtRest(c.reader) /\ c.reader.out = None /\ Loose(c.reader) = Cardinality(Held)

MemInv == CtxShape /\ c.err \in Errs /\ Streams /\ Replies /\ Accounts

LEMMA MemStart == CtxInit => MemInv
<1> SUFFICES ASSUME CtxInit PROVE MemInv
  OBVIOUS
<1>1. CtxShape
  BY CtxStart DEF CtxInv
<1>2. c.err \in Errs /\ c.reader = redisReaderCreate /\ c.obuf = <<>> /\ cmds = <<>> /\ net = Fresh
      /\ th = [t \in Threads |-> Idle]
  BY DEF CtxInit, Errs
<1>3. Streams
  BY <1>2, EmptyIsASeq DEF Streams, Fresh
<1>4. \A t \in Threads : th[t].reply = None /\ th[t].pc = "idle"
  BY <1>2 DEF Idle
<1>5. Replies
  BY <1>4, NoneIsEmpty DEF Replies, PCs
<1>6. Held = {}
  BY <1>4, NoneIsEmpty DEF Held
<1>7. Loose(redisReaderCreate) = 0
  BY CreateAtRest DEF Loose, redisReaderCreate
<1>8. Accounts
  BY <1>2, <1>6, <1>7, CreateAtRest, FS_EmptySet DEF Accounts
<1> QED BY <1>1, <1>2, <1>3, <1>5, <1>8 DEF MemInv

\* A step after which the threads hold what they held before.
LEMMA HandsKept ==
    ASSUME MemInv, CtxShape', c'.err \in Errs, Streams',
           AtRest(c'.reader), c'.reader.out = None, Loose(c'.reader) = Loose(c.reader),
           \A u \in Threads : /\ th'[u].reply = th[u].reply /\ th'[u].pc \in PCs
                              /\ th'[u].pc \in {"use", "exit", "abort"} \/ th[u].reply = None
    PROVE  MemInv'
<1>1. Replies'
  BY DEF MemInv, Replies
<1>2. HeldIn(th', Threads) = HeldIn(th, Threads)
  BY HeldSame
<1>3. Held' = Held
  BY <1>2 DEF Held, HeldIn
<1>4. Accounts'
  BY <1>3 DEF MemInv, Accounts
<1> QED BY <1>1, <1>4 DEF MemInv

\* The same, when the parser is not touched.
LEMMA ReaderKept ==
    ASSUME MemInv, CtxShape', c'.err \in Errs, Streams', c'.reader = c.reader,
           \A u \in Threads : /\ th'[u].reply = th[u].reply /\ th'[u].pc \in PCs
                              /\ th'[u].pc \in {"use", "exit", "abort"} \/ th[u].reply = None
    PROVE  MemInv'
<1>1. AtRest(c'.reader) /\ c'.reader.out = None /\ Loose(c'.reader) = Loose(c.reader)
  BY DEF MemInv, Accounts
<1> QED BY <1>1, HandsKept

\* A step in which one thread takes or gives up a reply.
LEMMA HandMoves ==
    ASSUME MemInv, CtxShape', c'.err \in Errs, Streams', NEW t \in Threads,
           AtRest(c'.reader), c'.reader.out = None,
           Loose(c'.reader) = Loose(c.reader) - Objects(th[t].reply) + Objects(th'[t].reply),
           IsFiniteSet(DOMAIN th'[t].reply), th'[t].pc \in PCs,
           th'[t].pc \notin {"use", "exit", "abort"} => th'[t].reply = None,
           \A u \in Threads \ {t} : th'[u] = th[u]
    PROVE  MemInv'
<1>1. Replies'
  BY DEF MemInv, Replies
<1>2. Cardinality(HeldIn(th', Threads))
          = Cardinality(HeldIn(th, Threads)) - Objects(th[t].reply) + Objects(th'[t].reply)
  <2>1. \A u \in Threads : IsFiniteSet(DOMAIN th[u].reply) /\ IsFiniteSet(DOMAIN th'[u].reply)
    BY <1>1 DEF MemInv, Replies
  <2>2. PICK g : g = th
    OBVIOUS
  <2>3. PICK h : h = th'
    OBVIOUS
  <2>4. \A u \in Threads \ {t} : h[u].reply = g[u].reply
    BY <2>2, <2>3
  <2> QED BY <2>1, <2>2, <2>3, <2>4, HeldMoves
<1>3. Held = HeldIn(th, Threads) /\ Held' = HeldIn(th', Threads)
  BY DEF Held, HeldIn
<1>4. Accounts'
  BY <1>2, <1>3 DEF MemInv, Accounts
<1> QED BY <1>1, <1>4 DEF MemInv

-----------------------------------------------------------------------------
(* What the calls of the parser do to a context *)

LEMMA MemAtRest ==
    ASSUME NEW r, AtRest(r), NEW m, NEW s, s = [r EXCEPT !.mem = m]
    PROVE  AtRest(s) /\ Loose(s) = Loose(r) /\ s.out = r.out /\ s.ok = r.ok /\ s.err = r.err
<1>1. DOMAIN r = RFields
  BY DEF AtRest, ReaderOK
<1>2. /\ DOMAIN s = RFields /\ s.buf = r.buf /\ s.pos = r.pos /\ s.stack = r.stack /\ s.err = r.err
      /\ s.ok = r.ok /\ s.reply = r.reply /\ s.live = r.live /\ s.out = r.out
  BY <1>1 DEF RFields
<1> QED BY <1>2 DEF AtRest, ReaderOK, Loose

LEMMA OutAtRest ==
    ASSUME NEW r, AtRest(r), NEW s, s = [r EXCEPT !.out = None]
    PROVE  AtRest(s) /\ Loose(s) = Loose(r) /\ s.out = None
<1>1. DOMAIN r = RFields
  BY DEF AtRest, ReaderOK
<1>2. /\ DOMAIN s = RFields /\ s.buf = r.buf /\ s.pos = r.pos /\ s.stack = r.stack /\ s.err = r.err
      /\ s.ok = r.ok /\ s.reply = r.reply /\ s.live = r.live /\ s.out = None
  BY <1>1 DEF RFields
<1> QED BY <1>2 DEF AtRest, ReaderOK, Loose

\* y is context x after a call of its parser.
Parsed(x, y) ==
    /\ DOMAIN y = CFields /\ y.obuf = x.obuf
    /\ AtRest(y.reader) /\ IsFiniteSet(DOMAIN y.reader.out)
    /\ Loose(y.reader) = Loose(x.reader) + Objects(y.reader.out)
    /\ y.reader.ok => y.err = x.err /\ y.reader.err = "no"
    /\ ~y.reader.ok => y.err \in {"protocol", "oom", "segv"} /\ y.err = y.reader.err /\ y.reader.out = None

LEMMA AfterReaderParsed ==
    ASSUME NEW x, DOMAIN x = CFields, NEW q, Loose(q) = Loose(x.reader), NEW r, Called(q, r)
    PROVE  Parsed(x, AfterReader(x, r)) /\ AfterReader(x, r).reader.out = r.out
<1>1. PICK s : s = [r EXCEPT !.mem = 0]
  OBVIOUS
<1>2. /\ AtRest(s) /\ Loose(s) = Loose(r) /\ s.out = r.out /\ s.ok = r.ok /\ s.err = r.err
  BY <1>1, MemAtRest DEF Called
<1>3. PICK y : y = [x EXCEPT !.reader = s]
  OBVIOUS
<1>4. DOMAIN y = CFields /\ y.obuf = x.obuf /\ y.reader = s /\ y.err = x.err
  BY <1>3 DEF CFields
<1>5. AfterReader(x, r) = IF r.ok THEN y ELSE SetError(y, r.err)
  BY <1>1, <1>3 DEF AfterReader
<1>6. PICK z : z = SetError(y, r.err)
  OBVIOUS
<1>7. DOMAIN z = CFields /\ z.obuf = x.obuf /\ z.reader = s /\ z.err = r.err
  BY <1>4, <1>6 DEF SetError, CFields
<1>8. r.err \in {"no", "protocol", "oom", "segv"} /\ (~r.ok => r.err # "no" /\ r.out = None) /\ (r.ok => r.err = "no")
      /\ IsFiniteSet(DOMAIN r.out) /\ Loose(r) = Loose(x.reader) + Objects(r.out)
  BY DEF Called, AtRest, ReaderOK
<1>9. CASE r.ok
  BY <1>2, <1>4, <1>5, <1>8, <1>9 DEF Parsed
<1>10. CASE ~r.ok
  BY <1>2, <1>5, <1>6, <1>7, <1>8, <1>10 DEF Parsed
<1> QED BY <1>9, <1>10

LEMMA FromReaderParsed ==
    ASSUME NEW x, DOMAIN x = CFields, AtRest(x.reader), NEW m
    PROVE  Parsed(x, FromReader(x, m))
<1>1. PICK q : q = [x.reader EXCEPT !.mem = m]
  OBVIOUS
<1>2. AtRest(q) /\ Loose(q) = Loose(x.reader)
  BY <1>1, MemAtRest
<1>3. Called(q, redisReaderGetReply(q))
  BY <1>2, GetReplyCalled
<1> QED BY <1>1, <1>2, <1>3, AfterReaderParsed DEF FromReader

LEMMA BufferReadParsed ==
    ASSUME NEW x, DOMAIN x = CFields, AtRest(x.reader), x.reader.out = None, NEW m, NEW bytes, ASeq(bytes)
    PROVE  Parsed(x, BufferRead(x, bytes, m)) /\ BufferRead(x, bytes, m).reader.out = None
<1>1. PICK q : q = [x.reader EXCEPT !.mem = m]
  OBVIOUS
<1>2. AtRest(q) /\ Loose(q) = Loose(x.reader) /\ q.out = None
  BY <1>1, MemAtRest
<1>3. Called(q, redisReaderFeed(q, bytes)) /\ redisReaderFeed(q, bytes).out = None
  BY <1>2, FeedCalled
<1> QED BY <1>1, <1>2, <1>3, AfterReaderParsed DEF BufferRead

\* The end of redisGetReply: a reply that came out is the thread's now.
LEMMA RepliedMem ==
    ASSUME MemInv, CtxShape', Streams', NEW t \in Threads, NEW x, Parsed(c, x), NEW wait \in {"write", "read"},
           Replied(t, x, wait), th[t].reply = None
    PROVE  MemInv'
<1>1. c' = [x EXCEPT !.reader.out = None]
  BY DEF Replied
<1>2. PICK r : r = x.reader
  OBVIOUS
<1>3. PICK s : s = [r EXCEPT !.out = None]
  OBVIOUS
<1>4. c'.reader = s /\ c'.err = x.err
  <2>1. c' = [x EXCEPT !.reader = s]
    BY <1>1, <1>2, <1>3 DEF Parsed, CFields
  <2> QED BY <2>1 DEF Parsed, CFields
<1>5. AtRest(c'.reader) /\ c'.reader.out = None /\ Loose(c'.reader) = Loose(r)
  <2>1. AtRest(r)
    BY <1>2 DEF Parsed
  <2>2. AtRest(s) /\ Loose(s) = Loose(r) /\ s.out = None
    BY <1>3, <2>1, OutAtRest
  <2> QED BY <1>4, <2>2
<1>6. c'.err \in Errs
  BY <1>4 DEF Parsed, MemInv, Errs
<1>13. CASE r.err = "segv"
  <2>1. ~r.ok /\ r.out = None /\ x.reader.err = "segv"
    BY <1>2, <1>13 DEF Parsed
  <2>2. th' = [u \in Threads |-> [th[u] EXCEPT !.pc = "abort"]]
    BY <2>1 DEF Replied, Exit
  <2>3. Loose(c'.reader) = Loose(c.reader)
    <3>1. Loose(c.reader) \in Int /\ Loose(r) = Loose(c.reader) + Objects(None)
      BY <1>2, <2>1, ObjectsCounted DEF Parsed, MemInv, Accounts, AtRest, ReaderOK, Loose
    <3> QED BY <1>5, <3>1, NoneIsEmpty
  <2>4. \A u \in Threads : th'[u].reply = th[u].reply /\ th'[u].pc = "abort"
    BY <2>2 DEF MemInv, CtxShape, TFields
  <2> QED BY <1>5, <1>6, <2>3, <2>4, HandsKept DEF PCs
<1> DEFINE y == CASE ~r.ok        -> [th[t] EXCEPT !.pc = "failed"]
                  [] r.out # None -> [th[t] EXCEPT !.pc = "use", !.reply = r.out, !.ptr = "reply"]
                  [] OTHER        -> [th[t] EXCEPT !.pc = IF "BLOCK" \in c.flags THEN wait ELSE "idle"]
<1>7. ASSUME r.err # "segv" PROVE th' = [th EXCEPT ![t] = y]
  BY <1>2, <1>7 DEF MemInv, CtxShape, Replied
<1>8. y.reply = r.out /\ y.pc \in PCs /\ (y.pc \notin {"use", "exit", "abort"} => y.reply = None)
  <2>0. DOMAIN th[t] = TFields
    BY DEF MemInv, CtxShape
  <2>1. CASE ~r.ok
    BY <1>2, <2>0, <2>1 DEF Parsed, TFields, PCs
  <2>2. CASE r.ok /\ r.out # None
    BY <2>0, <2>2 DEF TFields, PCs
  <2>3. CASE r.ok /\ r.out = None
    BY <2>0, <2>3 DEF TFields, PCs
  <2> QED BY <2>1, <2>2, <2>3
<1> HIDE DEF y
<1>12. CASE r.err # "segv"
  <2>1. th'[t] = y /\ \A u \in Threads \ {t} : th'[u] = th[u]
    BY <1>7, <1>12 DEF MemInv, CtxShape
  <2>2. IsFiniteSet(DOMAIN y.reply) /\ Loose(r) = Loose(c.reader) + Objects(y.reply)
    BY <1>2, <1>8 DEF Parsed
  <2>3. Loose(c'.reader) = Loose(c.reader) - Objects(th[t].reply) + Objects(th'[t].reply)
    <3>1. Loose(c.reader) \in Int /\ Objects(y.reply) \in Nat
      BY <2>2, ObjectsCounted DEF MemInv, Accounts, AtRest, ReaderOK, Loose
    <3> QED BY <1>5, <2>1, <2>2, <3>1, NoneIsEmpty
  <2> QED BY <1>5, <1>6, <1>8, <2>1, <2>2, <2>3, HandMoves
<1> QED BY <1>12, <1>13

-----------------------------------------------------------------------------
(* The steps that connect *)

\* y is context x with other descriptors, and perhaps an error.
Reconnected(x, y) ==
    /\ DOMAIN y = CFields /\ y.made = x.made /\ y.reader = x.reader /\ y.obuf = x.obuf
    /\ y.err \in {x.err, "io", "other"}

LEMMA ReconnectedOps ==
    ASSUME NEW x, DOMAIN x = CFields
    PROVE  /\ Reconnected(x, x) /\ Reconnected(x, Socket(x)) /\ Reconnected(x, CloseFd(x))
           /\ \A e \in {"io", "other"} : Reconnected(x, SetError(x, e))
           /\ \A k : Reconnected(x, [x EXCEPT !.kind = k])
BY DEF Reconnected, Socket, CloseFd, Close, SetError, CFields

LEMMA ReconnectedTrans ==
    ASSUME NEW x, NEW y, NEW z, Reconnected(x, y), Reconnected(y, z)
    PROVE  Reconnected(x, z)
BY DEF Reconnected

LEMMA ReachReconnected ==
    ASSUME NEW x, DOMAIN x = CFields, NEW what
    PROVE  Reconnected(x, Reach(x, what).c) /\ Reach(x, what).then \in {"error", "done"}
<1>1. CASE what = "sockerr"
  BY <1>1, ReconnectedOps DEF Reach
<1>2. CASE what = "ok"
  <2>1. Reach(x, what) = Connected(x)
    BY <1>2 DEF Reach
  <2>2. PICK y : y = Connected(x).c
    OBVIOUS
  <2>3. DOMAIN y = CFields /\ y.made = x.made /\ y.reader = x.reader /\ y.obuf = x.obuf /\ y.err = x.err
    BY <2>2 DEF Connected, CFields
  <2>4. Connected(x).then = "done"
    BY DEF Connected
  <2> QED BY <2>1, <2>2, <2>3, <2>4 DEF Reconnected
<1>3. CASE what \notin {"sockerr", "ok"}
  <2>1. Reach(x, what) = Failed(x, "io")
    BY <1>3 DEF Reach
  <2>2. PICK y : y = SetError(x, "io")
    OBVIOUS
  <2>3. Reconnected(x, y) /\ Reconnected(y, CloseFd(y))
    BY <2>2, ReconnectedOps DEF Reconnected
  <2> QED BY <2>1, <2>2, <2>3, ReconnectedTrans DEF Failed
<1> QED BY <1>1, <1>2, <1>3

LEMMA AttemptReconnected ==
    ASSUME NEW x, DOMAIN x = CFields, NEW what, NEW a \in {AttemptTcp(x, what), AttemptUnix(x, what)}
    PROVE  Reconnected(x, a.c) /\ a.then \in {"next", "retry", "error", "done"}
<1>0. PICK s : s = Socket(x)
  OBVIOUS
<1>1. DOMAIN s = CFields /\ Reconnected(x, s)
  BY <1>0, ReconnectedOps DEF Reconnected
<1>2. Reconnected(x, CloseFd(s)) /\ \A e \in {"io", "other"} : Reconnected(x, SetError(s, e))
  BY <1>1, ReconnectedOps, ReconnectedTrans
<1>3. ASSUME NEW y, DOMAIN y = CFields, Reconnected(x, y)
      PROVE  Reconnected(x, Reach(y, what).c) /\ Reach(y, what).then \in {"error", "done"}
  BY <1>3, ReachReconnected, ReconnectedTrans
<1>4. CASE a = AttemptTcp(x, what)
  <2>1. CASE what = "nosocket"
    BY <1>4, <2>1, ReconnectedOps DEF AttemptTcp
  <2>2. CASE what \in {"nosource", "unbound"}
    BY <1>0, <1>2, <1>4, <2>2 DEF AttemptTcp
  <2>3. CASE what = "noreuse"
    BY <1>0, <1>1, <1>4, <2>3 DEF AttemptTcp
  <2>4. CASE what = "unreach"
    BY <1>0, <1>2, <1>4, <2>4 DEF AttemptTcp
  <2>5. CASE what = "notavail" /\ "REUSEADDR" \in x.flags
    <3>1. a.c = s /\ a.then \in {"error", "retry"}
      BY <1>0, <1>4, <2>5 DEF AttemptTcp
    <3> QED BY <1>1, <3>1
  <2>6. CASE /\ what \notin {"nosocket", "nosource", "unbound", "noreuse", "unreach"}
             /\ ~(what = "notavail" /\ "REUSEADDR" \in x.flags)
    <3>1. a = Reach(s, what)
      BY <1>0, <1>4, <2>6 DEF AttemptTcp
    <3> QED BY <1>1, <1>3, <3>1
  <2> QED BY <2>1, <2>2, <2>3, <2>4, <2>5, <2>6
<1>5. CASE a = AttemptUnix(x, what)
  <2>1. CASE what = "nosocket"
    BY <1>5, <2>1, ReconnectedOps DEF AttemptUnix
  <2>2. CASE what = "fcntl"
    <3>1. a = Failed(s, "io")
      BY <1>0, <1>5, <2>2 DEF AttemptUnix
    <3>2. PICK y : y = SetError(s, "io")
      OBVIOUS
    <3>3. Reconnected(x, y) /\ Reconnected(y, CloseFd(y))
      BY <1>1, <1>2, <3>2, ReconnectedOps DEF Reconnected
    <3> QED BY <3>1, <3>2, <3>3, ReconnectedTrans DEF Failed
  <2>3. CASE what \notin {"nosocket", "fcntl"}
    <3>1. PICK y : y = [s EXCEPT !.kind = "unix"]
      OBVIOUS
    <3>2. a = Reach(y, what)
      BY <1>0, <1>5, <2>3, <3>1 DEF AttemptUnix
    <3>3. DOMAIN y = CFields /\ Reconnected(x, y)
      BY <1>1, <3>1, ReconnectedOps, ReconnectedTrans DEF Reconnected
    <3> QED BY <1>3, <3>2, <3>3
  <2> QED BY <2>1, <2>2, <2>3
<1> QED BY <1>4, <1>5

LEMMA TryReconnects ==
    ASSUME CtxShape, NEW what, Try(what)
    PROVE  Reconnected(c, c') /\ CtxShape' /\ UNCHANGED <<net, cmds, th>>
<1>1. PICK a : a = IF nc.kind = "unix" THEN AttemptUnix(c, what) ELSE AttemptTcp(c, what)
  OBVIOUS
<1>2. Reconnected(c, a.c) /\ a.then \in {"next", "retry", "error", "done"}
  BY <1>1, AttemptReconnected DEF CtxShape
<1>3. /\ c' = IF a.then = "next" /\ nc.addrs = 1 THEN SetError(a.c, "other") ELSE a.c
      /\ nc' = CASE a.then = "next"  -> [nc EXCEPT !.addrs = @ - 1, !.pc = IF nc.addrs = 1 THEN "error" ELSE "try"]
                  [] a.then = "retry" -> [nc EXCEPT !.reuses = @ + 1]
                  [] OTHER            -> [nc EXCEPT !.pc = a.then]
      /\ nc.pc = "try" /\ UNCHANGED <<app, net, cmds, th, left>>
  BY <1>1 DEF Try
<1>4. Reconnected(c, c')
  <2>1. Reconnected(a.c, SetError(a.c, "other"))
    BY <1>2, ReconnectedOps DEF Reconnected
  <2> QED BY <1>2, <1>3, <2>1, ReconnectedTrans
<1>5. "pc" \in DOMAIN nc' /\ nc'.pc \in {"try", "error", "done"}
  <2>0. "pc" \in DOMAIN nc
    BY DEF CtxShape
  <2>1. CASE a.then = "next"
    BY <1>3, <2>0, <2>1
  <2>2. CASE a.then = "retry"
    BY <1>3, <2>0, <2>2
  <2>3. CASE a.then \in {"error", "done"}
    BY <1>3, <2>0, <2>3
  <2> QED BY <1>2, <2>1, <2>2, <2>3
<1>6. CtxShape'
  BY <1>3, <1>4, <1>5 DEF CtxShape, Reconnected
<1> QED BY <1>3, <1>4, <1>6

LEMMA ResolveReconnects ==
    ASSUME CtxShape, Resolve
    PROVE  Reconnected(c, c') /\ CtxShape' /\ UNCHANGED <<net, cmds, th>>
<1>1. c' = c \/ (\E k : c' = [c EXCEPT !.kind = k]) \/ c' = SetError([c EXCEPT !.kind = "tcp"], "other")
  BY DEF Resolve
<1>2. Reconnected(c, c')
  <2>1. PICK y : y = [c EXCEPT !.kind = "tcp"]
    OBVIOUS
  <2>2. DOMAIN c = CFields /\ Reconnected(c, y)
    BY <2>1, ReconnectedOps DEF CtxShape
  <2>3. DOMAIN y = CFields
    BY <2>2 DEF Reconnected
  <2>4. Reconnected(y, SetError(y, "other"))
    BY <2>3, ReconnectedOps
  <2> QED BY <1>1, <2>1, <2>2, <2>4, ReconnectedOps, ReconnectedTrans
<1>3. CtxShape'
  BY <1>2 DEF Resolve, CtxShape, Reconnected
<1> QED BY <1>2, <1>3 DEF Resolve

LEMMA ReconnectedMem ==
    ASSUME MemInv, Reconnected(c, c'), CtxShape', UNCHANGED <<net, cmds, th>>
    PROVE  MemInv'
<1>1. Streams'
  BY DEF MemInv, Streams, Reconnected
<1>2. c'.err \in Errs /\ c'.reader = c.reader
  BY DEF MemInv, Reconnected, Errs
<1>3. \A u \in Threads : /\ th'[u].reply = th[u].reply /\ th'[u].pc \in PCs
                         /\ th'[u].pc \in {"use", "exit", "abort"} \/ th[u].reply = None
  BY DEF MemInv, Replies
<1> QED BY <1>1, <1>2, <1>3, ReaderKept

\* A new reader in the place of an old one.
LEMMA ReaderRenewed ==
    ASSUME NEW r, AtRest(r), NEW s, s = [redisReaderCreate EXCEPT !.live = redisReaderFree(r)]
    PROVE  AtRest(s) /\ s.out = None /\ Loose(s) = Loose(r)
<1>1. PICK z : z = redisReaderCreate
  OBVIOUS
<1>2. AtRest(z) /\ Objects(z.reply) = 0 /\ z.out = None /\ DOMAIN z = RFields
  BY <1>1, CreateAtRest
<1>3. redisReaderFree(r) = Loose(r) /\ Loose(r) \in Int
  BY ObjectsCounted DEF redisReaderFree, Loose, AtRest, ReaderOK
<1>4. /\ DOMAIN s = RFields /\ s.buf = z.buf /\ s.pos = z.pos /\ s.stack = z.stack /\ s.err = z.err
      /\ s.ok = z.ok /\ s.reply = z.reply /\ s.live = Loose(r) /\ s.out = z.out
  BY <1>1, <1>2, <1>3 DEF RFields
<1>5. AtRest(s)
  BY <1>2, <1>3, <1>4 DEF AtRest, ReaderOK
<1> QED BY <1>2, <1>3, <1>4, <1>5 DEF Loose

\* A step that frees the parser's part of a reply and begins a new stream, or
\* ends the program.
LEMMA RenewedMem ==
    ASSUME MemInv, CtxShape', c'.err \in Errs, Streams',
           c'.reader = [redisReaderCreate EXCEPT !.live = redisReaderFree(c.reader)],
           \A u \in Threads : /\ th'[u].reply = th[u].reply /\ th'[u].pc \in PCs
                              /\ th'[u].pc \in {"use", "exit", "abort"} \/ th[u].reply = None
    PROVE  MemInv'
<1>1. AtRest(c'.reader) /\ c'.reader.out = None /\ Loose(c'.reader) = Loose(c.reader)
  BY ReaderRenewed DEF MemInv, Accounts
<1> QED BY <1>1, HandsKept

LEMMA FreeRenews ==
    ASSUME NEW x, DOMAIN x = CFields
    PROVE  /\ FreeContext(x).reader = [redisReaderCreate EXCEPT !.live = redisReaderFree(x.reader)]
           /\ FreeContext(x).obuf = x.obuf /\ FreeContext(x).err = x.err
BY DEF FreeContext, Close, CFields

LEMMA RenewedRenews ==
    ASSUME NEW x, DOMAIN x = CFields
    PROVE  /\ Renewed(x).reader = [redisReaderCreate EXCEPT !.live = redisReaderFree(x.reader)]
           /\ Renewed(x).obuf = <<>> /\ Renewed(x).err = "no"
BY DEF Renewed, Close, CFields

LEMMA ConnectMem == ASSUME MemInv, NEW f, redisConnect(f) PROVE MemInv'
<1>1. /\ DOMAIN c' = CFields /\ c'.reader = c.reader /\ c'.obuf = c.obuf /\ c'.err = c.err
  BY DEF redisConnect, MemInv, CtxShape, CFields
<1>2. net' = Fresh /\ nc'.pc = "resolve" /\ "pc" \in DOMAIN nc' /\ UNCHANGED <<app, cmds, th, left>>
  BY DEF redisConnect, StartConnect
<1>3. CtxShape'
  BY <1>1, <1>2 DEF MemInv, CtxShape
<1>4. Streams'
  BY <1>1, <1>2, EmptyIsASeq DEF MemInv, Streams, Fresh
<1>5. \A u \in Threads : /\ th'[u].reply = th[u].reply /\ th'[u].pc \in PCs
                         /\ th'[u].pc \in {"use", "exit", "abort"} \/ th[u].reply = None
  BY <1>2 DEF MemInv, Replies
<1>6. c'.err \in Errs
  BY <1>1 DEF MemInv
<1> QED BY <1>1, <1>3, <1>4, <1>5, <1>6, ReaderKept

\* redisFree, and every thread is over.
LEMMA FreesMem ==
    ASSUME MemInv, UNCHANGED <<app, net, cmds, left>>,
           c' = FreeContext(c) \/ \E b : c' = [FreeContext(c) EXCEPT !.bad = @ \cup {b}],
           th' = [u \in Threads |-> [th[u] EXCEPT !.pc = "exit"]],
           "pc" \in DOMAIN nc', nc'.pc \in {"no", "resolve", "try", "done", "error", "up", "down"}
    PROVE  MemInv'
<1>1. PICK z : z = FreeContext(c)
  OBVIOUS
<1>2. DOMAIN z = CFields /\ z.obuf = c.obuf /\ z.err = c.err
      /\ z.reader = [redisReaderCreate EXCEPT !.live = redisReaderFree(c.reader)]
  BY <1>1, FreeKeeps, FreeRenews DEF MemInv, CtxShape
<1>3. DOMAIN c' = CFields /\ c'.obuf = c.obuf /\ c'.err = c.err /\ c'.reader = z.reader
  BY <1>1, <1>2 DEF CFields
<1>4. \A u \in Threads : /\ DOMAIN th'[u] = TFields /\ th'[u].ptr = th[u].ptr
                         /\ th'[u].reply = th[u].reply /\ th'[u].pc = "exit"
  BY DEF MemInv, CtxShape, TFields
<1>5. CtxShape'
  BY <1>3, <1>4 DEF MemInv, CtxShape
<1>6. Streams'
  BY <1>3 DEF MemInv, Streams
<1>7. c'.err \in Errs
  BY <1>3 DEF MemInv
<1>8. \A u \in Threads : /\ th'[u].reply = th[u].reply /\ th'[u].pc \in PCs
                         /\ th'[u].pc \in {"use", "exit", "abort"} \/ th[u].reply = None
  BY <1>4 DEF PCs
<1> QED BY <1>2, <1>3, <1>5, <1>6, <1>7, <1>8, RenewedMem

LEMMA ConnectReturnsMem == ASSUME MemInv, ConnectReturns PROVE MemInv'
<1>1. "pc" \in DOMAIN nc' /\ nc'.pc \in {"up", "down"} /\ UNCHANGED <<app, net, cmds, left>>
  BY DEF ConnectReturns
<1>2. CASE app = "db" /\ c.err # "no"
  BY <1>1, <1>2, FreesMem DEF ConnectReturns
<1>3. CASE ~(app = "db" /\ c.err # "no")
  <2>1. c' = c /\ th' = th
    BY <1>3 DEF ConnectReturns
  <2>2. CtxShape' /\ Reconnected(c, c')
    BY <1>1, <2>1, ReconnectedOps DEF MemInv, CtxShape
  <2> QED BY <1>1, <2>1, <2>2, ReconnectedMem
<1> QED BY <1>2, <1>3

LEMMA UsesShape == ASSUME CtxShape, Uses PROVE CtxShape'
BY DEF CtxShape, Uses, ThKept, Alike

-----------------------------------------------------------------------------
(* The steps of a thread *)

\* A command is issued.
LEMMA IssueMem ==
    ASSUME MemInv, NEW shape \in AllShapes, NEW e, Issue(shape, e), Uses, net' = net,
           \A u \in Threads : /\ th'[u].reply = th[u].reply /\ th'[u].pc \in PCs
                              /\ th'[u].pc \in {"use", "exit", "abort"} \/ th[u].reply = None
    PROVE  MemInv'
<1>1. CtxShape'
  BY UsesShape DEF MemInv
<1>2. c'.reader = c.reader /\ c'.err \in Errs /\ c'.obuf \in {c.obuf, Append(c.obuf, Len(cmds) + 1)}
  <2>1. DOMAIN c = CFields /\ c.err \in Errs
    BY DEF MemInv, CtxShape
  <2>2. e \in {"no", "oom", "other"} /\ c' = Appended(c, Len(cmds) + 1, e)
    BY DEF Issue, AppendFails
  <2> QED BY <2>1, <2>2 DEF Appended, SetError, CFields, Errs
<1>3. cmds' \in Seq(AllShapes) /\ Len(cmds') = Len(cmds) + 1 /\ Len(cmds) \in Nat
  BY DEF Issue, MemInv, Streams
<1>4. 1 .. Len(cmds) \subseteq 1 .. Len(cmds') /\ Len(cmds) + 1 \in 1 .. Len(cmds')
  BY <1>3
<1>5. Streams'
  <2>1. c.obuf \in Seq(1 .. Len(cmds')) /\ net.up \in Seq(1 .. Len(cmds'))
    BY <1>4 DEF MemInv, Streams
  <2>2. c'.obuf \in Seq(1 .. Len(cmds'))
    <3>1. Append(c.obuf, Len(cmds) + 1) \in Seq(1 .. Len(cmds'))
      BY <1>4, <2>1
    <3> QED BY <1>2, <2>1, <3>1
  <2> QED BY <1>3, <2>1, <2>2 DEF MemInv, Streams
<1> QED BY <1>1, <1>2, <1>5, ReaderKept

\* A step that leaves the parser and the replies alone.
LEMMA PlainMem ==
    ASSUME MemInv, Uses, c'.reader = c.reader, c'.err \in Errs, cmds' = cmds,
           c'.obuf \in Seq(1 .. Len(cmds)), DOMAIN net' = {"up", "down", "open"}, net'.up \in Seq(1 .. Len(cmds)),
           ASeq(net'.down),
           \A u \in Threads : /\ th'[u].reply = th[u].reply /\ th'[u].pc \in PCs
                              /\ th'[u].pc \in {"use", "exit", "abort"} \/ th[u].reply = None
    PROVE  MemInv'
<1>1. CtxShape'
  BY UsesShape DEF MemInv
<1>2. Streams'
  BY DEF MemInv, Streams
<1> QED BY <1>1, <1>2, ReaderKept

\* Some of a sequence, and what is left of it.
LEMMA Cut ==
    ASSUME NEW S, NEW s \in Seq(S), NEW n \in 1 .. Len(s)
    PROVE  /\ SubSeq(s, 1, n) \in Seq(S) /\ SubSeq(s, n + 1, Len(s)) \in Seq(S)
           /\ Len(SubSeq(s, n + 1, Len(s))) = Len(s) - n
OBVIOUS

LEMMA WriteMem ==
    ASSUME MemInv, NEW n \in 1 .. Len(c.obuf), c' = BufferWrite(c, n), Uses, cmds' = cmds,
           net' = [net EXCEPT !.up = IF c.err = "no" THEN @ \o SubSeq(c.obuf, 1, n) ELSE @],
           \A u \in Threads : /\ th'[u].reply = th[u].reply /\ th'[u].pc \in PCs
                              /\ th'[u].pc \in {"use", "exit", "abort"} \/ th[u].reply = None
    PROVE  MemInv'
<1>1. n # 0 /\ c.obuf \in Seq(1 .. Len(cmds)) /\ net.up \in Seq(1 .. Len(cmds)) /\ DOMAIN net = {"up", "down", "open"}
      /\ ASeq(net.down) /\ DOMAIN c = CFields /\ c.err \in Errs
  BY DEF MemInv, Streams, CtxShape
<1>2. SubSeq(c.obuf, 1, n) \in Seq(1 .. Len(cmds)) /\ SubSeq(c.obuf, n + 1, Len(c.obuf)) \in Seq(1 .. Len(cmds))
  BY <1>1, Cut
<1>3. c'.reader = c.reader /\ c'.err = c.err /\ c'.obuf \in {c.obuf, SubSeq(c.obuf, n + 1, Len(c.obuf))}
  BY <1>1 DEF BufferWrite, CFields
<1>4. net.up \o SubSeq(c.obuf, 1, n) \in Seq(1 .. Len(cmds))
  BY <1>1, <1>2
<1>5. DOMAIN net' = {"up", "down", "open"} /\ net'.down = net.down
      /\ net'.up \in {net.up, net.up \o SubSeq(c.obuf, 1, n)}
  BY <1>1
<1> QED BY <1>1, <1>2, <1>3, <1>4, <1>5, PlainMem

LEMMA ReadMem ==
    ASSUME MemInv, NEW n \in 1 .. Len(net.down)
    PROVE  /\ ASeq(SubSeq(net.down, 1, n)) /\ ASeq(SubSeq(net.down, n + 1, Len(net.down)))
<1>1. PICK S : net.down \in Seq(S)
  BY DEF MemInv, Streams, ASeq
<1> QED BY <1>1, Cut DEF ASeq

\* What the threads hold when only the control of thread t changes.
Steps(t, pcs) ==
    /\ \A u \in Threads : th'[u].reply = th[u].reply /\ (u # t => th'[u].pc = th[u].pc)
    /\ th'[t].pc \in pcs

LEMMA StepsHold ==
    ASSUME MemInv, NEW t \in Threads, th[t].pc \notin {"use", "exit", "abort"}, Steps(t, PCs)
    PROVE  \A u \in Threads : /\ th'[u].reply = th[u].reply /\ th'[u].pc \in PCs
                              /\ th'[u].pc \in {"use", "exit", "abort"} \/ th[u].reply = None
BY DEF MemInv, Replies, Steps

LEMMA PlainMemory == ASSUME MemInv, NEW t \in Threads, Plain(t) PROVE MemInv'
<1> SUFFICES ASSUME Uses PROVE MemInv'
  BY PlainUses DEF MemInv
<1>0. /\ DOMAIN c = CFields /\ DOMAIN th = Threads /\ DOMAIN th[t] = TFields /\ \A u \in Threads : DOMAIN th[u] = TFields
      /\ th[t].pc \in PCs /\ c.obuf \in Seq(1 .. Len(cmds)) /\ net.up \in Seq(1 .. Len(cmds)) /\ ASeq(net.down)
      /\ DOMAIN net = {"up", "down", "open"} /\ c.err \in Errs
  BY DEF MemInv, CtxShape, Streams, Replies
<1>1. CASE Read(t)
  <2>1. PICK shape \in ReadShapes, e \in {"no", "oom", "other"} :
           /\ Issue(shape, e)
           /\ Calls(t, IF e = "no" THEN "get" ELSE "failed", <<Len(cmds) + 1>>)
    BY <1>1 DEF Read
  <2>2. th[t].pc = "idle" /\ Steps(t, PCs)
    BY <1>0, <1>1, <2>1 DEF Read, Ready, Calls, Steps, TFields, PCs
  <2>3. net' = net /\ shape \in AllShapes
    BY <1>1, CtxAssumption DEF Read, AllShapes
  <2> QED BY <2>1, <2>2, <2>3, StepsHold, IssueMem
<1>2. CASE Update(t)
  <2>1. (\E e : Issue("hmset", e)) /\ "hmset" \in AllShapes /\ net' = net
    BY <1>2 DEF Update, AllShapes
  <2>2. th[t].pc = "idle" /\ Steps(t, PCs)
    BY <1>0, <1>2 DEF Update, Ready, Calls, Steps, TFields, PCs
  <2> QED BY <2>1, <2>2, StepsHold, IssueMem
<1>3. CASE Scan(t)
  <2>1. th[t].pc = "idle" /\ Steps(t, PCs)
    BY <1>0, <1>3 DEF Scan, Ready, Steps, TFields, PCs
  <2> QED BY <1>0, <1>3, <2>1, StepsHold, PlainMem DEF Scan
<1>4. CASE redisAppendCommand(t)
  <2>1. PICK shape \in Shapes, e \in {"no", "oom", "other"} :
           /\ Issue(shape, e)
           /\ th' = [th EXCEPT ![t].ids = IF e = "no" THEN Append(@, Len(cmds) + 1) ELSE @]
    BY <1>4 DEF redisAppendCommand
  <2>2. th[t].pc = "idle" /\ Steps(t, PCs)
    BY <1>0, <1>4, <2>1 DEF redisAppendCommand, InApi, Ready, Steps, TFields, PCs
  <2>3. net' = net /\ shape \in AllShapes
    BY <1>4, CtxAssumption DEF redisAppendCommand, AllShapes
  <2> QED BY <2>1, <2>2, <2>3, StepsHold, IssueMem
<1>5. CASE redisGetReply(t)
  <2>1. th[t].pc = "idle" /\ Steps(t, PCs)
    BY <1>0, <1>5 DEF redisGetReply, InApi, Ready, Calls, Steps, TFields, PCs
  <2> QED BY <1>0, <1>5, <2>1, StepsHold, PlainMem DEF redisGetReply
<1>6. CASE redisBufferWrite(t)
  <2>1. th[t].pc = "idle" /\ Steps(t, PCs)
    BY <1>0, <1>6 DEF redisBufferWrite, InApi, Ready, Steps
  <2>2. cmds' = cmds
    BY <1>6 DEF redisBufferWrite
  <2>3. ASSUME NEW n \in 1 .. Len(c.obuf), c' = BufferWrite(c, n),
               net' = [net EXCEPT !.up = IF c.err = "no" THEN @ \o SubSeq(c.obuf, 1, n) ELSE @]
        PROVE  MemInv'
    BY <2>1, <2>2, <2>3, StepsHold, WriteMem
  <2>4. CASE c' = BufferWrite(c, 0) /\ net' = net
    <3>1. c'.reader = c.reader /\ c'.err \in Errs /\ c'.obuf = c.obuf
      BY <1>0, <2>4 DEF BufferWrite, SetError, CFields, Errs
    <3> QED BY <1>0, <2>1, <2>2, <2>4, <3>1, StepsHold, PlainMem
  <2> QED BY <1>6, <2>3, <2>4 DEF redisBufferWrite
<1>7. CASE redisBufferRead(t)
  <2>1. th[t].pc = "idle" /\ Steps(t, PCs) /\ cmds' = cmds
    BY <1>0, <1>7 DEF redisBufferRead, InApi, Ready, Steps
  <2>2. CASE \E e \in ReadFails : c' = SetError(c, e) /\ net' = net
    <3>1. c'.reader = c.reader /\ c'.err \in Errs /\ c'.obuf = c.obuf /\ net' = net
      BY <1>0, <2>2 DEF SetError, CFields, ReadFails, Errs
    <3> QED BY <1>0, <2>1, <3>1, StepsHold, PlainMem
  <2>3. ASSUME NEW n \in 1 .. Len(net.down), NEW m, c' = BufferRead(c, SubSeq(net.down, 1, n), m),
               net' = [net EXCEPT !.down = SubSeq(@, n + 1, Len(@))]
        PROVE  MemInv'
    <3>1. Parsed(c, c') /\ c'.reader.out = None
      BY <1>0, <2>3, ReadMem, BufferReadParsed DEF MemInv, Accounts
    <3>2. DOMAIN net' = {"up", "down", "open"} /\ net'.up = net.up /\ net'.down = SubSeq(net.down, n + 1, Len(net.down))
      BY <1>0, <2>3
    <3>3. Streams'
      BY <1>0, <2>1, <2>3, <3>1, <3>2, ReadMem DEF MemInv, Streams, Parsed
    <3>4. CtxShape'
      BY UsesShape DEF MemInv
    <3>5. AtRest(c'.reader) /\ c'.err \in Errs
      BY <1>0, <3>1 DEF Parsed, Errs
    <3>6. Loose(c'.reader) = Loose(c.reader)
      <4>1. Loose(c.reader) \in Int
        BY ObjectsCounted DEF MemInv, Accounts, AtRest, ReaderOK, Loose
      <4> QED BY <3>1, <4>1, NoneIsEmpty DEF Parsed
    <3> QED BY <2>1, <3>1, <3>3, <3>4, <3>5, <3>6, StepsHold, HandsKept
  <2> QED BY <1>7, <2>2, <2>3 DEF redisBufferRead
<1>8. CASE redisSetTimeout(t) \/ redisEnableKeepAlive(t)
  <2>1. th[t].pc = "idle" /\ Steps(t, PCs) /\ cmds' = cmds /\ net' = net
    BY <1>0, <1>8 DEF redisSetTimeout, redisEnableKeepAlive, InApi, Ready, Steps
  <2>2. c'.reader = c.reader /\ c'.err \in Errs /\ c'.obuf = c.obuf
    BY <1>0, <1>8 DEF redisSetTimeout, redisEnableKeepAlive, SetError, CFields, Errs
  <2> QED BY <1>0, <2>1, <2>2, StepsHold, PlainMem
<1> QED BY <1>1, <1>2, <1>3, <1>4, <1>5, <1>6, <1>7, <1>8 DEF Plain

LEMMA ReconnectMem == ASSUME MemInv, NEW t \in Threads, redisReconnect(t) PROVE MemInv'
<1>1. /\ c' = Renewed(c) /\ nc'.pc = "resolve" /\ "pc" \in DOMAIN nc' /\ net' = Fresh
      /\ left > 0 /\ left' = left - 1 /\ th' = [th EXCEPT ![t] = Idle] /\ app' = app /\ cmds' = cmds
      /\ th[t].pc = "idle"
  BY DEF redisReconnect, StartConnect, InApi, Ready
<1>2. /\ DOMAIN c' = CFields /\ c'.err = "no" /\ c'.obuf = <<>>
      /\ c'.reader = [redisReaderCreate EXCEPT !.live = redisReaderFree(c.reader)]
  BY <1>1, RenewedKeeps, RenewedRenews DEF MemInv, CtxShape
<1>3. th[t].reply = None
  BY <1>1 DEF MemInv, Replies
<1>4. CtxShape'
  BY <1>1, <1>2, CtxAssumption DEF MemInv, CtxShape, Idle, TFields
<1>5. Streams'
  BY <1>1, <1>2, EmptyIsASeq DEF MemInv, Streams, Fresh
<1>6. \A u \in Threads : /\ th'[u].reply = th[u].reply /\ th'[u].pc \in PCs
                         /\ th'[u].pc \in {"use", "exit", "abort"} \/ th[u].reply = None
  BY <1>1, <1>3 DEF MemInv, CtxShape, Replies, Idle, PCs
<1>7. c'.err \in Errs
  BY <1>2 DEF Errs
<1> QED BY <1>2, <1>4, <1>5, <1>6, <1>7, RenewedMem

LEMMA KeepFdMem == ASSUME MemInv, NEW t \in Threads, redisFreeKeepFd(t) PROVE MemInv'
<1>1. PICK y : y = [c EXCEPT !.fd = -1]
  OBVIOUS
<1>2. DOMAIN y = CFields /\ y.reader = c.reader
  BY <1>1 DEF MemInv, CtxShape, CFields
<1>3. PICK z : z = FreeContext(y)
  OBVIOUS
<1>4. DOMAIN z = CFields /\ z.reader = [redisReaderCreate EXCEPT !.live = redisReaderFree(c.reader)]
  <2>1. DOMAIN z = CFields
    BY <1>2, <1>3, FreeKeeps
  <2>2. z.reader = [redisReaderCreate EXCEPT !.live = redisReaderFree(y.reader)]
    BY <1>2, <1>3, FreeRenews
  <2> QED BY <1>2, <2>1, <2>2
<1>5. c' = [z EXCEPT !.made = TRUE, !.fd = c.fd, !.flags = {"BLOCK", "CONNECTED"}, !.kind = "tcp", !.err = "no",
                     !.obuf = <<>>, !.timeout = FALSE, !.source = FALSE]
  BY <1>1, <1>3 DEF redisFreeKeepFd
<1>6. DOMAIN c' = CFields /\ c'.reader = z.reader /\ c'.err = "no" /\ c'.obuf = <<>>
  BY <1>4, <1>5 DEF CFields
<1>7. left > 0 /\ left' = left - 1 /\ UNCHANGED <<app, nc, net, cmds, th>>
  BY DEF redisFreeKeepFd
<1>8. CtxShape'
  BY <1>6, <1>7, CtxAssumption DEF MemInv, CtxShape
<1>9. Streams'
  BY <1>6, <1>7 DEF MemInv, Streams
<1>10. \A u \in Threads : /\ th'[u].reply = th[u].reply /\ th'[u].pc \in PCs
                          /\ th'[u].pc \in {"use", "exit", "abort"} \/ th[u].reply = None
  BY <1>7 DEF MemInv, Replies
<1>11. c'.err \in Errs
  BY <1>6 DEF Errs
<1> QED BY <1>4, <1>6, <1>8, <1>9, <1>10, <1>11, RenewedMem

LEMMA ProgramMem == ASSUME MemInv, NEW t \in Threads, Program(t) PROVE MemInv'
<1>1. CASE redisFree(t)
  <2>1. "pc" \in DOMAIN nc' /\ nc'.pc \in {"no", "resolve", "try", "done", "error", "up", "down"}
    BY <1>1 DEF redisFree, MemInv, CtxShape
  <2> QED BY <1>1, <2>1, FreesMem DEF redisFree, Exit
<1> QED BY <1>1, PlainMemory, ReconnectMem, KeepFdMem DEF Program, Plain

\* A reply of thread t is freed.
LEMMA ReplyFreed ==
    ASSUME MemInv, NEW t \in Threads, Uses, c' = FreeReply(c, th[t].reply), UNCHANGED <<net, cmds>>,
           \A u \in Threads \ {t} : th'[u] = th[u], th'[t].reply = None, th'[t].pc \in PCs
    PROVE  MemInv'
<1>1. PICK r : r = c.reader
  OBVIOUS
<1>2. AtRest(r) /\ r.out = None /\ DOMAIN r = RFields /\ DOMAIN c = CFields /\ r.live \in Int
  BY <1>1 DEF MemInv, Accounts, CtxShape, AtRest, ReaderOK
<1>3. PICK s : s = [r EXCEPT !.live = @ - Objects(th[t].reply)]
  OBVIOUS
<1>4. c'.reader = s /\ c'.err = c.err /\ c'.obuf = c.obuf
  <2>1. c' = [c EXCEPT !.reader = s]
    BY <1>1, <1>2, <1>3 DEF FreeReply, CFields
  <2> QED BY <1>2, <2>1 DEF CFields
<1>5. Objects(th[t].reply) \in Nat /\ Objects(r.reply) \in Nat
  BY <1>2, ObjectsCounted DEF MemInv, Replies, AtRest, ReaderOK
<1>6. /\ DOMAIN s = RFields /\ s.buf = r.buf /\ s.pos = r.pos /\ s.stack = r.stack /\ s.err = r.err
      /\ s.ok = r.ok /\ s.reply = r.reply /\ s.live = r.live - Objects(th[t].reply) /\ s.out = r.out
  BY <1>2, <1>3 DEF RFields
<1>7. AtRest(s)
  BY <1>2, <1>5, <1>6 DEF AtRest, ReaderOK
<1>8. Loose(s) = Loose(r) - Objects(th[t].reply) + Objects(None)
  BY <1>2, <1>5, <1>6, NoneIsEmpty DEF Loose
<1>9. CtxShape'
  BY UsesShape DEF MemInv
<1>10. Streams' /\ c'.err \in Errs
  BY <1>4 DEF MemInv, Streams
<1>11. IsFiniteSet(DOMAIN th'[t].reply)
  BY NoneIsEmpty
<1> QED BY <1>1, <1>2, <1>4, <1>6, <1>7, <1>8, <1>9, <1>10, <1>11, HandMoves

LEMMA GetPendingMem == ASSUME MemInv, NEW t \in Threads, GetPending(t) PROVE MemInv'
<1>1. PICK m : Replied(t, FromReader(c, m), "write")
  BY DEF GetPending
<1>2. Parsed(c, FromReader(c, m))
  BY FromReaderParsed DEF MemInv, Accounts, CtxShape
<1>3. CtxShape'
  BY GetPendingUses, UsesShape DEF MemInv
<1>4. PICK x : x = FromReader(c, m)
  OBVIOUS
<1>5. c'.obuf = c.obuf
  BY <1>1, <1>2, <1>4 DEF Replied, Parsed, CFields
<1>6. Streams'
  BY <1>5 DEF GetPending, MemInv, Streams
<1>7. th[t].reply = None
  BY DEF GetPending, MemInv, Replies
<1> QED BY <1>1, <1>2, <1>3, <1>6, <1>7, RepliedMem

LEMMA GetWriteMem == ASSUME MemInv, NEW t \in Threads, GetWrite(t) PROVE MemInv'
<1>0. /\ DOMAIN c = CFields /\ DOMAIN th = Threads /\ \A u \in Threads : DOMAIN th[u] = TFields
      /\ c.obuf \in Seq(1 .. Len(cmds)) /\ net.up \in Seq(1 .. Len(cmds)) /\ ASeq(net.down)
      /\ DOMAIN net = {"up", "down", "open"} /\ c.err \in Errs
  BY DEF MemInv, CtxShape, Streams
<1>1. Uses /\ th[t].pc = "write" /\ cmds' = cmds
  BY GetWriteUses DEF MemInv, GetWrite
<1>2. \E y \in PCs : th' = [th EXCEPT ![t].pc = y]
  BY <1>0, <1>1 DEF GetWrite, PCs, TFields
<1>3. Steps(t, PCs)
  BY <1>0, <1>2 DEF Steps, TFields
<1>4. CASE c' = c /\ net' = net
  BY <1>0, <1>1, <1>3, <1>4, StepsHold, PlainMem
<1>5. CASE c' = BufferWrite(c, 0) /\ net' = net
  <2>1. c'.reader = c.reader /\ c'.err \in Errs /\ c'.obuf = c.obuf
    BY <1>0, <1>5 DEF BufferWrite, SetError, CFields, Errs
  <2> QED BY <1>0, <1>1, <1>3, <1>5, <2>1, StepsHold, PlainMem
<1>6. ASSUME NEW n \in 1 .. Len(c.obuf), c.err = "no", c' = BufferWrite(c, n),
             net' = [net EXCEPT !.up = @ \o SubSeq(c.obuf, 1, n)]
      PROVE  MemInv'
  BY <1>1, <1>3, <1>6, StepsHold, WriteMem
<1> QED BY <1>4, <1>5, <1>6 DEF GetWrite

LEMMA GetReadMem == ASSUME MemInv, NEW t \in Threads, GetRead(t) PROVE MemInv'
<1>0. /\ DOMAIN c = CFields /\ DOMAIN th = Threads /\ \A u \in Threads : DOMAIN th[u] = TFields
      /\ c.obuf \in Seq(1 .. Len(cmds)) /\ net.up \in Seq(1 .. Len(cmds)) /\ ASeq(net.down)
      /\ DOMAIN net = {"up", "down", "open"} /\ c.err \in Errs /\ AtRest(c.reader) /\ c.reader.out = None
  BY DEF MemInv, CtxShape, Streams, Accounts
<1>1. Uses /\ th[t].pc = "read" /\ cmds' = cmds /\ CtxShape' /\ th[t].reply = None
  BY GetReadUses, UsesShape DEF MemInv, GetRead, Replies
<1>2. CASE /\ c' = c \/ \E e \in ReadFails : c' = SetError(c, e)
           /\ th' = [th EXCEPT ![t].pc = "failed"] /\ net' = net
  <2>1. Steps(t, PCs)
    BY <1>0, <1>2 DEF Steps, TFields, PCs
  <2>2. c'.reader = c.reader /\ c'.err \in Errs /\ c'.obuf = c.obuf
    BY <1>0, <1>2 DEF SetError, CFields, ReadFails, Errs
  <2> QED BY <1>0, <1>1, <1>2, <2>1, <2>2, StepsHold, PlainMem
<1>3. ASSUME NEW n \in 1 .. Len(net.down), NEW m, NEW fed, fed = BufferRead(c, SubSeq(net.down, 1, n), m),
             net' = [net EXCEPT !.down = SubSeq(@, n + 1, Len(@))],
             Replied(t, IF fed.err # "no" THEN fed ELSE FromReader(fed, m), "read")
      PROVE  MemInv'
  <2>1. Parsed(c, fed) /\ fed.reader.out = None
    BY <1>0, <1>3, ReadMem, BufferReadParsed
  <2>2. PICK x : x = IF fed.err # "no" THEN fed ELSE FromReader(fed, m)
    OBVIOUS
  <2>3. Parsed(c, x)
    <3>1. CASE fed.err # "no"
      BY <2>1, <2>2, <3>1
    <3>2. CASE fed.err = "no"
      <4>1. Parsed(fed, x)
        BY <2>1, <2>2, <3>2, FromReaderParsed DEF Parsed
      <4>2. fed.err = c.err /\ Loose(fed.reader) = Loose(c.reader)
        <5>1. Loose(c.reader) \in Int
          BY <1>0, ObjectsCounted DEF AtRest, ReaderOK, Loose
        <5> QED BY <2>1, <3>2, <5>1, NoneIsEmpty DEF Parsed
      <4> QED BY <2>1, <4>1, <4>2 DEF Parsed
    <3> QED BY <3>1, <3>2
  <2>4. Replied(t, x, "read")
    BY <1>3, <2>2
  <2>5. DOMAIN net' = {"up", "down", "open"} /\ net'.up = net.up /\ net'.down = SubSeq(net.down, n + 1, Len(net.down))
    BY <1>0, <1>3
  <2>6. c'.obuf = c.obuf
    BY <2>3, <2>4 DEF Replied, Parsed, CFields
  <2>7. ASeq(net'.down)
    BY <2>5, ReadMem
  <2>8. Streams'
    BY <1>0, <1>1, <2>5, <2>6, <2>7 DEF MemInv, Streams
  <2> QED BY <1>1, <2>3, <2>4, <2>8, RepliedMem
<1> QED BY <1>2, <1>3 DEF GetRead

LEMMA GoOnMem == ASSUME MemInv, NEW t \in Threads, GoOn(t) PROVE MemInv'
<1>0. /\ DOMAIN c = CFields /\ DOMAIN th = Threads /\ \A u \in Threads : DOMAIN th[u] = TFields
      /\ c.obuf \in Seq(1 .. Len(cmds)) /\ net.up \in Seq(1 .. Len(cmds)) /\ ASeq(net.down)
      /\ DOMAIN net = {"up", "down", "open"} /\ c.err \in Errs
      /\ "pc" \in DOMAIN nc /\ nc.pc \in {"no", "resolve", "try", "done", "error", "up", "down"}
  BY DEF MemInv, CtxShape, Streams
<1>1. CASE AppendWait(t)
  <2>1. (\E e : Issue("wait", e)) /\ "wait" \in AllShapes /\ net' = net /\ UNCHANGED <<app, nc, left>>
        /\ \E pc, ids : Calls(t, pc, ids)
    BY <1>1 DEF AppendWait, AllShapes
  <2>2. th[t].pc = "slaves" /\ Steps(t, PCs)
    BY <1>0, <1>1 DEF AppendWait, InDB, Calls, Steps, TFields, PCs
  <2>3. Uses
    BY <2>1, IssueUses DEF MemInv
  <2> QED BY <2>1, <2>2, <2>3, StepsHold, IssueMem
<1>2. CASE UseReply(t)
  <2>0. th[t].pc = "use" /\ UNCHANGED <<app, nc, net, cmds, left>>
    BY <1>2 DEF UseReply, InDB
  <2>1. CASE Exit("abort") /\ c' = c
    <3>1. \A u \in Threads : /\ DOMAIN th'[u] = TFields /\ th'[u].reply = th[u].reply /\ th'[u].pc = "abort"
                             /\ th'[u].ptr = th[u].ptr
      BY <1>0, <2>1 DEF Exit, TFields
    <3>2. DOMAIN th' = Threads
      BY <2>1 DEF Exit
    <3>3. Uses
      BY <1>0, <2>0, <2>1, <3>1, <3>2 DEF Uses, Alike, ThKept, MemInv, CtxShape
    <3> QED BY <1>0, <2>0, <2>1, <3>1, <3>3, PlainMem DEF PCs
  <2>2. CASE /\ c' = FreeReply(c, th[t].reply)
             /\ th' = [th EXCEPT ![t] = [@ EXCEPT !.reply = None, !.ptr = "dangling", !.ids = Tail(@),
                                                 !.pc = IF Len(th[t].ids) > 1 THEN "get" ELSE "idle"]]
    <3>1. th'[t].reply = None /\ th'[t].pc \in PCs /\ \A u \in Threads \ {t} : th'[u] = th[u]
      BY <1>0, <2>2 DEF TFields, PCs
    <3>2. Alike(c, c') /\ ThKept
      BY <1>0, <2>2, AlikeOps DEF ThKept, TFields, MemInv, CtxShape
    <3>3. Uses
      BY <2>0, <3>2 DEF Uses
    <3> QED BY <2>0, <2>2, <3>1, <3>3, ReplyFreed
  <2> QED BY <1>2, <2>1, <2>2 DEF UseReply
<1>3. CASE NoReply(t)
  <2>0. th[t].pc = "failed" /\ UNCHANGED <<app, nc, net, cmds, left>>
    BY <1>3 DEF NoReply, InDB
  <2>1. CASE th' = [th EXCEPT ![t].pc = "idle"] /\ c' = c
    <3>1. Steps(t, PCs)
      BY <1>0, <2>1 DEF Steps, TFields, PCs
    <3>2. Uses
      BY <1>0, <2>0, <2>1 DEF Uses, Alike, ThKept, TFields, MemInv, CtxShape
    <3> QED BY <1>0, <2>0, <2>1, <3>1, <3>2, StepsHold, PlainMem
  <2>2. CASE /\ c' = [FreeContext(c) EXCEPT !.bad = @ \cup {th[t].ptr}]
             /\ Exit("exit")
    <3>1. \E b : c' = [FreeContext(c) EXCEPT !.bad = @ \cup {b}]
      BY <2>2
    <3> QED BY <1>0, <2>0, <2>2, <3>1, FreesMem DEF Exit
  <2> QED BY <1>3, <2>1, <2>2 DEF NoReply
<1>4. CASE ApiUses(t)
  <2>1. c' = FreeReply(c, th[t].reply) /\ UNCHANGED <<app, nc, net, cmds, left>>
        /\ th' = [th EXCEPT ![t] = [@ EXCEPT !.pc = "idle", !.reply = None,
                                            !.ids = IF th[t].pc = "use" THEN Tail(@) ELSE @]]
    BY <1>4 DEF ApiUses
  <2>2. th'[t].reply = None /\ th'[t].pc \in PCs /\ \A u \in Threads \ {t} : th'[u] = th[u]
    BY <1>0, <2>1 DEF TFields, PCs
  <2>3. Alike(c, c') /\ ThKept
    BY <1>0, <2>1, AlikeOps DEF ThKept, TFields, MemInv, CtxShape
  <2>4. Uses
    BY <2>1, <2>3 DEF Uses
  <2> QED BY <2>1, <2>2, <2>4, ReplyFreed
<1> QED BY <1>1, <1>2, <1>3, <1>4, GetPendingMem, GetWriteMem, GetReadMem DEF GoOn

-----------------------------------------------------------------------------
(* The server *)

LEMMA BytesASeq == ASSUME NEW n, NEW shape \in AllShapes PROVE ASeq(Bytes(n, shape))
<1>0. PICK d : d = ToString(n)
  OBVIOUS
<1>1. ASeq(EOL)
  BY ShortASeq DEF EOL
<1>2. \A s, t : ASeq(s) /\ ASeq(t) => ASeq(s \o t)
  BY ASeqConcat
<1>3. \A x : ASeq(Bulk(x))
  BY <1>1, <1>2, ShortASeq DEF Bulk
<1>4. ASeq(<<"*", "2">> \o EOL \o Bulk(d) \o <<"$", "-", "1">> \o EOL)
  BY <1>1, <1>2, <1>3, ShortASeq
<1>5. ASeq(<<"*", "2">> \o EOL \o Bulk("f") \o Bulk(d))
  BY <1>1, <1>2, <1>3, ShortASeq
<1>6. ASeq(<<"+", d>> \o EOL) /\ ASeq(<<":", d>> \o EOL) /\ ASeq(<<"-", d>> \o EOL)
  BY <1>1, <1>2, ShortASeq
<1>7. ASeq(<<"*", "2">> \o EOL \o <<"*", "0">> \o EOL \o <<"*", "1">> \o EOL \o <<":", d>> \o EOL)
  BY <1>1, <1>2, ShortASeq
<1>8. CASE shape = "hmget"
  BY <1>0, <1>4, <1>8 DEF Bytes
<1>9. CASE shape = "hgetall"
  BY <1>0, <1>5, <1>9 DEF Bytes
<1>10. CASE shape = "hmset"
  BY <1>0, <1>6, <1>10 DEF Bytes
<1>11. CASE shape = "wait"
  BY <1>0, <1>6, <1>11 DEF Bytes
<1>12. CASE shape = "nested"
  BY <1>0, <1>7, <1>12 DEF Bytes
<1>13. CASE shape = "error"
  BY <1>0, <1>6, <1>13 DEF Bytes
<1> QED BY <1>8, <1>9, <1>10, <1>11, <1>12, <1>13 DEF AllShapes

LEMMA LastASeq == ASSUME NEW f \in DOMAIN LastBytes PROVE ASeq(LastBytes[f])
<1>0. PICK deep : deep = <<"*", "1">> \o EOL \o <<"*", "1">> \o EOL \o <<"*", "0">> \o EOL
  OBVIOUS
<1>7. PICK d : d = ToString(2 * IntRange)
  OBVIOUS
<1>8. PICK huge : huge = <<"*", d>> \o EOL \o <<"*", "0">> \o EOL
  OBVIOUS
<1>1. ASeq(EOL)
  BY ShortASeq DEF EOL
<1>2. \A s, t : ASeq(s) /\ ASeq(t) => ASeq(s \o t)
  BY ASeqConcat
<1>3. ASeq(deep) /\ ASeq(huge)
  BY <1>0, <1>1, <1>2, <1>8, ShortASeq
<1>4. LastBytes = [eof |-> <<>>, garbage |-> <<"?">>, deep |-> deep, huge |-> huge]
  BY <1>0, <1>7, <1>8 DEF LastBytes
<1>5. f \in {"eof", "garbage", "deep", "huge"} /\ LastBytes["eof"] = <<>> /\ LastBytes["garbage"] = <<"?">>
      /\ LastBytes["deep"] = deep /\ LastBytes["huge"] = huge
  BY <1>4
<1>6. ASeq(<<>>) /\ ASeq(<<"?">>)
  BY EmptyIsASeq, ShortASeq
<1> QED BY <1>3, <1>5, <1>6, Zenon

\* The server only adds to what comes down, and only takes what went up.
LEMMA ServerStreams ==
    ASSUME MemInv, ServerAnswers \/ ServerCloses
    PROVE  /\ DOMAIN net' = {"up", "down", "open"} /\ ASeq(net'.down) /\ Len(net'.down) >= Len(net.down)
           /\ net'.up \in Seq(1 .. Len(cmds)) /\ Len(net'.up) <= Len(net.up) /\ UNCHANGED <<app, c, nc, cmds, th, left>>
<1>0. /\ cmds \in Seq(AllShapes) /\ net.up \in Seq(1 .. Len(cmds)) /\ ASeq(net.down)
      /\ DOMAIN net = {"up", "down", "open"} /\ Len(net.down) \in Nat
  BY ASeqLen DEF MemInv, Streams
<1>1. CASE ServerAnswers
  <2>1. PICK shape \in {cmds[Head(net.up)]} \cup {"error"} :
           net' = [net EXCEPT !.up = Tail(@), !.down = @ \o Bytes(Head(net.up), shape)]
    BY <1>1 DEF ServerAnswers
  <2>2. net.up # <<>> /\ UNCHANGED <<app, c, nc, cmds, th, left>>
    BY <1>1 DEF ServerAnswers
  <2>3. Head(net.up) \in 1 .. Len(cmds)
    BY <1>0, <2>2
  <2>4. cmds[Head(net.up)] \in AllShapes
    BY <1>0, <2>3
  <2>5. shape \in AllShapes
    BY <2>1, <2>4 DEF AllShapes
  <2>6. Tail(net.up) \in Seq(1 .. Len(cmds)) /\ Len(Tail(net.up)) <= Len(net.up)
    BY <1>0, <2>2
  <2>7. PICK b : b = Bytes(Head(net.up), shape)
    OBVIOUS
  <2>8. ASeq(b) /\ Len(b) \in Nat
    BY <2>5, <2>7, BytesASeq, ASeqLen
  <2>9. ASeq(net.down \o b) /\ Len(net.down \o b) >= Len(net.down)
    BY <1>0, <2>8, ASeqConcat
  <2>10. DOMAIN net' = {"up", "down", "open"} /\ net'.up = Tail(net.up) /\ net'.down = net.down \o b
    BY <1>0, <2>1, <2>7
  <2> QED BY <2>2, <2>6, <2>9, <2>10
<1>2. CASE ServerCloses
  <2>1. PICK f \in DOMAIN LastBytes : net' = [net EXCEPT !.open = FALSE, !.down = @ \o LastBytes[f]]
    BY <1>2 DEF ServerCloses
  <2>2. PICK b : b = LastBytes[f]
    OBVIOUS
  <2>3. ASeq(b) /\ Len(b) \in Nat
    BY <2>2, LastASeq, ASeqLen
  <2>4. ASeq(net.down \o b) /\ Len(net.down \o b) >= Len(net.down)
    BY <1>0, <2>3, ASeqConcat
  <2>5. DOMAIN net' = {"up", "down", "open"} /\ net'.up = net.up /\ net'.down = net.down \o b
    BY <1>0, <2>1, <2>2
  <2>6. Len(net.up) <= Len(net.up)
    BY <1>0
  <2> QED BY <1>0, <1>2, <2>4, <2>5, <2>6 DEF ServerCloses
<1> QED BY <1>1, <1>2

LEMMA ServerMem == ASSUME MemInv, ServerAnswers \/ ServerCloses PROVE MemInv'
<1>1. Streams' /\ UNCHANGED <<app, c, nc, th, left>>
  BY ServerStreams DEF MemInv, Streams
<1>2. CtxShape'
  BY <1>1 DEF MemInv, CtxShape
<1>3. Replies' /\ Accounts' /\ c'.err \in Errs
  BY <1>1 DEF MemInv, Replies, Accounts, Held
<1> QED BY <1>1, <1>2, <1>3 DEF MemInv

LEMMA MemStep == MemInv /\ [CtxNext]_ctxVars => MemInv'
<1> SUFFICES ASSUME MemInv, [CtxNext]_ctxVars PROVE MemInv'
  OBVIOUS
<1>1. CASE \E f : redisConnect(f)
  BY <1>1, ConnectMem
<1>2. CASE Connecting
  <2>1. CtxShape
    BY DEF MemInv
  <2> QED BY <1>2, <2>1, ResolveReconnects, TryReconnects, ReconnectedMem, ConnectReturnsMem DEF Connecting
<1>3. CASE UNCHANGED ctxVars
  BY <1>3 DEF ctxVars, MemInv, CtxShape, Streams, Replies, Accounts, Held
<1> QED BY <1>1, <1>2, <1>3, ProgramMem, GoOnMem, ServerMem DEF CtxNext

\* The parser stays inside its buffer and its nine tasks, in whatever pieces the
\* stream is read; through errors, aborted replies, exhausted memory,
\* reconnections and frees every reply object is part of the reply being built
\* or is held by a thread: none is lost or freed twice.  And it hangs an element
\* outside the vector of its array only where an element count was not positive
\* as an int: then the process is over (read.c:46-70, 190-365, 505-510,
\* hiredis.c:74-189).
THEOREM ReaderIsExact == CtxSpec => []ReaderExact
<1>1. MemInv => ReaderExact
  <2> SUFFICES ASSUME MemInv PROVE ReaderExact
    OBVIOUS
  <2>1. CtxTypeOK
    BY DEF MemInv, CtxShape, Replies, CtxTypeOK, Errs, PCs
  <2>2. c.reader.pos \in 0 .. Len(c.reader.buf) /\ c.reader.live \in Int /\ Objects(c.reader.reply) \in Nat
    BY ObjectsCounted DEF MemInv, Accounts, AtRest, ReaderOK
  <2>3. Len(c.reader.stack) \in 0 .. MaxDepth + 1
    <3>1. ASeq(c.reader.stack) /\ Len(c.reader.stack) <= MaxDepth + 1
      BY DEF MemInv, Accounts, AtRest, ReaderOK, Tasks
    <3> QED BY <3>1, ASeqLen, ReaderAssumption
  <2>4. c.reader.live - Objects(c.reader.reply) = Cardinality(Held)
    BY DEF MemInv, Accounts, Loose
  <2>5. c.reader.live = Objects(c.reader.reply) + Cardinality(Held)
    BY <2>2, <2>4
  <2>6. Bounded(c.reader.stack) /\ (c.reader.err = "segv" => NoVector(c.reader.stack))
    BY DEF MemInv, Accounts, AtRest, ReaderOK
  <2> QED BY <2>1, <2>2, <2>3, <2>5, <2>6 DEF ReaderExact, Bounded
<1> QED BY <1>1, MemStart, MemStep, PTL DEF CtxSpec

-----------------------------------------------------------------------------
(* Errors *)

\* Nothing is read or written, and the error stays.
Stuck == c'.err # "no" /\ net'.up = net.up /\ net'.down = net.down

LEMMA IssueStuck ==
    ASSUME MemInv, c.err # "no", NEW shape, NEW e, Issue(shape, e), net' = net
    PROVE  Stuck
<1>1. DOMAIN c = CFields
  BY DEF MemInv, CtxShape
<1>2. c' = Appended(c, Len(cmds) + 1, e)
  BY DEF Issue
<1> QED BY <1>1, <1>2 DEF Appended, SetError, CFields, Stuck

LEMMA PlainStuck == ASSUME MemInv, c.err # "no", NEW t \in Threads, Plain(t) PROVE Stuck
<1>0. DOMAIN c = CFields /\ DOMAIN net = {"up", "down", "open"}
  BY DEF MemInv, CtxShape, Streams
<1>1. CASE Read(t) \/ Update(t) \/ redisAppendCommand(t)
  <2>1. net' = net /\ \E shape, e : Issue(shape, e)
    BY <1>1 DEF Read, Update, redisAppendCommand
  <2> QED BY <2>1, IssueStuck
<1>2. CASE Scan(t) \/ redisGetReply(t)
  BY <1>2 DEF Scan, redisGetReply, Stuck
<1>3. CASE redisBufferWrite(t)
  <2>1. c' = c
    BY <1>3 DEF redisBufferWrite, BufferWrite
  <2>2. net' = net \/ net' = [net EXCEPT !.up = @]
    BY <1>3 DEF redisBufferWrite
  <2> QED BY <1>0, <2>1, <2>2 DEF Stuck
<1>4. CASE redisSetTimeout(t) \/ redisEnableKeepAlive(t)
  BY <1>0, <1>4 DEF redisSetTimeout, redisEnableKeepAlive, SetError, CFields, Stuck
<1> QED BY <1>1, <1>2, <1>3, <1>4 DEF Plain, redisBufferRead

LEMMA GoOnStuck == ASSUME MemInv, c.err # "no", NEW t \in Threads, GoOn(t), c'.made PROVE Stuck
<1>0. DOMAIN c = CFields /\ AtRest(c.reader)
  BY DEF MemInv, CtxShape, Accounts
<1>1. CASE GetPending(t)
  <2>1. PICK m : Replied(t, FromReader(c, m), "write")
    BY <1>1 DEF GetPending
  <2>2. PICK x : x = FromReader(c, m)
    OBVIOUS
  <2>3. Parsed(c, x)
    BY <1>0, <2>2, FromReaderParsed
  <2>4. x.err # "no" /\ DOMAIN x = CFields
    BY <2>3 DEF Parsed
  <2>5. c' = [x EXCEPT !.reader.out = None]
    BY <2>1, <2>2 DEF Replied
  <2>6. c'.err # "no"
    BY <2>4, <2>5 DEF CFields
  <2> QED BY <1>1, <2>6 DEF GetPending, Stuck
<1>2. CASE GetWrite(t)
  BY <1>2 DEF GetWrite, Stuck
<1>3. CASE GetRead(t)
  BY <1>3 DEF GetRead, Stuck
<1>4. CASE AppendWait(t)
  <2>1. net' = net /\ \E e : Issue("wait", e)
    BY <1>4 DEF AppendWait
  <2> QED BY <2>1, IssueStuck
<1>5. CASE UseReply(t) \/ ApiUses(t)
  <2>1. c'.err = c.err
    BY <1>0, <1>5 DEF UseReply, ApiUses, FreeReply, CFields
  <2> QED BY <1>5, <2>1 DEF UseReply, ApiUses, Stuck
<1>6. CASE NoReply(t)
  <2>1. PICK z : z = FreeContext(c)
    OBVIOUS
  <2>2. DOMAIN z = CFields /\ z.made = FALSE
    BY <1>0, <2>1, FreeKeeps
  <2>3. ASSUME c' = [z EXCEPT !.bad = @ \cup {th[t].ptr}] PROVE FALSE
    BY <2>2, <2>3 DEF CFields
  <2> QED BY <1>6, <2>1, <2>3 DEF NoReply, Stuck
<1> QED BY <1>1, <1>2, <1>3, <1>4, <1>5, <1>6 DEF GoOn

LEMMA ErrorStep ==
    ASSUME MemInv, [CtxNext]_ctxVars, c.err # "no", c.made, c'.made, left' = left
    PROVE  c'.err # "no" /\ Len(net'.down) >= Len(net.down) /\ Len(net'.up) <= Len(net.up)
<1>0. /\ DOMAIN c = CFields /\ CtxShape /\ Len(net.down) \in Nat /\ Len(net.up) \in Nat /\ left \in Int
  BY ASeqLen, CtxAssumption DEF MemInv, CtxShape, Streams
<1>1. CASE Stuck
  BY <1>0, <1>1 DEF Stuck
<1>2. CASE ServerAnswers \/ ServerCloses
  BY <1>2, ServerStreams
<1>3. CASE \E f : redisConnect(f)
  BY <1>3 DEF redisConnect
<1>4. CASE Resolve \/ \E what : Try(what)
  <2>1. Reconnected(c, c') /\ UNCHANGED net
    BY <1>0, <1>4, ResolveReconnects, TryReconnects
  <2> QED BY <1>1, <2>1 DEF Reconnected, Stuck
<1>5. CASE ConnectReturns
  <2>1. c' # FreeContext(c)
    BY <1>0, FreeKeeps
  <2> QED BY <1>1, <1>5, <2>1 DEF ConnectReturns, Stuck
<1>6. ASSUME NEW t \in Threads, Program(t) PROVE Stuck
  <2>1. CASE redisReconnect(t) \/ redisFreeKeepFd(t)
    BY <1>0, <2>1 DEF redisReconnect, redisFreeKeepFd
  <2>2. CASE redisFree(t)
    BY <1>0, <2>2, FreeKeeps DEF redisFree
  <2> QED BY <1>6, <2>1, <2>2, PlainStuck DEF Program, Plain
<1>7. ASSUME NEW t \in Threads, GoOn(t) PROVE Stuck
  BY <1>7, GoOnStuck
<1>8. CASE UNCHANGED ctxVars
  BY <1>1, <1>8 DEF ctxVars, Stuck
<1> QED BY <1>1, <1>2, <1>3, <1>4, <1>5, <1>6, <1>7, <1>8 DEF CtxNext, Connecting

\* An error of a context, of the socket, the stream or the parser, is never
\* overwritten by none and stops all reading and writing, until the context is
\* renewed or freed (README.md:90 of hiredis, hiredis.c:786-868).
THEOREM ErrorsStick == CtxSpec => ErrorSticks
<1> DEFINE Sticks == (c.err # "no" /\ c.made /\ c'.made /\ left' = left) =>
                        c'.err # "no" /\ Len(net'.down) >= Len(net.down) /\ Len(net'.up) <= Len(net.up)
<1>1. MemInv /\ [CtxNext]_ctxVars => [Sticks]_ctxVars
  BY ErrorStep
<1> QED BY <1>1, MemStart, MemStep, PTL DEF CtxSpec, ErrorSticks

-----------------------------------------------------------------------------
(* Descriptors *)

\* The one descriptor of a context: fd, when it is positive.
Own(fd) == IF fd > 0 THEN {fd} ELSE {}

\* The context owns what is open; or a reconnection has failed before it had a
\* socket, and fd is still the number of the one that was closed.
Owned == c.open = IF c.made THEN Own(c.fd) ELSE {}
Lost  == c.made /\ c.open = {} /\ c.err # "no" /\ left < MaxReconnects

Descriptors ==
    /\ c.fd \in Int
    /\ nc.pc = "no" \/ (nc.pc = "resolve" /\ left = MaxReconnects) => c.fd = 0
    /\ nc.pc = "try" /\ left = MaxReconnects => c.fd <= 0
    /\ nc.pc \in {"no", "resolve", "try"} => c.open = {}
    /\ nc.pc \in {"done", "up"} => Owned
    /\ nc.pc \in {"error", "down"} => Owned \/ Lost

\* When a step closes a number that is not open.
Misses == c'.misses # c.misses => /\ c.made /\ c.err # "no" /\ left < MaxReconnects
                                  /\ c'.made => left' < left

\* x has a descriptor of its own or none, and no close has missed it.
Clean(x, m) == x.fd \in Int /\ x.misses = m /\ x.open = Own(x.fd)

LEMMA SocketClean ==
    ASSUME NEW x, DOMAIN x = CFields, x.open = {}
    PROVE  Socket(x).fd = 1 /\ Clean(Socket(x), x.misses)
<1>1. (1 .. Cardinality({}) + 1) \ {} = {1}
  BY FS_EmptySet
<1>2. Min({1}) = 1
  BY DEF Min
<1>3. /\ Socket(x).fd = Min((1 .. Cardinality(x.open) + 1) \ x.open)
      /\ Socket(x).open = x.open \cup {Min((1 .. Cardinality(x.open) + 1) \ x.open)}
      /\ Socket(x).misses = x.misses
  BY DEF Socket, CFields
<1>4. Min((1 .. Cardinality(x.open) + 1) \ x.open) = 1
  BY <1>1, <1>2
<1>5. Socket(x).fd = 1 /\ Socket(x).open = {1} /\ Socket(x).misses = x.misses
  BY <1>3, <1>4
<1> QED BY <1>5 DEF Clean, Own

LEMMA CloseFdClean ==
    ASSUME NEW x, NEW m, DOMAIN x = CFields, Clean(x, m), x.fd > 0
    PROVE  CloseFd(x).open = {} /\ CloseFd(x).fd = -1 /\ Clean(CloseFd(x), m)
BY DEF CloseFd, Close, Clean, Own, CFields

LEMMA FailedClean ==
    ASSUME NEW x, NEW m, DOMAIN x = CFields, Clean(x, m), x.fd > 0, NEW e
    PROVE  Clean(Failed(x, e).c, m)
<1>1. PICK y : y = SetError(x, e)
  OBVIOUS
<1>2. DOMAIN y = CFields /\ Clean(y, m) /\ y.fd > 0
  BY <1>1 DEF SetError, Clean, CFields
<1> QED BY <1>1, <1>2, CloseFdClean DEF Failed

LEMMA ReachClean ==
    ASSUME NEW s, NEW m, DOMAIN s = CFields, Clean(s, m), s.fd > 0, NEW what
    PROVE  Clean(Reach(s, what).c, m) /\ Reach(s, what).then # "next"
<1>1. CASE what = "ok"
  BY <1>1 DEF Reach, Connected, Clean, CFields
<1>2. CASE what = "sockerr"
  BY <1>2 DEF Reach, SetError, Clean, CFields
<1>3. CASE what \notin {"ok", "sockerr"}
  <2>1. Reach(s, what) = Failed(s, "io")
    BY <1>3 DEF Reach
  <2> QED BY <2>1, FailedClean DEF Failed
<1> QED BY <1>1, <1>2, <1>3

\* What one attempt does to the descriptors of x, which has none open.
Tried(x, a) ==
    /\ a.c.fd \in Int /\ a.c.misses = x.misses
    /\ a.c.open = Own(a.c.fd) \/ (a.c.open = {} /\ a.c.fd = x.fd /\ a.then # "done")
    /\ a.then = "next" => a.c.open = {} /\ a.c.fd \in {x.fd, -1}

LEMMA AttemptUnixClean ==
    ASSUME NEW x, DOMAIN x = CFields, x.fd \in Int, x.open = {}, NEW what
    PROVE  Tried(x, AttemptUnix(x, what))
<1>1. DOMAIN Socket(x) = CFields /\ Clean(Socket(x), x.misses) /\ Socket(x).fd > 0
  BY SocketClean, SocketMade
<1>2. CASE what = "nosocket"
  BY <1>2 DEF AttemptUnix, SetError, Tried, CFields
<1>3. CASE what = "fcntl"
  <2>1. AttemptUnix(x, what) = Failed(Socket(x), "io") /\ Failed(Socket(x), "io").then = "error"
    BY <1>3 DEF AttemptUnix, Failed
  <2> QED BY <1>1, <2>1, FailedClean DEF Clean, Tried
<1>4. CASE what \notin {"nosocket", "fcntl"}
  <2>1. PICK s : s = [Socket(x) EXCEPT !.kind = "unix"]
    OBVIOUS
  <2>2. DOMAIN s = CFields /\ Clean(s, x.misses) /\ s.fd > 0
    BY <1>1, <2>1 DEF Clean, CFields
  <2>3. AttemptUnix(x, what) = Reach(s, what)
    BY <1>4, <2>1 DEF AttemptUnix
  <2> QED BY <2>2, <2>3, ReachClean DEF Clean, Tried
<1> QED BY <1>2, <1>3, <1>4

LEMMA AttemptTcpClean ==
    ASSUME NEW x, DOMAIN x = CFields, x.fd \in Int, x.open = {}, NEW what,
           what \notin {"noreuse", "notavail"} \/ "REUSEADDR" \notin x.flags,
           what = "noreuse" => "REUSEADDR" \in x.flags
    PROVE  Tried(x, AttemptTcp(x, what))
<1>1. DOMAIN Socket(x) = CFields /\ Clean(Socket(x), x.misses) /\ Socket(x).fd > 0
  BY SocketClean, SocketMade
<1>2. CASE what = "nosocket"
  BY <1>2 DEF AttemptTcp, Tried
<1>3. CASE what \in {"nosource", "unbound"}
  <2>1. PICK s : s = Socket(x)
    OBVIOUS
  <2>2. AttemptTcp(x, what) = [c |-> SetError(s, "other"), then |-> "error"]
    BY <1>3, <2>1 DEF AttemptTcp
  <2> QED BY <1>1, <2>1, <2>2 DEF SetError, Clean, Tried, CFields
<1>4. CASE what = "unreach"
  <2>1. AttemptTcp(x, what) = [c |-> CloseFd(Socket(x)), then |-> "next"]
    BY <1>4 DEF AttemptTcp
  <2> QED BY <1>1, <2>1, CloseFdClean DEF Clean, Tried
<1>5. CASE what \notin {"nosocket", "nosource", "unbound", "unreach"}
  <2>1. AttemptTcp(x, what) = Reach(Socket(x), what)
    BY <1>5 DEF AttemptTcp
  <2> QED BY <1>1, <2>1, ReachClean DEF Clean, Tried
<1> QED BY <1>2, <1>3, <1>4, <1>5

LEMMA TryClean ==
    ASSUME NoReuse, CtxInv, Descriptors, NEW what \in Outcomes, Try(what)
    PROVE  Descriptors' /\ c'.misses = c.misses
<1>1. PICK a : a = IF nc.kind = "unix" THEN AttemptUnix(c, what) ELSE AttemptTcp(c, what)
  OBVIOUS
<1>2. Attempted(c, a)
  BY <1>1, TryAttempts
<1>3. Tried(c, a)
  <2>1. DOMAIN c = CFields /\ c.open = {} /\ c.fd \in Int
    BY DEF Try, CtxInv, CtxShape, Descriptors
  <2>2. what = "noreuse" => "REUSEADDR" \in c.flags
    BY DEF Try, Possible
  <2>3. what \notin {"noreuse", "notavail"} \/ "REUSEADDR" \notin c.flags
    BY DEF NoReuse, CtxInv, Outcome
  <2>4. CASE nc.kind = "unix"
    BY <1>1, <2>1, <2>4, AttemptUnixClean
  <2>5. CASE nc.kind # "unix"
    BY <1>1, <2>1, <2>2, <2>3, <2>5, AttemptTcpClean
  <2> QED BY <2>4, <2>5
<1>4. /\ c' = IF a.then = "next" /\ nc.addrs = 1 THEN SetError(a.c, "other") ELSE a.c
      /\ nc' = CASE a.then = "next"  -> [nc EXCEPT !.addrs = @ - 1, !.pc = IF nc.addrs = 1 THEN "error" ELSE "try"]
                  [] a.then = "retry" -> [nc EXCEPT !.reuses = @ + 1]
                  [] OTHER            -> [nc EXCEPT !.pc = a.then]
      /\ nc.pc = "try" /\ left' = left
  BY <1>1 DEF Try
<1>5. c'.fd = a.c.fd /\ c'.misses = a.c.misses /\ c'.open = a.c.open /\ c'.made = c.made
  BY <1>2, <1>4 DEF Attempted, SetError, CFields
<1>6. /\ a.then = "next" => nc'.pc \in {"try", "error"}
      /\ a.then # "next" => nc'.pc = a.then
  BY <1>2, <1>4 DEF Attempted, CtxInv, CtxShape
<1>7. nc'.pc = "error" => c'.err # "no"
  BY <1>4, TryInv DEF CtxInv, Outcome, ConnectOutcome
<1>8. nc.pc = "try" /\ left' = left
  BY <1>4
<1>9. c.made /\ c.fd \in Int /\ (left = MaxReconnects => c.fd <= 0)
  BY <1>8 DEF CtxInv, CtxShape, Waiting, Descriptors
<1>10. left # MaxReconnects => left < MaxReconnects
  BY CtxAssumption DEF CtxInv, CtxShape
<1>11. c'.open = Own(c'.fd) => Owned'
  BY <1>5, <1>9 DEF Owned
<1>12. nc'.pc = "error" /\ c'.open = {} /\ left # MaxReconnects => Lost'
  BY <1>5, <1>7, <1>8, <1>9, <1>10 DEF Lost
<1>13. CASE a.then = "next"
  <2>1. c'.open = {} /\ c'.fd \in {c.fd, -1} /\ nc'.pc \in {"try", "error"}
    BY <1>3, <1>5, <1>6, <1>13 DEF Tried
  <2>2. c'.fd \in Int /\ (left = MaxReconnects => c'.fd <= 0)
    BY <1>9, <2>1
  <2>3. left = MaxReconnects => c'.open = Own(c'.fd)
    BY <2>1, <2>2 DEF Own
  <2>4. nc'.pc = "error" => Owned' \/ Lost'
    BY <1>11, <1>12, <2>1, <2>3
  <2>5. c'.misses = c.misses
    BY <1>3, <1>5 DEF Tried
  <2>6. left' = MaxReconnects => c'.fd <= 0
    BY <1>8, <2>2
  <2> QED BY <2>1, <2>2, <2>4, <2>5, <2>6 DEF Descriptors
<1>14. CASE a.then # "next"
  <2>1. nc'.pc \in {"error", "done"} /\ nc'.pc = a.then
    BY <1>2, <1>6, <1>14 DEF Attempted
  <2>2. c'.fd \in Int /\ c'.misses = c.misses
    BY <1>3, <1>5 DEF Tried
  <2>3. CASE a.c.open = Own(a.c.fd)
    BY <1>5, <1>11, <2>1, <2>2, <2>3 DEF Descriptors
  <2>4. CASE a.c.open = {} /\ a.c.fd = c.fd /\ a.then # "done"
    <3>1. left = MaxReconnects => c'.open = Own(c'.fd)
      BY <1>5, <1>9, <2>4 DEF Own
    <3>2. nc'.pc = "error" /\ c'.open = {}
      BY <1>5, <2>1, <2>4
    <3>3. Owned' \/ Lost'
      BY <1>11, <1>12, <3>1, <3>2
    <3> QED BY <2>2, <3>2, <3>3 DEF Descriptors
  <2> QED BY <1>3, <1>14, <2>3, <2>4 DEF Tried
<1> QED BY <1>13, <1>14

\* redisFree and redisReconnect close what is open.
LEMMA FreeClean ==
    ASSUME NEW x, DOMAIN x = CFields, x.fd \in Int, x.open = {} \/ x.open = Own(x.fd)
    PROVE  /\ FreeContext(x).fd = x.fd /\ FreeContext(x).open = {} /\ FreeContext(x).made = FALSE
           /\ DOMAIN FreeContext(x) = CFields
           /\ x.open = Own(x.fd) => FreeContext(x).misses = x.misses
BY DEF FreeContext, Close, Own, CFields

LEMMA RenewedClean ==
    ASSUME NEW x, DOMAIN x = CFields, x.fd \in Int, x.open = {} \/ x.open = Own(x.fd)
    PROVE  /\ Renewed(x).fd = x.fd /\ Renewed(x).open = {} /\ Renewed(x).made = x.made
           /\ x.open = Own(x.fd) => Renewed(x).misses = x.misses
BY DEF Renewed, Close, Own, CFields

LEMMA ConnectReturnsClean ==
    ASSUME CtxInv, Descriptors, ConnectReturns
    PROVE  Descriptors' /\ Misses
<1>1. DOMAIN c = CFields /\ c.made /\ c.fd \in Int /\ (nc.pc = "done" => Owned) /\ (Owned \/ Lost)
  BY DEF ConnectReturns, CtxInv, CtxShape, Waiting, Descriptors
<1>2. nc'.pc = (IF nc.pc = "done" THEN "up" ELSE "down") /\ left' = left
  BY DEF ConnectReturns
<1>3. CASE c' = c
  BY <1>1, <1>2, <1>3 DEF Descriptors, Owned, Lost, Misses
<1>4. CASE c' = FreeContext(c)
  <2>1. c.open = {} \/ c.open = Own(c.fd)
    BY <1>1 DEF Owned, Lost
  <2>2. c'.fd = c.fd /\ c'.open = {} /\ c'.made = FALSE /\ (c.open = Own(c.fd) => c'.misses = c.misses)
    BY <1>1, <1>4, <2>1, FreeClean
  <2>3. Misses
    BY <1>1, <2>2 DEF Owned, Lost, Misses
  <2> QED BY <1>1, <1>2, <2>2, <2>3 DEF Descriptors, Owned
<1> QED BY <1>3, <1>4 DEF ConnectReturns

LEMMA ThreadClean ==
    ASSUME MemInv, CtxInv, Descriptors, [CtxNext]_ctxVars, NEW t \in Threads, Program(t) \/ GoOn(t)
    PROVE  Descriptors' /\ Misses
<1>1. Uses \/ Frees \/ KeepsFd \/ redisReconnect(t)
  BY ProgramUses, GoOnUses DEF CtxInv
<1>2. /\ nc.pc \in {"up", "down"} /\ c.made /\ DOMAIN c = CFields /\ c.fd \in Int
      /\ (nc.pc = "up" => Owned) /\ (Owned \/ Lost)
  BY ThreadActs DEF CtxInv, CtxShape, Descriptors
<1>3. c.open = {} \/ c.open = Own(c.fd)
  BY <1>2 DEF Owned, Lost
<1>4. CASE Uses
  <2>1. c'.made = c.made /\ c'.fd = c.fd /\ c'.open = c.open /\ c'.misses = c.misses /\ nc' = nc /\ left' = left
    BY <1>4 DEF Uses, Alike
  <2>2. c.err # "no" => c'.err # "no"
    BY <1>2, <2>1, ErrorStep
  <2> QED BY <1>2, <2>1, <2>2 DEF Descriptors, Owned, Lost, Misses
<1>5. CASE Frees
  <2>1. PICK z : z = FreeContext(c)
    OBVIOUS
  <2>2. DOMAIN z = CFields /\ z.open = {} /\ z.made = FALSE /\ z.fd = c.fd /\ (c.open = Own(c.fd) => z.misses = c.misses)
    BY <1>2, <1>3, <2>1, FreeClean
  <2>3. nc' = nc /\ (c' = z \/ \E b \in {"uninit", "reply", "dangling"} : c' = [z EXCEPT !.bad = @ \cup {b}])
    BY <1>5, <2>1 DEF Frees
  <2>4. c'.open = {} /\ c'.made = FALSE /\ c'.fd = c.fd /\ c'.misses = z.misses
    BY <2>2, <2>3 DEF CFields
  <2>5. Misses
    BY <1>2, <2>2, <2>4 DEF Owned, Lost, Misses
  <2> QED BY <1>2, <2>3, <2>4, <2>5 DEF Descriptors, Owned
<1>6. CASE KeepsFd
  BY <1>2, <1>6 DEF KeepsFd, Descriptors, Owned, Misses
<1>7. CASE redisReconnect(t)
  <2>1. c' = Renewed(c) /\ nc'.pc = "resolve" /\ left' # MaxReconnects /\ left' < left
    <3>1. nc'.pc = "resolve" /\ left' < MaxReconnects
      BY <1>7, ReconnectInv
    <3>2. left \in Int /\ left' = left - 1 /\ MaxReconnects \in Nat /\ c' = Renewed(c)
      BY <1>7, CtxAssumption DEF redisReconnect, CtxInv, CtxShape
    <3> QED BY <3>1, <3>2
  <2>2. c'.fd = c.fd /\ c'.open = {} /\ (c.open = Own(c.fd) => c'.misses = c.misses)
    BY <1>2, <1>3, <2>1, RenewedClean
  <2>3. Misses
    BY <1>2, <2>1, <2>2 DEF Owned, Lost, Misses
  <2> QED BY <1>2, <2>1, <2>2, <2>3 DEF Descriptors
<1> QED BY <1>1, <1>4, <1>5, <1>6, <1>7

LEMMA DescriptorsStep ==
    ASSUME NoReuse, MemInv, CtxInv, Descriptors, [CtxNext]_ctxVars
    PROVE  Descriptors' /\ Misses
<1>1. ASSUME NEW f, redisConnect(f) PROVE Descriptors' /\ Misses
  <2>1. c'.fd = c.fd /\ c'.open = c.open /\ c'.misses = c.misses
    BY <1>1 DEF redisConnect, CtxInv, CtxShape, CFields
  <2>2. nc.pc = "no" /\ nc'.pc = "resolve"
    BY <1>1 DEF redisConnect, StartConnect
  <2> QED BY <2>1, <2>2 DEF Descriptors, Misses
<1>2. CASE Resolve
  <2>1. c'.fd = c.fd /\ c'.open = c.open /\ c'.misses = c.misses /\ left' = left /\ c'.made = c.made
    BY <1>2 DEF Resolve, SetError, CtxInv, CtxShape, CFields
  <2>2. nc.pc = "resolve" /\ nc'.pc \in {"try", "error"}
    BY <1>2 DEF Resolve, CtxInv, CtxShape
  <2>3. c.made /\ c.open = {} /\ c.fd \in Int /\ left \in 0 .. MaxReconnects /\ MaxReconnects \in Nat
        /\ (left = MaxReconnects => c.fd = 0)
    BY <2>2, CtxAssumption DEF CtxInv, CtxShape, Waiting, Descriptors
  <2>4. nc'.pc = "error" => c'.err # "no"
    BY <1>2, ResolveInv DEF CtxInv, Outcome, ConnectOutcome
  <2>5. CASE left = MaxReconnects
    BY <2>1, <2>2, <2>3, <2>5 DEF Descriptors, Owned, Own, Misses
  <2>6. CASE left # MaxReconnects
    BY <2>1, <2>2, <2>3, <2>4, <2>6 DEF Descriptors, Lost, Misses
  <2> QED BY <2>5, <2>6
<1>3. ASSUME NEW what \in Outcomes, Try(what) PROVE Descriptors' /\ Misses
  BY <1>3, TryClean DEF Misses
<1>4. CASE ServerAnswers \/ ServerCloses \/ UNCHANGED ctxVars
  <2>1. c' = c /\ nc' = nc /\ left' = left
    BY <1>4, ServerKeeps
  <2> QED BY <2>1 DEF Descriptors, Owned, Lost, Misses
<1> QED BY <1>1, <1>2, <1>3, <1>4, ConnectReturnsClean, ThreadClean DEF CtxNext, Connecting

\* Through any sequence of attempts, errors, reconnections and frees, failed
\* resolutions and sockets that cannot be had among them, the process has no
\* descriptor open but its context's; and only redisFree or redisReconnect of a
\* context whose reconnection has failed closes a number that is not open
\* (net.c:60-65, hiredis.c:616-669).
THEOREM DescriptorsAreOwned ==
    ASSUME NoReuse
    PROVE  CtxSpec => DescriptorsOwned
<1> DEFINE Inv == MemInv /\ CtxInv /\ Descriptors
           Owns == /\ c'.open \subseteq (IF c'.made THEN {c'.fd} ELSE {})
                   /\ c'.misses # c.misses => /\ c.made /\ c.err # "no" /\ left < MaxReconnects
                                              /\ c'.made => left' < left
<1>1. CtxInit => Inv
  <2>1. CtxInit => Descriptors
    BY DEF CtxInit, Descriptors
  <2> QED BY <2>1, CtxStart, MemStart
<1>2. Inv /\ [CtxNext]_ctxVars => Inv'
  BY CtxStep, MemStep, DescriptorsStep
<1>3. Inv => c.open \subseteq (IF c.made THEN {c.fd} ELSE {})
  BY DEF CtxInv, CtxShape, Descriptors, Owned, Lost, Own
<1>4. Inv /\ Inv' /\ [CtxNext]_ctxVars => [Owns]_ctxVars
  <2> SUFFICES ASSUME Inv, Inv', [CtxNext]_ctxVars PROVE Owns
    OBVIOUS
  <2>1. c'.open \subseteq (IF c'.made THEN {c'.fd} ELSE {})
    BY DEF CtxInv, CtxShape, Descriptors, Owned, Lost, Own
  <2>2. Misses
    BY DescriptorsStep
  <2> QED BY <2>1, <2>2 DEF Misses
<1> QED BY <1>1, <1>2, <1>4, PTL DEF CtxSpec, DescriptorsOwned
=============================================================================
