---------------------------- MODULE RedisContext ---------------------------
(***************************************************************************)
(* The blocking API of hiredis: a context (hiredis.c), how it is connected *)
(* and its descriptors (net.c), the parser of its replies (RedisReader),   *)
(* and two programs that use it: RedisDB through RedisClient, and a        *)
(* program that calls the rest of the API.                                 *)
(*                                                                         *)
(* Commands are numbers; their bytes are RedisFormat's business.  Replies  *)
(* travel as bytes and are read in pieces of any size.  System calls that  *)
(* are interrupted (EINTR) are tried again and change nothing.             *)
(***************************************************************************)
EXTENDS RedisReader, FiniteSetsExt

CONSTANTS
    Threads,        \* the clients of the one database
    Apps,           \* which of "db", "api" the program may be
    Slaves,         \* RedisClient's slaves_ is not 0
    Flavours,       \* how a program of the API connects
    Outcomes,       \* what may become of the attempt to connect to one address
    ResolveFails,   \* which of "connect", "reconnect" may find getaddrinfo failing
    MaxAddresses,   \* bound on the addresses of a host
    REDIS_CONNECT_RETRIES,
    ReadShapes,     \* which of "hmget", "hgetall" RedisDB sends
    Shapes,         \* the commands of a program of the API, by the shape of their reply
    Memory,         \* how many allocations succeed in a call of the parser
    Faults,         \* which of "eof", "garbage", "deep", "huge", "reset", "error", "append" may happen
    MaxCmds, MaxReconnects      \* bounds on what a behaviour does

ASSUME CtxAssumption ==
    /\ IsFiniteSet(Threads) /\ MaxReconnects \in Nat /\ Memory \subseteq Nat
    /\ "api" \in Apps => \A t, u \in Threads : t = u      \* one thread uses a context
    /\ ReadShapes \subseteq {"hmget", "hgetall"}
    /\ Shapes \subseteq {"hmget", "hgetall", "hmset", "wait", "nested", "error"}

VARIABLES
    app,    \* the program
    c,      \* redisContext; the open descriptors of the process, and how many closes missed them
    nc,     \* the call of redisContextConnect* under way
    net,    \* the connection: commands and bytes under way, the server's end
    cmds,   \* the commands issued, by their number
    th,     \* where each thread is
    left    \* how many more reconnections there may be

ctxVars == <<app, c, nc, net, cmds, th, left>>

Idle == [pc |-> "idle", ids |-> <<>>, reply |-> None, ptr |-> "uninit"]
Fresh == [up |-> <<>>, down |-> <<>>, open |-> TRUE]
ByRedisDB == [kind |-> "tcp", block |-> TRUE, timeout |-> FALSE, source |-> FALSE, reuse |-> FALSE]

CtxInit ==
    /\ app \in Apps
    /\ c = [made |-> FALSE, fd |-> 0, err |-> "no", flags |-> {}, kind |-> "tcp", timeout |-> FALSE, source |-> FALSE,
            rcvtimeo |-> FALSE, obuf |-> <<>>, reader |-> redisReaderCreate, open |-> {}, mode |-> "block",
            misses |-> 0, bad |-> {}]
    /\ nc = [pc |-> "no"] /\ net = Fresh
    /\ cmds = <<>> /\ th = [t \in Threads |-> Idle]
    /\ left = MaxReconnects

-----------------------------------------------------------------------------
(* Descriptors and connecting: net.c *)

SetError(x, e) == [x EXCEPT !.err = e]

\* close(2): a descriptor that is not open may be somebody else's by now.
Close(x) == IF x.fd \in x.open THEN [x EXCEPT !.open = @ \ {x.fd}] ELSE [x EXCEPT !.misses = @ + 1]

\* Mutant of CloseFd: a later close finds the old number.
MutCloseFd(x) == IF x.fd >= 0 THEN Close(x) ELSE x

\* redisContextCloseFd.
CloseFd(x) == IF x.fd >= 0 THEN [Close(x) EXCEPT !.fd = -1] ELSE x

\* socket(2) returns the lowest free number (0 is standard input).
Socket(x) ==
    LET s == Min((1 .. Cardinality(x.open) + 1) \ x.open)
    IN  [x EXCEPT !.fd = s, !.open = @ \cup {s}, !.mode = "nonblock", !.rcvtimeo = FALSE]

Failed(x, e) == [c |-> CloseFd(SetError(x, e)), then |-> "error"]

\* Mutant of Connected: the socket stays non-blocking.
MutConnected(x) == [c |-> [x EXCEPT !.flags = @ \cup {"CONNECTED"}], then |-> "done"]

\* redisSetBlocking for a blocking context, redisSetTcpNoDelay, and the flag.
Connected(x) ==
    [c |-> [x EXCEPT !.flags = @ \cup {"CONNECTED"},
                     !.mode = IF "BLOCK" \in x.flags THEN "block" ELSE @],
     then |-> "done"]

\* What connect(2) and redisContextWaitReady come to; only a blocking context
\* waits.  redisCheckSocketError leaves the descriptor open.
Reach(x, what) ==
    CASE what = "sockerr" -> [c |-> SetError(x, "io"), then |-> "error"]
      [] what = "ok"      -> Connected(x)
      [] OTHER            -> Failed(x, "io")    \* refused, timeout, fcntl, nodelay, notavail, unreach

\* One turn of the loop of _redisContextConnectTcp.
AttemptTcp(x, what) ==
    CASE what = "nosocket" -> [c |-> x, then |-> "next"]
      [] what \in {"nosource", "unbound"} -> [c |-> SetError(Socket(x), "other"), then |-> "error"]
      [] what = "noreuse"  -> [c |-> Socket(x), then |-> "error"]
      [] what = "unreach"  -> [c |-> CloseFd(Socket(x)), then |-> "next"]
      [] what = "notavail" /\ "REUSEADDR" \in x.flags ->
            [c |-> Socket(x), then |-> IF nc.reuses + 1 >= REDIS_CONNECT_RETRIES THEN "error" ELSE "retry"]
      [] OTHER -> Reach(Socket(x), what)

\* redisContextConnectUnix; its kind is set when it has a socket.
AttemptUnix(x, what) ==
    CASE what = "nosocket" -> [c |-> SetError(x, "io"), then |-> "error"]
      [] what = "fcntl"    -> Failed(Socket(x), "io")
      [] OTHER             -> Reach([Socket(x) EXCEPT !.kind = "unix"], what)

\* Which outcomes a context can meet.
Possible(x, what) ==
    CASE what \in {"nosource", "unbound"} -> nc.kind = "tcp" /\ x.source
      [] what = "noreuse" -> nc.kind = "tcp" /\ x.source /\ "REUSEADDR" \in x.flags
      [] what = "timeout" -> "BLOCK" \in x.flags /\ x.timeout
      [] what = "sockerr" -> "BLOCK" \in x.flags
      [] what = "nodelay" -> nc.kind = "tcp"
      [] OTHER -> TRUE

\* getaddrinfo, for both families.
Resolve ==
    /\ nc.pc = "resolve"
    /\ \/ /\ nc.kind = "unix" /\ nc' = [nc EXCEPT !.pc = "try"] /\ UNCHANGED c
       \/ /\ nc.kind = "tcp" /\ c' = [c EXCEPT !.kind = "tcp"]
          /\ \E n \in 1 .. MaxAddresses : nc' = [nc EXCEPT !.pc = "try", !.addrs = n]
       \/ /\ nc.kind = "tcp" /\ (IF left = MaxReconnects THEN "connect" ELSE "reconnect") \in ResolveFails
          /\ c' = SetError([c EXCEPT !.kind = "tcp"], "other") /\ nc' = [nc EXCEPT !.pc = "error"]
    /\ UNCHANGED <<app, net, cmds, th, left>>

Try(what) ==
    /\ nc.pc = "try" /\ Possible(c, what)
    /\ LET a == IF nc.kind = "unix" THEN AttemptUnix(c, what) ELSE AttemptTcp(c, what)
       IN  /\ c' = IF a.then = "next" /\ nc.addrs = 1 THEN SetError(a.c, "other") ELSE a.c
           /\ nc' = CASE a.then = "next"  -> [nc EXCEPT !.addrs = @ - 1, !.pc = IF nc.addrs = 1 THEN "error" ELSE "try"]
                      [] a.then = "retry" -> [nc EXCEPT !.reuses = @ + 1]
                      [] OTHER            -> [nc EXCEPT !.pc = a.then]
    /\ UNCHANGED <<app, net, cmds, th, left>>

StartConnect(kind) ==
    /\ nc' = [pc |-> "resolve", kind |-> kind, addrs |-> 1, reuses |-> 0]
    /\ net' = Fresh

\* redisContextInit and redisConnect, redisConnectWithTimeout, ..., redisConnectUnixNonBlock.
redisConnect(f) ==
    /\ ~c.made /\ nc.pc = "no"
    /\ c' = [c EXCEPT !.made = TRUE, !.timeout = f.timeout, !.source = f.source,
                      !.flags = {g \in {"BLOCK", "REUSEADDR"} : IF g = "BLOCK" THEN f.block ELSE f.reuse}]
    /\ StartConnect(f.kind)
    /\ UNCHANGED <<app, cmds, th, left>>

\* redisFree.
FreeContext(x) ==
    [(IF x.fd > 0 THEN Close(x) ELSE x)
        EXCEPT !.made = FALSE, !.reader = [redisReaderCreate EXCEPT !.live = redisReaderFree(x.reader)]]

\* The call returns.  RedisClient frees a context with an error and exits.
ConnectReturns ==
    /\ nc.pc \in {"done", "error"}
    /\ nc' = [pc |-> IF nc.pc = "done" THEN "up" ELSE "down"]
    /\ IF app = "db" /\ c.err # "no"
       THEN c' = FreeContext(c) /\ th' = [t \in Threads |-> [th[t] EXCEPT !.pc = "exit"]]
       ELSE UNCHANGED <<c, th>>
    /\ UNCHANGED <<app, net, cmds, left>>

-----------------------------------------------------------------------------
(* Commands and replies: hiredis.c *)

Ready(t) == c.made /\ nc.pc \in {"up", "down"} /\ th[t].pc = "idle"

\* How appending a command may fail: without memory, or with a format that is
\* not valid; the values in an update are part of its format.
AppendFails(shape) ==
    {e \in {"oom", "other"} : "append" \in Faults /\ (e = "other" => app = "api" \/ shape = "hmset")}

\* The context after redisvAppendCommand and __redisAppendCommand, which do not
\* look at err.
Appended(x, n, e) == IF e = "no" THEN [x EXCEPT !.obuf = Append(@, n)] ELSE SetError(x, e)

\* A call of the reader left it as r: its error is the context's.  (What was
\* left of the memory is forgotten.)
AfterReader(x, r) ==
    LET y == [x EXCEPT !.reader = [r EXCEPT !.mem = 0]]
    IN  IF r.ok THEN y ELSE SetError(y, r.err)

\* Mutant of FromReader: copies the error of the reader, none included.
MutFromReader(x, m) ==
    LET r == redisReaderGetReply([x.reader EXCEPT !.mem = m])
    IN  [x EXCEPT !.reader = [r EXCEPT !.mem = 0], !.err = r.err]

\* redisGetReplyFromReader.
FromReader(x, m) == AfterReader(x, redisReaderGetReply([x.reader EXCEPT !.mem = m]))

\* redisBufferWrite of n commands, 0 for an error.
BufferWrite(x, n) ==
    IF x.err # "no" THEN x
    ELSE IF n = 0 THEN SetError(x, "io")
    ELSE [x EXCEPT !.obuf = SubSeq(@, n + 1, Len(@))]

\* redisBufferRead of the given bytes.
BufferRead(x, bytes, m) == AfterReader(x, redisReaderFeed([x.reader EXCEPT !.mem = m], bytes))

\* The process is over.
Exit(why) == th' = [t \in Threads |-> [th[t] EXCEPT !.pc = why]]

\* How redisGetReply goes on for thread t when the context has become x.
Replied(t, x, wait) ==
    /\ c' = [x EXCEPT !.reader.out = None]
    /\ IF x.reader.err = "segv" THEN Exit("abort")
       ELSE th' = [th EXCEPT ![t] =
          CASE ~x.reader.ok        -> [@ EXCEPT !.pc = "failed"]
            [] x.reader.out # None -> [@ EXCEPT !.pc = "use", !.reply = x.reader.out, !.ptr = "reply"]
            [] OTHER               -> [@ EXCEPT !.pc = IF "BLOCK" \in c.flags THEN wait ELSE "idle"]]

\* redisGetReply: a reply that is there already.
GetPending(t) ==
    /\ th[t].pc = "get"
    /\ \E m \in Memory : Replied(t, FromReader(c, m), "write")
    /\ UNCHANGED <<app, nc, net, cmds, left>>

\* When write(2) may fail: the connection was reset, or the send timeout that
\* redisSetTimeout sets too expires.
WriteFails == ("reset" \in Faults /\ ~net.open) \/ c.rcvtimeo

\* "Write until done".
GetWrite(t) ==
    /\ th[t].pc = "write"
    /\ \/ c.err # "no" /\ th' = [th EXCEPT ![t].pc = "failed"] /\ UNCHANGED <<c, net>>
       \/ /\ c.err = "no" /\ c.obuf = <<>> /\ th' = [th EXCEPT ![t].pc = "read"] /\ UNCHANGED <<c, net>>
       \/ \E n \in 1 .. Len(c.obuf) :
             /\ c.err = "no" /\ c' = BufferWrite(c, n)
             /\ net' = [net EXCEPT !.up = @ \o SubSeq(c.obuf, 1, n)]
             /\ th' = [th EXCEPT ![t].pc = IF n = Len(c.obuf) THEN "read" ELSE @]
       \/ /\ c.err = "no" /\ c.obuf # <<>> /\ WriteFails
          /\ c' = BufferWrite(c, 0) /\ th' = [th EXCEPT ![t].pc = "failed"] /\ UNCHANGED net
    /\ UNCHANGED <<app, nc, cmds, left>>

\* What read(2) may return, apart from bytes: an error, or the end.
ReadFails == {e \in {"io", "eof"} :
    IF e = "eof" THEN ~net.open /\ net.down = <<>>
    ELSE ("reset" \in Faults /\ ~net.open) \/ (c.rcvtimeo /\ net.down = <<>>)}

\* "Read until there is a reply".
GetRead(t) ==
    /\ th[t].pc = "read"
    /\ \/ /\ c.err # "no" /\ th' = [th EXCEPT ![t].pc = "failed"] /\ UNCHANGED <<c, net>>
       \/ \E e \in ReadFails :
             /\ c.err = "no" /\ c' = SetError(c, e) /\ th' = [th EXCEPT ![t].pc = "failed"] /\ UNCHANGED net
       \/ \E n \in 1 .. Len(net.down) : \E m \in Memory :
             LET fed == BufferRead(c, SubSeq(net.down, 1, n), m)
             IN  /\ c.err = "no"
                 /\ net' = [net EXCEPT !.down = SubSeq(@, n + 1, Len(@))]
                 /\ Replied(t, IF fed.err # "no" THEN fed ELSE FromReader(fed, m), "read")
    /\ UNCHANGED <<app, nc, cmds, left>>

-----------------------------------------------------------------------------
(* RedisDB and RedisClient *)

\* The next command is appended to the output buffer (e = "no"), or fails to be.
Issue(shape, e) ==
    /\ Len(cmds) < MaxCmds /\ e \in {"no"} \cup AppendFails(shape)
    /\ cmds' = Append(cmds, shape)
    /\ c' = Appended(c, Len(cmds) + 1, e)

InDB(t, pc) == app = "db" /\ th[t].pc = pc
Calls(t, pc, ids) == th' = [th EXCEPT ![t] = [@ EXCEPT !.pc = pc, !.ids = ids, !.ptr = "uninit"]]

\* RedisDB::Read: redisCommandArgv or redisCommand, NULL without a command.
Read(t) ==
    /\ Ready(t) /\ app = "db"
    /\ \E shape \in ReadShapes, e \in {"no", "oom", "other"} :
          Issue(shape, e) /\ Calls(t, IF e = "no" THEN "get" ELSE "failed", <<Len(cmds) + 1>>)
    /\ UNCHANGED <<app, nc, net, left>>

\* RedisDB::Update, Insert, Delete: RedisClient::Command, which does not look
\* at what redisAppendCommand returns.
Update(t) ==
    /\ Ready(t) /\ app = "db" /\ \E e \in {"no", "oom", "other"} : Issue("hmset", e)
    /\ Slaves => Len(cmds) + 2 <= MaxCmds
    /\ Calls(t, IF Slaves THEN "slaves" ELSE "get", <<Len(cmds) + 1>>)
    /\ UNCHANGED <<app, nc, net, left>>

AppendWait(t) ==
    /\ InDB(t, "slaves") /\ \E e \in {"no", "oom", "other"} : Issue("wait", e)
    /\ Calls(t, "get", Append(th[t].ids, Len(cmds) + 1))
    /\ UNCHANGED <<app, nc, net, left>>

\* freeReplyObject.
FreeReply(x, o) == [x EXCEPT !.reader.live = @ - Objects(o)]

\* RedisDB::Scan throws: its client's thread is over.
Scan(t) ==
    /\ Ready(t) /\ app = "db"
    /\ th' = [th EXCEPT ![t].pc = "thrown"]
    /\ UNCHANGED <<app, c, nc, net, cmds, left>>

Reads(t) == cmds[Head(th[t].ids)] \in {"hmget", "hgetall"}

\* Read asserts that the reply is an array and copies it; Command does not
\* look at its reply, and goes on to the reply of WAIT.
UseReply(t) ==
    /\ InDB(t, "use")
    /\ IF Reads(t) /\ th[t].reply[<<>>].type # "array"
       THEN Exit("abort") /\ UNCHANGED c
       ELSE /\ c' = FreeReply(c, th[t].reply)
            /\ th' = [th EXCEPT ![t] = [@ EXCEPT !.reply = None, !.ptr = "dangling", !.ids = Tail(@),
                                                 !.pc = IF Len(th[t].ids) > 1 THEN "get" ELSE "idle"]]
    /\ UNCHANGED <<app, nc, net, cmds, left>>

\* Read returns kOK when there is no reply.  HandleError frees `reply', which
\* redisGetReply has not set, and the context, and ends the process.
NoReply(t) ==
    /\ InDB(t, "failed")
    /\ IF Reads(t) THEN th' = [th EXCEPT ![t].pc = "idle"] /\ UNCHANGED c
       ELSE /\ c' = [FreeContext(c) EXCEPT !.bad = @ \cup {th[t].ptr}]
            /\ Exit("exit")
    /\ UNCHANGED <<app, nc, net, cmds, left>>

-----------------------------------------------------------------------------
(* A program of the API: one thread that pipelines, reconnects, and so on *)

InApi(t) == app = "api" /\ Ready(t)

redisAppendCommand(t) ==
    /\ InApi(t)
    /\ \E shape \in Shapes, e \in {"no", "oom", "other"} :
          Issue(shape, e) /\ th' = [th EXCEPT ![t].ids = IF e = "no" THEN Append(@, Len(cmds) + 1) ELSE @]
    /\ UNCHANGED <<app, nc, net, left>>

redisGetReply(t) ==
    /\ InApi(t) /\ th[t].ids # <<>>
    /\ Calls(t, "get", th[t].ids)
    /\ UNCHANGED <<app, c, nc, net, cmds, left>>

ApiUses(t) ==
    /\ app = "api" /\ th[t].pc \in {"use", "failed"}
    /\ c' = FreeReply(c, th[t].reply)
    /\ th' = [th EXCEPT ![t] = [@ EXCEPT !.pc = "idle", !.reply = None,
                                         !.ids = IF th[t].pc = "use" THEN Tail(@) ELSE @]]
    /\ UNCHANGED <<app, nc, net, cmds, left>>

\* A non-blocking context is written and read by its program.
redisBufferWrite(t) ==
    /\ InApi(t) /\ "BLOCK" \notin c.flags /\ nc.pc = "up"
    /\ \/ \E n \in 1 .. Len(c.obuf) :
             /\ c' = BufferWrite(c, n)
             /\ net' = [net EXCEPT !.up = IF c.err = "no" THEN @ \o SubSeq(c.obuf, 1, n) ELSE @]
       \/ c.obuf # <<>> /\ WriteFails /\ c' = BufferWrite(c, 0) /\ UNCHANGED net
    /\ UNCHANGED <<app, nc, cmds, th, left>>

redisBufferRead(t) ==
    /\ InApi(t) /\ "BLOCK" \notin c.flags /\ nc.pc = "up" /\ c.err = "no"
    /\ \/ \E e \in ReadFails : c' = SetError(c, e) /\ UNCHANGED net
       \/ \E n \in 1 .. Len(net.down) : \E m \in Memory :
             /\ c' = BufferRead(c, SubSeq(net.down, 1, n), m)
             /\ net' = [net EXCEPT !.down = SubSeq(@, n + 1, Len(@))]
    /\ UNCHANGED <<app, nc, cmds, th, left>>

\* redisSetTimeout and redisEnableKeepAlive: setsockopt may fail.  Bound: they
\* are called before the first command.
redisSetTimeout(t) ==
    /\ InApi(t) /\ "BLOCK" \in c.flags /\ nc.pc = "up" /\ ~c.rcvtimeo /\ cmds = <<>>
    /\ c' \in {SetError(c, "io"), [c EXCEPT !.rcvtimeo = TRUE]}
    /\ UNCHANGED <<app, nc, net, cmds, th, left>>

redisEnableKeepAlive(t) ==
    /\ InApi(t) /\ nc.pc = "up" /\ cmds = <<>> /\ c' \in {c, SetError(c, "other")}
    /\ UNCHANGED <<app, nc, net, cmds, th, left>>

\* Mutant of Renewed: what was not written yet, and what was read, are kept.
MutRenewed(x) == [(IF x.fd > 0 THEN Close(x) ELSE x) EXCEPT !.err = "no"]

\* redisReconnect, up to the connection: c->fd keeps its number.
Renewed(x) ==
    [(IF x.fd > 0 THEN Close(x) ELSE x)
        EXCEPT !.err = "no", !.obuf = <<>>, !.reader = [redisReaderCreate EXCEPT !.live = redisReaderFree(x.reader)]]

redisReconnect(t) ==
    /\ InApi(t) /\ left > 0 /\ left' = left - 1
    /\ c' = Renewed(c) /\ StartConnect(c.kind)
    /\ th' = [th EXCEPT ![t] = Idle]
    /\ UNCHANGED <<app, cmds>>

redisFree(t) ==
    /\ InApi(t) /\ c' = FreeContext(c) /\ Exit("exit")
    /\ UNCHANGED <<app, nc, net, cmds, left>>

\* redisFreeKeepFd and redisConnectFd: a new context on the same descriptor
\* (what the old reader had read of the stream is lost).
redisFreeKeepFd(t) ==
    /\ InApi(t) /\ nc.pc = "up" /\ "CONNECTED" \in c.flags /\ left > 0 /\ left' = left - 1
    /\ c' = [FreeContext([c EXCEPT !.fd = -1]) EXCEPT
                !.made = TRUE, !.fd = c.fd, !.flags = {"BLOCK", "CONNECTED"}, !.kind = "tcp", !.err = "no",
                !.obuf = <<>>, !.timeout = FALSE, !.source = FALSE]
    /\ th[t].ids = <<>> /\ c.reader.buf = <<>>
    /\ UNCHANGED <<app, nc, net, cmds, th>>

-----------------------------------------------------------------------------
(* The server *)

Bulk(x) == <<"$", "1">> \o EOL \o <<x>> \o EOL

\* The bytes of the reply to command n, and the object they stand for.
Bytes(n, shape) ==
    LET d == ToString(n)
    IN  CASE shape = "hmget"   -> <<"*", "2">> \o EOL \o Bulk(d) \o <<"$", "-", "1">> \o EOL
          [] shape = "hgetall" -> <<"*", "2">> \o EOL \o Bulk("f") \o Bulk(d)
          [] shape = "hmset"   -> <<"+", d>> \o EOL
          [] shape = "wait"    -> <<":", d>> \o EOL
          [] shape = "nested"  -> <<"*", "2">> \o EOL \o <<"*", "0">> \o EOL
                                    \o <<"*", "1">> \o EOL \o <<":", d>> \o EOL
          [] shape = "error"   -> <<"-", d>> \o EOL

Only(o) == <<>> :> o
Meant(n, shape) ==
    LET d == ToString(n)
    IN  CASE shape = "hmget"   -> Only(Array(2)) @@ (<<1>> :> Object("string", <<d>>)) @@ (<<2>> :> Object("nil", 0))
          [] shape = "hgetall" -> Only(Array(2)) @@ (<<1>> :> Object("string", <<"f">>))
                                                 @@ (<<2>> :> Object("string", <<d>>))
          [] shape = "hmset"   -> Only(Object("status", <<d>>))
          [] shape = "wait"    -> Only(Object("integer", n))
          [] shape = "nested"  -> Only(Array(2)) @@ (<<1>> :> Array(0)) @@ (<<2>> :> Array(1))
                                                 @@ (<<2, 1>> :> Object("integer", n))
          [] shape = "error"   -> Only(Object("error", <<d>>))

ServerAnswers ==
    /\ net.open /\ net.up # <<>> /\ nc.pc = "up"
    /\ \E shape \in {cmds[Head(net.up)]} \cup (IF "error" \in Faults THEN {"error"} ELSE {}) :
          net' = [net EXCEPT !.up = Tail(@), !.down = @ \o Bytes(Head(net.up), shape)]
    /\ UNCHANGED <<app, c, nc, cmds, th, left>>

\* The last bytes before the end of the stream: none, one that begins no reply,
\* a reply that nests deeper than the reader goes, or one with an element count
\* that is 0 as an int.
LastBytes ==
    [eof |-> <<>>, garbage |-> <<"?">>,
     deep |-> <<"*", "1">> \o EOL \o <<"*", "1">> \o EOL \o <<"*", "0">> \o EOL,
     huge |-> <<"*", ToString(2 * IntRange)>> \o EOL \o <<"*", "0">> \o EOL]

ServerCloses ==
    /\ net.open /\ nc.pc = "up"
    /\ \E f \in Faults \cap DOMAIN LastBytes : net' = [net EXCEPT !.open = FALSE, !.down = @ \o LastBytes[f]]
    /\ UNCHANGED <<app, c, nc, cmds, th, left>>

-----------------------------------------------------------------------------
Program(t) ==
    \/ Read(t) \/ Update(t) \/ Scan(t)
    \/ redisAppendCommand(t) \/ redisGetReply(t) \/ redisBufferWrite(t) \/ redisBufferRead(t)
    \/ redisSetTimeout(t) \/ redisEnableKeepAlive(t) \/ redisReconnect(t) \/ redisFree(t) \/ redisFreeKeepFd(t)

GoOn(t) == GetPending(t) \/ GetWrite(t) \/ GetRead(t) \/ AppendWait(t) \/ UseReply(t) \/ NoReply(t) \/ ApiUses(t)

Connecting == Resolve \/ (\E what \in Outcomes : Try(what)) \/ ConnectReturns

CtxNext ==
    \/ app = "db" /\ redisConnect(ByRedisDB)
    \/ app = "api" /\ \E f \in Flavours : redisConnect(f)
    \/ Connecting
    \/ \E t \in Threads : Program(t) \/ GoOn(t)
    \/ ServerAnswers \/ ServerCloses

\* When thread t can go on, and that it does.  (These are ENABLED GoOn(t) and
\* GoOn(t) for a step of CtxNext, without parsing the stream once more.)
CanGoOn(t) == /\ th[t].pc \in {"slaves", "get", "write", "read", "use", "failed"}
              /\ th[t].pc = "read" => c.err # "no" \/ net.down # <<>> \/ ReadFails # {}
              /\ th[t].pc = "slaves" => Len(cmds) < MaxCmds
GoesOn(t) == th'[t] # th[t] \/ Len(net'.down) < Len(net.down) \/ Len(c'.obuf) < Len(c.obuf)

\* Weak fairness of the threads in a call: reads return what has come; and of
\* the server, which answers what it was sent.
CtxFairness ==
    /\ \A t \in Threads : []<>~CanGoOn(t) \/ []<><<GoesOn(t)>>_ctxVars
    /\ WF_ctxVars(ServerAnswers)

CtxSpec == CtxInit /\ [][CtxNext]_ctxVars /\ CtxFairness

-----------------------------------------------------------------------------
(* Properties *)

\* Every field the control depends on keeps its type.
CtxTypeOK ==
    /\ c.err \in {"no", "io", "eof", "protocol", "other", "oom", "segv"}
    /\ nc.pc \in {"no", "resolve", "try", "done", "error", "up", "down"}
    /\ \A t \in Threads : th[t].pc \in {"idle", "slaves", "get", "write", "read", "use", "failed", "thrown", "exit", "abort"}

\* However a stream is cut into reads, a reply is handed out complete and as
\* the answer to the oldest command its thread waits for, after reconnections
\* too (read.c:477-525, hiredis.c:870-898, redis_db.cc:28).
OwnReply ==
    \A t \in Threads : th[t].pc = "use" =>
        LET n == Head(th[t].ids) IN th[t].reply \in {Meant(n, cmds[n]), Meant(n, "error")}

\* The reply objects in the hands of threads.
Held == UNION {{t} \X DOMAIN th[t].reply : t \in Threads}

\* The parser stays inside its buffer and its nine tasks, and every reply
\* object is part of the reply being built or is held by a thread: none is
\* lost, none freed twice, whatever fails on the way (read.c:46-70, 190-365,
\* 505-510, hiredis.c:74-189).  What hangs an element outside the vector of its
\* array is an element count that is not positive as an int, and nothing else
\* (read.c:333-345, hiredis.c:134-157).
ReaderExact ==
    /\ CtxTypeOK
    /\ c.reader.pos \in 0 .. Len(c.reader.buf)
    /\ Len(c.reader.stack) \in 0 .. MaxDepth + 1
    /\ c.reader.live = Objects(c.reader.reply) + Cardinality(Held)
    /\ LET s == c.reader.stack
       IN  /\ \A k \in 2 .. Len(s) : s[k - 1].elements > 0 => s[k].idx \in 0 .. s[k - 1].elements - 1
           /\ c.reader.err = "segv" => NoVector(s)

\* The process has no descriptor open but the context's, and close is given a
\* number that is not open only by redisFree or redisReconnect of a context
\* whose reconnection has failed (net.c:60-65, hiredis.c:616-652).
DescriptorsOwned ==
    [][/\ c'.open \subseteq (IF c'.made THEN {c'.fd} ELSE {})
       /\ c'.misses # c.misses => /\ c.made /\ c.err # "no" /\ left < MaxReconnects
                                  /\ c'.made => left' < left]_ctxVars

\* "On error the field error in the returned context will be set"
\* (hiredis.c:671-672), and without one the context is connected, by a socket
\* that blocks if the context does.
ConnectOutcome ==
    /\ nc.pc = "error" => c.err # "no"
    /\ nc.pc = "done" => /\ c.err = "no" /\ "CONNECTED" \in c.flags /\ c.fd \in c.open
                         /\ c.mode = "block" <=> "BLOCK" \in c.flags

\* "Once an error is returned the context cannot be reused" (README.md:90 of
\* hiredis): until a reconnection the error stays and nothing is read or written.
ErrorSticks ==
    [][(c.err # "no" /\ c.made /\ c'.made /\ left' = left) =>
          c'.err # "no" /\ Len(net'.down) >= Len(net.down) /\ Len(net'.up) <= Len(net.up)]_ctxVars

\* A call that waits for a reply returns, or the server owes it one.
CallReturns ==
    \A t \in Threads : (th[t].pc \in {"get", "write", "read"}) ~> (th[t].pc \in {"idle", "use", "failed", "exit", "abort"})
=============================================================================
