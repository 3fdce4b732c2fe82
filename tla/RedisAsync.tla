----------------------------- MODULE RedisAsync ----------------------------
(***************************************************************************)
(* The asynchronous API of hiredis (async.c) on an event loop (the ae      *)
(* adapter; the other adapters keep the same two registrations): commands  *)
(* with callbacks, subscriptions, orderly and disorderly ends.             *)
(*                                                                         *)
(* The loop and the application are one thread.  `pc' is where it is: idle *)
(* in the event loop, in the loop of redisProcessCallbacks, in a callback  *)
(* the library called (run, tearrun, onconnect) or in __redisAsyncFree     *)
(* (tear).  The application may call the library when it is idle and from  *)
(* its callbacks.  A callback is named by the number of its command, 0 is  *)
(* a NULL function.  Replies arrive whole: what part of one has arrived    *)
(* makes no difference here (RedisContext has the parser).                 *)
(***************************************************************************)
EXTENDS Dict

CONSTANTS
    NameLists,      \* what a (P)SUBSCRIBE or (P)UNSUBSCRIBE may list
    PatternNames,   \* the names that are patterns
    Kinds,          \* the kinds of commands the application sends
    MaxCmds,        \* bound on accepted commands
    MaxMessages,    \* bound on published messages and monitor lines
    Faults,         \* which of "eof", "io", "garbage", "refused", "full" may happen
    Careful,        \* the application waits for the answer to an unsubscribe
                    \* before it subscribes again or sends other commands
    CloseInConnect  \* its connect callback may close the connection

VARIABLES
    ac,     \* the fields of redisAsyncContext and redisContext that matter
    ev,     \* the registrations of the adapter
    pc, cb, after, it,  \* the thread: place, locals
    cmds,   \* the commands accepted so far
    up, down, srv,      \* bytes under way, and the server's end
    got,    \* history: what each callback was called with
    subs,   \* history: the callback of each name that is subscribed
    asked,  \* history: the application asked for the end
    close   \* history: how the end came

asyncVars == <<ac, ev, pc, cb, after, it, cmds, up, down, srv, got, subs, asked, close>>

NULL == [type |-> "null"]
Ended == {"DISCONNECTING", "FREEING"}
Pattern(kind) == kind \in {"psubscribe", "punsubscribe", "pmessage"}

Fault(f) == f \in Faults

\* redisAsyncConnect, redisAsyncInitialize, redisAeAttach; the disconnect
\* callback is set.
AsyncInit ==
    /\ ac = [flags |-> {}, err |-> FALSE, onConnect |-> FALSE, obuf |-> <<>>, inbox |-> <<>>, part |-> FALSE,
             replies |-> <<>>, invalid |-> <<>>, channels |-> dictCreate, patterns |-> dictCreate]
    /\ ev = [attached |-> TRUE, reading |-> FALSE, writing |-> FALSE]
    /\ pc = "idle" /\ cb = 0 /\ after = "idle" /\ it = 0
    /\ cmds = <<>> /\ up = <<>> /\ down = <<>>
    /\ srv = [open |-> TRUE, subs |-> {}, monitors |-> {}, sent |-> 0]
    /\ got = <<>> /\ subs = <<>>
    /\ asked = FALSE
    /\ close = [status |-> "none", bad |-> "no"]

addRead  == [ev EXCEPT !.reading = TRUE]    \* redisAeAddRead: idempotent

-----------------------------------------------------------------------------
(* The end: __redisAsyncDisconnect and __redisAsyncFree *)

\* Mutant of BeginDisconnect: pending callbacks may still send commands.
MutBeginDisconnect(a) ==
    /\ ac' = a
    /\ close' = IF ~a.err /\ a.replies # <<>> THEN [close EXCEPT !.bad = "pending"] ELSE close
    /\ pc' = "tear" /\ it' = 1

\* A clean end asserts that nothing is pending; after an error pending
\* callbacks are kept from sending commands.
BeginDisconnect(a) ==
    /\ ac' = IF a.err THEN [a EXCEPT !.flags = @ \cup {"DISCONNECTING"}] ELSE a
    /\ close' = IF ~a.err /\ a.replies # <<>> THEN [close EXCEPT !.bad = "pending"] ELSE close
    /\ pc' = "tear" /\ it' = 1

\* __redisRunCallback, up to the call.
RunCallback(a, c, reply, place) ==
    /\ ac' = [a EXCEPT !.flags = @ \cup {"IN_CALLBACK"}]
    /\ got' = [got EXCEPT ![c] = Append(@, reply)]
    /\ pc' = place

\* Mutant of Subscriptions: the patterns are forgotten.
MutSubscriptions == Entries(ac.channels)

\* The subscriptions in the order in which the two iterators visit them.
Subscriptions == Entries(ac.channels) \o Entries(ac.patterns)

\* One callback of the pending ones: regular, invalid, channels, patterns.
TearCallback ==
    /\ pc = "tear"
    /\ \/ /\ ac.replies # <<>>
          /\ LET a == [ac EXCEPT !.replies = Tail(@)]
             IN  IF Head(ac.replies) = 0 THEN ac' = a /\ UNCHANGED <<got, pc>>
                 ELSE RunCallback(a, Head(ac.replies), NULL, "tearrun")
          /\ UNCHANGED it
       \/ /\ ac.replies = <<>> /\ ac.invalid # <<>>
          /\ LET a == [ac EXCEPT !.invalid = Tail(@)]
             IN  IF Head(ac.invalid) = 0 THEN ac' = a /\ UNCHANGED <<got, pc>>
                 ELSE RunCallback(a, Head(ac.invalid), NULL, "tearrun")
          /\ UNCHANGED it
       \/ /\ ac.replies = <<>> /\ ac.invalid = <<>>
          /\ it <= Len(Subscriptions)
          /\ IF Subscriptions[it].val = 0 THEN UNCHANGED <<ac, got, pc>>
             ELSE RunCallback(ac, Subscriptions[it].val, NULL, "tearrun")
          /\ it' = it + 1
    /\ UNCHANGED <<ev, cb, after, cmds, up, down, srv, subs, asked, close>>

\* Mutant of Status: whatever was asked for, an error is reported.
MutStatus == IF ac.err \/ "DISCONNECTING" \notin ac.flags THEN "err" ELSE "ok"

\* What the disconnect callback is called with.
Status == IF "FREEING" \in ac.flags \/ ~ac.err THEN "ok" ELSE "err"

\* Clean up the adapter, the disconnect callback, redisFree.
TearEnd ==
    /\ pc = "tear" /\ ac.replies = <<>> /\ ac.invalid = <<>>
    /\ it > Len(Subscriptions)
    /\ ev' = [attached |-> FALSE, reading |-> FALSE, writing |-> FALSE]
    /\ close' = [close EXCEPT
            !.status = IF "CONNECTED" \in ac.flags THEN Status ELSE @,
            !.bad = IF after # "idle" THEN "useafterfree" ELSE @]
    /\ pc' = "freed"
    /\ UNCHANGED <<ac, cb, after, it, cmds, up, down, srv, got, subs, asked>>

-----------------------------------------------------------------------------
(* What the application calls *)

Places == {"idle", "run", "tearrun", "onconnect"}
MayClose == pc \in Places /\ (pc = "onconnect" => CloseInConnect)

SetConnectCallback ==
    /\ pc = "idle" /\ ~ac.onConnect
    /\ Careful => cmds = <<>> /\ ac.flags = {}
    /\ ac' = [ac EXCEPT !.onConnect = TRUE]
    /\ ev' = [ev EXCEPT !.writing = TRUE]
    /\ UNCHANGED <<pc, cb, after, it, cmds, up, down, srv, got, subs, asked, close>>

redisAsyncFree ==
    /\ MayClose
    /\ ac' = [ac EXCEPT !.flags = @ \cup {"FREEING"}]
    /\ IF "IN_CALLBACK" \in ac.flags THEN UNCHANGED <<pc, it>> ELSE pc' = "tear" /\ it' = 1
    /\ asked' = TRUE
    /\ UNCHANGED <<ev, cb, after, cmds, up, down, srv, got, subs, close>>

\* Mutant of redisAsyncDisconnect: does not wait for the pending replies.
MutDisconnect ==
    /\ MayClose
    /\ LET a == [ac EXCEPT !.flags = @ \cup {"DISCONNECTING"}]
       IN  IF "IN_CALLBACK" \notin ac.flags THEN BeginDisconnect(a)
           ELSE ac' = a /\ UNCHANGED <<pc, it, close>>
    /\ asked' = TRUE
    /\ UNCHANGED <<ev, cb, after, cmds, up, down, srv, got, subs>>

redisAsyncDisconnect ==
    /\ MayClose
    /\ LET a == [ac EXCEPT !.flags = @ \cup {"DISCONNECTING"}]
       IN  IF "IN_CALLBACK" \notin ac.flags /\ ac.replies = <<>> THEN BeginDisconnect(a)
           ELSE ac' = a /\ UNCHANGED <<pc, it, close>>
    /\ asked' = TRUE
    /\ UNCHANGED <<ev, cb, after, cmds, up, down, srv, got, subs>>

Subscribes(c)   == c.kind \in {"subscribe", "psubscribe"}
Unsubscribes(c) == c.kind \in {"unsubscribe", "punsubscribe"}

\* The names whose unsubscribe was sent and is not answered.
Unsubscribing ==
    {n \in DOMAIN subs : \E i \in DOMAIN cmds :
        /\ Unsubscribes(cmds[i]) /\ n \in ToSet(cmds[i].names)
        /\ \A j \in (i + 1) .. Len(cmds) : Subscribes(cmds[j]) => n \notin ToSet(cmds[j].names)}

\* How a careful application uses subscriptions.
Sensible(kind, names) ==
    CASE kind = "plain" -> "SUBSCRIBED" \notin ac.flags /\ "MONITORING" \notin ac.flags
      [] kind = "monitor" -> /\ "SUBSCRIBED" \notin ac.flags /\ "MONITORING" \notin ac.flags
                             /\ ac.replies = <<>> /\ pc = "idle"
      [] kind \in {"subscribe", "psubscribe"} -> Unsubscribing = {} /\ "MONITORING" \notin ac.flags
      [] OTHER -> /\ ToSet(names) \cap Unsubscribing = {}
                  /\ \A n \in ToSet(names) :
                        HasKey(IF Pattern(kind) THEN ac.patterns ELSE ac.channels, n)

\* Mutant of Pending: the new callback becomes the head of the list.
MutPending(a, fn) == [a EXCEPT !.replies = <<fn>> \o @]

\* __redisPushCallback on the list of regular replies.
Pending(a, fn) == [a EXCEPT !.replies = Append(@, fn)]

\* __redisAsyncCommand once the command is known; fn is i, or 0 for NULL.
Accept(kind, names, fn) ==
    LET table == IF Pattern(kind) THEN ac.patterns ELSE ac.channels
        added == FoldLeft(LAMBDA d, n : dictReplace(d, n, fn), table, names)
        a     == [ac EXCEPT !.obuf = Append(@, Len(cmds) + 1)]
    IN  CASE kind = "subscribe"  -> [a EXCEPT !.flags = @ \cup {"SUBSCRIBED"}, !.channels = added]
          [] kind = "psubscribe" -> [a EXCEPT !.flags = @ \cup {"SUBSCRIBED"}, !.patterns = added]
          [] kind \in {"unsubscribe", "punsubscribe"} -> a
          [] kind = "monitor"    -> Pending([a EXCEPT !.flags = @ \cup {"MONITORING"}], fn)
          [] OTHER -> IF "SUBSCRIBED" \in ac.flags THEN [a EXCEPT !.invalid = Append(@, fn)]
                      ELSE Pending(a, fn)

redisAsyncCommand(kind, names, silent) ==
    /\ pc \in Places /\ Len(cmds) < MaxCmds
    /\ Careful => Sensible(kind, names)
    /\ ac.flags \cap Ended = {}                                 \* or REDIS_ERR
    /\ kind \in {"unsubscribe", "punsubscribe"} => "SUBSCRIBED" \in ac.flags
    /\ LET i == Len(cmds) + 1
           fn == IF silent THEN 0 ELSE i
       IN  /\ ac' = Accept(kind, names, fn)
           /\ cmds' = Append(cmds, [kind |-> kind, names |-> names, silent |-> silent])
           /\ got' = Append(got, <<>>)
           /\ subs' = IF kind \in {"subscribe", "psubscribe"}
                      THEN [n \in DOMAIN subs \cup ToSet(names) |-> IF n \in ToSet(names) THEN fn ELSE subs[n]]
                      ELSE subs
    /\ ev' = [ev EXCEPT !.writing = TRUE]
    /\ UNCHANGED <<pc, cb, after, it, up, down, srv, close, asked>>

\* A callback returns.
Return ==
    /\ pc \in {"run", "tearrun"}
    /\ ac' = [ac EXCEPT !.flags = @ \ {"IN_CALLBACK"}]
    /\ IF pc = "tearrun" THEN pc' = "tear" /\ UNCHANGED it
       ELSE IF "FREEING" \in ac.flags THEN pc' = "tear" /\ it' = 1
       ELSE pc' = "loop" /\ UNCHANGED it
    /\ UNCHANGED <<ev, cb, after, cmds, up, down, srv, got, subs, asked, close>>

-----------------------------------------------------------------------------
(* redisProcessCallbacks *)

\* __redisGetSubscribeCallback: the callback, the tables and the flags after
\* the reply.  A name that is not in its table leaves cb as it was.
SubscribeCallback(reply) ==
    LET table == IF Pattern(reply.kind) THEN ac.patterns ELSE ac.channels
        known == HasKey(table, reply.name)
        gone  == known /\ reply.kind \in {"unsubscribe", "punsubscribe"}
        less  == dictDelete(table, reply.name)
        fl    == IF gone /\ reply.count = 0 THEN ac.flags \ {"SUBSCRIBED"} ELSE ac.flags
    IN  IF reply.type # "array"
        THEN IF ac.invalid = <<>> THEN [cb |-> cb, ac |-> ac]
             ELSE [cb |-> Head(ac.invalid), ac |-> [ac EXCEPT !.invalid = Tail(@)]]
        ELSE [cb |-> IF known THEN dictFind(table, reply.name) ELSE cb,
              ac |-> IF ~gone THEN ac
                     ELSE IF Pattern(reply.kind) THEN [ac EXCEPT !.patterns = less, !.flags = fl]
                     ELSE [ac EXCEPT !.channels = less, !.flags = fl]]

\* Call the callback of a reply, or drop the reply.
Dispatch(a, c, reply) ==
    /\ cb' = c
    /\ IF c # 0 THEN RunCallback([a EXCEPT !.inbox = Tail(@)], c, reply, "run")
       ELSE ac' = [a EXCEPT !.inbox = Tail(@)] /\ UNCHANGED <<got, pc>>

ProcessReply ==
    /\ pc = "loop" /\ ac.inbox # <<>>
    /\ LET reply == Head(ac.inbox)
           found == SubscribeCallback(reply)
       IN  \/ /\ reply.type = "garbage"                 \* the reader reports an error
              /\ BeginDisconnect([ac EXCEPT !.err = TRUE, !.inbox = <<>>])
              /\ UNCHANGED <<cb, got, subs>>
           \/ /\ reply.type # "garbage" /\ ac.replies # <<>>
              /\ Dispatch([ac EXCEPT !.replies = Tail(@)], Head(ac.replies), reply)
              /\ UNCHANGED <<it, subs, close>>
           \/ /\ ac.replies = <<>> /\ reply.type = "error"
              /\ BeginDisconnect([ac EXCEPT !.err = TRUE, !.inbox = Tail(@)])
              /\ UNCHANGED <<cb, got, subs>>
           \/ /\ ac.replies = <<>> /\ reply.type \notin {"error", "garbage"}
              /\ ac.flags \cap {"SUBSCRIBED", "MONITORING"} = {}
              /\ close' = [close EXCEPT !.bad = "unexpected"] /\ pc' = "freed"
              /\ UNCHANGED <<ac, cb, it, got, subs>>
           \/ /\ ac.replies = <<>> /\ reply.type \notin {"error", "garbage"}
              /\ "SUBSCRIBED" \in ac.flags
              /\ Dispatch(found.ac, found.cb, reply)
              /\ subs' = IF reply.type = "array" /\ reply.kind \in {"unsubscribe", "punsubscribe"}
                         THEN [n \in DOMAIN subs \ {reply.name} |-> subs[n]] ELSE subs
              /\ UNCHANGED <<it, close>>
           \/ /\ ac.replies = <<>> /\ reply.type \notin {"error", "garbage"}
              /\ "SUBSCRIBED" \notin ac.flags /\ "MONITORING" \in ac.flags
              /\ Dispatch(ac, cb, reply)
              /\ UNCHANGED <<it, subs, close>>
    /\ UNCHANGED <<ev, after, cmds, up, down, srv, asked>>

\* Mutant of Cue: subscriptions are waited for as well.
MutCue == "DISCONNECTING" \in ac.flags /\ ac.obuf = <<>> /\ ac.replies = <<>> /\ Subscriptions = <<>>

\* "When the connection is being disconnected and there are no more replies,
\* this is the cue to really disconnect."
Cue == "DISCONNECTING" \in ac.flags /\ ac.obuf = <<>> /\ ac.replies = <<>>

\* No more replies: the cue to disconnect, or back to the event loop.
ProcessNone ==
    /\ pc = "loop" /\ ac.inbox = <<>>
    /\ IF Cue THEN BeginDisconnect(ac)
       ELSE /\ ac' = IF "MONITORING" \in ac.flags THEN Pending(ac, cb) ELSE ac
            /\ pc' = "idle" /\ UNCHANGED <<it, close>>
    /\ UNCHANGED <<ev, cb, after, cmds, up, down, srv, got, subs, asked>>

-----------------------------------------------------------------------------
(* Events *)

Readable == down # <<>> \/ ~srv.open
Event(e) == pc = "idle" /\ ev.attached /\ (IF e = "read" THEN ev.reading /\ Readable ELSE ev.writing)

\* __redisAsyncHandleConnect, from the first event.  (While connect(2) is
\* still in progress nothing changes.)
HandleConnect(e) ==
    /\ Event(e) /\ "CONNECTED" \notin ac.flags
    /\ \/ /\ ac' = [ac EXCEPT !.flags = @ \cup {"CONNECTED"}]
          /\ IF ac.onConnect THEN pc' = "onconnect" ELSE pc' = e
          /\ after' = e
          /\ UNCHANGED <<it, close>>
       \/ /\ Fault("refused")
          /\ LET a == [ac EXCEPT !.err = TRUE]
             IN  IF ac.onConnect THEN ac' = a /\ pc' = "onconnect" /\ after' = "refused" /\ UNCHANGED <<it, close>>
                 ELSE BeginDisconnect(a) /\ UNCHANGED after
    /\ UNCHANGED <<ev, cb, cmds, up, down, srv, got, subs, asked>>

\* The connect callback returns to the handler that called it.
ConnectReturn ==
    /\ pc = "onconnect"
    /\ IF after = "refused" THEN BeginDisconnect(ac) /\ after' = "idle"
       ELSE pc' = after /\ UNCHANGED <<ac, after, it, close>>
    /\ UNCHANGED <<ev, cb, cmds, up, down, srv, got, subs, asked>>

In(e) == \/ Event(e) /\ "CONNECTED" \in ac.flags
         \/ pc = e

\* redisAsyncHandleRead: n whole replies arrive, or the end of the stream.
\* Bound: one read ends inside a reply before the rest of it comes.
HandleRead ==
    /\ In("read") /\ after' = "idle"
    /\ \/ \E n \in 0 .. Len(down) :
             /\ n = 0 => ~ac.part /\ down # <<>>
             /\ ac' = [ac EXCEPT !.inbox = @ \o SubSeq(down, 1, n), !.part = n = 0]
             /\ down' = SubSeq(down, n + 1, Len(down))
             /\ ev' = addRead /\ pc' = "loop" /\ cb' = 0
             /\ UNCHANGED <<it, close>>
       \/ /\ ~srv.open /\ (down = <<>> \/ Fault("io"))   \* end of file, or reset
          /\ BeginDisconnect([ac EXCEPT !.err = TRUE])
          /\ UNCHANGED <<down, ev, cb>>
    /\ UNCHANGED <<cmds, up, srv, got, subs, asked>>

\* Mutant of Watch: nobody reads.
MutWatchIn(n) == [ev EXCEPT !.writing = n < Len(ac.obuf)]

\* The registrations once n commands of the output were written.
Watch(n) == [addRead EXCEPT !.writing = n < Len(ac.obuf)]

\* redisAsyncHandleWrite: a part of the output buffer, all of it, or an error.
HandleWrite ==
    /\ In("write") /\ after' = "idle"
    /\ \/ \E n \in 0 .. Len(ac.obuf) :
             /\ n > 0 \/ ac.obuf = <<>>                  \* EAGAIN changes nothing
             /\ ac' = [ac EXCEPT !.obuf = SubSeq(@, n + 1, Len(@))]
             /\ up' = up \o SubSeq(ac.obuf, 1, n)
             /\ ev' = Watch(n)
             /\ pc' = "idle" /\ UNCHANGED <<it, close>>
       \/ /\ Fault("io") /\ ~srv.open /\ ac.obuf # <<>>
          /\ BeginDisconnect([ac EXCEPT !.err = TRUE])
          /\ UNCHANGED <<up, ev>>
    /\ UNCHANGED <<cb, cmds, down, srv, got, subs, asked>>

-----------------------------------------------------------------------------
(* The server *)

Answer(i) ==
    LET c  == cmds[i]
        on(S, k) == S \cup {c.names[j] : j \in 1 .. k}
        off(S, k) == S \ {c.names[j] : j \in 1 .. k}
        line(S, k) == [type |-> "array", kind |-> c.kind, name |-> c.names[k], count |-> Cardinality(S)]
    IN  CASE c.kind \in {"subscribe", "psubscribe"} ->
               [subs |-> on(srv.subs, Len(c.names)),
                out  |-> [k \in DOMAIN c.names |-> line(on(srv.subs, k), k)]]
          [] c.kind \in {"unsubscribe", "punsubscribe"} ->
               [subs |-> off(srv.subs, Len(c.names)),
                out  |-> [k \in DOMAIN c.names |-> line(off(srv.subs, k), k)]]
          [] OTHER -> [subs |-> srv.subs,
                       out  |-> <<[type |-> IF srv.subs = {} THEN "ok" ELSE "error", of |-> i]>>]

ServerAnswers ==
    /\ up # <<>> /\ srv.open
    /\ LET a == Answer(Head(up))
       IN  /\ down' = down \o a.out
           /\ srv' = [srv EXCEPT !.subs = a.subs,
                                 !.monitors = IF cmds[Head(up)].kind = "monitor" THEN @ \cup {Head(up)} ELSE @]
    /\ up' = Tail(up)
    /\ UNCHANGED <<ac, ev, pc, cb, after, it, cmds, got, subs, asked, close>>

\* A published message, or a line for a monitor.
ServerSends ==
    /\ srv.open /\ srv.sent < MaxMessages
    /\ \/ \E n \in srv.subs : \E k \in {"message", "pmessage"} :
             /\ k = "pmessage" <=> n \in PatternNames
             /\ down' = Append(down, [type |-> "array", kind |-> k, name |-> n, count |-> 1])
       \/ /\ srv.monitors # {}
          /\ down' = Append(down, [type |-> "line", of |-> Max(srv.monitors)])
    /\ srv' = [srv EXCEPT !.sent = @ + 1]
    /\ UNCHANGED <<ac, ev, pc, cb, after, it, cmds, up, got, subs, asked, close>>

\* It closes the connection: silently, with an error (too many clients), or
\* after bytes that are no reply.
ServerCloses ==
    /\ srv.open
    /\ \/ Fault("eof") /\ UNCHANGED down
       \/ Fault("full") /\ up = <<>> /\ cmds = <<>> /\ down' = Append(down, [type |-> "error", of |-> 0])
       \/ Fault("garbage") /\ down' = Append(down, [type |-> "garbage"])
    /\ srv' = [srv EXCEPT !.open = FALSE]
    /\ UNCHANGED <<ac, ev, pc, cb, after, it, cmds, up, got, subs, asked, close>>

-----------------------------------------------------------------------------
\* What each kind of command may list.
Lists(kind) ==
    IF kind \in {"plain", "monitor"} THEN {<<>>}
    ELSE {l \in NameLists : \A n \in ToSet(l) : n \in PatternNames <=> Pattern(kind)}

App ==
    \/ SetConnectCallback \/ redisAsyncFree \/ redisAsyncDisconnect
    \/ \E kind \in Kinds : \E names \in Lists(kind) : \E silent \in BOOLEAN :
          (silent => kind = "plain") /\ redisAsyncCommand(kind, names, silent)

Library ==
    \/ TearCallback \/ TearEnd \/ Return \/ ProcessReply \/ ProcessNone \/ ConnectReturn
    \/ HandleRead \/ HandleWrite
    \/ \E e \in {"read", "write"} : HandleConnect(e)

AsyncNext == App \/ Library \/ ServerAnswers \/ ServerSends \/ ServerCloses

\* Callbacks return and the thread goes on; the event loop delivers events,
\* and reads and writes make progress; the server answers.
AsyncFairness ==
    /\ WF_asyncVars(TearCallback \/ TearEnd \/ Return \/ ProcessReply \/ ProcessNone \/ ConnectReturn)
    /\ WF_asyncVars(\E e \in {"read", "write"} : HandleConnect(e))
    /\ WF_asyncVars(HandleRead /\ (down' # down \/ ac'.err))
    /\ WF_asyncVars(HandleWrite)
    /\ WF_asyncVars(ServerAnswers)

AsyncSpec == AsyncInit /\ [][AsyncNext]_asyncVars /\ AsyncFairness

-----------------------------------------------------------------------------
(* Properties *)

\* Every field the control depends on keeps its type.
AsyncTypeOK ==
    /\ ac.flags \subseteq {"CONNECTED", "DISCONNECTING", "FREEING", "IN_CALLBACK", "SUBSCRIBED", "MONITORING"}
    /\ pc \in Places \cup {"loop", "tear", "read", "write", "freed"}
    /\ cb \in 0 .. Len(cmds) /\ Len(got) = Len(cmds)
    /\ ToSet(ac.replies) \cup ToSet(ac.invalid) \cup ToSet(ac.obuf) \cup ToSet(up) \subseteq 0 .. Len(cmds)

\* No assertion of async.c fails and nothing uses the context after it was
\* freed: a clean disconnect finds no pending callback (async.c:340), a reply
\* nobody waits for comes only while subscribed or monitoring (463).
NoCrash == AsyncTypeOK /\ close.bad = "no"

\* Through all growing, replacing and deleting, the two tables are the map of
\* the subscriptions (dict.c; async.c:391-398, 609-618).
TablesAreMap ==
    LET sub(S) == [n \in S |-> subs[n]]
    IN  /\ IsMap(ac.channels, sub(DOMAIN subs \ PatternNames))
        /\ IsMap(ac.patterns, sub(DOMAIN subs \cap PatternNames))

\* A callback is called with the answer to its own command, with messages of
\* the names it was registered for, with the error of a server that refuses
\* the connection (of = 0), or with NULL (async.c:411-489); and the tables that
\* decide it are always the map of the subscriptions.
RightCallback ==
    /\ TablesAreMap
    /\ \A i \in DOMAIN got : \A k \in DOMAIN got[i] :
           LET r == got[i][k]
           IN  CASE r.type = "null"            -> TRUE
                 [] r.type \in {"ok", "error"} -> r.of = i \/ (r.type = "error" /\ r.of = 0)
                 [] r.type = "line"            -> cmds[i].kind = "monitor"
                 [] OTHER                      -> r.name \in ToSet(cmds[i].names)

\* No callback is forgotten and none is called twice: a plain command's has
\* been called once when the context is freed, never more than once before,
\* and a subscription's is told by a NULL reply (async.c:275-317).
CallbacksOnce ==
    /\ \A i \in DOMAIN got : cmds[i].kind = "plain" => Len(got[i]) <= 1
    /\ (pc = "freed" /\ close.bad = "no") =>
          /\ \A i \in DOMAIN got : (cmds[i].kind = "plain" /\ ~cmds[i].silent) => Len(got[i]) = 1
          /\ \A n \in DOMAIN subs : \E k \in DOMAIN got[subs[n]] : got[subs[n]][k] = NULL

\* The disconnect callback hears REDIS_OK only of an end the application asked
\* for, and REDIS_ERR only of an error (README.md:258-260 of hiredis).
DisconnectStatus ==
    /\ close.status = "ok" => asked
    /\ close.status = "err" => ac.err

\* While the pending callbacks run, none of them can add a command or change
\* the tables that are being walked (async.c:343-344, 592).
TeardownStable ==
    [][(pc \in {"tear", "tearrun"} /\ pc' \in {"tear", "tearrun"}) =>
          /\ ac'.channels = ac.channels /\ ac'.patterns = ac.patterns
          /\ ac'.obuf = ac.obuf /\ Len(ac'.replies) <= Len(ac.replies)]_asyncVars

\* An application that asked for the end gets it (a monitor's connection ends
\* only with the next line).
DisconnectHappens == (asked /\ "MONITORING" \notin ac.flags) ~> (pc = "freed")

\* The callback of every accepted command is called.
EveryCommandAnswered ==
    \A i \in 1 .. MaxCmds :
        (i \in DOMAIN cmds /\ cmds[i].kind = "plain" /\ ~cmds[i].silent)
            ~> (i \in DOMAIN got /\ got[i] # <<>>)
=============================================================================
