-------------------------- MODULE RedisAsyncProofs --------------------------
(***************************************************************************)
(* Theorems about RedisAsync: how a context ends, for every use of the API *)
(* and every server; and that a pipeline of plain commands stays in step.  *)
(***************************************************************************)
EXTENDS RedisAsync, SeqFacts, FiniteSetTheorems

-----------------------------------------------------------------------------
(* The shape of the state *)

AcFields == {"flags", "err", "onConnect", "obuf", "inbox", "part", "replies", "invalid", "channels", "patterns"}

Shape ==
    /\ DOMAIN ac = AcFields
    /\ DOMAIN close = {"status", "bad"}
    /\ ASeq(ac.replies) /\ ASeq(ac.invalid)
    /\ ASeq(cmds) /\ ASeq(got) /\ Len(got) = Len(cmds)
    /\ \A i \in DOMAIN got : ASeq(got[i])

LEMMA ShapeInit == AsyncInit => Shape
BY EmptyIsASeq DEF AsyncInit, Shape, AcFields

\* What got may become when callback x is called.
LEMMA GotStep ==
    ASSUME Shape, NEW x, NEW r
    PROVE  LET g == [got EXCEPT ![x] = Append(@, r)]
           IN  /\ ASeq(g) /\ Len(g) = Len(got) /\ \A i \in DOMAIN g : ASeq(g[i])
               /\ \A i \in DOMAIN got : got[i] # <<>> => g[i] # <<>>
               /\ x \in DOMAIN got => g[x] # <<>>
<1> DEFINE g == [got EXCEPT ![x] = Append(@, r)]
<1>1. Len(got) \in Nat /\ DOMAIN got = 1 .. Len(got)
  BY ASeqLen DEF Shape
<1>2. DOMAIN g = 1 .. Len(got) /\ g = [i \in DOMAIN g |-> g[i]]
  BY <1>1
<1>3. ASeq(g) /\ Len(g) = Len(got)
  BY <1>1, <1>2, AFunction
<1>4. \A i \in DOMAIN got : g[i] = IF i = x THEN Append(got[i], r) ELSE got[i]
  BY <1>1
<1>5. \A i \in DOMAIN got : ASeq(Append(got[i], r)) /\ Append(got[i], r) # <<>>
  BY ASeqAppend DEF Shape
<1> QED BY <1>1, <1>2, <1>3, <1>4, <1>5 DEF Shape

-----------------------------------------------------------------------------
(* What a step does to the lists of callbacks *)

Same == UNCHANGED <<got, cmds>> /\ ac'.replies = ac.replies /\ ac'.invalid = ac.invalid
PopsReply ==
    /\ ac.replies # <<>> /\ ac'.replies = Tail(ac.replies) /\ ac'.invalid = ac.invalid /\ cmds' = cmds
    /\ IF Head(ac.replies) = 0 THEN got' = got
       ELSE \E r : got' = [got EXCEPT ![Head(ac.replies)] = Append(@, r)]
PopsInvalid ==
    /\ ac.invalid # <<>> /\ ac'.invalid = Tail(ac.invalid) /\ ac'.replies = ac.replies /\ cmds' = cmds
    /\ IF Head(ac.invalid) = 0 THEN got' = got
       ELSE \E r : got' = [got EXCEPT ![Head(ac.invalid)] = Append(@, r)]
CallsOther ==
    /\ ac'.replies = ac.replies /\ ac'.invalid = ac.invalid /\ cmds' = cmds
    /\ \E x, r : got' = [got EXCEPT ![x] = Append(@, r)]
Requeues ==
    /\ \E x : ac'.replies = Append(ac.replies, x)
    /\ ac'.invalid = ac.invalid /\ UNCHANGED <<got, cmds>>
Sends ==
    \E kind, names, silent :
        LET fn == IF silent THEN 0 ELSE Len(cmds) + 1
        IN  /\ cmds' = Append(cmds, [kind |-> kind, names |-> names, silent |-> silent])
            /\ got' = Append(got, <<>>)
            /\ \/ ac'.replies = Append(ac.replies, fn) /\ ac'.invalid = ac.invalid
               \/ ac'.replies = ac.replies /\ ac'.invalid = Append(ac.invalid, fn)
               \/ ac'.replies = ac.replies /\ ac'.invalid = ac.invalid /\ kind # "plain"

Fields == DOMAIN ac' = AcFields /\ DOMAIN close' = {"status", "bad"}
Moves == Fields /\ (Same \/ PopsReply \/ PopsInvalid \/ CallsOther \/ Requeues \/ Sends)

LEMMA EndMoves ==
    ASSUME Shape, NEW a, DOMAIN a = AcFields, a.replies = ac.replies, a.invalid = ac.invalid,
           BeginDisconnect(a), UNCHANGED <<got, cmds>>
    PROVE  Moves
BY DEF Shape, BeginDisconnect, Moves, Fields, Same, AcFields

LEMMA AppMoves == ASSUME Shape, App PROVE Moves
<1> USE DEF Shape, AcFields
<1>1. CASE SetConnectCallback
  BY <1>1 DEF SetConnectCallback, Moves, Fields, Same
<1>2. CASE redisAsyncFree
  BY <1>2 DEF redisAsyncFree, Moves, Fields, Same
<1>3. CASE redisAsyncDisconnect
  BY <1>3 DEF redisAsyncDisconnect, BeginDisconnect, Moves, Fields, Same
<1>4. ASSUME NEW kind, NEW names, NEW silent, redisAsyncCommand(kind, names, silent), kind \in Kinds
      PROVE  Moves
  <2>1. /\ cmds' = Append(cmds, [kind |-> kind, names |-> names, silent |-> silent])
        /\ got' = Append(got, <<>>) /\ close' = close
        /\ ac' = Accept(kind, names, IF silent THEN 0 ELSE Len(cmds) + 1)
    BY <1>4 DEF redisAsyncCommand
  <2>2. /\ DOMAIN ac' = AcFields
        /\ \/ ac'.replies = Append(ac.replies, IF silent THEN 0 ELSE Len(cmds) + 1) /\ ac'.invalid = ac.invalid
           \/ ac'.replies = ac.replies /\ ac'.invalid = Append(ac.invalid, IF silent THEN 0 ELSE Len(cmds) + 1)
           \/ ac'.replies = ac.replies /\ ac'.invalid = ac.invalid /\ kind # "plain"
    BY <2>1 DEF Accept, Pending
  <2> QED BY <2>1, <2>2 DEF Moves, Fields, Sends
<1> QED BY <1>1, <1>2, <1>3, <1>4 DEF App

LEMMA TearMoves == ASSUME Shape, TearCallback PROVE Moves
<1> USE DEF Shape, AcFields
<1> DEFINE P == ac.replies # <<>>
           Q == ac.replies = <<>> /\ ac.invalid # <<>>
<1>0. close' = close /\ cmds' = cmds
  BY DEF TearCallback
<1>1. CASE P
  <2>1. IF Head(ac.replies) = 0 THEN ac' = [ac EXCEPT !.replies = Tail(@)] /\ got' = got
        ELSE RunCallback([ac EXCEPT !.replies = Tail(@)], Head(ac.replies), NULL, "tearrun")
    BY <1>1 DEF TearCallback
  <2> QED BY <1>0, <1>1, <2>1 DEF RunCallback, Moves, Fields, PopsReply
<1>2. CASE Q
  <2>1. IF Head(ac.invalid) = 0 THEN ac' = [ac EXCEPT !.invalid = Tail(@)] /\ got' = got
        ELSE RunCallback([ac EXCEPT !.invalid = Tail(@)], Head(ac.invalid), NULL, "tearrun")
    BY <1>2 DEF TearCallback
  <2> QED BY <1>0, <1>2, <2>1 DEF RunCallback, Moves, Fields, PopsInvalid
<1>3. CASE ~P /\ ~Q
  <2>1. IF Subscriptions[it].val = 0 THEN UNCHANGED <<ac, got>>
        ELSE RunCallback(ac, Subscriptions[it].val, NULL, "tearrun")
    BY <1>3 DEF TearCallback
  <2> QED BY <1>0, <2>1 DEF RunCallback, Moves, Fields, CallsOther, Same
<1> QED BY <1>1, <1>2, <1>3

LEMMA ReplyMoves == ASSUME Shape, ProcessReply PROVE Moves
<1> USE DEF Shape, AcFields
<1> DEFINE reply == Head(ac.inbox)
           found == SubscribeCallback(reply)
<1>0. cmds' = cmds
  BY DEF ProcessReply
<1>1. CASE /\ BeginDisconnect([ac EXCEPT !.err = TRUE, !.inbox = <<>>])
           /\ UNCHANGED got
  BY <1>0, <1>1, EndMoves
<1>2. CASE /\ ac.replies # <<>> /\ close' = close
           /\ Dispatch([ac EXCEPT !.replies = Tail(@)], Head(ac.replies), reply)
  BY <1>0, <1>2 DEF Dispatch, RunCallback, Moves, Fields, PopsReply
<1>3. CASE /\ BeginDisconnect([ac EXCEPT !.err = TRUE, !.inbox = Tail(@)])
           /\ UNCHANGED got
  BY <1>0, <1>3, EndMoves
<1>4. CASE close' = [close EXCEPT !.bad = "unexpected"] /\ UNCHANGED <<ac, got>>
  BY <1>0, <1>4 DEF Moves, Fields, Same
<1>5. CASE close' = close /\ Dispatch(found.ac, found.cb, reply)
  <2>1. \/ /\ ac.invalid # <<>> /\ found = [cb |-> Head(ac.invalid), ac |-> [ac EXCEPT !.invalid = Tail(@)]]
        \/ DOMAIN found.ac = AcFields /\ found.ac.replies = ac.replies /\ found.ac.invalid = ac.invalid
    BY DEF SubscribeCallback
  <2>2. CASE ac.invalid # <<>> /\ found = [cb |-> Head(ac.invalid), ac |-> [ac EXCEPT !.invalid = Tail(@)]]
    <3>1. found.ac = [ac EXCEPT !.invalid = Tail(@)] /\ found.cb = Head(ac.invalid)
      BY <2>2
    <3> HIDE DEF found
    <3> QED BY <1>0, <1>5, <2>2, <3>1 DEF Dispatch, RunCallback, Moves, Fields, PopsInvalid
  <2>3. CASE DOMAIN found.ac = AcFields /\ found.ac.replies = ac.replies /\ found.ac.invalid = ac.invalid
    <3> HIDE DEF found
    <3> QED BY <1>0, <1>5, <2>3 DEF Dispatch, RunCallback, Moves, Fields, CallsOther, Same
  <2> QED BY <2>1, <2>2, <2>3
<1>6. CASE close' = close /\ Dispatch(ac, cb, reply)
  BY <1>0, <1>6 DEF Dispatch, RunCallback, Moves, Fields, CallsOther, Same
<1> QED BY <1>1, <1>2, <1>3, <1>4, <1>5, <1>6 DEF ProcessReply

LEMMA LibraryMoves == ASSUME Shape, Library PROVE Moves
<1> USE DEF Shape, AcFields
<1>1. CASE TearCallback
  BY <1>1, TearMoves
<1>2. CASE TearEnd
  BY <1>2 DEF TearEnd, Moves, Fields, Same
<1>3. CASE Return
  BY <1>3 DEF Return, Moves, Fields, Same
<1>4. CASE ProcessReply
  BY <1>4, ReplyMoves
<1>5. CASE ProcessNone
  BY <1>5 DEF ProcessNone, BeginDisconnect, Pending, Moves, Fields, Same, Requeues
<1>6. CASE ConnectReturn
  BY <1>6 DEF ConnectReturn, BeginDisconnect, Moves, Fields, Same
<1>7. CASE HandleRead
  BY <1>7 DEF HandleRead, BeginDisconnect, Moves, Fields, Same
<1>8. CASE HandleWrite
  BY <1>8 DEF HandleWrite, BeginDisconnect, Moves, Fields, Same
<1>9. ASSUME NEW e, HandleConnect(e) PROVE Moves
  BY <1>9 DEF HandleConnect, BeginDisconnect, Moves, Fields, Same
<1> QED BY <1>1, <1>2, <1>3, <1>4, <1>5, <1>6, <1>7, <1>8, <1>9 DEF Library

LEMMA StepMoves == ASSUME Shape, [AsyncNext]_asyncVars PROVE Moves
<1>1. CASE App
  BY <1>1, AppMoves
<1>2. CASE Library
  BY <1>2, LibraryMoves
<1>3. CASE ServerAnswers \/ ServerSends \/ ServerCloses \/ UNCHANGED asyncVars
  BY <1>3 DEF Shape, ServerAnswers, ServerSends, ServerCloses, asyncVars, Moves, Fields, Same
<1> QED BY <1>1, <1>2, <1>3 DEF AsyncNext

GotTyped == ASeq(got) /\ Len(got) = Len(cmds) /\ \A i \in DOMAIN got : ASeq(got[i])

LEMMA GotKept ==
    ASSUME Shape, cmds' = cmds, got' = got \/ \E x, r : got' = [got EXCEPT ![x] = Append(@, r)]
    PROVE  GotTyped'
<1>1. CASE got' = got
  BY <1>1 DEF Shape, GotTyped
<1>2. ASSUME NEW x, NEW r, got' = [got EXCEPT ![x] = Append(@, r)]
      PROVE  GotTyped'
  <2>1. ASeq(got') /\ Len(got') = Len(got) /\ \A i \in DOMAIN got' : ASeq(got'[i])
    BY <1>2, GotStep
  <2> QED BY <2>1 DEF Shape, GotTyped
<1> QED BY <1>1, <1>2

LEMMA ShapeStep == ASSUME Shape, [AsyncNext]_asyncVars PROVE Shape'
<1>0. Moves
  BY StepMoves
<1>1. CASE Same
  BY <1>0, <1>1 DEF Moves, Fields, Shape, Same
<1>2. CASE PopsReply
  <2>1. ASeq(ac'.replies)
    BY <1>2, ASeqTail DEF Shape, PopsReply
  <2>2. GotTyped'
    BY <1>2, GotKept DEF PopsReply
  <2> QED BY <1>0, <1>2, <2>1, <2>2 DEF Moves, Fields, Shape, PopsReply, GotTyped
<1>3. CASE PopsInvalid
  <2>1. ASeq(ac'.invalid)
    BY <1>3, ASeqTail DEF Shape, PopsInvalid
  <2>2. GotTyped'
    BY <1>3, GotKept DEF PopsInvalid
  <2> QED BY <1>0, <1>3, <2>1, <2>2 DEF Moves, Fields, Shape, PopsInvalid, GotTyped
<1>4. CASE CallsOther
  <2>1. GotTyped'
    BY <1>4, GotKept DEF CallsOther
  <2> QED BY <1>0, <1>4, <2>1 DEF Moves, Fields, Shape, CallsOther, GotTyped
<1>5. CASE Requeues
  BY <1>0, <1>5, ASeqAppend DEF Moves, Fields, Shape, Requeues
<1>6. CASE Sends
  <2>0. PICK c, x : /\ cmds' = Append(cmds, c)
                    /\ ac'.replies = ac.replies \/ ac'.replies = Append(ac.replies, x)
                    /\ ac'.invalid = ac.invalid \/ ac'.invalid = Append(ac.invalid, x)
    BY <1>6 DEF Sends
  <2>1. ASeq(cmds') /\ Len(cmds') = Len(cmds) + 1 /\ ASeq(ac'.replies) /\ ASeq(ac'.invalid)
    <3>0. ASeq(cmds) /\ ASeq(ac.replies) /\ ASeq(ac.invalid)
      BY DEF Shape
    <3>1. ASeq(Append(cmds, c)) /\ Len(Append(cmds, c)) = Len(cmds) + 1
      BY <3>0, ASeqAppend
    <3>2. ASeq(Append(ac.replies, x)) /\ ASeq(Append(ac.invalid, x))
      BY <3>0, ASeqAppend
    <3>3. ASeq(cmds') /\ Len(cmds') = Len(cmds) + 1
      BY <2>0, <3>1
    <3>4. ASeq(ac'.replies)
      BY <2>0, <3>0, <3>2
    <3>5. ASeq(ac'.invalid)
      BY <2>0, <3>0, <3>2
    <3> QED BY <3>3, <3>4, <3>5
  <2>2. ASeq(got') /\ Len(got') = Len(got) + 1
    BY <1>6, ASeqAppend DEF Shape, Sends
  <2>3. \A i \in DOMAIN got' : ASeq(got'[i])
    <3>1. DOMAIN got = 1 .. Len(got) /\ Len(got) \in Nat /\ DOMAIN got' = 1 .. (Len(got) + 1)
      BY <2>2, ASeqLen DEF Shape
    <3>2. got' = Append(got, <<>>)
      BY <1>6 DEF Sends
    <3>3. \A i \in DOMAIN got' : i \in DOMAIN got \/ i = Len(got) + 1
      BY <3>1
    <3>4. \A i \in DOMAIN got : got'[i] = got[i]
      BY <3>2, ASeqAppend DEF Shape
    <3>5. got'[Len(got) + 1] = <<>>
      BY <3>2, ASeqAppend DEF Shape
    <3> QED BY <3>3, <3>4, <3>5, EmptyIsASeq DEF Shape
  <2> QED BY <1>0, <2>1, <2>2, <2>3 DEF Moves, Fields, Shape
<1> QED BY <1>0, <1>1, <1>2, <1>3, <1>4, <1>5, <1>6 DEF Moves

-----------------------------------------------------------------------------
(* The end *)

\* While callbacks are told of the end a flag says so; an attempt that was
\* refused has an error; a flag is set by the application or by an error.
EndMarked ==
    /\ pc \in {"tear", "tearrun"} => ac.flags \cap Ended # {}
    /\ after \in {"idle", "read", "write", "refused"} /\ (after = "refused" => ac.err = TRUE)
    /\ "FREEING" \in ac.flags => asked
    /\ "DISCONNECTING" \in ac.flags => asked \/ ac.err = TRUE

\* The clean end of __redisAsyncDisconnect finds nothing pending (async.c:340).
CleanEnd == close.bad # "pending"

EndInv == EndMarked /\ CleanEnd /\ DisconnectStatus

LEMMA EndBegins ==
    ASSUME Shape, EndInv, NEW a, DOMAIN a = AcFields, BeginDisconnect(a),
           a.err = TRUE \/ ("DISCONNECTING" \in a.flags /\ a.replies = <<>> /\ a.err = ac.err),
           ac.err = TRUE => a.err = TRUE,
           "FREEING" \in a.flags => asked', "DISCONNECTING" \in a.flags => asked' \/ a.err = TRUE,
           asked => asked', after' \in {after, "idle"}
    PROVE  EndInv'
<1> USE DEF Shape, AcFields
<1>1. /\ pc' = "tear" /\ close'.status = close.status
      /\ close'.bad = close.bad
  BY DEF BeginDisconnect, EndInv, CleanEnd
<1>2. ac'.err = a.err /\ "DISCONNECTING" \in ac'.flags /\ ("FREEING" \in ac'.flags => "FREEING" \in a.flags)
  BY DEF BeginDisconnect
<1> QED BY <1>1, <1>2 DEF EndInv, EndMarked, CleanEnd, DisconnectStatus, Ended

LEMMA EndByError ==
    ASSUME Shape, EndInv, NEW a, DOMAIN a = AcFields, BeginDisconnect(a), a.err = TRUE, a.flags = ac.flags,
           asked' = asked, after' \in {after, "idle"}
    PROVE  EndInv'
<1>1. "FREEING" \in a.flags => asked'
  BY DEF EndInv, EndMarked
<1>2. asked => asked'
  OBVIOUS
<1> QED BY <1>1, <1>2, EndBegins

\* The steps that leave flags, err and close alone, or only add to flags.
LEMMA EndKept ==
    ASSUME Shape, EndInv, ac'.flags \cap (Ended) = ac.flags \cap (Ended), ac'.err = ac.err, asked' = asked,
           close' = close, after' \in {after, "idle", "read", "write"},
           pc' \in {"tear", "tearrun"} => pc \in {"tear", "tearrun"} \/ "FREEING" \in ac.flags
    PROVE  EndInv'
<1>1. ("FREEING" \in ac'.flags <=> "FREEING" \in ac.flags)
      /\ ("DISCONNECTING" \in ac'.flags <=> "DISCONNECTING" \in ac.flags)
  BY DEF Ended
<1> QED BY <1>1 DEF EndInv, EndMarked, CleanEnd, DisconnectStatus, Ended

LEMMA EndApp == ASSUME Shape, EndInv, App PROVE EndInv'
<1> USE DEF Shape, AcFields
<1>1. CASE SetConnectCallback
  BY <1>1, EndKept DEF SetConnectCallback
<1>2. CASE redisAsyncFree
  BY <1>2 DEF redisAsyncFree, EndInv, EndMarked, CleanEnd, DisconnectStatus, Ended
<1>3. CASE redisAsyncDisconnect
  <2> DEFINE a == [ac EXCEPT !.flags = @ \cup {"DISCONNECTING"}]
  <2>1. asked' = TRUE /\ after' = after
    BY <1>3 DEF redisAsyncDisconnect
  <2>2. CASE ac.replies = <<>> /\ BeginDisconnect(a)
    BY <2>1, <2>2, EndBegins DEF EndInv, EndMarked
  <2>3. CASE ac' = a /\ UNCHANGED <<pc, it, close>>
    BY <2>1, <2>3 DEF EndInv, EndMarked, CleanEnd, DisconnectStatus, Ended
  <2> QED BY <1>3, <2>2, <2>3 DEF redisAsyncDisconnect
<1>4. ASSUME NEW kind, NEW names, NEW silent, redisAsyncCommand(kind, names, silent)
      PROVE  EndInv'
  <2>1. /\ pc' = pc /\ after' = after /\ asked' = asked /\ close' = close
        /\ ac' = Accept(kind, names, IF silent THEN 0 ELSE Len(cmds) + 1)
    BY <1>4 DEF redisAsyncCommand
  <2>2. ac'.err = ac.err /\ ac'.flags \cap Ended = ac.flags \cap Ended
    BY <2>1 DEF Accept, Pending, Ended
  <2> QED BY <2>1, <2>2, EndKept
<1> QED BY <1>1, <1>2, <1>3, <1>4 DEF App

LEMMA DispatchKeeps ==
    ASSUME NEW a, DOMAIN a = AcFields, NEW x, NEW r, Dispatch(a, x, r)
    PROVE  /\ DOMAIN ac' = AcFields /\ ac'.err = a.err /\ pc' \in {"run", pc}
           /\ ac'.flags \cap Ended = a.flags \cap Ended
<1>1. CASE x = 0
  BY <1>1 DEF Dispatch, AcFields
<1>2. CASE x # 0
  BY <1>2, ZenonT(30) DEF Dispatch, RunCallback, AcFields, Ended
<1> QED BY <1>1, <1>2

LEMMA EndReply == ASSUME Shape, EndInv, ProcessReply PROVE EndInv'
<1> USE DEF Shape, AcFields
<1> DEFINE reply == Head(ac.inbox)
           found == SubscribeCallback(reply)
<1>0. asked' = asked /\ after' = after /\ pc = "loop"
  BY DEF ProcessReply
<1>1. CASE BeginDisconnect([ac EXCEPT !.err = TRUE, !.inbox = <<>>])
  BY <1>0, <1>1, EndByError
<1>2. CASE close' = close /\ Dispatch([ac EXCEPT !.replies = Tail(@)], Head(ac.replies), reply)
  <2>1. ac'.err = ac.err /\ ac'.flags \cap Ended = ac.flags \cap Ended /\ pc' \in {"run", pc}
    BY <1>2, DispatchKeeps
  <2> QED BY <1>0, <1>2, <2>1, EndKept
<1>3. CASE BeginDisconnect([ac EXCEPT !.err = TRUE, !.inbox = Tail(@)])
  BY <1>0, <1>3, EndByError
<1>4. CASE close' = [close EXCEPT !.bad = "unexpected"] /\ ac' = ac /\ pc' = "freed"
  BY <1>0, <1>4 DEF EndInv, EndMarked, CleanEnd, DisconnectStatus
<1>5. CASE close' = close /\ Dispatch(found.ac, found.cb, reply)
  <2>1. DOMAIN found.ac = AcFields /\ found.ac.err = ac.err /\ found.ac.flags \cap Ended = ac.flags \cap Ended
    BY DEF SubscribeCallback, Ended
  <2> HIDE DEF found
  <2>2. ac'.err = ac.err /\ ac'.flags \cap Ended = ac.flags \cap Ended /\ pc' \in {"run", pc}
    BY <1>5, <2>1, DispatchKeeps
  <2> QED BY <1>0, <1>5, <2>2, EndKept
<1>6. CASE close' = close /\ Dispatch(ac, cb, reply)
  <2>1. ac'.err = ac.err /\ ac'.flags \cap Ended = ac.flags \cap Ended /\ pc' \in {"run", pc}
    BY <1>6, DispatchKeeps
  <2> QED BY <1>0, <1>6, <2>1, EndKept
<1> QED BY <1>1, <1>2, <1>3, <1>4, <1>5, <1>6 DEF ProcessReply

LEMMA EndLibrary == ASSUME Shape, EndInv, Library PROVE EndInv'
<1> USE DEF Shape, AcFields
<1>1. CASE TearCallback
  <2>1. /\ ac'.flags \cap Ended = ac.flags \cap Ended /\ ac'.err = ac.err
        /\ pc = "tear" /\ close' = close /\ asked' = asked /\ after' = after
    BY <1>1, ZenonT(30) DEF TearCallback, RunCallback, Ended
  <2> QED BY <2>1, EndKept
<1>2. CASE TearEnd
  BY <1>2 DEF TearEnd, EndInv, EndMarked, CleanEnd, DisconnectStatus, Status, Ended
<1>3. CASE Return
  <2>1. /\ ac'.flags \cap Ended = ac.flags \cap Ended /\ ac'.err = ac.err
        /\ close' = close /\ asked' = asked /\ after' = after
        /\ pc' \in {"tear", "tearrun"} => pc \in {"tear", "tearrun"} \/ "FREEING" \in ac.flags
    BY <1>3 DEF Return, Ended
  <2> QED BY <2>1, EndKept
<1>4. CASE ProcessReply
  BY <1>4, EndReply
<1>5. CASE ProcessNone
  <2>1. CASE Cue
    BY <1>5, <2>1, EndBegins DEF ProcessNone, Cue, EndInv, EndMarked
  <2>2. CASE ~Cue
    BY <1>5, <2>2, EndKept DEF ProcessNone, Pending
  <2> QED BY <2>1, <2>2
<1>6. CASE ConnectReturn
  <2>0. after \in {"idle", "read", "write", "refused"} /\ (after = "refused" => ac.err = TRUE)
    BY DEF EndInv, EndMarked
  <2>1. CASE after = "refused"
    BY <1>6, <2>1, <2>0, EndByError DEF ConnectReturn
  <2>2. CASE after # "refused"
    BY <1>6, <2>2, <2>0, EndKept DEF ConnectReturn
  <2> QED BY <2>1, <2>2
<1>7. CASE HandleRead
  <2>1. asked' = asked /\ after' = "idle"
    BY <1>7 DEF HandleRead
  <2>2. CASE BeginDisconnect([ac EXCEPT !.err = TRUE])
    BY <2>1, <2>2, EndByError
  <2>3. CASE ac'.flags = ac.flags /\ ac'.err = ac.err /\ pc' = "loop" /\ close' = close
    BY <2>1, <2>3, EndKept
  <2> QED BY <1>7, <2>2, <2>3 DEF HandleRead
<1>8. CASE HandleWrite
  <2>1. asked' = asked /\ after' = "idle"
    BY <1>8 DEF HandleWrite
  <2>2. CASE BeginDisconnect([ac EXCEPT !.err = TRUE])
    BY <2>1, <2>2, EndByError
  <2>3. CASE ac'.flags = ac.flags /\ ac'.err = ac.err /\ pc' = "idle" /\ close' = close
    BY <2>1, <2>3, EndKept
  <2> QED BY <1>8, <2>2, <2>3 DEF HandleWrite
<1>9. ASSUME NEW e \in {"read", "write"}, HandleConnect(e) PROVE EndInv'
  <2>1. asked' = asked /\ pc = "idle"
    BY <1>9 DEF HandleConnect, Event
  <2>2. CASE BeginDisconnect([ac EXCEPT !.err = TRUE]) /\ after' = after
    BY <2>1, <2>2, EndByError
  <2>3. CASE /\ ac' = [ac EXCEPT !.flags = @ \cup {"CONNECTED"}] /\ pc' \in {"onconnect", e} /\ close' = close
             /\ after' = e
    BY <2>1, <2>3, EndKept DEF Ended
  <2>4. CASE /\ ac' = [ac EXCEPT !.err = TRUE] /\ pc' = "onconnect" /\ close' = close /\ after' = "refused"
    BY <2>1, <2>4 DEF EndInv, EndMarked, CleanEnd, DisconnectStatus
  <2> QED BY <1>9, <2>2, <2>3, <2>4 DEF HandleConnect
<1> QED BY <1>1, <1>2, <1>3, <1>4, <1>5, <1>6, <1>7, <1>8, <1>9 DEF Library

LEMMA EndStep == ASSUME Shape, EndInv, [AsyncNext]_asyncVars PROVE EndInv'
<1>1. CASE App
  BY <1>1, EndApp
<1>2. CASE Library
  BY <1>2, EndLibrary
<1>3. CASE ServerAnswers \/ ServerSends \/ ServerCloses \/ UNCHANGED asyncVars
  BY <1>3, EndKept DEF ServerAnswers, ServerSends, ServerCloses, asyncVars
<1> QED BY <1>1, <1>2, <1>3 DEF AsyncNext

LEMMA EndHolds == AsyncSpec => [](Shape /\ EndInv)
<1>1. AsyncInit => Shape /\ EndInv
  BY ShapeInit DEF AsyncInit, EndInv, EndMarked, CleanEnd, DisconnectStatus
<1>2. Shape /\ EndInv /\ [AsyncNext]_asyncVars => (Shape /\ EndInv)'
  BY ShapeStep, EndStep
<1> QED BY <1>1, <1>2, PTL DEF AsyncSpec

\* The disconnect callback hears REDIS_OK only of an end that was asked for and
\* REDIS_ERR only of an error, whatever the application, its callbacks and the
\* server do (__redisAsyncFree, async.c:310-314).
THEOREM StatusIsTrue == AsyncSpec => []DisconnectStatus
BY EndHolds, PTL DEF EndInv

-----------------------------------------------------------------------------
(* The tables that are walked *)

Walking == {"tear", "tearrun"}
Still ==
    (pc \in Walking /\ pc' \in Walking) =>
        /\ ac'.channels = ac.channels /\ ac'.patterns = ac.patterns
        /\ ac'.obuf = ac.obuf /\ Len(ac'.replies) <= Len(ac.replies)

LEMMA StillStep == ASSUME Shape, EndInv, [AsyncNext]_asyncVars PROVE Still
<1> USE DEF Shape, AcFields
<1> SUFFICES ASSUME pc \in Walking
             PROVE  /\ ac'.channels = ac.channels /\ ac'.patterns = ac.patterns
                    /\ ac'.obuf = ac.obuf /\ Len(ac'.replies) <= Len(ac.replies)
  BY DEF Still
<1>0. Len(ac.replies) \in Nat
  BY ASeqLen
<1>1. CASE TearCallback
  <2>1. /\ ac'.channels = ac.channels /\ ac'.patterns = ac.patterns /\ ac'.obuf = ac.obuf
        /\ \/ ac'.replies = ac.replies
           \/ ac.replies # <<>> /\ ac'.replies = Tail(ac.replies)
    BY <1>1 DEF TearCallback, RunCallback
  <2> QED BY <1>0, <2>1, ASeqTail
<1>2. CASE TearEnd
  BY <1>0, <1>2 DEF TearEnd
<1>3. CASE Return
  BY <1>0, <1>3 DEF Return
<1>4. CASE redisAsyncFree
  BY <1>0, <1>4 DEF redisAsyncFree
<1>5. CASE redisAsyncDisconnect
  <2>1. /\ ac'.channels = ac.channels /\ ac'.patterns = ac.patterns /\ ac'.obuf = ac.obuf
        /\ ac'.replies = ac.replies
    BY <1>5 DEF redisAsyncDisconnect, BeginDisconnect
  <2> QED BY <1>0, <2>1
<1>6. ASSUME NEW kind, NEW names, NEW silent PROVE ~redisAsyncCommand(kind, names, silent)
  BY DEF Walking, EndInv, EndMarked, redisAsyncCommand
<1>7. CASE ServerAnswers \/ ServerSends \/ ServerCloses \/ UNCHANGED asyncVars
  BY <1>0, <1>7 DEF ServerAnswers, ServerSends, ServerCloses, asyncVars
<1>8. ~ProcessReply /\ ~ProcessNone /\ ~ConnectReturn /\ ~HandleRead /\ ~HandleWrite /\ ~SetConnectCallback
  BY DEF Walking, ProcessReply, ProcessNone, ConnectReturn, HandleRead, HandleWrite, SetConnectCallback, In, Event
<1>9. ASSUME NEW e PROVE ~HandleConnect(e)
  BY DEF Walking, HandleConnect, Event
<1> QED BY <1>1, <1>2, <1>3, <1>4, <1>5, <1>6, <1>7, <1>8, <1>9 DEF AsyncNext, App, Library

\* While __redisAsyncFree tells the callbacks, no callback can send a command,
\* and the tables its iterators walk stay as they are (async.c:275-317, 343-344,
\* 592), for every number of commands, names and callbacks.
THEOREM TeardownIsStable == AsyncSpec => TeardownStable
<1>1. Shape /\ EndInv /\ [AsyncNext]_asyncVars => [Still]_asyncVars
  BY StillStep
<1>2. [Still]_asyncVars <=>
        [(pc \in {"tear", "tearrun"} /\ pc' \in {"tear", "tearrun"}) =>
          /\ ac'.channels = ac.channels /\ ac'.patterns = ac.patterns
          /\ ac'.obuf = ac.obuf /\ Len(ac'.replies) <= Len(ac.replies)]_asyncVars
  BY DEF Still, Walking
<1> QED BY <1>1, <1>2, EndHolds, PTL DEF AsyncSpec, TeardownStable

-----------------------------------------------------------------------------
(* After the end *)

\* Only between the handler's call of the connect callback and its next step
\* is a handler still to go on.
NoneGoesOn ==
    /\ after = "idle" \/ pc \in {"onconnect", "read", "write"}
    /\ close.bad # "useafterfree"

LEMMA GoesOnStep ==
    ASSUME ~CloseInConnect, Shape, EndInv, NoneGoesOn, [AsyncNext]_asyncVars
    PROVE  NoneGoesOn'
<1> USE DEF Shape, AcFields
<1>1. CASE App
  <2>1. ASSUME NEW kind, NEW names, NEW silent, redisAsyncCommand(kind, names, silent)
        PROVE  NoneGoesOn'
    BY <2>1 DEF redisAsyncCommand, NoneGoesOn
  <2>2. CASE redisAsyncFree
    BY <2>2 DEF redisAsyncFree, MayClose, Places, NoneGoesOn
  <2>3. CASE redisAsyncDisconnect
    BY <2>3 DEF redisAsyncDisconnect, BeginDisconnect, MayClose, Places, NoneGoesOn
  <2>4. CASE SetConnectCallback
    BY <2>4 DEF SetConnectCallback, NoneGoesOn
  <2> QED BY <1>1, <2>1, <2>2, <2>3, <2>4 DEF App
<1>2. CASE TearCallback \/ Return
  BY <1>2 DEF TearCallback, Return, RunCallback, NoneGoesOn
<1>3. CASE TearEnd
  BY <1>3 DEF TearEnd, NoneGoesOn
<1>4. CASE ProcessReply
  <2>1. pc = "loop" /\ after' = after
    BY <1>4 DEF ProcessReply
  <2>2. close'.bad \in {close.bad, "pending", "unexpected"}
    BY <1>4 DEF ProcessReply, BeginDisconnect
  <2> QED BY <2>1, <2>2 DEF NoneGoesOn
<1>5. CASE ProcessNone
  BY <1>5 DEF ProcessNone, BeginDisconnect, NoneGoesOn
<1>6. CASE ConnectReturn
  BY <1>6 DEF ConnectReturn, BeginDisconnect, NoneGoesOn, EndInv, EndMarked
<1>7. CASE HandleRead
  BY <1>7 DEF HandleRead, BeginDisconnect, NoneGoesOn
<1>8. CASE HandleWrite
  BY <1>8 DEF HandleWrite, BeginDisconnect, NoneGoesOn
<1>9. ASSUME NEW e \in {"read", "write"}, HandleConnect(e) PROVE NoneGoesOn'
  BY <1>9 DEF HandleConnect, Event, BeginDisconnect, NoneGoesOn
<1>10. CASE ServerAnswers \/ ServerSends \/ ServerCloses \/ UNCHANGED asyncVars
  BY <1>10 DEF ServerAnswers, ServerSends, ServerCloses, asyncVars, NoneGoesOn
<1> QED BY <1>1, <1>2, <1>3, <1>4, <1>5, <1>6, <1>7, <1>8, <1>9, <1>10 DEF AsyncNext, Library

\* If the connect callback does not close the connection, then the context is
\* never used after it was freed, and the assertion of a clean end, that no
\* callback is pending (async.c:340), never fails: what is left of NoCrash is
\* the assertion about replies that nobody waits for.
THEOREM EndIsSafe ==
    ASSUME ~CloseInConnect
    PROVE  AsyncSpec => [](close.bad \notin {"pending", "useafterfree"})
<1>1. AsyncInit => NoneGoesOn
  BY DEF AsyncInit, NoneGoesOn
<1>2. Shape /\ EndInv /\ NoneGoesOn /\ [AsyncNext]_asyncVars => NoneGoesOn'
  BY GoesOnStep
<1>3. EndInv /\ NoneGoesOn => close.bad \notin {"pending", "useafterfree"}
  BY DEF EndInv, CleanEnd, NoneGoesOn
<1> QED BY <1>1, <1>2, <1>3, EndHolds, PTL DEF AsyncSpec

-----------------------------------------------------------------------------
(* No callback is forgotten *)

Answerable(i) == cmds[i].kind = "plain" /\ ~cmds[i].silent

\* The callback of a plain command has been called or is on a list.
Kept ==
    \A i \in DOMAIN cmds : Answerable(i) =>
        got[i] # <<>> \/ i \in ToSet(ac.replies) \/ i \in ToSet(ac.invalid)

\* The lists are empty when the context is freed.
Emptied == pc = "freed" => close.bad = "unexpected" \/ (ac.replies = <<>> /\ ac.invalid = <<>>)

LEMMA KeptStep == ASSUME Shape, Kept, [AsyncNext]_asyncVars PROVE Kept'
<1>0. Moves
  BY StepMoves
<1>a. DOMAIN got = DOMAIN cmds
  BY ASeqLen DEF Shape
<1>1. CASE Same
  BY <1>1 DEF Same, Kept, Answerable
<1>2. CASE PopsReply
  <2>1. /\ cmds' = cmds /\ ac'.invalid = ac.invalid
        /\ ToSet(ac.replies) = {Head(ac.replies)} \cup ToSet(ac'.replies)
    BY <1>2, ASeqTail DEF PopsReply, Shape
  <2>2. CASE Head(ac.replies) = 0
    <3>1. got' = got /\ \A i \in DOMAIN cmds : i # Head(ac.replies)
      BY <1>2, <2>2, ASeqLen DEF PopsReply, Shape
    <3> QED BY <2>1, <3>1 DEF Kept, Answerable
  <2>3. CASE Head(ac.replies) # 0
    <3>1. PICK r : got' = [got EXCEPT ![Head(ac.replies)] = Append(@, r)]
      BY <1>2, <2>3 DEF PopsReply
    <3>2. \A i \in DOMAIN cmds : got[i] # <<>> \/ i = Head(ac.replies) => got'[i] # <<>>
      BY <1>a, <3>1, GotStep
    <3> QED BY <2>1, <3>2 DEF Kept, Answerable
  <2> QED BY <2>2, <2>3
<1>3. CASE PopsInvalid
  <2>1. /\ cmds' = cmds /\ ac'.replies = ac.replies
        /\ ToSet(ac.invalid) = {Head(ac.invalid)} \cup ToSet(ac'.invalid)
    BY <1>3, ASeqTail DEF PopsInvalid, Shape
  <2>2. CASE Head(ac.invalid) = 0
    <3>1. got' = got /\ \A i \in DOMAIN cmds : i # Head(ac.invalid)
      BY <1>3, <2>2, ASeqLen DEF PopsInvalid, Shape
    <3> QED BY <2>1, <3>1 DEF Kept, Answerable
  <2>3. CASE Head(ac.invalid) # 0
    <3>1. PICK r : got' = [got EXCEPT ![Head(ac.invalid)] = Append(@, r)]
      BY <1>3, <2>3 DEF PopsInvalid
    <3>2. \A i \in DOMAIN cmds : got[i] # <<>> \/ i = Head(ac.invalid) => got'[i] # <<>>
      BY <1>a, <3>1, GotStep
    <3> QED BY <2>1, <3>2 DEF Kept, Answerable
  <2> QED BY <2>2, <2>3
<1>4. CASE CallsOther
  <2>1. PICK x, r : got' = [got EXCEPT ![x] = Append(@, r)]
    BY <1>4 DEF CallsOther
  <2>2. \A i \in DOMAIN cmds : got[i] # <<>> => got'[i] # <<>>
    BY <1>a, <2>1, GotStep
  <2> QED BY <1>4, <2>2 DEF CallsOther, Kept, Answerable
<1>5. CASE Requeues
  <2>1. ToSet(ac.replies) \subseteq ToSet(ac'.replies)
    BY <1>5, ASeqAppend DEF Requeues, Shape
  <2> QED BY <1>5, <2>1 DEF Requeues, Kept, Answerable
<1>6. CASE Sends
  <2>1. PICK kind, names, silent :
        LET fn == IF silent THEN 0 ELSE Len(cmds) + 1
        IN  /\ cmds' = Append(cmds, [kind |-> kind, names |-> names, silent |-> silent])
            /\ got' = Append(got, <<>>)
            /\ \/ ac'.replies = Append(ac.replies, fn) /\ ac'.invalid = ac.invalid
               \/ ac'.replies = ac.replies /\ ac'.invalid = Append(ac.invalid, fn)
               \/ ac'.replies = ac.replies /\ ac'.invalid = ac.invalid /\ kind # "plain"
    BY <1>6 DEF Sends
  <2>a. \A x : /\ ToSet(Append(ac.replies, x)) = ToSet(ac.replies) \cup {x}
              /\ ToSet(Append(ac.invalid, x)) = ToSet(ac.invalid) \cup {x}
    BY ASeqAppend DEF Shape
  <2>b. PICK x : /\ ac'.replies = ac.replies \/ ac'.replies = Append(ac.replies, x)
                 /\ ac'.invalid = ac.invalid \/ ac'.invalid = Append(ac.invalid, x)
    BY <2>1
  <2>2. ToSet(ac.replies) \subseteq ToSet(ac'.replies) /\ ToSet(ac.invalid) \subseteq ToSet(ac'.invalid)
    <3>1. ToSet(ac.replies) \subseteq ToSet(ac'.replies)
      BY <2>a, <2>b
    <3>2. ToSet(ac.invalid) \subseteq ToSet(ac'.invalid)
      BY <2>a, <2>b
    <3> QED BY <3>1, <3>2
  <2>3. /\ DOMAIN cmds' = 1 .. (Len(cmds) + 1) /\ DOMAIN cmds = 1 .. Len(cmds) /\ Len(cmds) \in Nat
        /\ \A i \in DOMAIN cmds : cmds'[i] = cmds[i] /\ got'[i] = got[i]
        /\ cmds'[Len(cmds) + 1] = [kind |-> kind, names |-> names, silent |-> silent]
    BY <1>a, <2>1, ASeqAppend, ASeqLen DEF Shape
  <2>4. ASSUME NEW i \in DOMAIN cmds', Answerable(i)'
        PROVE  got'[i] # <<>> \/ i \in ToSet(ac'.replies) \/ i \in ToSet(ac'.invalid)
    <3>1. CASE i \in DOMAIN cmds
      BY <2>2, <2>3, <2>4, <3>1 DEF Kept, Answerable
    <3>2. CASE i = Len(cmds) + 1
      <4>1. kind = "plain" /\ ~silent
        BY <2>3, <2>4, <3>2 DEF Answerable
      <4>2. ac'.replies = Append(ac.replies, i) \/ ac'.invalid = Append(ac.invalid, i)
        BY <2>1, <3>2, <4>1
      <4> QED BY <4>2, <2>a
    <3> QED BY <2>3, <3>1, <3>2
  <2> QED BY <2>4 DEF Kept
<1> QED BY <1>0, <1>1, <1>2, <1>3, <1>4, <1>5, <1>6 DEF Moves

LEMMA EmptiedStep == ASSUME Shape, EndInv, Emptied, [AsyncNext]_asyncVars PROVE Emptied'
<1> USE DEF Shape, AcFields
<1>1. CASE pc = "freed"
  <2>1. ac' = ac /\ close' = close
    <3>1. ~App
      BY <1>1 DEF App, SetConnectCallback, redisAsyncFree, redisAsyncDisconnect, redisAsyncCommand, MayClose, Places
    <3>2. ~Library
      BY <1>1 DEF Library, TearCallback, TearEnd, Return, ProcessReply, ProcessNone, ConnectReturn, HandleRead,
                  HandleWrite, HandleConnect, In, Event
    <3> QED BY <3>1, <3>2 DEF AsyncNext, ServerAnswers, ServerSends, ServerCloses, asyncVars
  <2> QED BY <1>1, <2>1 DEF Emptied
<1>2. CASE pc # "freed" /\ pc' = "freed"
  <2>1. CASE App
    <3>1. ASSUME NEW kind, NEW names, NEW silent PROVE ~redisAsyncCommand(kind, names, silent)
      BY <1>2 DEF redisAsyncCommand
    <3> QED BY <1>2, <2>1, <3>1 DEF App, SetConnectCallback, redisAsyncFree, redisAsyncDisconnect, BeginDisconnect
  <2>2. CASE Library
    <3>1. CASE TearEnd
      BY <3>1 DEF TearEnd, Emptied
    <3>2. CASE ProcessReply
      BY <1>2, <3>2 DEF ProcessReply, BeginDisconnect, Dispatch, RunCallback, Emptied
    <3>3. ~TearCallback /\ ~Return /\ ~ProcessNone /\ ~HandleRead /\ ~HandleWrite
      BY <1>2 DEF TearCallback, Return, ProcessNone, HandleRead, HandleWrite, BeginDisconnect, RunCallback
    <3>4. CASE ConnectReturn
      BY <1>2, <3>4 DEF ConnectReturn, BeginDisconnect, EndInv, EndMarked
    <3>5. ASSUME NEW e \in {"read", "write"} PROVE ~HandleConnect(e)
      BY <1>2 DEF HandleConnect, BeginDisconnect
    <3> QED BY <2>2, <3>1, <3>2, <3>3, <3>4, <3>5 DEF Library
  <2>3. CASE ServerAnswers \/ ServerSends \/ ServerCloses \/ UNCHANGED asyncVars
    BY <1>2, <2>3 DEF ServerAnswers, ServerSends, ServerCloses, asyncVars
  <2> QED BY <2>1, <2>2, <2>3 DEF AsyncNext
<1>3. CASE pc' # "freed"
  BY <1>3 DEF Emptied
<1> QED BY <1>1, <1>2, <1>3

\* The half of CallbacksOnce that says no callback is forgotten: when the
\* context is freed without a failed assertion, the callback of every plain
\* command that has one has been called (async.c:275-317).
THEOREM NoCallbackForgotten ==
    AsyncSpec => [](pc = "freed" /\ close.bad = "no" =>
                       \A i \in DOMAIN cmds : Answerable(i) => got[i] # <<>>)
<1>1. AsyncInit => Kept /\ Emptied
  BY EmptyIsASeq DEF AsyncInit, Kept, Emptied
<1>2. Shape /\ EndInv /\ Kept /\ Emptied /\ [AsyncNext]_asyncVars => (Kept /\ Emptied)'
  BY KeptStep, EmptiedStep
<1>3. Kept /\ Emptied => (pc = "freed" /\ close.bad = "no" =>
                       \A i \in DOMAIN cmds : Answerable(i) => got[i] # <<>>)
  BY EmptyIsASeq DEF Kept, Emptied
<1> QED BY <1>1, <1>2, <1>3, EndHolds, PTL DEF AsyncSpec

-----------------------------------------------------------------------------
(***************************************************************************)
(* A pipeline of plain commands, without subscriptions and monitors: the   *)
(* callbacks on the list of replies, the answers under way and the         *)
(* commands that are not answered are in step.                             *)
(***************************************************************************)

PlainFlags == {"CONNECTED", "DISCONNECTING", "FREEING", "IN_CALLBACK"}

\* Nothing is subscribed and nothing is monitored.
PlainUse ==
    /\ \A i \in DOMAIN cmds : cmds[i].kind = "plain" /\ cmds[i].silent \in BOOLEAN
    /\ ac.flags \subseteq PlainFlags
    /\ ac.invalid = <<>> /\ ac.channels = dictCreate /\ ac.patterns = dictCreate
    /\ subs = <<>>
    /\ DOMAIN srv = {"open", "subs", "monitors", "sent"} /\ srv.subs = {} /\ srv.monitors = {}
    /\ srv.open \in BOOLEAN
    /\ it \in {0, 1} /\ (pc \in Walking => it = 1)
    /\ pc \in Places \cup {"loop", "tear", "read", "write", "freed"}
    /\ after = "refused" \/ after \in {"idle", "read", "write"}

LEMMA NoEntries ==
    ASSUME PlainUse
    PROVE  Entries(dictCreate) = <<>> /\ Subscriptions = <<>> /\ Len(Subscriptions) = 0
<1>1. [i \in 1 .. dictCreate.size |-> dictCreate.table[i - 1]] = <<>>
  BY DEF dictCreate
<1>2. FlattenSeq(<<>>) = <<>>
  BY EmptyIsASeq DEF FlattenSeq
<1>3. Entries(dictCreate) = <<>>
  BY <1>1, <1>2 DEF Entries
<1>4. Subscriptions = <<>> \o <<>>
  BY <1>3 DEF Subscriptions, PlainUse
<1> QED BY <1>3, <1>4

LEMMA PlainCommand ==
    ASSUME Shape, PlainUse, NEW names, NEW silent \in BOOLEAN, redisAsyncCommand("plain", names, silent)
    PROVE  /\ ac' = [ac EXCEPT !.obuf = Append(@, Len(cmds) + 1),
                               !.replies = Append(@, IF silent THEN 0 ELSE Len(cmds) + 1)]
           /\ cmds' = Append(cmds, [kind |-> "plain", names |-> names, silent |-> silent])
           /\ got' = Append(got, <<>>)
           /\ UNCHANGED <<pc, cb, after, it, up, down, srv, subs, close, asked>>
<1>1. /\ ac' = Accept("plain", names, IF silent THEN 0 ELSE Len(cmds) + 1)
      /\ cmds' = Append(cmds, [kind |-> "plain", names |-> names, silent |-> silent])
      /\ got' = Append(got, <<>>)
      /\ UNCHANGED <<pc, cb, after, it, up, down, srv, subs, close, asked>>
  BY DEF redisAsyncCommand
<1>2. "SUBSCRIBED" \notin ac.flags
  BY DEF PlainUse, PlainFlags
<1>3. ac' = Pending([ac EXCEPT !.obuf = Append(@, Len(cmds) + 1)], IF silent THEN 0 ELSE Len(cmds) + 1)
  BY <1>1, <1>2 DEF Accept
<1> QED BY <1>1, <1>3 DEF Pending, Shape, AcFields

LEMMA CmdsGrow ==
    ASSUME Shape, NEW c, cmds' = Append(cmds, c)
    PROVE  /\ Len(cmds) \in Nat /\ Len(cmds') = Len(cmds) + 1
           /\ DOMAIN cmds = 1 .. Len(cmds) /\ DOMAIN cmds' = 1 .. (Len(cmds) + 1)
           /\ DOMAIN cmds' = DOMAIN cmds \cup {Len(cmds) + 1}
           /\ \A i \in DOMAIN cmds : cmds'[i] = cmds[i]
           /\ cmds'[Len(cmds) + 1] = c
<1>1. /\ Len(cmds) \in Nat /\ Len(cmds') = Len(cmds) + 1
      /\ DOMAIN cmds = 1 .. Len(cmds) /\ DOMAIN cmds' = 1 .. (Len(cmds) + 1)
      /\ \A i \in DOMAIN cmds : cmds'[i] = cmds[i]
      /\ cmds'[Len(cmds) + 1] = c
  BY ASeqAppend, ASeqLen DEF Shape
<1>2. 1 .. (Len(cmds) + 1) = (1 .. Len(cmds)) \cup {Len(cmds) + 1}
  BY <1>1
<1> QED BY <1>1, <1>2

LEMMA EndPlain ==
    ASSUME Shape, PlainUse, NEW a, BeginDisconnect(a), DOMAIN a = AcFields, a.flags \subseteq PlainFlags,
           a.invalid = ac.invalid, a.channels = ac.channels, a.patterns = ac.patterns,
           UNCHANGED <<cmds, subs, srv>>, after' \in {after, "idle"}
    PROVE  PlainUse'
<1>1. /\ ac'.flags \subseteq PlainFlags /\ ac'.invalid = ac.invalid /\ ac'.channels = ac.channels
      /\ ac'.patterns = ac.patterns /\ pc' = "tear" /\ it' = 1
  BY DEF BeginDisconnect, AcFields, PlainFlags
<1> QED BY <1>1 DEF PlainUse, Walking, Places

\* The steps that keep tables, commands and the server's side, and go on.
LEMMA PlainKept ==
    ASSUME Shape, PlainUse, ac'.flags \subseteq PlainFlags, ac'.invalid = ac.invalid,
           ac'.channels = ac.channels, ac'.patterns = ac.patterns, UNCHANGED <<cmds, subs, srv>>,
           it' = it \/ it' = 1,
           pc' \in Walking => it' = 1 \/ pc \in Walking,
           pc' \in Places \cup {"loop", "tear", "read", "write", "freed"},
           after' \in {after, "idle", "read", "write", "refused"}
    PROVE  PlainUse'
BY DEF PlainUse

LEMMA RunPlain ==
    ASSUME NEW a, DOMAIN a = AcFields, a.flags \subseteq PlainFlags,
           NEW b, b = a \/ b = [a EXCEPT !.flags = @ \cup {"IN_CALLBACK"}]
    PROVE  /\ b.flags \subseteq PlainFlags /\ b.invalid = a.invalid
           /\ b.channels = a.channels /\ b.patterns = a.patterns
BY DEF AcFields, PlainFlags

LEMMA PlainApp == ASSUME Kinds \subseteq {"plain"}, Shape, PlainUse, App PROVE PlainUse'
<1> USE DEF Shape, AcFields
<1>0. ac.flags \subseteq PlainFlags /\ pc \in Places \cup {"loop", "tear", "read", "write", "freed"}
  BY DEF PlainUse
<1>1. CASE SetConnectCallback
  BY <1>0, <1>1, PlainKept DEF SetConnectCallback, Walking
<1>2. CASE redisAsyncFree
  <2>1. /\ ac'.flags \subseteq PlainFlags /\ ac'.invalid = ac.invalid
        /\ ac'.channels = ac.channels /\ ac'.patterns = ac.patterns /\ UNCHANGED <<cmds, subs, srv, after>>
        /\ \/ pc' = pc /\ it' = it
           \/ pc' = "tear" /\ it' = 1
    BY <1>0, <1>2 DEF redisAsyncFree, PlainFlags
  <2> QED BY <1>0, <2>1, PlainKept DEF Walking
<1>3. CASE redisAsyncDisconnect
  <2> DEFINE a == [ac EXCEPT !.flags = @ \cup {"DISCONNECTING"}]
  <2>1. UNCHANGED <<cmds, subs, srv, after>>
    BY <1>3 DEF redisAsyncDisconnect
  <2>2. CASE BeginDisconnect(a)
    <3>1. a.flags \subseteq PlainFlags
      BY <1>0 DEF PlainFlags
    <3> QED BY <2>1, <2>2, <3>1, EndPlain
  <2>3. CASE ac' = a /\ UNCHANGED <<pc, it, close>>
    <3>1. ac'.flags \subseteq PlainFlags
      BY <1>0, <2>3 DEF PlainFlags
    <3> QED BY <1>0, <2>1, <2>3, <3>1, PlainKept
  <2> QED BY <1>3, <2>2, <2>3 DEF redisAsyncDisconnect
<1>4. ASSUME NEW names, NEW silent \in BOOLEAN, redisAsyncCommand("plain", names, silent)
      PROVE  PlainUse'
  <2>1. PICK c : c = [kind |-> "plain", names |-> names, silent |-> silent]
    OBVIOUS
  <2>2. /\ ac'.flags = ac.flags /\ ac'.invalid = ac.invalid
        /\ ac'.channels = ac.channels /\ ac'.patterns = ac.patterns
        /\ cmds' = Append(cmds, c) /\ UNCHANGED <<pc, after, it, srv, subs>>
    BY <1>4, <2>1, PlainCommand
  <2>3. c.kind = "plain" /\ c.silent \in BOOLEAN
    BY <2>1
  <2>4. \A i \in DOMAIN cmds' : cmds'[i].kind = "plain" /\ cmds'[i].silent \in BOOLEAN
    BY <2>2, <2>3, CmdsGrow DEF PlainUse
  <2> QED BY <2>2, <2>4 DEF PlainUse
<1> QED BY <1>1, <1>2, <1>3, <1>4 DEF App

LEMMA PlainReply == ASSUME Shape, PlainUse, ProcessReply PROVE PlainUse'
<1> USE DEF Shape, AcFields
<1> DEFINE reply == Head(ac.inbox)
           found == SubscribeCallback(reply)
<1>0. UNCHANGED <<cmds, srv, after>> /\ pc = "loop" /\ ac.flags \subseteq PlainFlags
      /\ "SUBSCRIBED" \notin ac.flags /\ "MONITORING" \notin ac.flags
  BY DEF ProcessReply, PlainUse, PlainFlags
<1>1. CASE BeginDisconnect([ac EXCEPT !.err = TRUE, !.inbox = <<>>]) /\ UNCHANGED subs
  BY <1>0, <1>1, EndPlain
<1>2. CASE /\ ac.replies # <<>> /\ UNCHANGED <<it, subs>>
           /\ Dispatch([ac EXCEPT !.replies = Tail(@)], Head(ac.replies), reply)
  <2>1. /\ ac'.flags \subseteq PlainFlags /\ ac'.invalid = ac.invalid
        /\ ac'.channels = ac.channels /\ ac'.patterns = ac.patterns /\ pc' \in {"run", "loop"}
    <3>1. PICK a : a = [[ac EXCEPT !.replies = Tail(@)] EXCEPT !.inbox = Tail(@)]
      OBVIOUS
    <3>2. \/ ac' = a /\ pc' = pc
          \/ ac' = [a EXCEPT !.flags = @ \cup {"IN_CALLBACK"}] /\ pc' = "run"
      BY <1>2, <3>1 DEF Dispatch, RunCallback
    <3>3. /\ a.flags = ac.flags /\ a.invalid = ac.invalid /\ a.channels = ac.channels
          /\ a.patterns = ac.patterns /\ DOMAIN a = AcFields
      BY <3>1
    <3> QED BY <1>0, <3>2, <3>3, RunPlain
  <2> QED BY <1>0, <1>2, <2>1, PlainKept DEF Walking, Places
<1>3. CASE BeginDisconnect([ac EXCEPT !.err = TRUE, !.inbox = Tail(@)]) /\ UNCHANGED subs
  BY <1>0, <1>3, EndPlain
<1>4. CASE pc' = "freed" /\ UNCHANGED <<ac, it, subs>>
  BY <1>0, <1>4, PlainKept DEF Walking
<1> QED BY <1>0, <1>1, <1>2, <1>3, <1>4 DEF ProcessReply

LEMMA PlainLibrary == ASSUME Shape, EndInv, PlainUse, Library PROVE PlainUse'
<1> USE DEF Shape, AcFields
<1>0. /\ ac.flags \subseteq PlainFlags /\ pc \in Places \cup {"loop", "tear", "read", "write", "freed"}
      /\ "MONITORING" \notin ac.flags
  BY DEF PlainUse, PlainFlags
<1>1. CASE TearCallback
  <2>1. UNCHANGED <<cmds, subs, srv, after>> /\ pc = "tear" /\ it = 1
    BY <1>1 DEF TearCallback, PlainUse, Walking
  <2>2. ac.replies # <<>>
    BY <1>1, <2>1, NoEntries DEF TearCallback, PlainUse
  <2>3. it' = it
    BY <1>1, <2>2 DEF TearCallback
  <2>4. /\ ac'.flags \subseteq PlainFlags /\ ac'.invalid = ac.invalid
        /\ ac'.channels = ac.channels /\ ac'.patterns = ac.patterns /\ pc' \in {"tear", "tearrun"}
    <3>1. PICK a : a = [ac EXCEPT !.replies = Tail(@)]
      OBVIOUS
    <3>2. \/ ac' = a /\ pc' = pc
          \/ ac' = [a EXCEPT !.flags = @ \cup {"IN_CALLBACK"}] /\ pc' = "tearrun"
      BY <1>1, <2>2, <3>1 DEF TearCallback, RunCallback
    <3>3. /\ a.flags = ac.flags /\ a.invalid = ac.invalid /\ a.channels = ac.channels
          /\ a.patterns = ac.patterns /\ DOMAIN a = AcFields
      BY <3>1
    <3> QED BY <1>0, <2>1, <3>2, <3>3, RunPlain
  <2> QED BY <2>1, <2>3, <2>4, PlainKept DEF Walking, Places
<1>2. CASE TearEnd
  BY <1>0, <1>2, PlainKept DEF TearEnd, Walking
<1>3. CASE Return
  <2>1. /\ UNCHANGED <<cmds, subs, srv, after>> /\ ac'.flags \subseteq PlainFlags /\ ac'.invalid = ac.invalid
        /\ ac'.channels = ac.channels /\ ac'.patterns = ac.patterns
    BY <1>0, <1>3 DEF Return
  <2>2. \/ pc = "tearrun" /\ pc' = "tear" /\ it' = it
        \/ pc' = "tear" /\ it' = 1
        \/ pc' = "loop" /\ it' = it
    BY <1>3 DEF Return
  <2> QED BY <2>1, <2>2, PlainKept DEF Walking
<1>4. CASE ProcessReply
  BY <1>4, PlainReply
<1>5. CASE ProcessNone
  <2>1. UNCHANGED <<cmds, subs, srv, after>>
    BY <1>5 DEF ProcessNone
  <2>2. CASE BeginDisconnect(ac)
    BY <1>0, <2>1, <2>2, EndPlain
  <2>3. CASE ac' = ac /\ pc' = "idle" /\ it' = it
    BY <1>0, <2>1, <2>3, PlainKept DEF Walking, Places
  <2> QED BY <1>0, <1>5, <2>2, <2>3 DEF ProcessNone
<1>6. CASE ConnectReturn
  <2>1. UNCHANGED <<cmds, subs, srv>>
    BY <1>6 DEF ConnectReturn
  <2>2. CASE BeginDisconnect(ac) /\ after' = "idle"
    BY <1>0, <2>1, <2>2, EndPlain
  <2>3. CASE after # "refused" /\ pc' = after /\ UNCHANGED <<ac, after, it>>
    BY <1>0, <2>1, <2>3, PlainKept DEF Walking, Places, PlainUse
  <2> QED BY <1>6, <2>2, <2>3 DEF ConnectReturn
<1>7. CASE HandleRead
  <2>1. UNCHANGED <<cmds, subs, srv>> /\ after' = "idle"
    BY <1>7 DEF HandleRead
  <2>2. CASE BeginDisconnect([ac EXCEPT !.err = TRUE])
    BY <1>0, <2>1, <2>2, EndPlain
  <2>3. CASE /\ ac'.flags = ac.flags /\ ac'.invalid = ac.invalid
             /\ ac'.channels = ac.channels /\ ac'.patterns = ac.patterns /\ pc' = "loop" /\ it' = it
    BY <1>0, <2>1, <2>3, PlainKept DEF Walking
  <2> QED BY <1>7, <2>2, <2>3 DEF HandleRead
<1>8. CASE HandleWrite
  <2>1. UNCHANGED <<cmds, subs, srv>> /\ after' = "idle"
    BY <1>8 DEF HandleWrite
  <2>2. CASE BeginDisconnect([ac EXCEPT !.err = TRUE])
    BY <1>0, <2>1, <2>2, EndPlain
  <2>3. CASE /\ ac'.flags = ac.flags /\ ac'.invalid = ac.invalid
             /\ ac'.channels = ac.channels /\ ac'.patterns = ac.patterns /\ pc' = "idle" /\ it' = it
    BY <1>0, <2>1, <2>3, PlainKept DEF Walking, Places
  <2> QED BY <1>8, <2>2, <2>3 DEF HandleWrite
<1>9. ASSUME NEW e \in {"read", "write"}, HandleConnect(e) PROVE PlainUse'
  <2>1. UNCHANGED <<cmds, subs, srv>>
    BY <1>9 DEF HandleConnect
  <2>2. CASE BeginDisconnect([ac EXCEPT !.err = TRUE]) /\ after' = after
    BY <1>0, <2>1, <2>2, EndPlain
  <2>3. CASE /\ \/ ac' = [ac EXCEPT !.flags = @ \cup {"CONNECTED"}]
                \/ ac' = [ac EXCEPT !.err = TRUE]
             /\ pc' \in {"onconnect", "read", "write"} /\ it' = it
             /\ after' \in {"read", "write", "refused"}
    <3>1. /\ ac'.flags \subseteq PlainFlags /\ ac'.invalid = ac.invalid
          /\ ac'.channels = ac.channels /\ ac'.patterns = ac.patterns
      BY <1>0, <2>3 DEF PlainFlags
    <3> QED BY <2>1, <2>3, <3>1, PlainKept DEF Walking, Places
  <2> QED BY <1>9, <2>2, <2>3 DEF HandleConnect
<1> QED BY <1>1, <1>2, <1>3, <1>4, <1>5, <1>6, <1>7, <1>8, <1>9 DEF Library

LEMMA PlainAnswer ==
    ASSUME Shape, PlainUse, NEW i \in DOMAIN cmds
    PROVE  Answer(i) = [subs |-> {}, out |-> <<[type |-> "ok", of |-> i]>>]
BY DEF PlainUse, Answer

LEMMA PlainServer ==
    ASSUME Shape, PlainUse, ServerAnswers, Head(up) \in DOMAIN cmds
    PROVE  PlainUse'
<1>1. Answer(Head(up)) = [subs |-> {}, out |-> <<[type |-> "ok", of |-> Head(up)]>>]
  BY PlainAnswer
<1>2. cmds[Head(up)].kind # "monitor"
  BY DEF PlainUse
<1>3. /\ srv' = [srv EXCEPT !.subs = {}, !.monitors = @]
      /\ UNCHANGED <<ac, pc, it, after, cmds, subs>>
  <2>1. /\ srv' = [srv EXCEPT !.subs = Answer(Head(up)).subs, !.monitors = @]
        /\ UNCHANGED <<ac, pc, it, after, cmds, subs>>
    BY <1>2 DEF ServerAnswers
  <2>2. Answer(Head(up)).subs = {}
    BY <1>1
  <2> QED BY <2>1, <2>2
<1>4. DOMAIN srv' = DOMAIN srv /\ srv'.subs = {} /\ srv'.monitors = srv.monitors /\ srv'.open = srv.open
  BY <1>3 DEF PlainUse
<1> QED BY <1>3, <1>4 DEF PlainUse

LEMMA PlainRest ==
    ASSUME Shape, PlainUse, ServerSends \/ ServerCloses \/ UNCHANGED asyncVars
    PROVE  PlainUse'
<1>1. ~ServerSends
  BY DEF ServerSends, PlainUse
<1>2. CASE ServerCloses
  <2>1. srv' = [srv EXCEPT !.open = FALSE] /\ UNCHANGED <<ac, pc, it, after, cmds, subs>>
    BY <1>2 DEF ServerCloses
  <2> QED BY <2>1 DEF PlainUse
<1>3. CASE UNCHANGED asyncVars
  BY <1>3 DEF asyncVars, PlainUse
<1> QED BY <1>1, <1>2, <1>3

Refusal == [type |-> "error", of |-> 0]
OkTo(i) == [type |-> "ok", of |-> i]

\* What the callback of command i may be called with.
Right(i) == {NULL, OkTo(i), Refusal}

\* The callback, the number and the answer of each command.  A server that has
\* closed may have sent an error or garbage before.
Fns == {<<i, IF cmds[i].silent THEN 0 ELSE i>> : i \in DOMAIN cmds}
Nums == {<<i, i>> : i \in DOMAIN cmds}
Answers == {<<i, OkTo(i)>> : i \in DOMAIN cmds}
           \cup (IF srv.open THEN {} ELSE Nat \X {Refusal, [type |-> "garbage"]})

Live == pc \notin {"tear", "tearrun", "freed"}

Queues ==
    /\ ac.obuf \in Seq(1 .. Len(cmds)) /\ up \in Seq(1 .. Len(cmds))
    /\ ASeq(ac.inbox) /\ ASeq(down)
    /\ cb \in 0 .. Len(cmds)

\* The callbacks of the first k commands have been taken from the list; those
\* of the others are on it in order and have not been called.
Waiting(k) ==
    /\ Len(ac.replies) = Len(cmds) - k
    /\ Fits(ac.replies, k, Fns)
    /\ \A i \in DOMAIN got : got[i] = <<>> \/ (i <= k /\ \E r \in Right(i) : got[i] = <<r>>)

\* The answers from k + 1 on have been read, or are on the way, in order; as
\* long as the server is there the commands that follow them are too.
UnderWay(k) ==
    /\ Fits(ac.inbox, k, Answers)
    /\ Fits(down, k + Len(ac.inbox), Answers)
    /\ srv.open => /\ Fits(up, k + Len(ac.inbox) + Len(down), Nums)
                   /\ Fits(ac.obuf, k + Len(ac.inbox) + Len(down) + Len(up), Nums)
                   /\ k + Len(ac.inbox) + Len(down) + Len(up) + Len(ac.obuf) = Len(cmds)

InStep(k) == Waiting(k) /\ (Live => UnderWay(k))
Pipeline == Queues /\ \E k \in 0 .. Len(cmds) : InStep(k)

LEMMA Lengths ==
    ASSUME Shape, Queues
    PROVE  /\ Len(cmds) \in Nat /\ DOMAIN cmds = 1 .. Len(cmds) /\ DOMAIN got = DOMAIN cmds
           /\ Len(ac.inbox) \in Nat /\ Len(down) \in Nat /\ Len(up) \in Nat /\ Len(ac.obuf) \in Nat
           /\ ASeq(up) /\ ASeq(ac.obuf)
<1>1. ASeq(up) /\ ASeq(ac.obuf)
  BY DEF Queues, ASeq
<1> QED BY <1>1, ASeqLen DEF Shape, Queues

\* Steps that leave the callbacks alone, and end or leave the wires alone too.
LEMMA StepQuiet ==
    ASSUME Pipeline, UNCHANGED <<cmds, got, up, down, srv>>, ac'.replies = ac.replies, ac'.obuf = ac.obuf,
           cb' \in {cb, 0}, ASeq(ac'.inbox), ~Live' \/ (Live /\ ac'.inbox = ac.inbox), Shape
    PROVE  Pipeline'
<1>1. PICK k \in 0 .. Len(cmds) : InStep(k)
  BY DEF Pipeline
<1>2. Queues'
  BY Lengths DEF Pipeline, Queues
<1>3. Waiting(k)'
  BY <1>1 DEF InStep, Waiting, Fns, Right, OkTo, Refusal, NULL
<1>4. Live' => UnderWay(k)'
  BY <1>1 DEF InStep, UnderWay, Answers, Nums, OkTo, Refusal
<1> QED BY <1>1, <1>2, <1>3, <1>4 DEF Pipeline, InStep

LEMMA OneLess ==
    ASSUME NEW n \in Nat, NEW m \in Nat \ {0}, NEW k \in Nat, m = n - k
    PROVE  k + 1 \in 1 .. n /\ m - 1 = n - (k + 1)
OBVIOUS

LEMMA OneMore ==
    ASSUME NEW n \in Nat
    PROVE  1 .. n \subseteq 1 .. (n + 1) /\ 0 .. n \subseteq 0 .. (n + 1) /\ n + 1 \in 1 .. (n + 1)
OBVIOUS

LEMMA SumInt ==
    ASSUME NEW i \in Nat, NEW d \in Nat, NEW u \in Nat, NEW k \in Nat
    PROVE  k + i + d + u \in Int
OBVIOUS

LEMMA PartsIn ==
    ASSUME NEW S, NEW s \in Seq(S), NEW n \in 0 .. Len(s)
    PROVE  SubSeq(s, 1, n) \in Seq(S) /\ SubSeq(s, n + 1, Len(s)) \in Seq(S)
OBVIOUS

LEMMA SeqMore ==
    ASSUME NEW S, NEW T, S \subseteq T, NEW s \in Seq(S)
    PROVE  s \in Seq(T)
OBVIOUS

LEMMA WaitingPops ==
    ASSUME Shape, Queues, NEW k \in 0 .. Len(cmds), Waiting(k), ac.replies # <<>>, cmds' = cmds,
           ac'.replies = Tail(ac.replies), NEW r \in Right(k + 1),
           got' = IF Head(ac.replies) = 0 THEN got ELSE [got EXCEPT ![Head(ac.replies)] = Append(@, r)]
    PROVE  k + 1 \in 1 .. Len(cmds) /\ Head(ac.replies) \in {0, k + 1} /\ Waiting(k + 1)'
<1>a. Len(ac.replies) = Len(cmds) - k
  BY Zenon DEF Waiting
<1>b. Fits(ac.replies, k, Fns)
  BY Zenon DEF Waiting
<1>c. \A i \in DOMAIN got : got[i] = <<>> \/ (i <= k /\ \E q \in Right(i) : got[i] = <<q>>)
  BY Zenon DEF Waiting
<1>1. /\ Len(cmds) \in Nat /\ DOMAIN cmds = 1 .. Len(cmds) /\ DOMAIN got = DOMAIN cmds
      /\ Len(ac.replies) \in Nat \ {0} /\ k \in Nat
  BY Lengths, ASeqLen DEF Shape
<1>2. k + 1 \in 1 .. Len(cmds)
  BY <1>a, <1>1, OneLess
<1>3. <<k + 1, Head(ac.replies)>> \in Fns /\ Fits(Tail(ac.replies), k + 1, Fns)
  BY <1>b, <1>1, FitsTail DEF Shape
<1>4. Head(ac.replies) \in {0, k + 1}
  BY <1>3 DEF Fns
<1>5. Len(ac'.replies) = Len(cmds') - (k + 1)
  <2>1. Len(ac'.replies) = Len(ac.replies) - 1
    BY ASeqTail DEF Shape
  <2> QED BY <1>a, <1>1, <2>1, OneLess
<1>6. Fits(ac'.replies, k + 1, Fns')
  BY <1>3 DEF Fns
<1>7. ASSUME NEW i \in DOMAIN got
      PROVE  got'[i] = <<>> \/ (i <= k + 1 /\ \E q \in Right(i) : got'[i] = <<q>>)
  <2>1. i \in Nat /\ (got[i] = <<>> \/ (i <= k /\ \E q \in Right(i) : got[i] = <<q>>))
    BY <1>c, <1>1
  <2>2. CASE got'[i] = got[i]
    BY <1>1, <2>1, <2>2
  <2>3. CASE i = k + 1 /\ got'[i] = Append(got[i], r)
    <3>1. got[i] = <<>>
      BY <1>1, <2>1, <2>3
    <3>2. got'[i] = <<r>>
      BY <2>3, <3>1
    <3> QED BY <1>1, <2>1, <2>3, <3>2
  <2>4. got'[i] = got[i] \/ (i = k + 1 /\ got'[i] = Append(got[i], r))
    BY <1>4
  <2> QED BY <2>2, <2>3, <2>4
<1>8. DOMAIN got' = DOMAIN got
  BY <1>4
<1> QED BY <1>2, <1>4, <1>5, <1>6, <1>7, <1>8 DEF Waiting, Right, OkTo, Refusal, NULL

\* The end takes a callback from the list.
LEMMA StepTear == ASSUME Shape, PlainUse, Pipeline, TearCallback PROVE Pipeline'
<1>1. PICK k \in 0 .. Len(cmds) : InStep(k)
  BY DEF Pipeline
<1>2. ac.replies # <<>>
  <2>1. ac.invalid = <<>> /\ it = 1
    BY DEF TearCallback, PlainUse, Walking
  <2> QED BY <2>1, NoEntries DEF TearCallback
<1>3. PICK a : a = [ac EXCEPT !.replies = Tail(@)]
  OBVIOUS
<1>4. /\ \/ Head(ac.replies) = 0 /\ ac' = a /\ got' = got /\ pc' = "tear"
         \/ Head(ac.replies) # 0 /\ ac' = [a EXCEPT !.flags = @ \cup {"IN_CALLBACK"}] /\ pc' = "tearrun"
            /\ got' = [got EXCEPT ![Head(ac.replies)] = Append(@, NULL)]
      /\ UNCHANGED <<cb, cmds, up, down, srv>>
  BY <1>2, <1>3 DEF TearCallback, RunCallback
<1>5. /\ a.replies = Tail(ac.replies) /\ a.obuf = ac.obuf /\ a.inbox = ac.inbox /\ DOMAIN a = AcFields
  BY <1>3 DEF Shape, AcFields
<1>6. ac'.replies = Tail(ac.replies) /\ ac'.obuf = ac.obuf /\ ac'.inbox = ac.inbox
  BY <1>4, <1>5 DEF AcFields
<1>7. NULL \in Right(k + 1)
  BY DEF Right
<1>8. k + 1 \in 1 .. Len(cmds) /\ Waiting(k + 1)'
  <2>1. got' = IF Head(ac.replies) = 0 THEN got ELSE [got EXCEPT ![Head(ac.replies)] = Append(@, NULL)]
    BY <1>4
  <2> QED BY <1>1, <1>2, <1>4, <1>6, <1>7, <2>1, WaitingPops DEF InStep, Pipeline
<1>9. Queues' /\ ~Live'
  BY <1>4, <1>6 DEF Pipeline, Queues, Live
<1>10. cmds' = cmds /\ k + 1 \in 0 .. Len(cmds)
  BY <1>4, <1>8
<1> QED BY <1>8, <1>9, <1>10 DEF Pipeline, InStep

\* A reply is taken from the reader, and the first callback from the list.
LEMMA StepDispatch ==
    ASSUME Shape, PlainUse, Pipeline, pc = "loop", ac.inbox # <<>>, ac.replies # <<>>,
           Head(ac.inbox).type # "garbage",
           Dispatch([ac EXCEPT !.replies = Tail(@)], Head(ac.replies), Head(ac.inbox)),
           UNCHANGED <<cmds, up, down, srv>>
    PROVE  Pipeline'
<1>0. PICK k \in 0 .. Len(cmds) : InStep(k)
  BY DEF Pipeline
<1>1. Waiting(k) /\ UnderWay(k) /\ Live
  BY <1>0 DEF InStep, Live
<1>2. /\ Len(cmds) \in Nat /\ k \in Nat /\ DOMAIN cmds = 1 .. Len(cmds)
      /\ Len(ac.inbox) \in Nat /\ Len(down) \in Nat /\ Len(up) \in Nat /\ Len(ac.obuf) \in Nat
  BY Lengths DEF Pipeline
<1>3. PICK r : r = Head(ac.inbox)
  OBVIOUS
<1>4. <<k + 1, r>> \in Answers /\ Fits(Tail(ac.inbox), k + 1, Answers)
  BY <1>1, <1>2, <1>3, FitsTail DEF UnderWay, Pipeline, Queues
<1>5. r \in Right(k + 1)
  <2>1. CASE <<k + 1, r>> \in {<<i, OkTo(i)>> : i \in DOMAIN cmds}
    BY <2>1 DEF Right
  <2>2. CASE <<k + 1, r>> \in Nat \X {Refusal, [type |-> "garbage"]}
    BY <1>3, <2>2 DEF Right
  <2> QED BY <1>4, <2>1, <2>2 DEF Answers
<1>6. PICK a : a = [[ac EXCEPT !.replies = Tail(@)] EXCEPT !.inbox = Tail(@)]
  OBVIOUS
<1>7. /\ \/ Head(ac.replies) = 0 /\ ac' = a /\ got' = got /\ pc' = "loop"
         \/ Head(ac.replies) # 0 /\ ac' = [a EXCEPT !.flags = @ \cup {"IN_CALLBACK"}] /\ pc' = "run"
            /\ got' = [got EXCEPT ![Head(ac.replies)] = Append(@, r)]
      /\ cb' = Head(ac.replies)
  BY <1>3, <1>6 DEF Dispatch, RunCallback
<1>8. /\ a.replies = Tail(ac.replies) /\ a.obuf = ac.obuf /\ a.inbox = Tail(ac.inbox) /\ DOMAIN a = AcFields
  BY <1>6 DEF Shape, AcFields
<1>9. ac'.replies = Tail(ac.replies) /\ ac'.obuf = ac.obuf /\ ac'.inbox = Tail(ac.inbox)
  BY <1>7, <1>8 DEF AcFields
<1>10. k + 1 \in 1 .. Len(cmds) /\ Head(ac.replies) \in {0, k + 1} /\ Waiting(k + 1)'
  <2>1. got' = IF Head(ac.replies) = 0 THEN got ELSE [got EXCEPT ![Head(ac.replies)] = Append(@, r)]
    BY <1>7
  <2> QED BY <1>1, <1>5, <1>9, <2>1, WaitingPops DEF Pipeline
<1>11. ASeq(ac'.inbox) /\ Len(ac'.inbox) = Len(ac.inbox) - 1
  BY <1>9, ASeqTail DEF Pipeline, Queues
<1>12. Queues'
  BY <1>2, <1>7, <1>9, <1>10, <1>11 DEF Pipeline, Queues
<1>13. (k + 1) + Len(ac'.inbox) = k + Len(ac.inbox)
  BY <1>2, <1>11
<1>14. UnderWay(k + 1)'
  <2>1. Answers' = Answers /\ Nums' = Nums
    BY DEF Answers, Nums, OkTo, Refusal
  <2> QED BY <1>1, <1>4, <1>9, <1>13, <2>1 DEF UnderWay
<1> QED BY <1>2, <1>10, <1>12, <1>14 DEF Pipeline, InStep

\* A command goes to the end of the output, its callback to the end of the list.
LEMMA StepSend ==
    ASSUME Shape, PlainUse, Pipeline, NEW names, NEW silent \in BOOLEAN,
           redisAsyncCommand("plain", names, silent)
    PROVE  Pipeline'
<1>0. PICK k \in 0 .. Len(cmds) : InStep(k)
  BY DEF Pipeline
<1>1. /\ Len(cmds) \in Nat /\ k \in Nat /\ DOMAIN cmds = 1 .. Len(cmds) /\ DOMAIN got = DOMAIN cmds
      /\ Len(ac.inbox) \in Nat /\ Len(down) \in Nat /\ Len(up) \in Nat /\ Len(ac.obuf) \in Nat
      /\ ASeq(up) /\ ASeq(ac.obuf)
  BY Lengths DEF Pipeline
<1>2. PICK c : c = [kind |-> "plain", names |-> names, silent |-> silent]
  OBVIOUS
<1>3. PICK fn : fn = IF silent THEN 0 ELSE Len(cmds) + 1
  OBVIOUS
<1>4. PICK n : n = Len(cmds) + 1
  OBVIOUS
<1>5. /\ ac'.obuf = Append(ac.obuf, n) /\ ac'.replies = Append(ac.replies, fn) /\ ac'.inbox = ac.inbox
      /\ cmds' = Append(cmds, c) /\ got' = Append(got, <<>>) /\ UNCHANGED <<pc, cb, up, down, srv>>
  BY <1>2, <1>3, <1>4, PlainCommand, ZenonT(30) DEF Shape, AcFields
<1>6. /\ Len(cmds') = n /\ DOMAIN cmds' = DOMAIN cmds \cup {n}
      /\ \A i \in DOMAIN cmds : cmds'[i] = cmds[i]
      /\ cmds'[n] = c
  BY <1>4, <1>5, CmdsGrow
<1>7. /\ Fns \subseteq Fns' /\ Nums \subseteq Nums' /\ Answers \subseteq Answers'
      /\ <<n, fn>> \in Fns' /\ <<n, n>> \in Nums'
  <2>1. Nums \subseteq Nums' /\ <<n, n>> \in Nums'
    BY <1>6 DEF Nums
  <2>2. Answers \subseteq Answers'
    BY <1>5, <1>6 DEF Answers
  <2>3. Fns \subseteq Fns'
    BY <1>6 DEF Fns
  <2>4. <<n, fn>> \in Fns'
    <3>1. fn = IF cmds'[n].silent THEN 0 ELSE n
      BY <1>2, <1>3, <1>4, <1>6
    <3> QED BY <1>6, <3>1 DEF Fns
  <2> QED BY <2>1, <2>2, <2>3, <2>4
<1>8. Queues'
  <2>1. \A s \in Seq(1 .. Len(cmds)) : s \in Seq(1 .. n)
    <3>1. 1 .. Len(cmds) \subseteq 1 .. n
      BY <1>1, <1>4, OneMore
    <3> QED BY <3>1, SeqMore
  <2>2. ac.obuf \in Seq(1 .. n) /\ up' \in Seq(1 .. n) /\ n \in 1 .. n
    BY <1>1, <1>4, <1>5, <2>1, OneMore DEF Pipeline, Queues
  <2>3. ac'.obuf \in Seq(1 .. n)
    BY <1>5, <2>2
  <2>4. cb' \in 0 .. n
    BY <1>1, <1>4, <1>5, OneMore DEF Pipeline, Queues
  <2> QED BY <1>5, <1>6, <2>2, <2>3, <2>4 DEF Pipeline, Queues
<1>9. Waiting(k)'
  <2>1. /\ Len(ac.replies) = Len(cmds) - k /\ Fits(ac.replies, k, Fns)
    BY <1>0 DEF InStep, Waiting
  <2>2. k + Len(ac.replies) + 1 = n /\ Len(ac.replies) + 1 = n - k
    <3>1. Len(ac.replies) \in Nat
      BY ASeqLen DEF Shape
    <3>2. PICK p, q : p = Len(ac.replies) /\ q = Len(cmds)
      OBVIOUS
    <3>3. p \in Nat /\ q \in Nat /\ k \in Nat /\ p = q - k /\ n = q + 1
      BY <1>1, <1>4, <2>1, <3>1, <3>2
    <3>4. k + p + 1 = n /\ p + 1 = n - k
      BY <3>3
    <3> QED BY <3>2, <3>4
  <2>3. Fits(ac'.replies, k, Fns')
    <3>1. Fits(ac.replies, k, Fns')
      BY <1>7, <2>1, FitsMore
    <3>2. <<k + Len(ac.replies) + 1, fn>> \in Fns' /\ k \in Int
      BY <1>1, <1>7, <2>2
    <3> QED BY <1>5, <3>1, <3>2, FitsAppend DEF Shape
  <2>4. Len(ac'.replies) = Len(cmds') - k
    <3>1. Len(ac'.replies) = Len(ac.replies) + 1
      BY <1>5, ASeqAppend DEF Shape
    <3> QED BY <1>6, <2>2, <3>1
  <2>5. ASSUME NEW i \in DOMAIN got' PROVE got'[i] = <<>> \/ (i <= k /\ \E r \in Right(i) : got'[i] = <<r>>)
    <3>1. ASeq(got') /\ Len(got') = Len(got) + 1 /\ Len(got) = Len(cmds)
          /\ got'[Len(got) + 1] = <<>> /\ \A j \in DOMAIN got : got'[j] = got[j]
      BY <1>5, ASeqAppend DEF Shape
    <3>2. DOMAIN got' = 1 .. (Len(cmds) + 1)
      BY <3>1, ASeqLen
    <3>3. CASE i \in DOMAIN got
      <4>1. got[i] = <<>> \/ (i <= k /\ \E r \in Right(i) : got[i] = <<r>>)
        BY <1>0, <3>3, Zenon DEF InStep, Waiting
      <4> QED BY <3>1, <3>3, <4>1, Zenon
    <3>4. CASE i = Len(cmds) + 1
      BY <3>1, <3>4
    <3> QED BY <1>1, <3>2, <3>3, <3>4
  <2> QED BY <2>3, <2>4, <2>5 DEF Waiting, Right, OkTo, Refusal, NULL
<1>10. ASSUME Live' PROVE UnderWay(k)'
  <2>1. UnderWay(k)
    BY <1>0, <1>5, <1>10 DEF InStep, Live
  <2>2. Fits(ac.inbox, k, Answers') /\ Fits(down, k + Len(ac.inbox), Answers')
    BY <1>7, <2>1, FitsMore DEF UnderWay
  <2>3. ASSUME srv.open
        PROVE  /\ Fits(up, k + Len(ac.inbox) + Len(down), Nums')
               /\ Fits(ac'.obuf, k + Len(ac.inbox) + Len(down) + Len(up), Nums')
               /\ k + Len(ac.inbox) + Len(down) + Len(up) + Len(ac'.obuf) = n
    <3>1. PICK m : m = k + Len(ac.inbox) + Len(down) + Len(up)
      OBVIOUS
    <3>2. m \in Int /\ m + Len(ac.obuf) + 1 = n /\ m + (Len(ac.obuf) + 1) = n
      <4>1. m + Len(ac.obuf) = Len(cmds)
        BY <2>1, <2>3, <3>1 DEF UnderWay
      <4>2. m \in Int
        BY <1>1, <3>1, SumInt
      <4>3. PICK p, q : p = Len(ac.obuf) /\ q = Len(cmds)
        OBVIOUS
      <4>4. p \in Nat /\ q \in Nat /\ m \in Int /\ m + p = q /\ n = q + 1
        BY <1>1, <1>4, <4>1, <4>2, <4>3
      <4>5. m + p + 1 = n /\ m + (p + 1) = n
        BY <4>4
      <4> QED BY <4>2, <4>3, <4>5
    <3>3. Fits(ac.obuf, m, Nums') /\ Fits(up, k + Len(ac.inbox) + Len(down), Nums')
      BY <1>7, <2>1, <2>3, <3>1, FitsMore DEF UnderWay
    <3>4. Fits(ac'.obuf, m, Nums')
      <4>1. <<m + Len(ac.obuf) + 1, n>> \in Nums'
        BY <1>7, <3>2
      <4> QED BY <1>1, <1>5, <3>2, <3>3, <4>1, FitsAppend
    <3>5. Len(ac'.obuf) = Len(ac.obuf) + 1
      BY <1>1, <1>5, ASeqAppend
    <3>6. m + Len(ac'.obuf) = n
      BY <3>2, <3>5
    <3> QED BY <3>1, <3>3, <3>4, <3>6
  <2> QED BY <1>5, <1>6, <2>2, <2>3 DEF UnderWay
<1>11. k \in 0 .. Len(cmds')
  BY <1>1, <1>4, <1>6
<1> QED BY <1>8, <1>9, <1>10, <1>11 DEF Pipeline, InStep

\* What keeps the callbacks and the commands keeps Waiting and the sets.
LEMMA WiresOnly ==
    ASSUME UNCHANGED <<cmds, got>>, ac'.replies = ac.replies, NEW k, Waiting(k)
    PROVE  Waiting(k)' /\ Nums' = Nums /\ (srv'.open = srv.open => Answers' = Answers)
<1>1. Fns' = Fns /\ Nums' = Nums /\ \A i : Right(i)' = Right(i)
  BY DEF Fns, Nums, Right, OkTo, Refusal, NULL
<1>2. Waiting(k)'
  BY <1>1 DEF Waiting
<1>3. srv'.open = srv.open => Answers' = Answers
  BY DEF Answers, OkTo, Refusal
<1> QED BY <1>1, <1>2, <1>3

\* Replies come in.
LEMMA StepRead ==
    ASSUME Shape, Pipeline, Live, NEW n \in 0 .. Len(down), UNCHANGED <<cmds, got, up, srv>>,
           ac'.replies = ac.replies, ac'.obuf = ac.obuf, cb' = 0,
           ac'.inbox = ac.inbox \o SubSeq(down, 1, n), down' = SubSeq(down, n + 1, Len(down))
    PROVE  Pipeline'
<1>0. PICK k \in 0 .. Len(cmds) : InStep(k)
  BY DEF Pipeline
<1>1. /\ Len(cmds) \in Nat /\ k \in Nat /\ Len(ac.inbox) \in Nat /\ Len(down) \in Nat
      /\ Len(up) \in Nat /\ Len(ac.obuf) \in Nat /\ n \in Nat
  BY Lengths DEF Pipeline
<1>2. Waiting(k)' /\ Nums' = Nums /\ Answers' = Answers
  BY <1>0, WiresOnly DEF InStep
<1>3. UnderWay(k)
  BY <1>0 DEF InStep
<1>4. PICK a, b : a = SubSeq(down, 1, n) /\ b = SubSeq(down, n + 1, Len(down))
  OBVIOUS
<1>5. PICK m : m = k + Len(ac.inbox)
  OBVIOUS
<1>6. /\ Fits(a, m, Answers) /\ Fits(b, m + n, Answers) /\ ASeq(a) /\ ASeq(b)
      /\ Len(a) = n /\ Len(b) = Len(down) - n
  BY <1>1, <1>3, <1>4, <1>5, FitsParts DEF UnderWay, Pipeline, Queues
<1>7. /\ Fits(ac'.inbox, k, Answers) /\ ASeq(ac'.inbox) /\ Len(ac'.inbox) = Len(ac.inbox) + n
  <2>1. Fits(ac.inbox, k, Answers) /\ Fits(a, k + Len(ac.inbox), Answers) /\ ac'.inbox = ac.inbox \o a /\ k \in Int
    BY <1>1, <1>3, <1>4, <1>5, <1>6 DEF UnderWay
  <2> QED BY <1>6, <2>1, FitsConcat, ASeqConcat DEF Pipeline, Queues
<1>8. k + Len(ac'.inbox) = m + n /\ m + n + Len(b) = m + Len(down)
  BY <1>1, <1>5, <1>6, <1>7
<1>9. Queues'
  <2>1. 0 \in 0 .. Len(cmds)
    BY <1>1
  <2> QED BY <1>4, <1>6, <1>7, <2>1 DEF Pipeline, Queues
<1>10. UnderWay(k)'
  <2>1. k + Len(ac'.inbox) + Len(down') = k + Len(ac.inbox) + Len(down)
    BY <1>4, <1>5, <1>8
  <2>2. down' = b /\ up' = up /\ ac'.obuf = ac.obuf /\ srv' = srv /\ cmds' = cmds
    BY <1>4
  <2> QED BY <1>2, <1>3, <1>6, <1>7, <1>8, <2>1, <2>2 DEF UnderWay
<1> QED BY <1>0, <1>2, <1>9, <1>10 DEF Pipeline, InStep

\* Commands go out.
LEMMA StepWrite ==
    ASSUME Shape, Pipeline, Live, NEW n \in 0 .. Len(ac.obuf), UNCHANGED <<cmds, got, cb, down, srv>>,
           ac'.replies = ac.replies, ac'.inbox = ac.inbox,
           ac'.obuf = SubSeq(ac.obuf, n + 1, Len(ac.obuf)), up' = up \o SubSeq(ac.obuf, 1, n)
    PROVE  Pipeline'
<1>0. PICK k \in 0 .. Len(cmds) : InStep(k)
  BY DEF Pipeline
<1>1. /\ Len(cmds) \in Nat /\ k \in Nat /\ Len(ac.inbox) \in Nat /\ Len(down) \in Nat
      /\ Len(up) \in Nat /\ Len(ac.obuf) \in Nat /\ n \in Nat /\ ASeq(up) /\ ASeq(ac.obuf)
  BY Lengths DEF Pipeline
<1>2. Waiting(k)' /\ Nums' = Nums /\ Answers' = Answers
  BY <1>0, WiresOnly DEF InStep
<1>3. UnderWay(k)
  BY <1>0 DEF InStep
<1>4. PICK a, b : a = SubSeq(ac.obuf, 1, n) /\ b = SubSeq(ac.obuf, n + 1, Len(ac.obuf))
  OBVIOUS
<1>5. PICK m : m = k + Len(ac.inbox) + Len(down)
  OBVIOUS
<1>6. Queues'
  <2>1. a \in Seq(1 .. Len(cmds)) /\ b \in Seq(1 .. Len(cmds))
    BY <1>4, PartsIn DEF Pipeline, Queues
  <2>2. up' \in Seq(1 .. Len(cmds)) /\ ac'.obuf \in Seq(1 .. Len(cmds))
    BY <1>4, <2>1 DEF Pipeline, Queues
  <2> QED BY <2>2 DEF Pipeline, Queues
<1>7. ASSUME srv.open
      PROVE  /\ Fits(up', m, Nums) /\ Fits(ac'.obuf, m + Len(up'), Nums)
             /\ m + Len(up') + Len(ac'.obuf) = Len(cmds)
  <2>1. /\ Fits(up, m, Nums) /\ Fits(ac.obuf, m + Len(up), Nums) /\ m + Len(up) + Len(ac.obuf) = Len(cmds)
    BY <1>3, <1>5, <1>7 DEF UnderWay
  <2>2. m \in Int /\ m + Len(up) \in Int
    BY <1>1, <1>5
  <2>3. /\ Fits(a, m + Len(up), Nums) /\ Fits(b, m + Len(up) + n, Nums) /\ ASeq(a) /\ ASeq(b)
        /\ Len(a) = n /\ Len(b) = Len(ac.obuf) - n
    BY <1>1, <1>4, <2>1, <2>2, FitsParts
  <2>4. Fits(up', m, Nums) /\ Len(up') = Len(up) + n
    BY <1>1, <1>4, <2>1, <2>2, <2>3, FitsConcat, ASeqConcat
  <2>5. m + Len(up') = m + Len(up) + n /\ m + Len(up) + n + Len(b) = Len(cmds)
    <3>1. /\ m + (Len(up) + n) = m + Len(up) + n
          /\ m + Len(up) + n + (Len(ac.obuf) - n) = m + Len(up) + Len(ac.obuf)
      <4>1. PICK p, q : p = Len(ac.obuf) /\ q = Len(up)
        OBVIOUS
      <4>2. p \in Nat /\ q \in Nat /\ m \in Int /\ n \in Nat
        BY <1>1, <2>2, <4>1
      <4>3. m + (q + n) = m + q + n /\ m + q + n + (p - n) = m + q + p
        BY <4>2
      <4> QED BY <4>1, <4>3
    <3> QED BY <2>1, <2>3, <2>4, <3>1
  <2> QED BY <1>4, <2>3, <2>4, <2>5
<1>8. UnderWay(k)'
  BY <1>2, <1>3, <1>5, <1>7 DEF UnderWay
<1> QED BY <1>0, <1>2, <1>6, <1>8 DEF Pipeline, InStep

\* The server takes the first command and answers it.
LEMMA StepAnswer ==
    ASSUME Shape, PlainUse, Pipeline, ServerAnswers
    PROVE  Pipeline' /\ Head(up) \in DOMAIN cmds
<1>0. PICK k \in 0 .. Len(cmds) : InStep(k)
  BY DEF Pipeline
<1>1. /\ Len(cmds) \in Nat /\ k \in Nat /\ Len(ac.inbox) \in Nat /\ Len(down) \in Nat
      /\ Len(up) \in Nat /\ Len(ac.obuf) \in Nat /\ ASeq(up) /\ ASeq(ac.obuf) /\ DOMAIN cmds = 1 .. Len(cmds)
  BY Lengths DEF Pipeline
<1>2. up # <<>> /\ srv.open /\ up \in Seq(1 .. Len(cmds))
  BY DEF ServerAnswers, Pipeline, Queues
<1>3. Head(up) \in DOMAIN cmds /\ Tail(up) \in Seq(1 .. Len(cmds)) /\ Len(Tail(up)) = Len(up) - 1
  BY <1>1, <1>2
<1>4. PICK h, x : h = Head(up) /\ x = OkTo(h)
  OBVIOUS
<1>5. /\ UNCHANGED <<ac, pc, cb, cmds, got>> /\ up' = Tail(up)
      /\ down' = down \o <<x>> /\ srv'.open = srv.open
  <2>1. Answer(h) = [subs |-> {}, out |-> <<x>>]
    BY <1>3, <1>4, PlainAnswer DEF OkTo
  <2>2. Answer(h).out = <<x>>
    BY <2>1
  <2>3. down' = down \o Answer(h).out /\ UNCHANGED <<ac, pc, cb, cmds, got>> /\ up' = Tail(up)
    BY <1>4 DEF ServerAnswers
  <2>4. srv'.open = srv.open
    BY DEF ServerAnswers, PlainUse
  <2> QED BY <2>2, <2>3, <2>4
<1>6. /\ down' = Append(down, x) /\ ASeq(down') /\ Len(down') = Len(down) + 1
  <2>1. PICK S : down \in Seq(S)
    BY DEF Pipeline, Queues, ASeq
  <2>2. down \in Seq(S \cup {x})
    BY <2>1
  <2>3. down \o <<x>> = Append(down, x)
    BY <2>2
  <2> QED BY <1>5, <2>3, ASeqAppend DEF Pipeline, Queues
<1>7. Queues'
  BY <1>3, <1>5, <1>6 DEF Pipeline, Queues
<1>8. Waiting(k)' /\ Nums' = Nums /\ Answers' = Answers
  BY <1>0, <1>5, WiresOnly DEF InStep
<1>9. ASSUME Live' PROVE UnderWay(k)'
  <2>1. UnderWay(k)
    BY <1>0, <1>5, <1>9 DEF InStep, Live
  <2>2. PICK m : m = k + Len(ac.inbox) + Len(down)
    OBVIOUS
  <2>3. /\ Fits(up, m, Nums) /\ Fits(ac.obuf, m + Len(up), Nums)
        /\ m + Len(up) + Len(ac.obuf) = Len(cmds)
    BY <1>2, <2>1, <2>2 DEF UnderWay
  <2>4. /\ m \in Int /\ k + Len(ac.inbox) \in Int
        /\ k + Len(ac.inbox) + Len(down') = m + 1 /\ m + 1 + Len(up') = m + Len(up)
    <3>1. PICK p, q, u : p = Len(ac.inbox) /\ q = Len(down) /\ u = Len(up)
      OBVIOUS
    <3>2. p \in Nat /\ q \in Nat /\ u \in Nat /\ k \in Nat /\ m = k + p + q
      BY <1>1, <2>2, <3>1
    <3>3. m \in Int /\ k + p \in Int /\ k + p + (q + 1) = m + 1 /\ m + 1 + (u - 1) = m + u
      BY <3>2
    <3> QED BY <1>3, <1>5, <1>6, <3>1, <3>3
  <2>5. <<m + 1, h>> \in Nums /\ Fits(up', m + 1, Nums)
    BY <1>1, <1>2, <1>4, <1>5, <2>3, <2>4, FitsTail
  <2>6. h = m + 1
    BY <2>5 DEF Nums
  <2>7. Fits(down', k + Len(ac.inbox), Answers)
    <3>1. <<m + 1, x>> \in Answers
      BY <1>3, <1>4, <2>6 DEF Answers
    <3>2. <<k + Len(ac.inbox) + Len(down) + 1, x>> \in Answers
      BY <2>2, <3>1
    <3>3. Fits(down, k + Len(ac.inbox), Answers)
      BY <2>1 DEF UnderWay
    <3> QED BY <1>6, <2>4, <3>2, <3>3, FitsAppend DEF Pipeline, Queues
  <2> QED BY <1>5, <1>8, <2>1, <2>3, <2>4, <2>5, <2>7 DEF UnderWay
<1> QED BY <1>0, <1>3, <1>5, <1>7, <1>8, <1>9 DEF Pipeline, InStep

\* The server goes away, perhaps after an error or bytes that are no reply.
LEMMA StepClose == ASSUME Shape, PlainUse, Pipeline, ServerCloses PROVE Pipeline'
<1>0. PICK k \in 0 .. Len(cmds) : InStep(k)
  BY DEF Pipeline
<1>1. /\ Len(cmds) \in Nat /\ k \in Nat /\ Len(ac.inbox) \in Nat /\ Len(down) \in Nat
  BY Lengths DEF Pipeline
<1>2. /\ UNCHANGED <<ac, pc, cb, cmds, got, up>> /\ srv.open = TRUE /\ srv'.open = FALSE
      /\ down' = down \/ \E x \in {Refusal, [type |-> "garbage"]} : down' = Append(down, x)
  BY DEF ServerCloses, PlainUse, Refusal
<1>3. Waiting(k)'
  BY <1>0, <1>2, WiresOnly DEF InStep
<1>4. Queues'
  <2>1. ASeq(down')
    <3>1. ASeq(down)
      BY DEF Pipeline, Queues
    <3>2. \A x : ASeq(Append(down, x))
      BY <3>1, ASeqAppend
    <3> QED BY <1>2, <3>1, <3>2
  <2> QED BY <1>2, <2>1 DEF Pipeline, Queues
<1>5. Answers \subseteq Answers' /\ \A i \in Nat : \A x \in {Refusal, [type |-> "garbage"]} : <<i, x>> \in Answers'
  BY <1>2 DEF Answers, OkTo, Refusal
<1>6. ASSUME Live' PROVE UnderWay(k)'
  <2>1. UnderWay(k)
    BY <1>0, <1>2, <1>6 DEF InStep, Live
  <2>2. Fits(ac.inbox, k, Answers') /\ Fits(down, k + Len(ac.inbox), Answers')
    BY <1>5, <2>1, FitsMore DEF UnderWay
  <2>3. k + Len(ac.inbox) \in Int /\ k + Len(ac.inbox) + Len(down) + 1 \in Nat
    BY <1>1
  <2>4. Fits(down', k + Len(ac.inbox), Answers')
    <3>1. CASE down' = down
      BY <2>2, <3>1
    <3>2. ASSUME NEW x \in {Refusal, [type |-> "garbage"]}, down' = Append(down, x)
          PROVE  Fits(down', k + Len(ac.inbox), Answers')
      <4>1. <<k + Len(ac.inbox) + Len(down) + 1, x>> \in Answers'
        BY <1>5, <2>3
      <4> QED BY <2>2, <2>3, <3>2, <4>1, FitsAppend DEF Pipeline, Queues
    <3> QED BY <1>2, <3>1, <3>2
  <2> QED BY <1>2, <2>2, <2>4 DEF UnderWay
<1> QED BY <1>0, <1>2, <1>3, <1>4, <1>6 DEF Pipeline, InStep

\* The first reply is an answer to a command that waits, or ends the context:
\* the assertion about unexpected replies is not reached.
LEMMA NoneUnexpected ==
    ASSUME Shape, PlainUse, Pipeline, pc = "loop", ac.inbox # <<>>, ac.replies = <<>>
    PROVE  Head(ac.inbox).type \in {"error", "garbage"}
<1>0. PICK k \in 0 .. Len(cmds) : InStep(k)
  BY DEF Pipeline
<1>1. Waiting(k) /\ UnderWay(k)
  BY <1>0 DEF InStep, Live
<1>2. Len(cmds) \in Nat /\ k \in Nat /\ DOMAIN cmds = 1 .. Len(cmds)
  BY Lengths DEF Pipeline
<1>3. <<k + 1, Head(ac.inbox)>> \in Answers
  BY <1>1, <1>2, FitsTail DEF UnderWay, Pipeline, Queues
<1>4. k = Len(cmds)
  <2>1. Len(ac.replies) = 0 /\ Len(ac.replies) = Len(cmds) - k
    BY <1>1, EmptyIsASeq DEF Waiting
  <2>2. PICK q : q = Len(cmds)
    OBVIOUS
  <2>3. q \in Nat /\ k \in Nat /\ 0 = q - k
    BY <1>2, <2>1, <2>2
  <2>4. k = q
    BY <2>3
  <2> QED BY <2>2, <2>4
<1>5. k + 1 \notin DOMAIN cmds
  BY <1>2, <1>4
<1>6. <<k + 1, Head(ac.inbox)>> \in Nat \X {Refusal, [type |-> "garbage"]}
  BY <1>3, <1>5 DEF Answers
<1> QED BY <1>6 DEF Refusal

LEMMA PipelineReply ==
    ASSUME Shape, PlainUse, Pipeline, ProcessReply
    PROVE  Pipeline' /\ close' = close
<1> USE DEF Shape, AcFields
<1> DEFINE reply == Head(ac.inbox)
<1>0. /\ UNCHANGED <<cmds, up, down, srv>> /\ pc = "loop" /\ ac.inbox # <<>>
      /\ "SUBSCRIBED" \notin ac.flags /\ "MONITORING" \notin ac.flags
  BY DEF ProcessReply, PlainUse, PlainFlags
<1>1. CASE reply.type = "garbage" \/ (ac.replies = <<>> /\ reply.type = "error")
  <2>1. PICK a : /\ BeginDisconnect(a) /\ UNCHANGED <<cb, got>>
                 /\ \/ a = [ac EXCEPT !.err = TRUE, !.inbox = <<>>]
                    \/ a = [ac EXCEPT !.err = TRUE, !.inbox = Tail(@)]
    BY <1>0, <1>1 DEF ProcessReply
  <2>2. /\ a.replies = ac.replies /\ a.obuf = ac.obuf /\ DOMAIN a = AcFields /\ a.err = TRUE
        /\ a.inbox \in {<<>>, Tail(ac.inbox)}
    BY <2>1
  <2>3. ASeq(a.inbox)
    BY <1>0, <2>2, EmptyIsASeq, ASeqTail DEF Pipeline, Queues
  <2>4. /\ ac'.replies = ac.replies /\ ac'.obuf = ac.obuf /\ ac'.inbox = a.inbox /\ close' = close /\ ~Live'
    BY <2>1, <2>2 DEF BeginDisconnect, Live
  <2>5. Pipeline'
    BY <1>0, <2>1, <2>3, <2>4, StepQuiet
  <2> QED BY <2>4, <2>5
<1>2. CASE reply.type # "garbage" /\ ac.replies # <<>>
  <2>1. Dispatch([ac EXCEPT !.replies = Tail(@)], Head(ac.replies), reply) /\ close' = close
    BY <1>0, <1>2 DEF ProcessReply
  <2>2. Pipeline'
    BY <1>0, <1>2, <2>1, StepDispatch
  <2> QED BY <2>1, <2>2
<1>3. CASE ac.replies = <<>> /\ reply.type \notin {"error", "garbage"}
  BY <1>0, <1>3, NoneUnexpected
<1> QED BY <1>1, <1>2, <1>3

LEMMA EndPipeline ==
    ASSUME Shape, Pipeline, NEW a, BeginDisconnect(a), DOMAIN a = AcFields,
           a.replies = ac.replies, a.obuf = ac.obuf, a.inbox = ac.inbox,
           UNCHANGED <<cmds, got, cb, up, down, srv>>
    PROVE  Pipeline'
<1>1. /\ ac'.replies = ac.replies /\ ac'.obuf = ac.obuf /\ ac'.inbox = ac.inbox /\ ~Live'
  BY DEF BeginDisconnect, AcFields, Live
<1>2. ASeq(ac'.inbox)
  BY <1>1 DEF Pipeline, Queues
<1> QED BY <1>1, <1>2, StepQuiet

LEMMA KeptPipeline ==
    ASSUME Shape, Pipeline, ac'.replies = ac.replies, ac'.obuf = ac.obuf, ac'.inbox = ac.inbox,
           UNCHANGED <<cmds, got, cb, up, down, srv>>, Live' => Live
    PROVE  Pipeline'
<1>1. ASeq(ac'.inbox)
  BY DEF Pipeline, Queues
<1> QED BY <1>1, StepQuiet

LEMMA PipelineApp == ASSUME Kinds \subseteq {"plain"}, Shape, PlainUse, Pipeline, App PROVE Pipeline'
<1> USE DEF Shape, AcFields
<1>1. CASE SetConnectCallback
  BY <1>1, KeptPipeline DEF SetConnectCallback, Live
<1>2. CASE redisAsyncFree
  BY <1>2, KeptPipeline DEF redisAsyncFree, Live
<1>3. CASE redisAsyncDisconnect
  <2> DEFINE a == [ac EXCEPT !.flags = @ \cup {"DISCONNECTING"}]
  <2>1. UNCHANGED <<cmds, got, cb, up, down, srv>>
    BY <1>3 DEF redisAsyncDisconnect
  <2>2. CASE BeginDisconnect(a)
    BY <2>1, <2>2, EndPipeline
  <2>3. CASE ac' = a /\ UNCHANGED <<pc, it, close>>
    BY <2>1, <2>3, KeptPipeline DEF Live
  <2> QED BY <1>3, <2>2, <2>3 DEF redisAsyncDisconnect
<1>4. ASSUME NEW names, NEW silent \in BOOLEAN, redisAsyncCommand("plain", names, silent)
      PROVE  Pipeline'
  BY <1>4, StepSend
<1> QED BY <1>1, <1>2, <1>3, <1>4 DEF App

LEMMA PipelineLibrary == ASSUME Shape, PlainUse, Pipeline, Library PROVE Pipeline'
<1> USE DEF Shape, AcFields
<1>0. "MONITORING" \notin ac.flags
  BY DEF PlainUse, PlainFlags
<1>1. CASE TearCallback
  BY <1>1, StepTear
<1>2. CASE TearEnd
  BY <1>2, KeptPipeline DEF TearEnd, Live
<1>3. CASE Return
  BY <1>3, KeptPipeline DEF Return, Live
<1>4. CASE ProcessReply
  BY <1>4, PipelineReply
<1>5. CASE ProcessNone
  <2>1. UNCHANGED <<cmds, got, cb, up, down, srv>> /\ pc = "loop"
    BY <1>5 DEF ProcessNone
  <2>2. CASE BeginDisconnect(ac)
    BY <2>1, <2>2, EndPipeline
  <2>3. CASE ac' = ac
    BY <2>1, <2>3, KeptPipeline DEF Live
  <2> QED BY <1>0, <1>5, <2>2, <2>3 DEF ProcessNone
<1>6. CASE ConnectReturn
  <2>1. UNCHANGED <<cmds, got, cb, up, down, srv>> /\ pc = "onconnect"
    BY <1>6 DEF ConnectReturn
  <2>2. CASE BeginDisconnect(ac)
    BY <2>1, <2>2, EndPipeline
  <2>3. CASE ac' = ac
    BY <2>1, <2>3, KeptPipeline DEF Live
  <2> QED BY <1>6, <2>2, <2>3 DEF ConnectReturn
<1>7. CASE HandleRead
  <2>1. UNCHANGED <<cmds, got, up, srv>> /\ Live
    BY <1>7 DEF HandleRead, In, Event, Live
  <2>2. CASE BeginDisconnect([ac EXCEPT !.err = TRUE]) /\ UNCHANGED <<down, cb>>
    BY <2>1, <2>2, EndPipeline
  <2>3. ASSUME NEW n \in 0 .. Len(down),
               ac' = [ac EXCEPT !.inbox = @ \o SubSeq(down, 1, n), !.part = n = 0],
               down' = SubSeq(down, n + 1, Len(down)), cb' = 0
        PROVE  Pipeline'
    <3>1. ac'.replies = ac.replies /\ ac'.obuf = ac.obuf /\ ac'.inbox = ac.inbox \o SubSeq(down, 1, n)
      BY <2>3
    <3> QED BY <2>1, <2>3, <3>1, StepRead
  <2> QED BY <1>7, <2>2, <2>3 DEF HandleRead
<1>8. CASE HandleWrite
  <2>1. UNCHANGED <<cmds, got, cb, down, srv>> /\ Live
    BY <1>8 DEF HandleWrite, In, Event, Live
  <2>2. CASE BeginDisconnect([ac EXCEPT !.err = TRUE]) /\ UNCHANGED up
    BY <2>1, <2>2, EndPipeline
  <2>3. ASSUME NEW n \in 0 .. Len(ac.obuf),
               ac' = [ac EXCEPT !.obuf = SubSeq(@, n + 1, Len(@))],
               up' = up \o SubSeq(ac.obuf, 1, n)
        PROVE  Pipeline'
    <3>1. /\ ac'.replies = ac.replies /\ ac'.inbox = ac.inbox
          /\ ac'.obuf = SubSeq(ac.obuf, n + 1, Len(ac.obuf))
      BY <2>3
    <3> QED BY <2>1, <2>3, <3>1, StepWrite
  <2> QED BY <1>8, <2>2, <2>3 DEF HandleWrite
<1>9. ASSUME NEW e \in {"read", "write"}, HandleConnect(e) PROVE Pipeline'
  <2>1. UNCHANGED <<cmds, got, cb, up, down, srv>> /\ Live
    BY <1>9 DEF HandleConnect, Event, Live
  <2>2. CASE BeginDisconnect([ac EXCEPT !.err = TRUE])
    BY <2>1, <2>2, EndPipeline
  <2>3. CASE \/ ac' = [ac EXCEPT !.flags = @ \cup {"CONNECTED"}]
             \/ ac' = [ac EXCEPT !.err = TRUE]
    <3>1. ac'.replies = ac.replies /\ ac'.obuf = ac.obuf /\ ac'.inbox = ac.inbox
      BY <2>3
    <3> QED BY <2>1, <3>1, KeptPipeline
  <2> QED BY <1>9, <2>2, <2>3 DEF HandleConnect
<1> QED BY <1>1, <1>2, <1>3, <1>4, <1>5, <1>6, <1>7, <1>8, <1>9 DEF Library

LEMMA PipelineStep ==
    ASSUME Kinds \subseteq {"plain"}, Shape, EndInv, PlainUse, Pipeline, [AsyncNext]_asyncVars
    PROVE  PlainUse' /\ Pipeline'
<1>1. CASE App
  BY <1>1, PlainApp, PipelineApp
<1>2. CASE Library
  BY <1>2, PlainLibrary, PipelineLibrary
<1>3. CASE ServerAnswers
  BY <1>3, StepAnswer, PlainServer
<1>4. CASE ServerCloses
  BY <1>4, StepClose, PlainRest
<1>5. CASE ServerSends
  BY <1>5 DEF ServerSends, PlainUse
<1>6. CASE UNCHANGED asyncVars
  <2>1. Pipeline'
    BY <1>6, KeptPipeline DEF asyncVars, Live
  <2> QED BY <1>6, <2>1, PlainRest
<1> QED BY <1>1, <1>2, <1>3, <1>4, <1>5, <1>6 DEF AsyncNext

LEMMA PipelineInit == AsyncInit => PlainUse /\ Pipeline
<1> SUFFICES ASSUME AsyncInit PROVE PlainUse /\ Pipeline
  OBVIOUS
<1>1. PlainUse
  BY DEF AsyncInit, PlainUse, PlainFlags, Walking, Places
<1>2. Len(cmds) = 0 /\ Len(got) = 0 /\ cmds = <<>> /\ got = <<>> /\ cb = 0
      /\ ac.replies = <<>> /\ ac.inbox = <<>> /\ ac.obuf = <<>> /\ up = <<>> /\ down = <<>>
  BY EmptyIsASeq DEF AsyncInit
<1>3. Queues
  BY <1>2, EmptyIsASeq DEF Queues
<1>4. Waiting(0)
  BY <1>2, FitsEmpty, EmptyIsASeq DEF Waiting
<1>5. UnderWay(0)
  BY <1>2, FitsEmpty, EmptyIsASeq DEF UnderWay
<1>6. 0 \in 0 .. Len(cmds)
  BY <1>2
<1> QED BY <1>1, <1>3, <1>4, <1>5, <1>6 DEF Pipeline, InStep

-----------------------------------------------------------------------------
(* What the pipeline promises *)

LEMMA SoundStep ==
    ASSUME Shape, EndInv', NoneGoesOn', PlainUse, Pipeline, close.bad = "no", [AsyncNext]_asyncVars
    PROVE  close'.bad = "no"
<1> USE DEF Shape
<1>1. CASE App
  <2>1. ASSUME NEW kind, NEW names, NEW silent, redisAsyncCommand(kind, names, silent)
        PROVE  close' = close
    BY <2>1 DEF redisAsyncCommand
  <2>2. close'.bad \in {"no", "pending"}
    BY <1>1, <2>1 DEF App, SetConnectCallback, redisAsyncFree, redisAsyncDisconnect, BeginDisconnect
  <2> QED BY <2>2 DEF EndInv, CleanEnd
<1>2. CASE Library
  <2>1. CASE ProcessReply
    BY <2>1, PipelineReply
  <2>2. CASE ~ProcessReply
    <3>1. ASSUME NEW e, HandleConnect(e) PROVE close'.bad \in {"no", "pending"}
      BY <3>1 DEF HandleConnect, BeginDisconnect
    <3>2. close'.bad \in {"no", "pending", "useafterfree"}
      BY <1>2, <2>2, <3>1 DEF Library, TearCallback, TearEnd, Return, ProcessNone, ConnectReturn, HandleRead,
                              HandleWrite, BeginDisconnect
    <3> QED BY <3>2 DEF EndInv, CleanEnd, NoneGoesOn
  <2> QED BY <2>1, <2>2
<1>3. CASE ServerAnswers \/ ServerSends \/ ServerCloses \/ UNCHANGED asyncVars
  BY <1>3 DEF ServerAnswers, ServerSends, ServerCloses, asyncVars
<1> QED BY <1>1, <1>2, <1>3 DEF AsyncNext

LEMMA PipelineTyped ==
    ASSUME Shape, PlainUse, Pipeline
    PROVE  AsyncTypeOK
<1>0. PICK k \in 0 .. Len(cmds) : InStep(k)
  BY DEF Pipeline
<1>1. Len(cmds) \in Nat /\ DOMAIN cmds = 1 .. Len(cmds)
  BY Lengths DEF Pipeline
<1>2. ToSet(ac.replies) \subseteq 0 .. Len(cmds)
  <2>1. Fits(ac.replies, k, Fns)
    BY <1>0 DEF InStep, Waiting
  <2>2. ASSUME NEW j \in DOMAIN ac.replies PROVE ac.replies[j] \in 0 .. Len(cmds)
    <3>1. <<k + j, ac.replies[j]>> \in Fns
      BY <2>1 DEF Fits
    <3>2. PICK i \in DOMAIN cmds : ac.replies[j] = IF cmds[i].silent THEN 0 ELSE i
      BY <3>1 DEF Fns
    <3>3. ac.replies[j] = 0 \/ ac.replies[j] = i
      BY <3>2
    <3>4. 0 \in 0 .. Len(cmds) /\ i \in 0 .. Len(cmds)
      BY <1>1
    <3> QED BY <3>3, <3>4
  <2> QED BY <2>2 DEF ToSet
<1>3. ToSet(ac.obuf) \subseteq 0 .. Len(cmds) /\ ToSet(up) \subseteq 0 .. Len(cmds)
  <2>1. \A s \in Seq(1 .. Len(cmds)) : ToSet(s) \subseteq 1 .. Len(cmds)
    BY DEF ToSet
  <2>2. 1 .. Len(cmds) \subseteq 0 .. Len(cmds)
    BY <1>1
  <2> QED BY <2>1, <2>2 DEF Pipeline, Queues
<1>4. ToSet(ac.invalid) = {}
  BY EmptyIsASeq DEF PlainUse
<1>5. ac.flags \subseteq {"CONNECTED", "DISCONNECTING", "FREEING", "IN_CALLBACK", "SUBSCRIBED", "MONITORING"}
  BY DEF PlainUse, PlainFlags
<1>6. cb \in 0 .. Len(cmds) /\ Len(got) = Len(cmds)
  BY DEF Pipeline, Queues, Shape
<1>7. pc \in Places \cup {"loop", "tear", "read", "write", "freed"}
  BY DEF PlainUse
<1> QED BY <1>2, <1>3, <1>4, <1>5, <1>6, <1>7 DEF AsyncTypeOK

LEMMA PipelineRight ==
    ASSUME Shape, PlainUse, Pipeline
    PROVE  RightCallback
<1>0. PICK k \in 0 .. Len(cmds) : InStep(k)
  BY DEF Pipeline
<1>1. \A m : DOMAIN m = {} => IsMap(dictCreate, m)
  <2> SUFFICES ASSUME NEW m, DOMAIN m = {} PROVE IsMap(dictCreate, m)
    OBVIOUS
  <2>1. dictCreate.used = 0
    BY DEF dictCreate
  <2>2. Cardinality(DOMAIN m) = 0
    BY FS_EmptySet
  <2>3. Len(Entries(dictCreate)) = 0
    BY NoEntries, EmptyIsASeq
  <2> QED BY <2>1, <2>2, <2>3 DEF IsMap
<1>2. TablesAreMap
  <2>1. DOMAIN subs = {}
    BY DEF PlainUse
  <2>2. \A S : DOMAIN [n \in DOMAIN subs \ S |-> subs[n]] = {} /\ DOMAIN [n \in DOMAIN subs \cap S |-> subs[n]] = {}
    BY <2>1
  <2> QED BY <1>1, <2>2 DEF TablesAreMap, PlainUse
<1>3. ASSUME NEW i \in DOMAIN got, NEW j \in DOMAIN got[i]
      PROVE  got[i][j] \in Right(i)
  <2>1. got[i] = <<>> \/ \E r \in Right(i) : got[i] = <<r>>
    BY <1>0, Zenon DEF InStep, Waiting
  <2>2. got[i] # <<>>
    BY <1>3
  <2>3. PICK r \in Right(i) : got[i] = <<r>>
    BY <2>1, <2>2
  <2> QED BY <2>3
<1>4. ASSUME NEW i, NEW r \in Right(i)
      PROVE  CASE r.type = "null"            -> TRUE
               [] r.type \in {"ok", "error"} -> r.of = i \/ (r.type = "error" /\ r.of = 0)
               [] r.type = "line"            -> cmds[i].kind = "monitor"
               [] OTHER                      -> r.name \in ToSet(cmds[i].names)
  <2>1. CASE r = NULL
    BY <2>1 DEF NULL
  <2>2. CASE r = OkTo(i)
    BY <2>2 DEF OkTo
  <2>3. CASE r = Refusal
    BY <2>3 DEF Refusal
  <2> QED BY <2>1, <2>2, <2>3 DEF Right
<1> QED BY <1>2, <1>3, <1>4 DEF RightCallback

LEMMA PipelineOnce ==
    ASSUME Shape, PlainUse, Pipeline, Kept, Emptied
    PROVE  CallbacksOnce
<1>0. PICK k \in 0 .. Len(cmds) : InStep(k)
  BY DEF Pipeline
<1>1. ASSUME NEW i \in DOMAIN got
      PROVE  Len(got[i]) <= 1 /\ (got[i] # <<>> => Len(got[i]) = 1)
  <2>1. got[i] = <<>> \/ \E r \in Right(i) : got[i] = <<r>>
    BY <1>0, Zenon DEF InStep, Waiting
  <2>2. Len(<<>>) = 0 /\ \A r : Len(<<r>>) = 1
    OBVIOUS
  <2>4. ASSUME NEW r, got[i] = <<r>> PROVE Len(got[i]) = 1
    BY <2>2, <2>4
  <2>5. Len(got[i]) = 0 \/ Len(got[i]) = 1
    BY <2>1, <2>2, <2>4
  <2>6. got[i] # <<>> => Len(got[i]) = 1
    BY <2>1, <2>4
  <2>7. PICK l : l = Len(got[i])
    OBVIOUS
  <2>8. l \in {0, 1}
    BY <2>5, <2>7
  <2>9. l <= 1
    BY <2>8
  <2> QED BY <2>6, <2>7, <2>9
<1>2. ASSUME pc = "freed", close.bad = "no", NEW i \in DOMAIN got, cmds[i].kind = "plain", ~cmds[i].silent
      PROVE  got[i] # <<>>
  <2>1. i \in DOMAIN cmds /\ ac.replies = <<>> /\ ac.invalid = <<>>
    BY <1>2, Lengths DEF Emptied, Pipeline
  <2> QED BY <1>2, <2>1, EmptyIsASeq DEF Kept, Answerable
<1>3. DOMAIN subs = {}
  BY DEF PlainUse
<1> QED BY <1>1, <1>2, <1>3 DEF CallbacksOnce

LEMMA PipelineHolds ==
    ASSUME Kinds \subseteq {"plain"}, ~CloseInConnect
    PROVE  AsyncSpec => [](NoCrash /\ RightCallback /\ CallbacksOnce)
<1> DEFINE PInv == NoneGoesOn /\ Kept /\ Emptied /\ PlainUse /\ Pipeline /\ close.bad = "no"
<1>1. AsyncInit => PInv
  <2>1. AsyncInit => Kept /\ Emptied /\ NoneGoesOn /\ close.bad = "no"
    BY EmptyIsASeq DEF AsyncInit, Kept, Emptied, NoneGoesOn
  <2> QED BY <2>1, PipelineInit
<1>2. Shape /\ EndInv /\ EndInv' /\ PInv /\ [AsyncNext]_asyncVars => PInv'
  BY GoesOnStep, KeptStep, EmptiedStep, PipelineStep, SoundStep
<1>3. Shape /\ PInv => NoCrash /\ RightCallback /\ CallbacksOnce
  BY PipelineTyped, PipelineRight, PipelineOnce DEF NoCrash
<1> HIDE DEF PInv
<1> QED BY <1>1, <1>2, <1>3, EndHolds, PTL DEF AsyncSpec

\* A pipeline of any number of plain commands, sent when idle or from callbacks,
\* written and read in pieces of any size, with every fault, by an application
\* that neither subscribes nor monitors and does not close in its connect
\* callback: each callback is called with the answer to its own command, or with
\* NULL or the refusal of a server that then closes (async.c:411-489).
THEOREM AnswersMatchCommands ==
    ASSUME Kinds \subseteq {"plain"}, ~CloseInConnect
    PROVE  AsyncSpec => []RightCallback
BY PipelineHolds, PTL

\* In the same use of the API each callback is called at most once, and has been
\* called exactly once when the context is freed (async.c:275-317).
THEOREM EachCallbackOnce ==
    ASSUME Kinds \subseteq {"plain"}, ~CloseInConnect
    PROVE  AsyncSpec => []CallbacksOnce
BY PipelineHolds, PTL

\* In the same use of the API no assertion of async.c fails, that about a reply
\* nobody waits for (async.c:463) included, and no freed context is used.
THEOREM PipelineNeverCrashes ==
    ASSUME Kinds \subseteq {"plain"}, ~CloseInConnect
    PROVE  AsyncSpec => []NoCrash
BY PipelineHolds, PTL
=============================================================================
