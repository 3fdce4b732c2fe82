---------------------------- MODULE RedisFormat ----------------------------
(***************************************************************************)
(* How a command becomes the bytes of the Redis protocol (hiredis.c), how  *)
(* the asynchronous API reads its arguments back (nextArgument, async.c),  *)
(* and the commands that RedisDB and RedisClient build (redis_db.cc).  The *)
(* name of a command is one byte.                                          *)
(***************************************************************************)
EXTENDS Sds

CRLF == <<"cr", "lf">>

-----------------------------------------------------------------------------
(* Lengths *)

\* Mutant of countDigits: a boundary of the thresholds is off by one.
MutCountDigits(v) == IF v <= 10 THEN 1 ELSE IF v < 100 THEN 2 ELSE 3

\* Four digits a round.
countDigits(v) ==
    LET round == CHOOSE k \in 0 .. 4 : /\ v \div 10000 ^ k < 10000
                                       /\ k > 0 => v \div 10000 ^ (k - 1) >= 10000
        rest  == v \div 10000 ^ round
    IN  4 * round + (IF rest < 10 THEN 1 ELSE IF rest < 100 THEN 2 ELSE IF rest < 1000 THEN 3 ELSE 4)

bulklen(len) == 1 + countDigits(len) + 2 + len + 2

totlen(argv) == FoldLeft(LAMBDA n, a : n + bulklen(Len(a)), 1 + countDigits(Len(argv)) + 2, argv)

-----------------------------------------------------------------------------
(* From arguments to bytes *)

\* redisFormatCommandArgv, and the last part of redisvFormatCommand.
redisFormatCommandArgv(argv) ==
    FoldLeft(LAMBDA cmd, a : cmd \o <<"$">> \o sdsull2str(Len(a)) \o CRLF \o a \o CRLF,
             <<"*">> \o sdsll2str(Len(argv)) \o CRLF, argv)

\* redisFormatSdsCommandArgv: room for everything is made first.
redisFormatSdsCommandArgv(argv) ==
    FoldLeft(LAMBDA h, a :
                 sdscatlen(sdscatlen(sdscatfmt(h, <<<<"$">>, sdsull2str(Len(a)), <<"cr">>, <<"lf">>>>), a), CRLF),
             sdscatfmt(sdsMakeRoomFor(sdsempty, totlen(argv)),
                       <<<<"*">>, sdsll2str(Len(argv)), <<"cr">>, <<"lf">>>>),
             argv)

-----------------------------------------------------------------------------
(* From a format to arguments *)

At(fmt, k)       == IF k <= Len(fmt) THEN fmt[k] ELSE NUL
Skip(fmt, k, S)  == Min({j \in k .. (Len(fmt) + 1) : j > Len(fmt) \/ fmt[j] \notin S})
IntFmts == {"d", "i", "o", "u", "x", "X"}
DblFmts == {"e", "E", "f", "F", "g", "G", "a", "A"}

\* The printf conversion at index c: where its letter is and whether it is
\* valid.  strchr finds the terminator in the list of letters too.
Conversion(fmt, c) ==
    LET p1 == Skip(fmt, c + 1, {"#", "0", "-", "+", " "})
        p2 == Skip(fmt, p1, ToSet(Digit))
        p  == IF At(fmt, p2) = "." THEN Skip(fmt, p2 + 1, ToSet(Digit)) ELSE p2
        m  == IF At(fmt, p) \in {"h", "l"} THEN (IF At(fmt, p + 1) = At(fmt, p) THEN 2 ELSE 1) ELSE 0
    IN  [at |-> p + m,
         valid |-> IF m = 0 THEN At(fmt, p) \in IntFmts \cup DblFmts \cup {NUL}
                   ELSE At(fmt, p + m) \in IntFmts]

\* One round of the loop of redisvFormatCommand.  va: the texts of the
\* arguments not used yet; err "ub" stands for reading an argument that was
\* not passed, or the format past its end.
formatStep(fmt, st) ==
    LET ch   == At(fmt, st.c)
        nxt  == At(fmt, st.c + 1)
        conv == Conversion(fmt, st.c)
        add(t, n) == [st EXCEPT !.cur = @ \o t, !.touched = TRUE, !.c = @ + n]
        arg(n)    == IF st.va = <<>> THEN [st EXCEPT !.err = "ub"]
                     ELSE [add(Head(st.va), n) EXCEPT !.va = Tail(@)]
    IN CASE st.err # "no" \/ st.c > Len(fmt) -> st
         [] ch = " " -> IF st.touched
                        THEN [st EXCEPT !.argv = Append(@, st.cur), !.cur = <<>>, !.touched = FALSE, !.c = @ + 1]
                        ELSE [st EXCEPT !.c = @ + 1]
         [] ch # " " /\ (ch # "%" \/ nxt = NUL) -> add(<<ch>>, 1)
         [] ch = "%" /\ nxt \in {"s", "b"} -> arg(2)
         [] ch = "%" /\ nxt = "%" -> add(<<"%">>, 2)
         [] OTHER -> CASE ~conv.valid            -> [st EXCEPT !.err = "format"]
                       [] conv.at > Len(fmt)     -> [st EXCEPT !.err = "ub"]
                       [] conv.at - st.c + 1 < 14 -> arg(conv.at - st.c + 1)
                       [] OTHER -> \* too long for _format: skipped unprinted
                            IF st.va = <<>> THEN [st EXCEPT !.err = "ub"]
                            ELSE [st EXCEPT !.va = Tail(@), !.touched = TRUE, !.c = @ + 2]

redisvFormatCommand(fmt, va) ==
    LET r    == FoldLeft(LAMBDA st, k : formatStep(fmt, st),
                         [c |-> 1, cur |-> <<>>, touched |-> FALSE, argv |-> <<>>, va |-> va, err |-> "no"],
                         fmt)
        argv == IF r.touched THEN Append(r.argv, r.cur) ELSE r.argv
    IN  [err |-> r.err, argv |-> IF r.err = "no" THEN argv ELSE <<>>,
         cmd |-> IF r.err = "no" THEN redisFormatCommandArgv(argv) ELSE <<>>]

-----------------------------------------------------------------------------
(* Reading arguments back *)

strtol(cmd, k) ==
    LET end == Skip(cmd, k, ToSet(Digit))
        val(c) == (CHOOSE i \in 1 .. 10 : Digit[i] = c) - 1
    IN  FoldLeft(LAMBDA v, c : 10 * v + val(c), 0, SubSeq(cmd, k, end - 1))

\* The argument that starts at k or after it, and where the one after it is.
nextArgument(cmd, k) ==
    LET from(c, i) == {j \in i .. Len(cmd) : cmd[j] = c}
        p   == Min(from("$", k))
        len == strtol(cmd, p + 1)
        str == Min(from("cr", p)) + 2
    IN  IF from("$", k) = {} THEN [found |-> FALSE, arg |-> <<>>, next |-> k]
        ELSE [found |-> TRUE, arg |-> SubSeq(cmd, str, str + len - 1), next |-> str + len + 2]

\* The loop over the arguments in __redisAsyncCommand.
Arguments(cmd) ==
    LET step(st, k) == LET a == nextArgument(cmd, st.p)
                       IN  IF a.found THEN [p |-> a.next, args |-> Append(st.args, a.arg)] ELSE st
    IN  FoldLeft(step, [p |-> 1, args |-> <<>>], cmd).args

-----------------------------------------------------------------------------
(* The commands of RedisDB *)

\* Read: redisCommandArgv for some fields, a format for all of them.
HMGET(key, fields) == redisFormatCommandArgv(<<<<"HMGET">>, key>> \o fields)
HGETALL(key)       == redisvFormatCommand(<<"HGETALL", " ", "%", "s">>, <<key>>)

\* Update and Insert build one string, which RedisClient::Command passes as
\* the format of redisAppendCommand.
HMSETFormat(key, pairs) ==
    FoldLeft(LAMBDA t, p : t \o <<" ">> \o p[1] \o <<" ">> \o p[2], <<"HMSET", " ">> \o key, pairs)
HMSET(key, pairs) == redisvFormatCommand(HMSETFormat(key, pairs), <<>>)
DEL(key)          == redisvFormatCommand(<<"DEL", " ">> \o key, <<>>)
=============================================================================
