---------------------------- MODULE RedisStrings ---------------------------
(***************************************************************************)
(* One string of sds.c in the hands of a caller that applies its functions *)
(* in any order; `text' is what the caller takes the string to hold.  Its  *)
(* reachable values are the inputs over which the splitting, quoting and   *)
(* formatting functions are checked against each other.                    *)
(***************************************************************************)
EXTENDS RedisFormat

CONSTANTS
    Alphabet,   \* the bytes the caller uses
    MaxText     \* bound on the length of the string

ASSUME StringAssumption == MaxText \in Nat

VARIABLES str, text
strVars == <<str, text>>

StrInit == str = sdsempty /\ text = <<>>

Becomes(h, t) == Len(t) <= MaxText /\ str' = Settled(h) /\ text' = t

\* sdscatlen, sdscat, sdscatsds
Cat(t) == Becomes(sdscatlen(str, t), text \o t)

\* sdscatprintf with "%s": the C string of t ends before its first zero.
CatPrintf(t) ==
    \E n \in DOMAIN t :
        /\ t[n] = NUL /\ \A i \in 1 .. (n - 1) : t[i] # NUL
        /\ Becomes(sdscatvprintf(str, t), text \o SubSeq(t, 1, n - 1))

\* sdscatfmt with a character, a %S and a %i
CatFmt(c, t) == Becomes(sdscatfmt(str, <<<<c>>, t, sdsll2str(Len(t))>>), text \o <<c>> \o t \o sdsll2str(Len(t)))

\* sdscpylen, sdscpy
Cpy(t) == Becomes(sdscpylen(str, t), t)

\* sdsnewlen, sdsnew, sdsdup of the string, sdsfree of the old one
Dup == Becomes(sdsnewlen(Text(str)), text)

\* sdsMakeRoomFor, a read of n bytes into the room, sdsIncrLen
MakeRoom(n) == Becomes(sdsMakeRoomFor(str, n), text)
Incr(t) ==
    /\ str.free >= Len(t)
    /\ Becomes(sdsIncrLen([str EXCEPT !.mem = Put(@, str.len, t)], Len(t)), text \o t)
TrimRight(n) == n <= str.len /\ Becomes(sdsIncrLen(str, -n), SubSeq(text, 1, Len(text) - n))

GrowZero(n) == Becomes(sdsgrowzero(str, n),
                       IF n <= Len(text) THEN text ELSE text \o [i \in 1 .. (n - Len(text)) |-> NUL])

RemoveFreeSpace == Becomes(sdsRemoveFreeSpace(str), text)
Clear == Becomes(sdsclear(str), <<>>)

\* The caller puts a zero into the text, and asks for its length again.
UpdateLen(n) ==
    /\ n < str.len
    /\ Becomes(sdsupdatelen([str EXCEPT !.mem = Put(@, n, <<NUL>>)]),
               LET z == {i \in 1 .. n : text[i] = NUL}
               IN  SubSeq(text, 1, IF z = {} THEN n ELSE Min(z) - 1))

\* What is left when bytes of cset (and zeros) are dropped from both ends.
Trim(cset) ==
    Becomes(sdstrim(str, cset),
            LET keep == {i \in 1 .. Len(text) : text[i] \notin cset \cup {NUL}}
            IN  IF keep = {} THEN <<>> ELSE SubSeq(text, Min(keep), Max(keep)))

\* The bytes of the text whose index, or index from the end, is in the range.
Cut(start, end) ==
    Becomes(sdsrange(str, start, end),
            LET inside == {i \in 0 .. (Len(text) - 1) :
                             /\ IF start >= 0 THEN i >= start ELSE i - Len(text) >= start
                             /\ IF end >= 0 THEN i <= end
                                ELSE i - Len(text) <= end \/ (i = 0 /\ Len(text) + end < 0)}
            IN  IF inside = {} THEN <<>> ELSE SubSeq(text, Min(inside) + 1, Max(inside) + 1))

MapChars(a, b) == Becomes(sdsmapchars(str, <<a>>, <<b>>), ReplaceAll(text, a, b))

Texts  == UNION {[1 .. n -> Alphabet] : n \in 1 .. 2}

StrNext ==
    \/ \E t \in Texts : Cat(t) \/ CatPrintf(t) \/ Cpy(t) \/ Incr(t)
    \/ \E c \in Alphabet : CatFmt(c, <<>>)
    \/ \E n \in 0 .. MaxText : MakeRoom(n) \/ TrimRight(n) \/ GrowZero(n) \/ UpdateLen(n)
    \/ \E i, j \in (-MaxText) .. MaxText : Cut(i, j)
    \/ \E c, d \in Alphabet : MapChars(c, d) \/ Trim({c})
    \/ Dup \/ RemoveFreeSpace \/ Clear

StrSpec == StrInit /\ [][StrNext]_strVars

-----------------------------------------------------------------------------
(* Properties *)

\* Whatever the sequence of calls, the string holds what its caller expects,
\* and its header tells the truth about the allocation: it is exactly as large
\* as len, free and the terminator say, the terminator is after the text, and no
\* function wrote past the end (sds.c: making room, appending, copying,
\* cutting, trimming, mapping, growing).
StringExact ==
    /\ Text(str) = text
    /\ str.len >= 0 /\ str.free >= 0
    /\ Len(str.mem) = str.len + str.free + 1
    /\ str.mem[str.len + 1] = NUL

\* sdssplitargs reads back, as one argument each, what sdscatrepr wrote for any
\* bytes (quotes, backslashes, line ends and zeros) and for none (sds.c:740, 815).
ReprReadBack ==
    LET line == sdscatrepr(sdscatlen(sdscatrepr(sdsempty, text), <<" ">>), <<>>)
    IN  sdssplitargs(Text(line)) = [ok |-> TRUE, args |-> <<text, <<>>>>]

\* Splitting at a separator and joining with it gives the string back, and no
\* part contains the separator; separators of two bytes that overlap
\* themselves included (sds.c:658, 961).
SplitJoined ==
    \A sep \in Texts :
        LET toks == sdssplitlen(text, sep)
        IN  /\ Text(sdsjoinsds(toks, sep)) = text
            /\ \A i \in DOMAIN toks : \A j \in 1 .. (Len(toks[i]) - Len(sep) + 1) :
                   SubSeq(toks[i], j, j + Len(sep) - 1) # sep

\* What one function of sds.c writes the other reads back, for every text:
\* quoting and splitting into arguments, splitting and joining.
TextReadBack == text # <<>> => (ReprReadBack /\ SplitJoined)

\* A command is as long as was computed before it was built (the assertions of
\* hiredis.c:515 and 561), both functions build the same bytes, and reading
\* the arguments back gives the ones that went in, whatever bytes they hold and
\* whether their length has one digit or two.
ArgvReadBack ==
    LET long == text \o text \o text \o text \o text
        argv == Append(sdssplitlen(text, <<" ">>), long)
        cmd  == redisFormatCommandArgv(argv)
    IN  /\ Len(cmd) = totlen(argv)
        /\ Text(redisFormatSdsCommandArgv(argv)) = cmd
        /\ Arguments(cmd) = argv

\* Without conversions, the arguments of a format are its words: blanks before,
\* after and between them add nothing (hiredis.c:210).
FormatWords ==
    (\A i \in DOMAIN text : text[i] \notin {"%", NUL}) =>
        redisvFormatCommand(text, <<>>).argv =
            SelectSeq(sdssplitlen(text, <<" ">>), LAMBDA w : w # <<>>)

\* Reading asks for the key and the fields that were passed (redis_db.cc:19-30, 42).
ReadSent ==
    (text # <<>> /\ NUL \notin ToSet(text)) =>
        /\ Arguments(HMGET(text, <<text>>)) = <<<<"HMGET">>, text, text>>
        /\ HGETALL(text).argv = <<<<"HGETALL">>, text>>

\* An update sends the fields and the values it was called with, if no value
\* has a blank (asserted, redis_db.cc:64-66) or a "%": Command passes the line
\* as a format (redis_client.h:54), so that "%" begins a conversion, although
\* the workload's values may consist of it (utils.h:64).
UpdateSent ==
    (text # <<>> /\ ToSet(text) \cap {" ", "%", NUL} = {}) =>
        HMSET(<<"k">>, <<<<<<"f">>, text>>, <<<<"g">>, <<"v">>>>>>).argv
            = <<<<"HMSET">>, <<"k">>, <<"f">>, text, <<"g">>, <<"v">>>>

\* The server gets the arguments that the caller passed: what a command is made
\* of is read back from its bytes, whether it came as arguments, as a format or
\* from a call of RedisDB.
CommandSent == text # <<>> => (ArgvReadBack /\ FormatWords /\ ReadSent /\ UpdateSent)
=============================================================================
