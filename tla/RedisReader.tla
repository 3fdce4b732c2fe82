---------------------------- MODULE RedisReader ----------------------------
(***************************************************************************)
(* The reply parser of hiredis (read.c) and the reply objects it builds    *)
(* (hiredis.c): a record r of the fields of redisReader and operators on   *)
(* it.  A byte is a string ("cr" and "lf" are the two that end a line).    *)
(* A reply is the function of its objects: the object at a path, the       *)
(* sequence of the numbers of elements that lead to it from the root.      *)
(* The stack of tasks is a sequence, empty for ridx = -1; `live' counts    *)
(* the reply objects allocated and not freed, `mem' is how many more       *)
(* allocations will succeed.  Only r->buf[pos, len) is ever read, and      *)
(* swapping an empty buffer for a smaller one (maxbuf) does not show.      *)
(***************************************************************************)
EXTENDS Integers, Sequences, FiniteSets, SequencesExt

CONSTANTS
    MaxDepth,   \* 8: the task that cannot be a multi bulk
    Discard,    \* 1024: consumed bytes that are worth a memmove
    IntRange,   \* 2^31: an int is at least -IntRange and less than IntRange
    LongRange   \* 2^63: the same for long and long long

ASSUME ReaderAssumption ==
    /\ MaxDepth \in Nat /\ Discard \in Nat \ {0}
    /\ IntRange \in Nat \ {0} /\ LongRange \in Nat \ {0}

EOL == <<"cr", "lf">>
None == <<>>       \* a NULL pointer: no object at any path

-----------------------------------------------------------------------------
(* Reply objects *)

Object(type, val) == [type |-> type, val |-> val, elements |-> 0]
Array(n)          == [type |-> "array", val |-> 0, elements |-> n]

\* Strings and arrays that are not empty need a second allocation.
Cost(o) == IF o.type \in {"string", "status", "error"} \/ o.elements > 0 THEN 2 ELSE 1

\* The number of objects freeReplyObject frees, those in arrays included.
Objects(tree) == Cardinality(DOMAIN tree)

\* The tree with o as the element at the end of path; a new root has no tree.
Plant(tree, path, o) ==
    [p \in {path} \cup (IF path = <<>> THEN {} ELSE DOMAIN tree) |-> IF p = path THEN o ELSE tree[p]]

-----------------------------------------------------------------------------
(* The reader *)

Task(idx) == [type |-> "any", elements |-> -1, idx |-> idx]

redisReaderCreate ==
    [buf |-> <<>>, pos |-> 0, stack |-> <<>>, reply |-> None, err |-> "no", live |-> 0, mem |-> 0,
     ok |-> TRUE, out |-> None]

\* Mutant of readerSetError: the part of the reply built so far is forgotten.
MutSetError(r, e) == [r EXCEPT !.reply = None, !.buf = <<>>, !.pos = 0, !.stack = <<>>, !.err = e, !.ok = FALSE]

\* __redisReaderSetError.
readerSetError(r, e) ==
    [r EXCEPT !.live = @ - Objects(r.reply), !.reply = None, !.buf = <<>>, !.pos = 0, !.stack = <<>>,
              !.err = e, !.ok = FALSE]

\* A function of the parser that returns REDIS_ERR to wait for more bytes.
Wait(r) == [r EXCEPT !.ok = FALSE]

Rest(r) == SubSeq(r.buf, r.pos + 1, Len(r.buf))

\* The length of the line s starts with, or -1.
seekNewline(s) ==
    LET ends == {i \in 1 .. Len(s) - 1 : s[i] = "cr" /\ s[i + 1] = "lf"}
    IN  IF ends = {} THEN -1 ELSE Min(ends) - 1

Digits == <<"0", "1", "2", "3", "4", "5", "6", "7", "8", "9">>
DigitValue(d) == CHOOSE n \in 0 .. 9 : Digits[n + 1] = d

\* n in the type of integers that are at least -h and less than h.
Wrap(n, h) == ((n + h) % (2 * h)) - h

\* Up to the first "cr", which need not be the one of the line end.
UpToCR(line) == SubSeq(line, 1, Min({i \in 1 .. Len(line) : line[i] = "cr"} \cup {Len(line) + 1}) - 1)

\* "Ambiguously returns -1 for unexpected input."  A sum that is too large is
\* undefined; it wraps.
readLongLong(line) ==
    LET text   == UpToCR(line)
        signed == text # <<>> /\ text[1] \in {"-", "+"}
        digits == IF signed THEN Tail(text) ELSE text
        mult   == IF signed /\ text[1] = "-" THEN -1 ELSE 1
        value[k \in 0 .. Len(digits)] ==
            IF k = 0 THEN 0 ELSE Wrap(10 * value[k - 1] + DigitValue(digits[k]), LongRange)
    IN  IF ToSet(digits) \subseteq ToSet(Digits) THEN Wrap(mult * value[Len(digits)], LongRange) ELSE -1

\* The line at pos (never asked for when there is none).
Line(r) == SubSeq(Rest(r), 1, seekNewline(Rest(r)))

\* Mutant of moveToNextTask: forgets to leave arrays that are complete.
MutNextTask(stack) ==
    IF Len(stack) <= 1 THEN <<>>
    ELSE IF stack[Len(stack)].idx = stack[Len(stack) - 1].elements - 1 THEN SubSeq(stack, 1, Len(stack) - 1)
    ELSE [stack EXCEPT ![Len(stack)] = Task(@.idx + 1)]

\* Back to the innermost array that still has elements to come.
moveToNextTask(stack) ==
    LET open == {k \in 2 .. Len(stack) : stack[k].idx # stack[k - 1].elements - 1}
    IN  IF open = {} THEN <<>>
        ELSE [SubSeq(stack, 1, Max(open)) EXCEPT ![Max(open)] = Task(@.idx + 1)]

\* Allocate o and hang it where the current task says.
Create(r, o) ==
    [r EXCEPT !.reply = Plant(@, [k \in 1 .. Len(r.stack) - 1 |-> r.stack[k + 1].idx + 1], o),
              !.live = @ + 1, !.mem = @ - Cost(o)]

\* The array that the current object is an element of has no element vector:
\* parent->element[task->idx] is written through a null pointer.
NoVector(stack) == Len(stack) > 1 /\ stack[Len(stack) - 1].elements <= 0
Crash(r) == [r EXCEPT !.err = "segv", !.ok = FALSE]

\* Create o, consume n bytes and go on with `stack'; or run out of memory.
Made(r, o, n, stack) ==
    IF r.mem < Cost(o) THEN readerSetError(r, "oom")
    ELSE IF NoVector(r.stack) THEN Crash(r)
    ELSE [Create(r, o) EXCEPT !.pos = @ + n, !.stack = stack]

processLineItem(r) ==
    LET line == Line(r)
        type == Last(r.stack).type
    IN  IF seekNewline(Rest(r)) = -1 THEN Wait(r)
        ELSE Made(r, IF type = "integer" THEN Object(type, readLongLong(line)) ELSE Object(type, line),
                  Len(line) + 2, moveToNextTask(r.stack))

\* "Only continue when the buffer contains the entire bulk item."
Whole(r, n) == r.pos + n <= Len(r.buf)

processBulkItem(r) ==
    LET size == readLongLong(Line(r))
        head == Len(Line(r)) + 2
        text == SubSeq(Rest(r), head + 1, head + size)
    IN  IF seekNewline(Rest(r)) = -1 THEN Wait(r)
        ELSE IF size < 0 THEN Made(r, Object("nil", 0), head, moveToNextTask(r.stack))
        ELSE IF ~Whole(r, head + size + 2) THEN Wait(r)
        ELSE Made(r, Object("string", text), head + size + 2, moveToNextTask(r.stack))

\* The count is a long; createArray and the task have it as an int, so that a
\* count beyond int may make an array without elements and a task below it.
processMultiBulkItem(r) ==
    LET n    == readLongLong(Line(r))
        int  == Wrap(n, IntRange)
        head == Len(Line(r)) + 2
        deep == Append([r.stack EXCEPT ![Len(r.stack)].elements = int], Task(0))
    IN  IF Len(r.stack) - 1 = MaxDepth THEN readerSetError(r, "protocol")
        ELSE IF seekNewline(Rest(r)) = -1 THEN Wait(r)
        ELSE IF n = -1 THEN Made(r, Object("nil", 0), head, moveToNextTask(r.stack))
        ELSE Made(r, Array(int), head, IF n > 0 THEN deep ELSE moveToNextTask(r.stack))

TypeByte == ("-" :> "error") @@ ("+" :> "status") @@ (":" :> "integer") @@ ("$" :> "string") @@ ("*" :> "array")

processTyped(r) ==
    CASE Last(r.stack).type = "string" -> processBulkItem(r)
      [] Last(r.stack).type = "array"  -> processMultiBulkItem(r)
      [] OTHER                         -> processLineItem(r)

processItem(r) ==
    IF Last(r.stack).type # "any" THEN processTyped(r)
    ELSE IF Rest(r) = <<>> THEN Wait(r)
    ELSE IF Rest(r)[1] \notin DOMAIN TypeByte THEN readerSetError(r, "protocol")
    ELSE processTyped([r EXCEPT !.pos = @ + 1, !.stack[Len(r.stack)].type = TypeByte[Rest(r)[1]]])

\* The loop of redisReaderGetReply; every turn but the last consumes bytes.
Turn(r) == IF r.stack = <<>> \/ ~r.ok THEN r ELSE processItem(r)
processItems(r) ==
    LET turns[k \in 0 .. Len(r.buf) + 1] == IF k = 0 THEN r ELSE Turn(turns[k - 1])
    IN  turns[Len(r.buf) + 1]

redisReaderFeed(r, bytes) ==
    IF r.err # "no" THEN [r EXCEPT !.ok = FALSE]
    ELSE IF r.mem = 0 THEN readerSetError(r, "oom")
    ELSE [r EXCEPT !.buf = @ \o bytes, !.ok = TRUE]

\* Mutant of Discarded: the position is kept.
MutDiscarded(r) == IF r.pos < Discard THEN r ELSE [r EXCEPT !.buf = Rest(r)]

Discarded(r) == IF r.pos < Discard THEN r ELSE [r EXCEPT !.buf = Rest(r), !.pos = 0]

\* "Emit a reply when there is one."
Emitted(r) == IF r.stack = <<>> THEN [r EXCEPT !.out = r.reply, !.reply = None] ELSE r

\* No item of r can be processed any more.
Stopped(r) == IF r.err # "no" THEN r ELSE Emitted(Discarded([r EXCEPT !.ok = TRUE]))

\* The status is .ok, the reply or NULL is .out.
redisReaderGetReply(r) ==
    LET s == [r EXCEPT !.out = None, !.ok = TRUE]
    IN  IF r.err # "no" THEN [s EXCEPT !.ok = FALSE]
        ELSE IF r.buf = <<>> THEN s
        ELSE Stopped(processItems(IF r.stack = <<>> THEN [s EXCEPT !.stack = <<Task(-1)>>] ELSE s))

\* The objects that are left when the reader is freed.
redisReaderFree(r) == r.live - Objects(r.reply)
=============================================================================
