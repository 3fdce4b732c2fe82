-------------------------------- MODULE Sds --------------------------------
(***************************************************************************)
(* The dynamic strings of hiredis (sds.c): a header with len and free in   *)
(* front of an allocation of len + free + 1 bytes, a terminator after the  *)
(* last byte of the string.  The string functions are operators on that    *)
(* record; RedisStrings applies them in any order.                         *)
(*                                                                         *)
(* A byte is a one-character TLA+ string, or a name for one that has no    *)
(* such character.  What lies after the terminator is Junk: no operation   *)
(* reads it, the callers of sdsIncrLen write it first.                     *)
(***************************************************************************)
EXTENDS Integers, Sequences, SequencesExt, FiniteSetsExt

CONSTANT SDS_MAX_PREALLOC   \* up to here an enlarged string doubles

ASSUME SdsAssumption == SDS_MAX_PREALLOC \in Nat \ {0}

NUL  == "nul"
Junk == "junk"

-----------------------------------------------------------------------------
(* Memory *)

\* memcpy(mem + at, t, Len(t)).  A write past the end makes mem longer than
\* the header says.
Put(mem, at, t) ==
    [i \in 1 .. Max({Len(mem), at + Len(t)}) |->
        IF i \in (at + 1) .. (at + Len(t)) THEN t[i - at] ELSE mem[i]]

Resize(mem, n) == [i \in 1 .. n |-> IF i <= Len(mem) THEN mem[i] ELSE Junk]

Settled(h) ==
    [h EXCEPT !.mem = [i \in DOMAIN h.mem |-> IF i <= h.len + 1 THEN h.mem[i] ELSE Junk]]

Text(h) == SubSeq(h.mem, 1, h.len)

strlen(mem) == Min({i \in 1 .. Len(mem) : mem[i] = NUL}) - 1

-----------------------------------------------------------------------------
(* The header and its room *)

sdsnewlen(t) == [len |-> Len(t), free |-> 0, mem |-> Append(t, NUL)]
sdsempty     == sdsnewlen(<<>>)

\* Mutant of sdsMakeRoomFor: forgets that the text is already there.
MutMakeRoom(h, addlen) ==
    IF h.free >= addlen THEN h
    ELSE [h EXCEPT !.free = 2 * addlen, !.mem = Resize(@, h.len + addlen + 1)]

sdsMakeRoomFor(h, addlen) ==
    LET need   == h.len + addlen
        newlen == IF need < SDS_MAX_PREALLOC THEN 2 * need ELSE need + SDS_MAX_PREALLOC
    IN  IF h.free >= addlen THEN h
        ELSE [h EXCEPT !.free = newlen - h.len, !.mem = Resize(@, newlen + 1)]

sdsRemoveFreeSpace(h) == [h EXCEPT !.free = 0, !.mem = Resize(@, h.len + 1)]

sdsupdatelen(h) ==
    [h EXCEPT !.free = @ + (h.len - strlen(h.mem)), !.len = strlen(h.mem)]

sdsclear(h) == [h EXCEPT !.free = @ + h.len, !.len = 0, !.mem = Put(@, 0, <<NUL>>)]

\* The caller has written incr bytes after the text, or takes -incr bytes off.
sdsIncrLen(h, incr) ==
    [h EXCEPT !.len = @ + incr, !.free = @ - incr, !.mem = Put(@, h.len + incr, <<NUL>>)]

sdsgrowzero(h, len) ==
    LET r == sdsMakeRoomFor(h, len - h.len)
    IN  IF len <= h.len THEN h
        ELSE [len  |-> len,
              free |-> r.len + r.free - len,
              mem  |-> Put(r.mem, h.len, [i \in 1 .. (len - h.len + 1) |-> NUL])]

-----------------------------------------------------------------------------
(* Writing *)

sdscatlen(h, t) ==
    LET r == sdsMakeRoomFor(h, Len(t))
    IN  [len  |-> h.len + Len(t),
         free |-> r.free - Len(t),
         mem  |-> Put(r.mem, h.len, Append(t, NUL))]

sdscpylen(h, t) ==
    LET total == h.free + h.len
        r     == IF total < Len(t) THEN sdsMakeRoomFor(h, Len(t) - h.len) ELSE h
    IN  [len  |-> Len(t),
         free |-> r.free + r.len - Len(t),
         mem  |-> Put(r.mem, 0, Append(t, NUL))]

\* The decimal text of a number: the digits come last first, and are reversed.
Digit == <<"0", "1", "2", "3", "4", "5", "6", "7", "8", "9">>
sdsull2str(v) ==
    LET digits[n \in 0 .. v] == IF n < 10 THEN <<Digit[1 + n]>>
                                ELSE <<Digit[1 + (n % 10)]>> \o digits[n \div 10]
    IN  Reverse(digits[v])
sdsll2str(v) == IF v < 0 THEN <<"-">> \o sdsull2str(-v) ELSE sdsull2str(v)
sdsfromlonglong(v) == sdsnewlen(sdsll2str(v))

\* sdscatfmt: each piece of the format is one character, or the text of an
\* argument; room is made piece by piece and the terminator written last.
catfmtPiece(h, t) ==
    LET a == IF h.free = 0 THEN sdsMakeRoomFor(h, 1) ELSE h
        b == IF a.free < Len(t) THEN sdsMakeRoomFor(a, Len(t)) ELSE a
    IN  [len |-> b.len + Len(t), free |-> b.free - Len(t), mem |-> Put(b.mem, b.len, t)]
sdscatfmt(h, pieces) ==
    LET cat[k \in 0 .. Len(pieces)] == IF k = 0 THEN h ELSE catfmtPiece(cat[k - 1], pieces[k])
        r == cat[Len(pieces)]
    IN  [r EXCEPT !.mem = Put(@, r.len, <<NUL>>)]

\* The buffer grows until the printed text fits; what is before the first
\* zero of it is appended.
sdscatvprintf(h, t) == sdscatlen(h, SubSeq(Append(t, NUL), 1, strlen(Append(t, NUL))))

-----------------------------------------------------------------------------
(* Cutting and mapping in place *)

\* strchr finds the terminator of cset too: zero bytes are trimmed.
sdstrim(h, cset) ==
    LET keep == {i \in 1 .. h.len : h.mem[i] \notin cset \cup {NUL}}
        sp   == IF keep = {} THEN 1 ELSE Min(keep)
        len  == IF keep = {} THEN 0 ELSE Max(keep) - sp + 1
    IN  [len |-> len, free |-> h.free + (h.len - len),
         mem |-> Put(Put(h.mem, 0, SubSeq(h.mem, sp, sp + len - 1)), len, <<NUL>>)]

\* Mutant of sdsrange: an end past the last byte is not cut back.
MutRange(h, start, end) ==
    LET fromEnd(i) == IF i < 0 THEN Max({0, h.len + i}) ELSE i
        a   == fromEnd(start)
        b   == fromEnd(end)
        len == IF a > b \/ a >= h.len THEN 0 ELSE b - a + 1
    IN  IF h.len = 0 THEN h
        ELSE [len |-> len, free |-> h.free + (h.len - len),
              mem |-> Put(h.mem, len, <<NUL>>)]

\* Indices from 0, negative ones from the end.
sdsrange(h, start, end) ==
    LET fromEnd(i) == IF i < 0 THEN Max({0, h.len + i}) ELSE i
        a   == fromEnd(start)
        b   == fromEnd(end)
        len == IF a > b \/ a >= h.len THEN 0 ELSE Min({b, h.len - 1}) - a + 1
    IN  IF h.len = 0 THEN h
        ELSE [len |-> len, free |-> h.free + (h.len - len),
              mem |-> Put(Put(h.mem, 0, SubSeq(h.mem, a + 1, a + len)), len, <<NUL>>)]

\* sdsmapchars; sdstolower and sdstoupper are such a map of the letters.
sdsmapchars(h, from, to) ==
    LET image(c) == IF c \in ToSet(from) THEN to[SelectInSeq(from, LAMBDA x : x = c)] ELSE c
    IN  [h EXCEPT !.mem = [i \in DOMAIN h.mem |-> IF i <= h.len THEN image(h.mem[i]) ELSE h.mem[i]]]

-----------------------------------------------------------------------------
(* Splitting, joining, quoting *)

\* The places where sep may begin, from left to right; one inside an occurrence
\* already taken is passed over.
sdssplitlen(t, sep) ==
    LET at(j) == j + Len(sep) - 1 <= Len(t) /\ SubSeq(t, j, j + Len(sep) - 1) = sep
        step(acc, j) ==
            IF j >= acc.start /\ at(j)
            THEN [start |-> j + Len(sep), toks |-> Append(acc.toks, SubSeq(t, acc.start, j - 1))]
            ELSE acc
        split[j \in 0 .. Len(t)] == IF j = 0 THEN [start |-> 1, toks |-> <<>>] ELSE step(split[j - 1], j)
        r == split[Len(t)]
    IN  IF t = <<>> THEN <<>> ELSE Append(r.toks, SubSeq(t, r.start, Len(t)))

sdsjoinsds(toks, sep) ==
    LET add(h, j) == LET a == sdscatlen(h, toks[j]) IN IF j # Len(toks) THEN sdscatlen(a, sep) ELSE a
        join[j \in 0 .. Len(toks)] == IF j = 0 THEN sdsempty ELSE add(join[j - 1], j)
    IN  join[Len(toks)]

Backslash == "\\"
Quote     == "\""
Named     == [lf |-> "n", cr |-> "r", tab |-> "t", bel |-> "a", bs |-> "b"]
Hex       == [nul |-> <<"0", "0">>, esc |-> <<"1", "b">>]   \* bytes isprint refuses
isspace(c) == c \in {" ", "lf", "cr", "tab"}

\* Mutant of Repr: the quote itself is not escaped.
MutRepr(c) == IF c = Quote THEN <<c>> ELSE
              CASE c = Backslash         -> <<Backslash, c>>
                [] c \in DOMAIN Named    -> <<Backslash, Named[c]>>
                [] c \in DOMAIN Hex      -> <<Backslash, "x">> \o Hex[c]
                [] OTHER                 -> <<c>>

\* sdscatrepr: how one byte is written between the quotes.
Repr(c) == CASE c \in {Backslash, Quote} -> <<Backslash, c>>
             [] c \in DOMAIN Named       -> <<Backslash, Named[c]>>
             [] c \in DOMAIN Hex         -> <<Backslash, "x">> \o Hex[c]
             [] OTHER                    -> <<c>>
sdscatrepr(h, t) ==
    LET cat[k \in 0 .. Len(t)] == IF k = 0 THEN sdscatlen(h, <<Quote>>) ELSE sdscatlen(cat[k - 1], Repr(t[k]))
    IN  sdscatlen(cat[Len(t)], <<Quote>>)

\* sdssplitargs reads the line byte by byte.  mode: between arguments, in a
\* bare one, in quotes or in single quotes; p: the next byte to look at.
Unnamed(c) == IF \E b \in DOMAIN Named : Named[b] = c
              THEN CHOOSE b \in DOMAIN Named : Named[b] = c ELSE c
HexDigits ==
    <<{"0"}, {"1"}, {"2"}, {"3"}, {"4"}, {"5"}, {"6"}, {"7"}, {"8"}, {"9"},
      {"a", "A"}, {"b", "B"}, {"c", "C"}, {"d", "D"}, {"e", "E"}, {"f", "F"}>>
is_hex_pair(a, b)   == {a, b} \subseteq UNION {HexDigits[n] : n \in 1 .. 16}
hex_digit_to_int(d) == CHOOSE n \in 0 .. 15 : d \in HexDigits[n + 1]

\* The byte of a code: those without a name here, and those above 126, are "other".
Control == [nul |-> 0, bel |-> 7, bs |-> 8, tab |-> 9, lf |-> 10, cr |-> 13, esc |-> 27]
Printable ==
    <<" ", "!", Quote, "#", "$", "%", "&", "'", "(", ")", "*", "+", ",", "-", ".", "/", "0", "1", "2", "3",
      "4", "5", "6", "7", "8", "9", ":", ";", "<", "=", ">", "?", "@", "A", "B", "C", "D", "E", "F", "G",
      "H", "I", "J", "K", "L", "M", "N", "O", "P", "Q", "R", "S", "T", "U", "V", "W", "X", "Y", "Z", "[",
      Backslash, "]", "^", "_", "grave", "a", "b", "c", "d", "e", "f", "g", "h", "i", "j", "k", "l", "m", "n",
      "o", "p", "q", "r", "s", "t", "u", "v", "w", "x", "y", "z", "{", "|", "}", "~">>
hexByte(a, b) ==
    LET code  == 16 * hex_digit_to_int(a) + hex_digit_to_int(b)
        named == {c \in DOMAIN Control : Control[c] = code}
    IN  IF code \in 32 .. 126 THEN Printable[code - 31]
        ELSE IF named = {} THEN "other" ELSE CHOOSE c \in named : TRUE
splitStep(line, st) ==
    LET at(k) == IF k <= Len(line) THEN line[k] ELSE NUL
        c     == at(st.p)
        take(x, n) == [st EXCEPT !.cur = Append(@, x), !.p = @ + n]
        close == IF at(st.p + 1) # NUL /\ ~isspace(at(st.p + 1)) THEN [st EXCEPT !.mode = "err"]
                 ELSE [mode |-> "blank", cur |-> <<>>, args |-> Append(st.args, st.cur), p |-> st.p + 1]
    IN CASE st.mode = "blank" ->
              (CASE c = NUL     -> [st EXCEPT !.mode = "end"]
                 [] isspace(c)  -> [st EXCEPT !.p = @ + 1]
                 [] OTHER       -> [st EXCEPT !.mode = "bare"])
         [] st.mode = "bare" ->
              (CASE c = NUL \/ isspace(c) ->
                        [mode |-> "blank", cur |-> <<>>, args |-> Append(st.args, st.cur),
                         p |-> IF c = NUL THEN st.p ELSE st.p + 1]
                 [] c = Quote   -> [st EXCEPT !.mode = "quoted", !.p = @ + 1]
                 [] c = "'"     -> [st EXCEPT !.mode = "single", !.p = @ + 1]
                 [] OTHER       -> take(c, 1))
         [] st.mode = "quoted" ->
              (CASE c = Backslash /\ at(st.p + 1) = "x" /\ is_hex_pair(at(st.p + 2), at(st.p + 3)) ->
                        take(hexByte(at(st.p + 2), at(st.p + 3)), 4)
                 [] c = Backslash /\ at(st.p + 1) # NUL
                      /\ ~(at(st.p + 1) = "x" /\ is_hex_pair(at(st.p + 2), at(st.p + 3))) ->
                        take(Unnamed(at(st.p + 1)), 2)
                 [] c = Quote   -> close
                 [] c = NUL     -> [st EXCEPT !.mode = "err"]
                 [] OTHER       -> take(c, 1))
         [] st.mode = "single" ->
              (CASE c = Backslash /\ at(st.p + 1) = "'" -> take("'", 2)
                 [] c = "'"     -> close
                 [] c = NUL     -> [st EXCEPT !.mode = "err"]
                 [] OTHER       -> take(c, 1))
         [] OTHER -> st
\* What the function returns: the arguments, or nothing for a malformed line.
sdssplitargs(line) ==
    LET steps == 3 * Len(line) + 3
        read[k \in 0 .. steps] == IF k = 0 THEN [mode |-> "blank", cur |-> <<>>, args |-> <<>>, p |-> 1]
                                  ELSE splitStep(line, read[k - 1])
        r == read[steps]
    IN  [ok |-> r.mode = "end", args |-> IF r.mode = "end" THEN r.args ELSE <<>>]
=============================================================================
