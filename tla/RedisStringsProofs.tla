------------------------- MODULE RedisStringsProofs -------------------------
(***************************************************************************)
(* Theorems about RedisStrings: whatever its caller does, a string of      *)
(* sds.c holds what the caller expects, and what is written of it in       *)
(* quotes, or cut from it at a separator, is read back.  For every         *)
(* alphabet, every length and every preallocation.                         *)
(***************************************************************************)
EXTENDS RedisStrings, SeqFacts

\* What a byte of an allocation may be: quoting adds some of its own.
Blank   == " "
Quoting == {Backslash, Quote, Blank, "x", "n", "r", "t", "a", "b"}
Bytes   == Alphabet \cup ToSet(Digit) \cup {NUL, Junk} \cup Quoting

Header == [len : Nat, free : Nat, mem : Seq(Bytes)]

\* The string h has the text t, though the terminator may not be written yet.
Body(h, t) ==
    /\ h \in Header /\ t \in Seq(Bytes)
    /\ h.len = Len(t)
    /\ Len(h.mem) = h.len + h.free + 1
    /\ \A i \in 1 .. Len(t) : h.mem[i] = t[i]

Sound(h, t) == Body(h, t) /\ h.mem[h.len + 1] = NUL

\* The inductive invariant.
StrInv == Sound(str, text)

-----------------------------------------------------------------------------
(* Sequences *)

LEMMA SeqIs ==
    ASSUME NEW B, NEW s \in Seq(B)
    PROVE  /\ Len(s) \in Nat /\ DOMAIN s = 1 .. Len(s) /\ s \in [1 .. Len(s) -> B]
           /\ \A i \in 1 .. Len(s) : s[i] \in B
OBVIOUS

LEMMA SameSeq ==
    ASSUME NEW A, NEW B, NEW s \in Seq(A), NEW t \in Seq(B), Len(s) = Len(t),
           \A i \in 1 .. Len(s) : s[i] = t[i]
    PROVE  s = t
<1>1. /\ s \in [1 .. Len(s) -> A] /\ t \in [1 .. Len(s) -> B]
  BY SeqIs
<1> QED BY <1>1

LEMMA Concat ==
    ASSUME NEW B, NEW s \in Seq(B), NEW t \in Seq(B)
    PROVE  /\ s \o t \in Seq(B) /\ Len(s \o t) = Len(s) + Len(t)
           /\ \A i \in 1 .. Len(s) : (s \o t)[i] = s[i]
           /\ \A i \in 1 .. Len(t) : (s \o t)[Len(s) + i] = t[i]
<1>1. s \o t \in Seq(B) /\ Len(s \o t) = Len(s) + Len(t)
  OBVIOUS
<1>2. \A i \in 1 .. Len(s) : (s \o t)[i] = s[i]
  OBVIOUS
<1>3. ASSUME NEW i \in 1 .. Len(t) PROVE (s \o t)[Len(s) + i] = t[i]
  OBVIOUS
<1> QED BY <1>1, <1>2, <1>3

LEMMA Prefix ==
    ASSUME NEW B, NEW s \in Seq(B), NEW n \in 0 .. Len(s)
    PROVE  /\ SubSeq(s, 1, n) \in Seq(B) /\ Len(SubSeq(s, 1, n)) = n
           /\ \A i \in 1 .. n : SubSeq(s, 1, n)[i] = s[i]
<1>1. Len(s) \in Nat /\ n \in Nat
  BY SeqIs
<1> QED BY <1>1

LEMMA Slice ==
    ASSUME NEW B, NEW s \in Seq(B), NEW a \in Nat, NEW n \in Nat, a + n <= Len(s)
    PROVE  /\ SubSeq(s, a + 1, a + n) \in Seq(B) /\ Len(SubSeq(s, a + 1, a + n)) = n
           /\ \A i \in 1 .. n : SubSeq(s, a + 1, a + n)[i] = s[a + i]
<1>1. Len(s) \in Nat
  BY SeqIs
<1> QED BY <1>1

LEMMA Appended ==
    ASSUME NEW B, NEW s \in Seq(B), NEW x \in B
    PROVE  /\ Append(s, x) \in Seq(B) /\ Len(Append(s, x)) = Len(s) + 1
           /\ \A i \in 1 .. Len(s) : Append(s, x)[i] = s[i]
           /\ Append(s, x)[Len(s) + 1] = x
OBVIOUS

LEMMA Single == ASSUME NEW B, NEW x \in B
                PROVE  <<x>> \in Seq(B) /\ Len(<<x>>) = 1 /\ <<x>>[1] = x
OBVIOUS

-----------------------------------------------------------------------------
(* Memory *)

LEMMA BytesIn == NUL \in Bytes /\ Junk \in Bytes
BY DEF Bytes

\* A write inside the allocation leaves its size alone.
LEMMA PutInside ==
    ASSUME NEW mem \in Seq(Bytes), NEW t \in Seq(Bytes), NEW at \in Nat, at + Len(t) <= Len(mem)
    PROVE  /\ Put(mem, at, t) \in Seq(Bytes) /\ Len(Put(mem, at, t)) = Len(mem)
           /\ \A i \in 1 .. Len(t) : Put(mem, at, t)[at + i] = t[i]
           /\ \A i \in 1 .. Len(mem) : i <= at \/ i > at + Len(t) => Put(mem, at, t)[i] = mem[i]
<1>1. Len(mem) \in Nat /\ Len(t) \in Nat
  BY SeqIs
<1>2. Max({Len(mem), at + Len(t)}) = Len(mem)
  <2>1. PICK m : m = Len(mem)
    OBVIOUS
  <2>2. PICK k : k = at + Len(t)
    OBVIOUS
  <2>3. m \in Nat /\ k \in Nat /\ k <= m
    BY <1>1, <2>1, <2>2
  <2>4. Max({m, k}) = m
    BY <2>3 DEF Max
  <2> QED BY <2>1, <2>2, <2>4
<1>3. Put(mem, at, t) = [i \in 1 .. Len(mem) |->
                            IF i \in (at + 1) .. (at + Len(t)) THEN t[i - at] ELSE mem[i]]
  BY <1>2 DEF Put
<1>4. \A i \in 1 .. Len(mem) : i \in (at + 1) .. (at + Len(t)) => t[i - at] \in Bytes
  BY <1>1
<1>5. Put(mem, at, t) \in [1 .. Len(mem) -> Bytes]
  BY <1>1, <1>3, <1>4, SeqIs
<1>6. Put(mem, at, t) \in Seq(Bytes) /\ Len(Put(mem, at, t)) = Len(mem)
  BY <1>1, <1>5
<1>7. ASSUME NEW i \in 1 .. Len(t) PROVE Put(mem, at, t)[at + i] = t[i]
  <2>1. at + i \in 1 .. Len(mem) /\ at + i \in (at + 1) .. (at + Len(t)) /\ (at + i) - at = i
    BY <1>1
  <2> QED BY <1>3, <2>1
<1>8. ASSUME NEW i \in 1 .. Len(mem), i <= at \/ i > at + Len(t) PROVE Put(mem, at, t)[i] = mem[i]
  <2>1. ~ (i \in (at + 1) .. (at + Len(t)))
    BY <1>1, <1>8
  <2> QED BY <1>3, <2>1
<1> QED BY <1>6, <1>7, <1>8

LEMMA Resized ==
    ASSUME NEW mem \in Seq(Bytes), NEW n \in Nat
    PROVE  /\ Resize(mem, n) \in Seq(Bytes) /\ Len(Resize(mem, n)) = n
           /\ \A i \in 1 .. n : i <= Len(mem) => Resize(mem, n)[i] = mem[i]
<1>1. Len(mem) \in Nat /\ \A i \in 1 .. Len(mem) : mem[i] \in Bytes
  BY SeqIs
<1>2. \A i \in 1 .. n : i <= Len(mem) => i \in 1 .. Len(mem)
  BY <1>1
<1>3. Resize(mem, n) \in [1 .. n -> Bytes]
  BY <1>1, <1>2, BytesIn DEF Resize
<1>4. Resize(mem, n) \in Seq(Bytes) /\ Len(Resize(mem, n)) = n
  BY <1>3
<1>5. \A i \in 1 .. n : i <= Len(mem) => Resize(mem, n)[i] = mem[i]
  BY <1>1 DEF Resize
<1> QED BY <1>4, <1>5

-----------------------------------------------------------------------------
(* The header *)

LEMMA Numbers ==
    ASSUME NEW h, NEW t, Body(h, t)
    PROVE  /\ h.len \in Nat /\ h.free \in Nat /\ h.mem \in Seq(Bytes) /\ t \in Seq(Bytes)
           /\ Len(t) \in Nat /\ h.len = Len(t) /\ Len(h.mem) \in Nat
           /\ Len(h.mem) = h.len + h.free + 1
           /\ h = [len |-> h.len, free |-> h.free, mem |-> h.mem]
<1>1. h \in Header /\ t \in Seq(Bytes)
  BY DEF Body
<1>2. h.len \in Nat /\ h.free \in Nat /\ h.mem \in Seq(Bytes)
      /\ h = [len |-> h.len, free |-> h.free, mem |-> h.mem]
  BY <1>1 DEF Header
<1>3. Len(t) \in Nat /\ Len(h.mem) \in Nat
  BY <1>1, <1>2, SeqIs
<1> QED BY <1>1, <1>2, <1>3 DEF Body

\* A header with some fields replaced.
LEMMA Replaced ==
    ASSUME NEW h, NEW l, NEW f, NEW m, h = [len |-> h.len, free |-> h.free, mem |-> h.mem]
    PROVE  /\ [h EXCEPT !.mem = m] = [len |-> h.len, free |-> h.free, mem |-> m]
           /\ [h EXCEPT !.free = f, !.mem = m] = [len |-> h.len, free |-> f, mem |-> m]
           /\ [h EXCEPT !.free = f, !.len = l] = [len |-> l, free |-> f, mem |-> h.mem]
<1>0. PICK a, b, c : h = [len |-> a, free |-> b, mem |-> c] /\ a = h.len /\ b = h.free /\ c = h.mem
  OBVIOUS
<1>1. [h EXCEPT !.mem = m] = [len |-> a, free |-> b, mem |-> m]
  <2>1. PICK g : g = [h EXCEPT !.mem = m]
    OBVIOUS
  <2>2. /\ DOMAIN g = {"len", "free", "mem"} /\ g = [i \in DOMAIN g |-> g[i]]
        /\ g.len = a /\ g.free = b /\ g.mem = m
    BY ONLY <1>0, <2>1
  <2> QED BY ONLY <2>1, <2>2
<1>2. [h EXCEPT !.free = f, !.mem = m] = [len |-> a, free |-> f, mem |-> m]
  <2>1. PICK g : g = [h EXCEPT !.free = f, !.mem = m]
    OBVIOUS
  <2>2. /\ DOMAIN g = {"len", "free", "mem"} /\ g = [i \in DOMAIN g |-> g[i]]
        /\ g.len = a /\ g.free = f /\ g.mem = m
    BY ONLY <1>0, <2>1
  <2> QED BY ONLY <2>1, <2>2
<1>3. [h EXCEPT !.free = f, !.len = l] = [len |-> l, free |-> f, mem |-> c]
  <2>1. PICK g : g = [h EXCEPT !.free = f, !.len = l]
    OBVIOUS
  <2>2. /\ DOMAIN g = {"len", "free", "mem"} /\ g = [i \in DOMAIN g |-> g[i]]
        /\ g.len = l /\ g.free = f /\ g.mem = c
    BY ONLY <1>0, <2>1
  <2> QED BY ONLY <2>1, <2>2
<1> QED BY <1>0, <1>1, <1>2, <1>3

LEMMA AllReplaced ==
    ASSUME NEW h, NEW l, NEW f, NEW m, NEW g, h = [len |-> h.len, free |-> h.free, mem |-> h.mem],
           \/ g = [h EXCEPT !.len = l, !.free = f, !.mem = m]
           \/ g = [h EXCEPT !.free = f, !.len = l, !.mem = m]
    PROVE  g = [len |-> l, free |-> f, mem |-> m]
<1>0. PICK a, b, c : h = [len |-> a, free |-> b, mem |-> c]
  OBVIOUS
<1>1. /\ DOMAIN g = {"len", "free", "mem"} /\ g = [i \in DOMAIN g |-> g[i]]
      /\ g.len = l /\ g.free = f /\ g.mem = m
  BY <1>0
<1> QED BY ONLY <1>1

\* What has to be shown of a header.
LEMMA IsBody ==
    ASSUME NEW l \in Nat, NEW f \in Nat, NEW m \in Seq(Bytes), NEW t \in Seq(Bytes),
           l = Len(t), Len(m) = l + f + 1, \A i \in 1 .. Len(t) : m[i] = t[i]
    PROVE  /\ Body([len |-> l, free |-> f, mem |-> m], t)
           /\ m[l + 1] = NUL => Sound([len |-> l, free |-> f, mem |-> m], t)
<1>1. [len |-> l, free |-> f, mem |-> m] \in Header
  BY DEF Header
<1>2. Body([len |-> l, free |-> f, mem |-> m], t)
  BY <1>1 DEF Body
<1> QED BY <1>2 DEF Sound

\* u is written from place `at' of the text on, and the terminator after it.
LEMMA Written ==
    ASSUME NEW h, NEW t, Body(h, t), NEW at \in 0 .. Len(t), NEW u \in Seq(Bytes),
           NEW l, NEW f, l = at + Len(u), f = h.len + h.free - l, l <= h.len + h.free
    PROVE  Sound([len |-> l, free |-> f, mem |-> Put(h.mem, at, Append(u, NUL))],
                 SubSeq(t, 1, at) \o u)
<1>0. PICK hl, hf, tl, ul, ml : hl = h.len /\ hf = h.free /\ tl = Len(t) /\ ul = Len(u) /\ ml = Len(h.mem)
  OBVIOUS
<1>1. /\ h.mem \in Seq(Bytes) /\ t \in Seq(Bytes)
      /\ hl \in Nat /\ hf \in Nat /\ hl = tl /\ ml = hl + hf + 1 /\ tl \in Nat
  BY <1>0, Numbers
<1>2. ul \in Nat /\ at \in 0 .. tl
  BY <1>0, SeqIs
<1>3. l = at + ul /\ f = hl + hf - l /\ l <= hl + hf
  BY <1>0
<1>4. /\ l \in Nat /\ f \in Nat /\ at \in Nat /\ ml = l + f + 1 /\ at + (ul + 1) <= ml
      /\ \A i \in 1 .. at : i \in 1 .. tl /\ i \in 1 .. ml /\ i <= at
      /\ \A i \in 1 .. l : i \in 1 .. at \/ (i - at \in 1 .. ul /\ i = at + (i - at))
      /\ \A i \in 1 .. ul : i \in 1 .. ul + 1
      /\ ul + 1 \in 1 .. ul + 1 /\ l + 1 = at + (ul + 1)
  BY ONLY <1>1, <1>2, <1>3
<1> DEFINE w == Append(u, NUL)
           m == Put(h.mem, at, w)
           v == SubSeq(t, 1, at) \o u
<1>5. /\ w \in Seq(Bytes) /\ Len(w) = ul + 1
      /\ \A i \in 1 .. ul : w[i] = u[i]
      /\ w[ul + 1] = NUL
  BY <1>0, Appended, BytesIn
<1> HIDE DEF w
<1>6. /\ m \in Seq(Bytes) /\ Len(m) = ml
      /\ \A i \in 1 .. ul + 1 : m[at + i] = w[i]
      /\ \A i \in 1 .. ml : i <= at => m[i] = h.mem[i]
  <2>1. at + Len(w) <= Len(h.mem)
    BY <1>0, <1>4, <1>5
  <2>2. /\ m \in Seq(Bytes) /\ Len(m) = Len(h.mem)
        /\ \A i \in 1 .. Len(w) : m[at + i] = w[i]
        /\ \A i \in 1 .. Len(h.mem) : i <= at \/ i > at + Len(w) => m[i] = h.mem[i]
    <3>1. PICK mem : mem = h.mem
      OBVIOUS
    <3>2. mem \in Seq(Bytes) /\ w \in Seq(Bytes) /\ at \in Nat /\ at + Len(w) <= Len(mem)
      BY <1>1, <1>4, <1>5, <2>1, <3>1
    <3>3. /\ Put(mem, at, w) \in Seq(Bytes) /\ Len(Put(mem, at, w)) = Len(mem)
          /\ \A i \in 1 .. Len(w) : Put(mem, at, w)[at + i] = w[i]
          /\ \A i \in 1 .. Len(mem) : i <= at \/ i > at + Len(w) => Put(mem, at, w)[i] = mem[i]
      BY ONLY <3>2, PutInside
    <3> QED BY <3>1, <3>3
  <2> HIDE DEF m
  <2> QED BY <1>0, <1>5, <2>2
<1>7. /\ SubSeq(t, 1, at) \in Seq(Bytes) /\ Len(SubSeq(t, 1, at)) = at
      /\ \A i \in 1 .. at : SubSeq(t, 1, at)[i] = t[i]
  BY <1>1, Prefix
<1>8. /\ v \in Seq(Bytes) /\ Len(v) = l
      /\ \A i \in 1 .. at : v[i] = t[i]
      /\ \A i \in 1 .. ul : v[at + i] = u[i]
  <2>1. PICK p : p = SubSeq(t, 1, at)
    OBVIOUS
  <2>2. p \in Seq(Bytes) /\ Len(p) = at /\ \A i \in 1 .. at : p[i] = t[i]
    BY <1>7, <2>1
  <2>3. PICK z : z = p \o u
    OBVIOUS
  <2>4. /\ z \in Seq(Bytes) /\ Len(z) = Len(p) + Len(u) /\ (\A i \in 1 .. Len(p) : z[i] = p[i])
        /\ \A i \in 1 .. Len(u) : z[Len(p) + i] = u[i]
    <3>1. p \in Seq(Bytes) /\ u \in Seq(Bytes)
      BY <2>2
    <3> QED BY ONLY <2>3, <3>1, Concat
  <2>5. v = z
    BY <2>1, <2>3
  <2>6. Len(u) = ul /\ l = at + ul
    BY <1>0, <1>3
  <2> HIDE DEF v
  <2> QED BY ONLY <2>2, <2>4, <2>5, <2>6
<1> HIDE DEF m, v
<1>9. \A i \in 1 .. l : m[i] = v[i]
  <2> TAKE i \in 1 .. l
  <2>1. CASE i \in 1 .. at
    <3>1. i \in 1 .. tl /\ i \in 1 .. ml /\ i <= at
      BY <1>4, <2>1
    <3>2. m[i] = h.mem[i] /\ h.mem[i] = t[i]
      BY <1>0, <1>6, <3>1 DEF Body
    <3> QED BY <1>8, <2>1, <3>2
  <2>2. CASE i - at \in 1 .. ul /\ i = at + (i - at)
    <3>1. PICK j \in 1 .. ul : i = at + j
      BY <2>2
    <3> QED BY <1>4, <1>5, <1>6, <1>8, <3>1
  <2> QED BY <1>4, <2>1, <2>2
<1>10. m[l + 1] = NUL
  BY <1>4, <1>5, <1>6
<1>11. Sound([len |-> l, free |-> f, mem |-> m], v)
  BY <1>4, <1>6, <1>8, <1>9, <1>10, IsBody
<1> QED BY <1>11 DEF m, v, w

\* Making room changes neither the text nor the terminator.
LEMMA RoomMade ==
    ASSUME NEW h, NEW t, Body(h, t), NEW n \in Nat
    PROVE  /\ Body(sdsMakeRoomFor(h, n), t)
           /\ sdsMakeRoomFor(h, n).free >= n
           /\ sdsMakeRoomFor(h, n).len = h.len
           /\ Sound(h, t) => Sound(sdsMakeRoomFor(h, n), t)
<1>1. /\ h.len \in Nat /\ h.free \in Nat /\ h.mem \in Seq(Bytes) /\ t \in Seq(Bytes)
      /\ h.len = Len(t) /\ Len(h.mem) = h.len + h.free + 1 /\ Len(t) \in Nat
  BY Numbers
<1>0. h \in Header
  BY DEF Body
<1>2. CASE h.free >= n
  BY <1>1, <1>2 DEF sdsMakeRoomFor
<1>3. CASE ~(h.free >= n)
  <2>0. PICK newlen : newlen = IF h.len + n < SDS_MAX_PREALLOC THEN 2 * (h.len + n)
                              ELSE h.len + n + SDS_MAX_PREALLOC
    OBVIOUS
  <2> DEFINE m == Resize(h.mem, newlen + 1)
             r == [len |-> h.len, free |-> newlen - h.len, mem |-> m]
  <2>1. sdsMakeRoomFor(h, n) = [h EXCEPT !.free = newlen - h.len, !.mem = m]
    BY <1>3, <2>0 DEF sdsMakeRoomFor
  <2>2. [h EXCEPT !.free = newlen - h.len, !.mem = m] = r
    <3> HIDE DEF m
    <3>1. PICK x : x = newlen - h.len
      OBVIOUS
    <3>2. h = [len |-> h.len, free |-> h.free, mem |-> h.mem]
      BY Numbers
    <3>3. [h EXCEPT !.free = x, !.mem = m] = [len |-> h.len, free |-> x, mem |-> m]
      BY ONLY <3>2, Replaced
    <3> QED BY <3>1, <3>3
  <2>3. newlen \in Nat /\ newlen - h.len \in Nat /\ newlen - h.len >= n /\ newlen + 1 \in Nat
        /\ newlen >= h.len + n
    <3>1. PICK hl : hl = h.len
      OBVIOUS
    <3>2. hl \in Nat /\ newlen = IF hl + n < SDS_MAX_PREALLOC THEN 2 * (hl + n)
                                 ELSE hl + n + SDS_MAX_PREALLOC
      BY <1>1, <2>0, <3>1
    <3>3. newlen \in Nat /\ newlen - hl \in Nat /\ newlen - hl >= n /\ newlen + 1 \in Nat
          /\ newlen >= hl + n
      BY ONLY <3>2, SdsAssumption, n \in Nat
    <3> QED BY <3>1, <3>3
  <2>4. /\ m \in Seq(Bytes) /\ Len(m) = newlen + 1
        /\ \A i \in 1 .. newlen + 1 : i <= Len(h.mem) => m[i] = h.mem[i]
    BY <1>1, <2>3, Resized
  <2> HIDE DEF m
  <2>5. \A i \in 1 .. Len(t) + 1 : i \in 1 .. newlen + 1 /\ i <= Len(h.mem)
    BY <1>1, <2>3
  <2>6. \A i \in 1 .. Len(t) : m[i] = t[i]
    <3> TAKE i \in 1 .. Len(t)
    <3>1. i \in 1 .. Len(t) + 1
      BY <1>1
    <3> QED BY <2>4, <2>5, <3>1 DEF Body
  <2>7. h.mem[h.len + 1] = NUL => m[h.len + 1] = NUL
    <3>1. h.len + 1 \in 1 .. Len(t) + 1
      BY <1>1
    <3> QED BY <2>4, <2>5, <3>1
  <2>8. Len(m) = h.len + (newlen - h.len) + 1
    BY <1>1, <2>3, <2>4
  <2>9. Body(r, t) /\ (m[h.len + 1] = NUL => Sound(r, t))
    BY <1>1, <2>3, <2>4, <2>6, <2>8, IsBody
  <2> QED BY <2>1, <2>2, <2>3, <2>7, <2>9 DEF Sound
<1> QED BY <1>2, <1>3

\* What lies after the terminator does not matter.
LEMMA SettledSound == ASSUME NEW h, NEW t, Sound(h, t) PROVE Sound(Settled(h), t)
<1>0. Body(h, t)
  BY DEF Sound
<1>1. PICK l, f, m : l = h.len /\ f = h.free /\ m = h.mem
  OBVIOUS
<1>2. /\ l \in Nat /\ f \in Nat /\ m \in Seq(Bytes) /\ t \in Seq(Bytes)
      /\ l = Len(t) /\ Len(m) = l + f + 1 /\ m[l + 1] = NUL
      /\ \A i \in 1 .. Len(t) : m[i] = t[i]
  BY <1>0, <1>1, Numbers DEF Sound, Body
<1>3. DOMAIN m = 1 .. (l + f + 1) /\ \A i \in 1 .. (l + f + 1) : m[i] \in Bytes
  BY <1>2, SeqIs
<1> DEFINE w == [i \in DOMAIN m |-> IF i <= l + 1 THEN m[i] ELSE Junk]
<1>4. Settled(h) = [len |-> l, free |-> f, mem |-> w]
  <2>1. h = [len |-> h.len, free |-> h.free, mem |-> h.mem]
    BY <1>0, Numbers
  <2>2. Settled(h) = [h EXCEPT !.mem = w]
    BY <1>1 DEF Settled
  <2> HIDE DEF w
  <2> QED BY <1>1, <2>1, <2>2, Replaced
<1>5. w \in [1 .. (l + f + 1) -> Bytes]
  BY <1>3, BytesIn
<1>6. w \in Seq(Bytes) /\ Len(w) = l + f + 1
  <2> HIDE DEF w
  <2>1. l + f + 1 \in Nat
    BY <1>2
  <2> QED BY <1>5, <2>1
<1>7. \A i \in 1 .. l + 1 : w[i] = m[i]
  <2>1. \A i \in 1 .. l + 1 : i \in 1 .. (l + f + 1) /\ i <= l + 1
    BY <1>2
  <2> QED BY <1>3, <2>1
<1> HIDE DEF w
<1>8. (\A i \in 1 .. Len(t) : w[i] = t[i]) /\ w[l + 1] = NUL
  <2>1. (\A i \in 1 .. l : i \in 1 .. l + 1) /\ l + 1 \in 1 .. l + 1
    BY <1>2
  <2> QED BY <1>2, <1>7, <2>1
<1>9. Sound([len |-> l, free |-> f, mem |-> w], t)
  BY <1>2, <1>6, <1>8, IsBody
<1> QED BY <1>4, <1>9

\* Two writes, one after the other, are one.
LEMMA PutTwice ==
    ASSUME NEW mem \in Seq(Bytes), NEW u \in Seq(Bytes), NEW at \in Nat, at + Len(u) + 1 <= Len(mem)
    PROVE  Put(Put(mem, at, u), at + Len(u), <<NUL>>) = Put(mem, at, Append(u, NUL))
<1>0. PICK n, ml : n = Len(u) /\ ml = Len(mem)
  OBVIOUS
<1>1. n \in Nat /\ ml \in Nat /\ at + n + 1 <= ml
  BY <1>0, SeqIs
<1> DEFINE a == Put(mem, at, u)
           b == Put(a, at + n, <<NUL>>)
           w == Append(u, NUL)
           c == Put(mem, at, w)
<1>2. /\ a \in Seq(Bytes) /\ Len(a) = ml
      /\ \A i \in 1 .. n : a[at + i] = u[i]
      /\ \A i \in 1 .. ml : i <= at \/ i > at + n => a[i] = mem[i]
  <2>1. at + Len(u) <= Len(mem)
    BY <1>0, <1>1
  <2> QED BY <1>0, <2>1, PutInside
<1> HIDE DEF a
<1>3. /\ b \in Seq(Bytes) /\ Len(b) = ml
      /\ \A i \in 1 .. 1 : b[at + n + i] = <<NUL>>[i]
      /\ \A i \in 1 .. ml : i <= at + n \/ i > at + n + 1 => b[i] = a[i]
  <2>1. PICK z, k : z = <<NUL>> /\ k = at + n
    OBVIOUS
  <2>2. z \in Seq(Bytes) /\ Len(z) = 1
    BY <2>1, BytesIn
  <2>3. k \in Nat /\ k + Len(z) <= Len(a)
    BY <1>1, <1>2, <2>1, <2>2
  <2>4. /\ Put(a, k, z) \in Seq(Bytes) /\ Len(Put(a, k, z)) = Len(a)
        /\ \A i \in 1 .. Len(z) : Put(a, k, z)[k + i] = z[i]
        /\ \A i \in 1 .. Len(a) : i <= k \/ i > k + Len(z) => Put(a, k, z)[i] = a[i]
    BY <1>2, <2>2, <2>3, PutInside
  <2>5. b = Put(a, k, z)
    BY <2>1
  <2> HIDE DEF b
  <2> QED BY <1>2, <2>1, <2>2, <2>4, <2>5
<1>4. /\ w \in Seq(Bytes) /\ Len(w) = n + 1 /\ w[n + 1] = NUL
      /\ \A i \in 1 .. n : w[i] = u[i]
  BY <1>0, Appended, BytesIn
<1> HIDE DEF w
<1>5. /\ c \in Seq(Bytes) /\ Len(c) = ml
      /\ \A i \in 1 .. n + 1 : c[at + i] = w[i]
      /\ \A i \in 1 .. ml : i <= at \/ i > at + (n + 1) => c[i] = mem[i]
  <2>1. at + Len(w) <= Len(mem)
    BY <1>0, <1>1, <1>4
  <2> QED BY <1>0, <1>4, <2>1, PutInside
<1> HIDE DEF b, c
<1>6. \A i \in 1 .. ml : b[i] = c[i]
  <2> TAKE i \in 1 .. ml
  <2>1. CASE i <= at
    <3>1. i <= at + n
      BY <1>1, <2>1
    <3> QED BY <1>2, <1>3, <1>5, <2>1, <3>1
  <2>2. CASE i > at + (n + 1)
    <3>1. i > at + n /\ i > at + n + 1
      BY <1>1, <2>2
    <3> QED BY <1>2, <1>3, <1>5, <2>2, <3>1
  <2>3. CASE i > at /\ i <= at + n
    <3>1. PICK j \in 1 .. n : i = at + j
      <4>1. i - at \in 1 .. n /\ i = at + (i - at)
        BY <1>1, <2>3
      <4> QED BY <4>1
    <3>2. j \in 1 .. n + 1
      BY <1>1
    <3>3. b[i] = a[i] /\ a[i] = u[j] /\ c[i] = w[j]
      BY <1>2, <1>3, <1>5, <2>3, <3>1, <3>2
    <3> QED BY <1>4, <3>3
  <2>4. CASE i = at + (n + 1)
    <3>1. i = at + n + 1 /\ 1 \in 1 .. 1 /\ n + 1 \in 1 .. n + 1 /\ <<NUL>>[1] = NUL
      BY <1>1, <2>4
    <3>2. b[i] = NUL
      BY <1>3, <3>1
    <3>3. c[i] = w[n + 1]
      BY <1>5, <2>4, <3>1
    <3> QED BY <1>4, <3>2, <3>3
  <2> QED BY <1>1, <2>1, <2>2, <2>3, <2>4
<1>7. b = c
  BY <1>2, <1>3, <1>5, <1>6, SameSeq
<1> QED BY <1>0, <1>7 DEF a, b, c, w

-----------------------------------------------------------------------------
(* The operations *)

LEMMA NewSound == ASSUME NEW u \in Seq(Bytes) PROVE Sound(sdsnewlen(u), u)
<1>1. /\ Append(u, NUL) \in Seq(Bytes) /\ Len(Append(u, NUL)) = Len(u) + 1
      /\ \A i \in 1 .. Len(u) : Append(u, NUL)[i] = u[i]
      /\ Append(u, NUL)[Len(u) + 1] = NUL
  BY Appended, BytesIn
<1>2. PICK l, w : l = Len(u) /\ w = Append(u, NUL)
  OBVIOUS
<1>3. l \in Nat /\ Len(w) = l + 0 + 1 /\ 0 \in Nat
  BY <1>1, <1>2, SeqIs
<1>4. Sound([len |-> l, free |-> 0, mem |-> w], u)
  BY <1>1, <1>2, <1>3, IsBody
<1> QED BY <1>2, <1>4 DEF sdsnewlen

\* The text before `at' stays: an append, a copy, a cut.
LEMMA Whole == ASSUME NEW t \in Seq(Bytes) PROVE SubSeq(t, 1, Len(t)) = t /\ SubSeq(t, 1, 0) = <<>>
<1>1. Len(t) \in Nat
  BY SeqIs
<1>2. SubSeq(t, 1, Len(t)) = t
  <2>1. /\ SubSeq(t, 1, Len(t)) \in Seq(Bytes) /\ Len(SubSeq(t, 1, Len(t))) = Len(t)
        /\ \A i \in 1 .. Len(t) : SubSeq(t, 1, Len(t))[i] = t[i]
    BY <1>1, Prefix
  <2> QED BY <2>1, SameSeq
<1>3. SubSeq(t, 1, 0) = <<>>
  OBVIOUS
<1> QED BY <1>2, <1>3

LEMMA NoText == /\ <<>> \in Seq(Bytes) /\ Len(<<>>) = 0 /\ Append(<<>>, NUL) = <<NUL>>
                /\ \A t \in Seq(Bytes) : t \o <<>> = t /\ <<>> \o t = t
<1>1. <<>> \in Seq(Bytes) /\ Len(<<>>) = 0 /\ Append(<<>>, NUL) = <<NUL>>
  OBVIOUS
<1>2. ASSUME NEW t \in Seq(Bytes) PROVE t \o <<>> = t /\ <<>> \o t = t
  OBVIOUS
<1> QED BY <1>1, <1>2

LEMMA CatSound ==
    ASSUME NEW h, NEW t, Sound(h, t), NEW u \in Seq(Bytes)
    PROVE  Sound(sdscatlen(h, u), t \o u)
<1>1. PICK r, n : r = sdsMakeRoomFor(h, Len(u)) /\ n = Len(u)
  OBVIOUS
<1>2. n \in Nat
  BY <1>1, SeqIs
<1>3. Body(r, t) /\ r.free >= n /\ r.len = h.len
  BY <1>1, <1>2, RoomMade DEF Sound
<1>4. /\ r.len \in Nat /\ r.free \in Nat /\ r.len = Len(t) /\ Len(t) \in Nat /\ t \in Seq(Bytes)
  BY <1>3, Numbers
<1>5. PICK l, f : l = h.len + n /\ f = r.free - n
  OBVIOUS
<1>6. Len(t) \in 0 .. Len(t) /\ l = Len(t) + Len(u) /\ f = r.len + r.free - l /\ l <= r.len + r.free
  <2>1. PICK rl, rf, tl : rl = r.len /\ rf = r.free /\ tl = Len(t)
    OBVIOUS
  <2>2. rl \in Nat /\ rf \in Nat /\ rl = tl /\ tl \in Nat /\ n \in Nat /\ rf >= n /\ l = rl + n /\ f = rf - n
    BY <1>2, <1>3, <1>4, <1>5, <2>1
  <2>3. tl \in 0 .. tl /\ l = tl + n /\ f = rl + rf - l /\ l <= rl + rf
    BY ONLY <2>2
  <2> QED BY <1>1, <2>1, <2>3
<1>7. Sound([len |-> l, free |-> f, mem |-> Put(r.mem, Len(t), Append(u, NUL))], SubSeq(t, 1, Len(t)) \o u)
  BY <1>3, <1>6, Written
<1>8. sdscatlen(h, u) = [len |-> l, free |-> f, mem |-> Put(r.mem, Len(t), Append(u, NUL))]
  BY <1>1, <1>3, <1>4, <1>5 DEF sdscatlen
<1> QED BY <1>4, <1>7, <1>8, Whole

LEMMA CpySound ==
    ASSUME NEW h, NEW t, Sound(h, t), NEW u \in Seq(Bytes)
    PROVE  Sound(sdscpylen(h, u), u)
<1>0. Body(h, t)
  BY DEF Sound
<1>1. PICK r, n : /\ n = Len(u)
                  /\ r = IF h.free + h.len < Len(u) THEN sdsMakeRoomFor(h, Len(u) - h.len) ELSE h
  OBVIOUS
<1>2. /\ n \in Nat /\ h.len \in Nat /\ h.free \in Nat
  BY <1>0, <1>1, SeqIs, Numbers
<1>3. Body(r, t) /\ r.len + r.free >= n
  <2>1. CASE h.free + h.len < n
    <3>1. PICK k : k = n - h.len
      OBVIOUS
    <3>2. k \in Nat
      BY <1>2, <2>1, <3>1
    <3>3. Body(sdsMakeRoomFor(h, k), t) /\ sdsMakeRoomFor(h, k).free >= k /\ sdsMakeRoomFor(h, k).len = h.len
      BY <1>0, <3>2, RoomMade
    <3>4. r = sdsMakeRoomFor(h, k)
      BY <1>1, <2>1, <3>1
    <3>5. Body(r, t) /\ r.free >= k /\ r.len = h.len /\ r.free \in Nat
      BY <3>3, <3>4, Numbers
    <3> QED BY <1>2, <3>1, <3>5
  <2>2. CASE ~(h.free + h.len < n)
    BY <1>0, <1>1, <1>2, <2>2
  <2> QED BY <2>1, <2>2
<1>4. r.len \in Nat /\ r.free \in Nat /\ Len(t) \in Nat /\ t \in Seq(Bytes)
  BY <1>3, Numbers
<1>5. PICK f : f = r.free + r.len - n
  OBVIOUS
<1>6. 0 \in 0 .. Len(t) /\ n = 0 + Len(u) /\ f = r.len + r.free - n /\ n <= r.len + r.free
  BY <1>1, <1>2, <1>3, <1>4, <1>5
<1>7. Sound([len |-> n, free |-> f, mem |-> Put(r.mem, 0, Append(u, NUL))], SubSeq(t, 1, 0) \o u)
  BY <1>3, <1>6, Written
<1>8. sdscpylen(h, u) = [len |-> n, free |-> f, mem |-> Put(r.mem, 0, Append(u, NUL))]
  BY <1>1, <1>5 DEF sdscpylen
<1> QED BY <1>4, <1>7, <1>8, Whole, NoText

\* sdsIncrLen after a write of u into the room, sdstrim, sdsrange: the text up
\* to `at', then u.
LEMMA WrittenTwice ==
    ASSUME NEW h, NEW t, Body(h, t), NEW at \in 0 .. Len(t), NEW u \in Seq(Bytes),
           NEW l, NEW f, l = at + Len(u), f = h.len + h.free - l, l <= h.len + h.free
    PROVE  Sound([len |-> l, free |-> f, mem |-> Put(Put(h.mem, at, u), l, <<NUL>>)],
                 SubSeq(t, 1, at) \o u)
<1>1. /\ h.mem \in Seq(Bytes) /\ at \in Nat /\ at + Len(u) + 1 <= Len(h.mem)
  <2>1. PICK hl, hf, ul, ml, tl : hl = h.len /\ hf = h.free /\ ul = Len(u) /\ ml = Len(h.mem) /\ tl = Len(t)
    OBVIOUS
  <2>2. /\ hl \in Nat /\ hf \in Nat /\ ul \in Nat /\ ml = hl + hf + 1 /\ tl \in Nat /\ at \in 0 .. tl
        /\ at + ul <= hl + hf
    BY <2>1, Numbers, SeqIs
  <2>3. at \in Nat /\ at + ul + 1 <= ml
    BY ONLY <2>2
  <2> QED BY <2>1, <2>3, Numbers
<1>2. Put(Put(h.mem, at, u), l, <<NUL>>) = Put(h.mem, at, Append(u, NUL))
  BY <1>1, PutTwice
<1>3. Sound([len |-> l, free |-> f, mem |-> Put(h.mem, at, Append(u, NUL))], SubSeq(t, 1, at) \o u)
  BY Written
<1> QED BY <1>2, <1>3

LEMMA CutSound ==
    ASSUME NEW h, NEW t, Sound(h, t), NEW at \in 0 .. Len(t)
    PROVE  Sound([len |-> at, free |-> h.len + h.free - at, mem |-> Put(h.mem, at, <<NUL>>)],
                 SubSeq(t, 1, at))
<1>0. Body(h, t)
  BY DEF Sound
<1>1. PICK e, f : e = <<>> /\ f = h.len + h.free - at
  OBVIOUS
<1>2. e \in Seq(Bytes) /\ Len(e) = 0
  BY <1>1
<1>3. at = at + Len(e) /\ at <= h.len + h.free
  <2>1. PICK hl, hf, tl : hl = h.len /\ hf = h.free /\ tl = Len(t)
    OBVIOUS
  <2>2. hl \in Nat /\ hf \in Nat /\ tl \in Nat /\ hl = tl /\ at \in 0 .. tl
    BY <1>0, <2>1, Numbers
  <2>3. at = at + 0 /\ at <= hl + hf
    BY ONLY <2>2
  <2> QED BY <1>2, <2>1, <2>3
<1>4. Sound([len |-> at, free |-> f, mem |-> Put(h.mem, at, Append(e, NUL))], SubSeq(t, 1, at) \o e)
  BY <1>0, <1>1, <1>2, <1>3, Written
<1>5. SubSeq(t, 1, at) \in Seq(Bytes)
  BY <1>0, Numbers, Prefix
<1> QED BY <1>1, <1>4, <1>5, NoText

LEMMA IncrSound ==
    ASSUME NEW h, NEW t, Sound(h, t), NEW u \in Seq(Bytes), Len(u) <= h.free
    PROVE  Sound(sdsIncrLen([h EXCEPT !.mem = Put(@, h.len, u)], Len(u)), t \o u)
<1>0. Body(h, t)
  BY DEF Sound
<1>1. PICK m, n : m = Put(h.mem, h.len, u) /\ n = Len(u)
  OBVIOUS
<1>2. PICK g : g = [h EXCEPT !.mem = m]
  OBVIOUS
<1>3. g = [len |-> h.len, free |-> h.free, mem |-> m]
  BY <1>0, <1>2, Numbers, Replaced
<1>4. g.len = h.len /\ g.free = h.free /\ g.mem = m /\ g = [len |-> g.len, free |-> g.free, mem |-> g.mem]
  BY <1>3
<1>5. PICK l, f, w : l = h.len + n /\ f = h.free - n /\ w = Put(m, l, <<NUL>>)
  OBVIOUS
<1>6. sdsIncrLen(g, n) = [len |-> l, free |-> f, mem |-> w]
  <2>1. sdsIncrLen(g, n) = [g EXCEPT !.len = l, !.free = f, !.mem = w]
    BY <1>4, <1>5 DEF sdsIncrLen
  <2> QED BY <1>4, <2>1, AllReplaced
<1>7. /\ Len(t) \in 0 .. Len(t) /\ l = Len(t) + Len(u) /\ f = h.len + h.free - l /\ l <= h.len + h.free
  <2>1. PICK hl, hf, tl : hl = h.len /\ hf = h.free /\ tl = Len(t)
    OBVIOUS
  <2>2. hl \in Nat /\ hf \in Nat /\ tl \in Nat /\ hl = tl /\ n \in Nat /\ n <= hf /\ l = hl + n /\ f = hf - n
    BY <1>0, <1>1, <1>5, <2>1, Numbers, SeqIs
  <2>3. tl \in 0 .. tl /\ l = tl + n /\ f = hl + hf - l /\ l <= hl + hf
    BY ONLY <2>2
  <2> QED BY <1>1, <2>1, <2>3
<1>8. Sound([len |-> l, free |-> f, mem |-> Put(Put(h.mem, Len(t), u), l, <<NUL>>)],
            SubSeq(t, 1, Len(t)) \o u)
  BY <1>0, <1>7, WrittenTwice
<1>9. h.len = Len(t) /\ t \in Seq(Bytes)
  BY <1>0, Numbers
<1>10. Sound([len |-> l, free |-> f, mem |-> w], t \o u)
  BY <1>1, <1>5, <1>8, <1>9, Whole
<1> QED BY <1>1, <1>2, <1>6, <1>10

LEMMA TakenOff ==
    ASSUME NEW h, NEW t, Sound(h, t), NEW n \in Nat, n <= h.len
    PROVE  Sound(sdsIncrLen(h, -n), SubSeq(t, 1, Len(t) - n))
<1>0. Body(h, t)
  BY DEF Sound
<1>1. PICK l, f, w : l = h.len + (-n) /\ f = h.free - (-n) /\ w = Put(h.mem, l, <<NUL>>)
  OBVIOUS
<1>2. sdsIncrLen(h, -n) = [len |-> l, free |-> f, mem |-> w]
  <2>1. sdsIncrLen(h, -n) = [h EXCEPT !.len = l, !.free = f, !.mem = w]
    BY <1>1 DEF sdsIncrLen
  <2>2. h = [len |-> h.len, free |-> h.free, mem |-> h.mem]
    BY <1>0, Numbers
  <2> QED BY <2>1, <2>2, AllReplaced
<1>3. l \in 0 .. Len(t) /\ l = Len(t) - n /\ f = h.len + h.free - l
  <2>1. PICK hl, hf, tl : hl = h.len /\ hf = h.free /\ tl = Len(t)
    OBVIOUS
  <2>2. hl \in Nat /\ hf \in Nat /\ tl \in Nat /\ hl = tl /\ n \in Nat /\ n <= hl /\ l = hl + (-n) /\ f = hf - (-n)
    BY <1>0, <1>1, <2>1, Numbers
  <2>3. l \in 0 .. tl /\ l = tl - n /\ f = hl + hf - l
    BY ONLY <2>2
  <2> QED BY <2>1, <2>3
<1>4. Sound([len |-> l, free |-> h.len + h.free - l, mem |-> Put(h.mem, l, <<NUL>>)], SubSeq(t, 1, l))
  BY <1>3, CutSound
<1> QED BY <1>1, <1>2, <1>3, <1>4

LEMMA ClearSound == ASSUME NEW h, NEW t, Sound(h, t) PROVE Sound(sdsclear(h), <<>>)
<1>0. Body(h, t)
  BY DEF Sound
<1>1. PICK f, w : f = h.free + h.len /\ w = Put(h.mem, 0, <<NUL>>)
  OBVIOUS
<1>2. sdsclear(h) = [len |-> 0, free |-> f, mem |-> w]
  <2>1. sdsclear(h) = [h EXCEPT !.free = f, !.len = 0, !.mem = w]
    BY <1>1 DEF sdsclear
  <2>2. h = [len |-> h.len, free |-> h.free, mem |-> h.mem]
    BY <1>0, Numbers
  <2> QED BY <2>1, <2>2, AllReplaced
<1>3. 0 \in 0 .. Len(t) /\ f = h.len + h.free - 0 /\ t \in Seq(Bytes)
  BY <1>0, <1>1, Numbers
<1>4. Sound([len |-> 0, free |-> h.len + h.free - 0, mem |-> w], SubSeq(t, 1, 0))
  BY <1>1, <1>3, CutSound
<1> QED BY <1>2, <1>3, <1>4, Whole

LEMMA FreeSpaceRemoved == ASSUME NEW h, NEW t, Sound(h, t) PROVE Sound(sdsRemoveFreeSpace(h), t)
<1>0. Body(h, t)
  BY DEF Sound
<1>1. PICK l, w : l = h.len /\ w = Resize(h.mem, l + 1)
  OBVIOUS
<1>2. sdsRemoveFreeSpace(h) = [len |-> l, free |-> 0, mem |-> w]
  <2>1. sdsRemoveFreeSpace(h) = [h EXCEPT !.free = 0, !.mem = w]
    BY <1>1 DEF sdsRemoveFreeSpace
  <2>2. h = [len |-> h.len, free |-> h.free, mem |-> h.mem]
    BY <1>0, Numbers
  <2>3. [h EXCEPT !.free = 0, !.mem = w] = [len |-> h.len, free |-> 0, mem |-> w]
    BY ONLY <2>2, Replaced
  <2> QED BY <1>1, <2>1, <2>3
<1>3. /\ l \in Nat /\ h.free \in Nat /\ l = Len(t) /\ Len(h.mem) = l + h.free + 1 /\ h.mem \in Seq(Bytes)
      /\ t \in Seq(Bytes) /\ h.mem[l + 1] = NUL /\ \A i \in 1 .. l : h.mem[i] = t[i]
  BY <1>0, <1>1, Numbers DEF Sound, Body
<1>4. l + 1 \in Nat /\ \A i \in 1 .. l + 1 : i <= Len(h.mem)
  BY <1>3
<1>5. /\ w \in Seq(Bytes) /\ Len(w) = l + 1
      /\ \A i \in 1 .. l + 1 : w[i] = h.mem[i]
  BY <1>1, <1>3, <1>4, Resized
<1>6. (\A i \in 1 .. l : i \in 1 .. l + 1) /\ l + 1 \in 1 .. l + 1 /\ Len(w) = l + 0 + 1 /\ 0 \in Nat
  BY <1>3, <1>5
<1>7. (\A i \in 1 .. Len(t) : w[i] = t[i]) /\ w[l + 1] = NUL
  BY <1>3, <1>5, <1>6
<1>8. Sound([len |-> l, free |-> 0, mem |-> w], t)
  BY <1>3, <1>5, <1>6, <1>7, IsBody
<1> QED BY <1>2, <1>8

LEMMA Zeros ==
    ASSUME NEW k \in Nat
    PROVE  /\ [i \in 1 .. k |-> NUL] \in Seq(Bytes) /\ Len([i \in 1 .. k |-> NUL]) = k
           /\ Append([i \in 1 .. k |-> NUL], NUL) = [i \in 1 .. (k + 1) |-> NUL]
<1>1. PICK z, y : z = [i \in 1 .. k |-> NUL] /\ y = [i \in 1 .. (k + 1) |-> NUL]
  OBVIOUS
<1>2. z \in Seq(Bytes) /\ Len(z) = k /\ \A i \in 1 .. k : z[i] = NUL
  BY <1>1, BytesIn
<1>3. y \in Seq(Bytes) /\ Len(y) = k + 1 /\ \A i \in 1 .. k + 1 : y[i] = NUL
  BY <1>1, BytesIn
<1>4. /\ Append(z, NUL) \in Seq(Bytes) /\ Len(Append(z, NUL)) = k + 1
      /\ \A i \in 1 .. k : Append(z, NUL)[i] = z[i]
      /\ Append(z, NUL)[k + 1] = NUL
  BY <1>2, Appended, BytesIn
<1>5. \A i \in 1 .. k + 1 : i \in 1 .. k \/ i = k + 1
  OBVIOUS
<1>6. \A i \in 1 .. k + 1 : Append(z, NUL)[i] = y[i]
  BY <1>2, <1>3, <1>4, <1>5
<1>7. Append(z, NUL) = y
  BY <1>3, <1>4, <1>6, SameSeq
<1> QED BY <1>1, <1>2, <1>7

LEMMA GrownSound ==
    ASSUME NEW h, NEW t, Sound(h, t), NEW n \in Nat
    PROVE  Sound(sdsgrowzero(h, n),
                 IF n <= Len(t) THEN t ELSE t \o [i \in 1 .. (n - Len(t)) |-> NUL])
<1>0. Body(h, t)
  BY DEF Sound
<1>1. h.len \in Nat /\ h.len = Len(t) /\ t \in Seq(Bytes)
  BY <1>0, Numbers
<1>2. CASE n <= h.len
  BY <1>1, <1>2 DEF sdsgrowzero
<1>3. CASE ~(n <= h.len)
  <2>1. PICK k, r : k = n - h.len /\ r = sdsMakeRoomFor(h, k)
    OBVIOUS
  <2>2. k \in Nat /\ n = h.len + k
    BY <1>1, <1>3, <2>1
  <2>3. Body(r, t) /\ r.free >= k /\ r.len = h.len
    BY <1>0, <2>1, <2>2, RoomMade
  <2>4. PICK z, f : z = [i \in 1 .. k |-> NUL] /\ f = r.len + r.free - n
    OBVIOUS
  <2>5. z \in Seq(Bytes) /\ Len(z) = k /\ Append(z, NUL) = [i \in 1 .. (k + 1) |-> NUL]
    BY <2>2, <2>4, Zeros
  <2>6. Len(t) \in 0 .. Len(t) /\ n = Len(t) + Len(z) /\ n <= r.len + r.free
    BY <1>1, <2>2, <2>3, <2>5, Numbers
  <2>7. Sound([len |-> n, free |-> f, mem |-> Put(r.mem, Len(t), Append(z, NUL))],
              SubSeq(t, 1, Len(t)) \o z)
    BY <2>3, <2>4, <2>5, <2>6, Written
  <2>8. sdsgrowzero(h, n) = [len |-> n, free |-> f, mem |-> Put(r.mem, Len(t), Append(z, NUL))]
    BY <1>1, <1>3, <2>1, <2>4, <2>5 DEF sdsgrowzero
  <2> QED BY <1>1, <1>3, <2>1, <2>4, <2>7, <2>8, Whole
<1> QED BY <1>2, <1>3

LEMMA MinIs ==
    ASSUME NEW S, S \subseteq Nat, NEW x \in S, \A y \in S : x <= y
    PROVE  Min(S) = x
<1>1. PICK y : y = Min(S)
  OBVIOUS
<1>2. y \in S /\ y <= x
  BY <1>1, MinIn
<1>3. y \in Nat /\ x \in Nat /\ x <= y
  BY <1>2
<1>4. y = x
  BY ONLY <1>2, <1>3
<1> QED BY <1>1, <1>4

\* The first zero ends the C string.
LEMMA FirstZero ==
    ASSUME NEW m \in Seq(Bytes), NEW k \in Nat, k < Len(m), m[k + 1] = NUL,
           \A i \in 1 .. k : m[i] # NUL
    PROVE  strlen(m) = k
<1>1. PICK S : S = {i \in 1 .. Len(m) : m[i] = NUL}
  OBVIOUS
<1>2. Len(m) \in Nat
  BY SeqIs
<1>3. S \subseteq Nat /\ k + 1 \in S
  BY <1>1, <1>2
<1>4. \A y \in S : k + 1 <= y
  <2> TAKE y \in S
  <2>1. y \in Nat /\ y >= 1 /\ m[y] = NUL
    BY <1>1, <1>2
  <2>2. ~(y \in 1 .. k)
    BY <2>1
  <2> QED BY <2>1, <2>2
<1>5. Min(S) = k + 1
  BY <1>3, <1>4, MinIs
<1> QED BY <1>1, <1>5 DEF strlen

LEMMA PrintedSound ==
    ASSUME NEW h, NEW t, Sound(h, t), NEW u \in Seq(Bytes), NEW n \in DOMAIN u,
           u[n] = NUL, \A i \in 1 .. (n - 1) : u[i] # NUL
    PROVE  Sound(sdscatvprintf(h, u), t \o SubSeq(u, 1, n - 1))
<1>1. PICK w, k : w = Append(u, NUL) /\ k = n - 1
  OBVIOUS
<1>2. Len(u) \in Nat /\ n \in 1 .. Len(u)
  BY SeqIs
<1>3. /\ w \in Seq(Bytes) /\ Len(w) = Len(u) + 1
      /\ \A i \in 1 .. Len(u) : w[i] = u[i]
  BY <1>1, Appended, BytesIn
<1>4. /\ k \in Nat /\ k < Len(w) /\ k \in 0 .. Len(u) /\ k \in 0 .. Len(w) /\ k + 1 = n
      /\ \A i \in 1 .. k : i \in 1 .. Len(u)
  BY <1>1, <1>2, <1>3
<1>5. strlen(w) = k
  BY <1>1, <1>2, <1>3, <1>4, FirstZero
<1>6. /\ SubSeq(u, 1, k) \in Seq(Bytes) /\ Len(SubSeq(u, 1, k)) = k
      /\ \A i \in 1 .. k : SubSeq(u, 1, k)[i] = u[i]
  BY <1>4, Prefix
<1>7. /\ SubSeq(w, 1, k) \in Seq(Bytes) /\ Len(SubSeq(w, 1, k)) = k
      /\ \A i \in 1 .. k : SubSeq(w, 1, k)[i] = w[i]
  BY <1>3, <1>4, Prefix
<1>8. SubSeq(w, 1, k) = SubSeq(u, 1, k)
  BY <1>3, <1>4, <1>6, <1>7, SameSeq
<1>9. sdscatvprintf(h, u) = sdscatlen(h, SubSeq(u, 1, k))
  BY <1>1, <1>5, <1>8 DEF sdscatvprintf
<1> QED BY <1>1, <1>6, <1>9, CatSound

LEMMA UpdatedSound ==
    ASSUME NEW h, NEW t, Sound(h, t), NEW n \in Nat, n < h.len, NEW z, z = {i \in 1 .. n : t[i] = NUL}
    PROVE  Sound(sdsupdatelen([h EXCEPT !.mem = Put(@, n, <<NUL>>)]),
                 SubSeq(t, 1, IF z = {} THEN n ELSE Min(z) - 1))
<1>0. Body(h, t)
  BY DEF Sound
<1>1. PICK k, m, g : /\ k = IF z = {} THEN n ELSE Min(z) - 1
                     /\ m = Put(h.mem, n, <<NUL>>) /\ g = [h EXCEPT !.mem = m]
  OBVIOUS
<1>2. PICK hl, hf, e : hl = h.len /\ hf = h.free /\ e = <<NUL>>
  OBVIOUS
<1>3. /\ hl \in Nat /\ hf \in Nat /\ h.mem \in Seq(Bytes) /\ t \in Seq(Bytes) /\ Len(t) = hl
      /\ Len(h.mem) = hl + hf + 1 /\ n < hl /\ \A i \in 1 .. hl : h.mem[i] = t[i]
  BY <1>0, <1>2, Numbers DEF Body
<1>4. e \in Seq(Bytes) /\ Len(e) = 1 /\ e[1] = NUL
  BY <1>2, BytesIn, Single
<1>5. n + 1 <= hl + hf + 1 /\ \A i \in 1 .. n : i \in 1 .. hl /\ i \in 1 .. hl + hf + 1 /\ i <= n
  BY ONLY <1>3, n \in Nat
<1>6. /\ m \in Seq(Bytes) /\ Len(m) = hl + hf + 1 /\ m[n + 1] = NUL
      /\ \A i \in 1 .. n : m[i] = t[i]
  <2>1. /\ Put(h.mem, n, e) \in Seq(Bytes) /\ Len(Put(h.mem, n, e)) = Len(h.mem)
        /\ \A i \in 1 .. Len(e) : Put(h.mem, n, e)[n + i] = e[i]
        /\ \A i \in 1 .. Len(h.mem) : i <= n \/ i > n + Len(e) => Put(h.mem, n, e)[i] = h.mem[i]
    <3>1. PICK s : s = h.mem
      OBVIOUS
    <3>2. s \in Seq(Bytes) /\ n + Len(e) <= Len(s) /\ e \in Seq(Bytes)
      BY <1>3, <1>4, <1>5, <3>1
    <3>3. /\ Put(s, n, e) \in Seq(Bytes) /\ Len(Put(s, n, e)) = Len(s)
          /\ \A i \in 1 .. Len(e) : Put(s, n, e)[n + i] = e[i]
          /\ \A i \in 1 .. Len(s) : i <= n \/ i > n + Len(e) => Put(s, n, e)[i] = s[i]
      BY ONLY <3>2, PutInside, n \in Nat
    <3> QED BY ONLY <3>1, <3>3
  <2>2. m = Put(h.mem, n, e) /\ 1 \in 1 .. 1
    BY <1>1, <1>2
  <2> QED BY <1>3, <1>4, <1>5, <2>1, <2>2
<1>7. k \in 0 .. n /\ m[k + 1] = NUL /\ \A i \in 1 .. k : m[i] # NUL
  <2>1. CASE z = {}
    BY <1>1, <1>6, <2>1
  <2>2. CASE z # {}
    <3>1. z \subseteq Nat
      OBVIOUS
    <3>2. PICK x : x = Min(z)
      OBVIOUS
    <3>3. x \in z /\ \A y \in z : x <= y
      BY <2>2, <3>1, <3>2, MinIn
    <3>4. x \in 1 .. n /\ t[x] = NUL /\ k = x - 1 /\ k + 1 = x
      BY <1>1, <2>2, <3>2, <3>3
    <3>5. \A i \in 1 .. k : i \in 1 .. n /\ ~(x <= i)
      BY <3>4
    <3>6. \A i \in 1 .. k : i \in 1 .. n /\ t[i] # NUL
      BY <3>3, <3>5
    <3> QED BY <1>6, <3>4, <3>6
  <2> QED BY <2>1, <2>2
<1>8. k \in Nat /\ k <= n /\ k < hl + hf + 1 /\ k \in 0 .. hl /\ hf + (hl - k) \in Nat
      /\ hl + hf + 1 = k + (hf + (hl - k)) + 1
      /\ \A i \in 1 .. k : i \in 1 .. n
  BY ONLY <1>3, <1>7, n \in Nat
<1>9. strlen(m) = k
  BY <1>6, <1>7, <1>8, FirstZero
<1>10. g = [len |-> hl, free |-> hf, mem |-> m]
  BY <1>0, <1>1, <1>2, Numbers, Replaced
<1>11. PICK f : f = hf + (hl - k)
  OBVIOUS
<1>12. sdsupdatelen(g) = [len |-> k, free |-> f, mem |-> m]
  <2>1. g.len = hl /\ g.free = hf /\ g.mem = m /\ g = [len |-> g.len, free |-> g.free, mem |-> g.mem]
    BY <1>10
  <2>2. sdsupdatelen(g) = [g EXCEPT !.free = f, !.len = k]
    BY <1>9, <1>11, <2>1 DEF sdsupdatelen
  <2>3. PICK q : q = [g EXCEPT !.free = f, !.len = k]
    OBVIOUS
  <2>4. /\ DOMAIN q = {"len", "free", "mem"} /\ q = [i \in DOMAIN q |-> q[i]]
        /\ q.len = k /\ q.free = f /\ q.mem = m
    BY ONLY <1>10, <2>3
  <2>5. q = [len |-> k, free |-> f, mem |-> m]
    BY ONLY <2>4
  <2> QED BY <2>2, <2>3, <2>5
<1>13. PICK u : u = SubSeq(t, 1, k)
  OBVIOUS
<1>14. u \in Seq(Bytes) /\ Len(u) = k /\ \A i \in 1 .. k : u[i] = t[i]
  BY <1>3, <1>8, <1>13, Prefix
<1>15. f \in Nat /\ Len(m) = k + f + 1 /\ \A i \in 1 .. Len(u) : m[i] = u[i]
  BY <1>6, <1>8, <1>11, <1>14
<1>16. Sound([len |-> k, free |-> f, mem |-> m], u)
  BY <1>6, <1>7, <1>8, <1>14, <1>15, IsBody
<1> QED BY <1>1, <1>12, <1>13, <1>16

\* A part of the text is moved to the front: sdstrim, sdsrange.
LEMMA MovedSound ==
    ASSUME NEW h, NEW t, Body(h, t), NEW a \in Nat, NEW n \in Nat, a + n <= Len(t),
           NEW f, f = h.free + (h.len - n)
    PROVE  Sound([len  |-> n, free |-> f,
                  mem  |-> Put(Put(h.mem, 0, SubSeq(h.mem, a + 1, a + n)), n, <<NUL>>)],
                 SubSeq(t, a + 1, a + n))
<1>1. PICK hl, hf, tl, ml : hl = h.len /\ hf = h.free /\ tl = Len(t) /\ ml = Len(h.mem)
  OBVIOUS
<1>2. /\ hl \in Nat /\ hf \in Nat /\ tl \in Nat /\ hl = tl /\ ml = hl + hf + 1 /\ h.mem \in Seq(Bytes)
      /\ t \in Seq(Bytes) /\ a + n <= tl /\ f = hf + (hl - n)
  BY <1>1, Numbers
<1>3. /\ a + n <= ml /\ n = 0 + n /\ f = hl + hf - n /\ n <= hl + hf /\ 0 \in 0 .. tl
      /\ \A i \in 1 .. n : a + i \in 1 .. tl
  BY ONLY <1>2, a \in Nat, n \in Nat
<1>4. PICK u, v : u = SubSeq(h.mem, a + 1, a + n) /\ v = SubSeq(t, a + 1, a + n)
  OBVIOUS
<1>5. u \in Seq(Bytes) /\ Len(u) = n /\ \A i \in 1 .. n : u[i] = h.mem[a + i]
  <2>1. PICK s : s = h.mem
    OBVIOUS
  <2>2. s \in Seq(Bytes) /\ a + n <= Len(s)
    BY <1>1, <1>2, <1>3, <2>1
  <2>3. /\ SubSeq(s, a + 1, a + n) \in Seq(Bytes) /\ Len(SubSeq(s, a + 1, a + n)) = n
        /\ \A i \in 1 .. n : SubSeq(s, a + 1, a + n)[i] = s[a + i]
    BY ONLY <2>2, Slice, a \in Nat, n \in Nat
  <2> QED BY ONLY <1>4, <2>1, <2>3
<1>6. v \in Seq(Bytes) /\ Len(v) = n /\ \A i \in 1 .. n : v[i] = t[a + i]
  <2>1. /\ SubSeq(t, a + 1, a + n) \in Seq(Bytes) /\ Len(SubSeq(t, a + 1, a + n)) = n
        /\ \A i \in 1 .. n : SubSeq(t, a + 1, a + n)[i] = t[a + i]
    <3>1. t \in Seq(Bytes) /\ a + n <= Len(t)
      BY <1>2
    <3> QED BY ONLY <3>1, Slice, a \in Nat, n \in Nat
  <2> QED BY ONLY <1>4, <2>1
<1>7. u = v
  <2>1. \A i \in 1 .. n : u[i] = v[i]
    BY <1>1, <1>3, <1>5, <1>6 DEF Body
  <2> QED BY <1>5, <1>6, <2>1, SameSeq
<1>8. Sound([len |-> n, free |-> f, mem |-> Put(Put(h.mem, 0, u), n, <<NUL>>)], SubSeq(t, 1, 0) \o u)
  <2>1. 0 \in 0 .. Len(t) /\ n = 0 + Len(u) /\ f = h.len + h.free - n /\ n <= h.len + h.free
    BY <1>1, <1>3, <1>5
  <2> QED BY <1>5, <2>1, WrittenTwice
<1> QED BY <1>2, <1>4, <1>5, <1>7, <1>8, Whole, NoText

LEMMA NoSlice == ASSUME NEW s \in Seq(Bytes), NEW a \in Nat PROVE SubSeq(s, a + 1, a + 0) = SubSeq(s, 0 + 1, 0 + 0)
OBVIOUS

LEMMA TrimmedSound ==
    ASSUME NEW h, NEW t, Sound(h, t), NEW cset,
           NEW keep, keep = {i \in 1 .. Len(t) : t[i] \notin cset \cup {NUL}}
    PROVE  Sound(sdstrim(h, cset), IF keep = {} THEN <<>> ELSE SubSeq(t, Min(keep), Max(keep)))
<1>0. Body(h, t)
  BY DEF Sound
<1>1. /\ h.len \in Nat /\ h.free \in Nat /\ h.len = Len(t) /\ Len(t) \in Nat /\ t \in Seq(Bytes)
      /\ h.mem \in Seq(Bytes)
  BY <1>0, Numbers
<1>2. keep = {i \in 1 .. h.len : h.mem[i] \notin cset \cup {NUL}}
  BY <1>0, <1>1 DEF Body
<1>3. PICK sp, n, f : /\ sp = IF keep = {} THEN 1 ELSE Min(keep)
                      /\ n = IF keep = {} THEN 0 ELSE Max(keep) - sp + 1
                      /\ f = h.free + (h.len - n)
  OBVIOUS
<1>4. sdstrim(h, cset) = [len |-> n, free |-> f,
                          mem |-> Put(Put(h.mem, 0, SubSeq(h.mem, sp, sp + n - 1)), n, <<NUL>>)]
  BY <1>2, <1>3 DEF sdstrim
<1>5. PICK a : a = sp - 1
  OBVIOUS
<1>6. /\ a \in Nat /\ n \in Nat /\ a + n <= Len(t) /\ sp = a + 1 /\ sp + n - 1 = a + n
      /\ keep # {} => Min(keep) = a + 1 /\ Max(keep) = a + n
      /\ keep = {} => a = 0 /\ n = 0
  <2>1. CASE keep = {}
    BY <1>1, <1>3, <1>5, <2>1
  <2>2. CASE keep # {}
    <3>1. keep \subseteq Nat /\ keep \subseteq 0 .. Len(t)
      BY <1>1
    <3>2. PICK x, y : x = Min(keep) /\ y = Max(keep)
      OBVIOUS
    <3>3. x \in keep /\ y \in keep /\ x <= y
      <4>1. x \in keep /\ \A i \in keep : x <= i
        BY <2>2, <3>1, <3>2, MinIn
      <4>2. y \in keep
        BY <1>1, <2>2, <3>1, <3>2, MaxIn
      <4> QED BY <4>1, <4>2
    <3>4. x \in 1 .. Len(t) /\ y \in 1 .. Len(t)
      BY <3>3
    <3>5. sp = x /\ n = y - x + 1 /\ a = x - 1
      BY <1>3, <1>5, <2>2, <3>2
    <3>6. a \in Nat /\ n \in Nat /\ a + n <= Len(t) /\ sp = a + 1 /\ sp + n - 1 = a + n /\ x = a + 1 /\ y = a + n
      BY ONLY <1>1, <3>3, <3>4, <3>5
    <3> QED BY <2>2, <3>2, <3>6
  <2> QED BY <2>1, <2>2
<1>7. Sound([len  |-> n, free |-> f,
             mem  |-> Put(Put(h.mem, 0, SubSeq(h.mem, a + 1, a + n)), n, <<NUL>>)],
            SubSeq(t, a + 1, a + n))
  BY <1>0, <1>3, <1>6, MovedSound
<1>8. SubSeq(t, a + 1, a + n) = IF keep = {} THEN <<>> ELSE SubSeq(t, Min(keep), Max(keep))
  <2>1. CASE keep = {}
    <3>1. SubSeq(t, 0 + 1, 0 + 0) = <<>>
      BY <1>1
    <3> QED BY <1>6, <2>1, <3>1
  <2>2. CASE keep # {}
    BY <1>6, <2>2
  <2> QED BY <2>1, <2>2
<1> QED BY <1>4, <1>6, <1>7, <1>8

LEMMA OfTwo == ASSUME NEW x \in Int, NEW y \in Int
               PROVE  /\ Max({x, y}) = IF x >= y THEN x ELSE y
                      /\ Min({x, y}) = IF x <= y THEN x ELSE y
<1>1. Max({x, y}) = IF x >= y THEN x ELSE y
  BY DEF Max
<1>2. Min({x, y}) = IF x <= y THEN x ELSE y
  BY DEF Min
<1> QED BY <1>1, <1>2

\* The ends of a range of numbers.
LEMMA Ends ==
    ASSUME NEW S, NEW a \in Nat, NEW c \in Nat, a <= c, S = a .. c
    PROVE  Min(S) = a /\ Max(S) = c
<1>1. S \subseteq Nat /\ S # {} /\ S \subseteq 0 .. c /\ a \in S /\ c \in S /\ \A y \in S : a <= y /\ y <= c
  OBVIOUS
<1>2. Min(S) = a
  BY <1>1, MinIs
<1>3. PICK x : x = Max(S)
  OBVIOUS
<1>4. x \in S /\ c <= x
  BY <1>1, <1>3, MaxIn
<1>5. x = c
  BY <1>1, <1>4
<1> QED BY <1>2, <1>3, <1>5

LEMMA RangeSound ==
    ASSUME NEW h, NEW t, Sound(h, t), NEW start \in Int, NEW end \in Int,
           NEW S, S = {i \in 0 .. (Len(t) - 1) :
                          /\ IF start >= 0 THEN i >= start ELSE i - Len(t) >= start
                          /\ IF end >= 0 THEN i <= end
                             ELSE i - Len(t) <= end \/ (i = 0 /\ Len(t) + end < 0)}
    PROVE  Sound(sdsrange(h, start, end), IF S = {} THEN <<>> ELSE SubSeq(t, Min(S) + 1, Max(S) + 1))
<1>0. Body(h, t)
  BY DEF Sound
<1>1. PICK L : L = Len(t)
  OBVIOUS
<1>2. /\ L \in Nat /\ h.len = L /\ h.free \in Nat /\ t \in Seq(Bytes) /\ h.mem \in Seq(Bytes)
  BY <1>0, <1>1, Numbers
<1>3. PICK a, b : /\ a = IF start < 0 THEN Max({0, L + start}) ELSE start
                  /\ b = IF end < 0 THEN Max({0, L + end}) ELSE end
  OBVIOUS
<1>4. a \in Nat /\ b \in Nat /\ S = {i \in 0 .. (L - 1) : a <= i /\ i <= b}
  <2>1. S = {i \in 0 .. (L - 1) :
                /\ IF start >= 0 THEN i >= start ELSE i - L >= start
                /\ IF end >= 0 THEN i <= end
                   ELSE i - L <= end \/ (i = 0 /\ L + end < 0)}
    BY <1>1
  <2>2. L \in Nat
    BY <1>2
  <2>3. a = IF start < 0 THEN (IF 0 >= L + start THEN 0 ELSE L + start) ELSE start
    <3>1. PICK x : x = L + start
      OBVIOUS
    <3>2. Max({0, x}) = IF 0 >= x THEN 0 ELSE x
      BY <2>2, <3>1, OfTwo
    <3> QED BY ONLY <1>3, <3>1, <3>2
  <2>4. b = IF end < 0 THEN (IF 0 >= L + end THEN 0 ELSE L + end) ELSE end
    <3>1. PICK x : x = L + end
      OBVIOUS
    <3>2. Max({0, x}) = IF 0 >= x THEN 0 ELSE x
      BY <2>2, <3>1, OfTwo
    <3> QED BY ONLY <1>3, <3>1, <3>2
  <2>5. a \in Nat /\ b \in Nat
    BY ONLY <2>2, <2>3, <2>4, start \in Int, end \in Int
  <2>6. ASSUME NEW i \in 0 .. (L - 1)
        PROVE  (IF start >= 0 THEN i >= start ELSE i - L >= start) <=> a <= i
    BY ONLY <2>2, <2>3, start \in Int, i \in 0 .. (L - 1)
  <2>7. ASSUME NEW i \in 0 .. (L - 1)
        PROVE  (IF end >= 0 THEN i <= end ELSE i - L <= end \/ (i = 0 /\ L + end < 0)) <=> i <= b
    BY ONLY <2>2, <2>4, end \in Int, i \in 0 .. (L - 1)
  <2> QED BY ONLY <2>1, <2>5, <2>6, <2>7
<1>5. CASE L = 0
  <2>1. S = {} /\ sdsrange(h, start, end) = h
    BY <1>2, <1>4, <1>5 DEF sdsrange
  <2>2. t = <<>>
    BY <1>1, <1>2, <1>5, Whole
  <2> QED BY <2>1, <2>2
<1>6. CASE L # 0
  <2>1. PICK n, f : /\ n = IF a > b \/ a >= L THEN 0 ELSE Min({b, L - 1}) - a + 1
                    /\ f = h.free + (h.len - n)
    OBVIOUS
  <2>2. sdsrange(h, start, end) =
            [len |-> n, free |-> f,
             mem |-> Put(Put(h.mem, 0, SubSeq(h.mem, a + 1, a + n)), n, <<NUL>>)]
    BY <1>2, <1>3, <1>6, <2>1 DEF sdsrange
  <2>3. CASE a > b \/ a >= L
    <3>1. n = 0 /\ S = {}
      BY <1>2, <1>4, <2>1, <2>3
    <3>2. SubSeq(h.mem, a + 1, a + 0) = SubSeq(h.mem, 0 + 1, 0 + 0)
      BY <1>2, <1>4, NoSlice
    <3>3. 0 \in Nat /\ 0 + n <= Len(t) /\ n \in Nat
      BY <1>1, <1>2, <3>1
    <3>4. Sound([len |-> n, free |-> f,
                 mem |-> Put(Put(h.mem, 0, SubSeq(h.mem, 0 + 1, 0 + n)), n, <<NUL>>)],
                SubSeq(t, 0 + 1, 0 + n))
      BY <1>0, <2>1, <3>3, MovedSound
    <3>5. SubSeq(t, 0 + 1, 0 + 0) = <<>>
      BY <1>2
    <3> QED BY <2>2, <3>1, <3>2, <3>4, <3>5
  <2>4. CASE ~(a > b \/ a >= L)
    <3>1. PICK c : c = Min({b, L - 1})
      OBVIOUS
    <3>2. c = IF b <= L - 1 THEN b ELSE L - 1
      <4>1. PICK y : y = L - 1
        OBVIOUS
      <4>2. b \in Int /\ y \in Int
        BY <1>2, <1>4, <4>1
      <4>3. Min({b, y}) = IF b <= y THEN b ELSE y
        BY ONLY <4>2, OfTwo
      <4> QED BY ONLY <3>1, <4>1, <4>3
    <3>3. n = c - a + 1
      BY <2>1, <2>4, <3>1
    <3>4. c \in Nat /\ a <= c /\ n \in Nat /\ a + n <= L /\ c + 1 = a + n
      BY ONLY <1>2, <1>4, <2>4, <3>2, <3>3
    <3>5. S = a .. c
      BY ONLY <1>2, <1>4, <2>4, <3>2
    <3>6. Min(S) = a /\ Max(S) = c /\ S # {}
      <4>1. a \in S
        BY <1>4, <3>4, <3>5
      <4> QED BY <1>4, <3>4, <3>5, <4>1, Ends
    <3>7. Sound([len |-> n, free |-> f,
                 mem |-> Put(Put(h.mem, 0, SubSeq(h.mem, a + 1, a + n)), n, <<NUL>>)],
                SubSeq(t, a + 1, a + n))
      BY <1>0, <1>1, <1>4, <2>1, <3>4, MovedSound
    <3> QED BY <2>2, <3>4, <3>6, <3>7
  <2> QED BY <2>3, <2>4
<1> QED BY <1>5, <1>6

LEMMA MappedSound ==
    ASSUME NEW h, NEW t, Sound(h, t), NEW a, NEW b \in Bytes
    PROVE  Sound(sdsmapchars(h, <<a>>, <<b>>), ReplaceAll(t, a, b))
<1>0. Body(h, t)
  BY DEF Sound
<1>1. PICK l, f, m : l = h.len /\ f = h.free /\ m = h.mem
  OBVIOUS
<1>2. /\ l \in Nat /\ f \in Nat /\ m \in Seq(Bytes) /\ t \in Seq(Bytes)
      /\ l = Len(t) /\ Len(m) = l + f + 1 /\ m[l + 1] = NUL
      /\ \A i \in 1 .. l : m[i] = t[i]
  BY <1>0, <1>1, Numbers DEF Sound, Body
<1>3. DOMAIN m = 1 .. (l + f + 1) /\ \A i \in 1 .. (l + f + 1) : m[i] \in Bytes
  BY <1>2, SeqIs
<1>4. ASSUME NEW c
      PROVE  (IF c \in ToSet(<<a>>) THEN <<b>>[SelectInSeq(<<a>>, LAMBDA x : x = c)] ELSE c)
             = IF c = a THEN b ELSE c
  <2>1. ToSet(<<a>>) = {a}
    BY DEF ToSet
  <2>2. CASE c = a
    <3>1. PICK I : I = {i \in 1 .. Len(<<a>>) : <<a>>[i] = c}
      OBVIOUS
    <3>2. SelectInSeq(<<a>>, LAMBDA x : x = c) = IF I # {} THEN Min(I) ELSE 0
      BY <3>1 DEF SelectInSeq
    <3>3. I = 1 .. 1
      BY <2>2, <3>1
    <3>4. Min(I) = 1
      <4>1. I \subseteq Nat /\ 1 \in I /\ \A y \in I : 1 <= y
        BY <3>3
      <4> QED BY <4>1, MinIs
    <3>5. SelectInSeq(<<a>>, LAMBDA x : x = c) = 1
      BY <3>2, <3>3, <3>4
    <3>6. <<b>>[1] = b
      OBVIOUS
    <3> QED BY <2>1, <2>2, <3>5, <3>6
  <2>3. CASE c # a
    BY <2>1, <2>3
  <2> QED BY <2>2, <2>3
<1> DEFINE w == [i \in DOMAIN m |-> IF i <= l THEN IF m[i] = a THEN b ELSE m[i] ELSE m[i]]
           v == [i \in 1 .. Len(t) |-> IF t[i] = a THEN b ELSE t[i]]
<1>5. sdsmapchars(h, <<a>>, <<b>>) = [h EXCEPT !.mem = w]
  BY <1>1, <1>4 DEF sdsmapchars
<1>6. [h EXCEPT !.mem = w] = [len |-> l, free |-> f, mem |-> w]
  <2> HIDE DEF w
  <2> QED BY <1>0, <1>1, Numbers, Replaced
<1>7. \A i \in 1 .. l : i \in 1 .. (l + f + 1)
  BY <1>2
<1>8. w \in Seq(Bytes) /\ Len(w) = l + f + 1
  <2>1. w \in [1 .. (l + f + 1) -> Bytes]
    BY <1>3
  <2>2. l + f + 1 \in Nat
    BY <1>2
  <2>3. PICK k : k = l + f + 1
    OBVIOUS
  <2> HIDE DEF w
  <2>4. w \in [1 .. k -> Bytes] /\ k \in Nat
    BY <2>1, <2>2, <2>3
  <2>5. w \in Seq(Bytes) /\ Len(w) = k
    BY ONLY <2>4
  <2> QED BY <2>3, <2>5
<1>9. ReplaceAll(t, a, b) = v
  BY DEF ReplaceAll
<1>10. v \in Seq(Bytes) /\ Len(v) = l
  <2>1. v \in [1 .. l -> Bytes]
    <3>1. \A i \in 1 .. l : t[i] \in Bytes
      BY <1>2, SeqIs
    <3> QED BY <1>2, <3>1
  <2> HIDE DEF v
  <2>2. l \in Nat
    BY <1>2
  <2> QED BY ONLY <2>1, <2>2
<1>11. \A i \in 1 .. Len(v) : w[i] = v[i]
  BY <1>2, <1>3, <1>7, <1>10
<1>12. w[l + 1] = NUL
  <2>1. l + 1 \in DOMAIN m /\ ~(l + 1 <= l)
    BY <1>2, <1>3
  <2> QED BY <1>2, <2>1
<1> HIDE DEF v, w
<1>13. Sound([len |-> l, free |-> f, mem |-> w], v)
  BY <1>2, <1>8, <1>10, <1>11, <1>12, IsBody
<1> QED BY <1>5, <1>6, <1>9, <1>13

-----------------------------------------------------------------------------
(* Formatting *)

\* The digits of every number below m are there.
LEMMA DigitsBuilt ==
    ASSUME NEW m \in Nat
    PROVE  \E f : f = [n \in 0 .. m |-> IF n < 10 THEN <<Digit[1 + n]>>
                                        ELSE <<Digit[1 + (n % 10)]>> \o f[n \div 10]]
<1> DEFINE Is(f, k) == f = [n \in 0 .. k |-> IF n < 10 THEN <<Digit[1 + n]>>
                                             ELSE <<Digit[1 + (n % 10)]>> \o f[n \div 10]]
           S == {k \in Nat : \E f : Is(f, k)}
<1>1. 0 \in S
  <2>1. PICK f : f = [n \in 0 .. 0 |-> <<Digit[1 + n]>>]
    OBVIOUS
  <2>2. \A n \in 0 .. 0 : n < 10
    OBVIOUS
  <2>3. Is(f, 0)
    BY <2>1, <2>2
  <2> HIDE DEF Is
  <2> QED BY <2>3
<1>2. ASSUME NEW k \in Nat, k \in S PROVE k + 1 \in S
  <2>1. PICK f : Is(f, k)
    BY <1>2
  <2> DEFINE last == IF k + 1 < 10 THEN <<Digit[1 + (k + 1)]>>
                     ELSE <<Digit[1 + ((k + 1) % 10)]>> \o f[(k + 1) \div 10]
             g == [n \in 0 .. k + 1 |-> IF n <= k THEN f[n] ELSE last]
  <2>2. \A n \in 0 .. k + 1 : ~(n < 10) => n \div 10 \in 0 .. k
    OBVIOUS
  <2>3. \A n \in 0 .. k + 1 : g[n] = IF n < 10 THEN <<Digit[1 + n]>>
                                     ELSE <<Digit[1 + (n % 10)]>> \o g[n \div 10]
    <3> TAKE n \in 0 .. k + 1
    <3>1. ~(n < 10) => g[n \div 10] = f[n \div 10]
      <4> HIDE DEF last
      <4>1. \A q \in 0 .. k : g[q] = f[q]
        OBVIOUS
      <4> HIDE DEF g
      <4> QED BY <2>2, <4>1
    <3>2. CASE n <= k
      <4>1. g[n] = f[n]
        BY <3>2
      <4>2. f[n] = IF n < 10 THEN <<Digit[1 + n]>> ELSE <<Digit[1 + (n % 10)]>> \o f[n \div 10]
        <5>1. n \in 0 .. k
          BY <3>2
        <5>2. f = [j \in 0 .. k |-> IF j < 10 THEN <<Digit[1 + j]>>
                                    ELSE <<Digit[1 + (j % 10)]>> \o f[j \div 10]]
          BY <2>1
        <5> QED BY ONLY <5>1, <5>2, Zenon
      <4> HIDE DEF g
      <4> QED BY <3>1, <4>1, <4>2
    <3>3. CASE n = k + 1
      <4>1. g[n] = last
        BY <3>3
      <4> HIDE DEF g
      <4> QED BY <3>1, <3>3, <4>1
    <3> QED BY <3>2, <3>3
  <2>4. g = [n \in 0 .. k + 1 |-> g[n]]
    OBVIOUS
  <2> HIDE DEF g
  <2>5. Is(g, k + 1)
    BY <2>3, <2>4
  <2> HIDE DEF Is
  <2> QED BY <2>5
<1>3. Nat \subseteq S
  <2> HIDE DEF S
  <2> QED BY <1>1, <1>2, NatSetInduction
<1>4. m \in S
  BY <1>3
<1> QED BY <1>4

LEMMA NumberWritten == ASSUME NEW v \in Nat PROVE sdsll2str(v) \in Seq(Bytes)
<1> DEFINE F == CHOOSE f : f = [n \in 0 .. v |-> IF n < 10 THEN <<Digit[1 + n]>>
                                                 ELSE <<Digit[1 + (n % 10)]>> \o f[n \div 10]]
<1>1. F = [n \in 0 .. v |-> IF n < 10 THEN <<Digit[1 + n]>> ELSE <<Digit[1 + (n % 10)]>> \o F[n \div 10]]
  BY DigitsBuilt
<1>2. sdsll2str(v) = Reverse(F[v])
  BY DEF sdsll2str, sdsull2str
<1> HIDE DEF F
<1>3. ASSUME NEW d \in 0 .. 9 PROVE <<Digit[1 + d]>> \in Seq(Bytes)
  <2>1. Digit[1 + d] \in ToSet(Digit)
    BY DEF Digit, ToSet
  <2>2. Digit[1 + d] \in Bytes
    BY <2>1 DEF Bytes
  <2> QED BY <2>2
<1> DEFINE S == {k \in Nat : \A n \in 0 .. k : n <= v => F[n] \in Seq(Bytes)}
<1>4. ASSUME NEW n \in 0 .. v, n < 10 PROVE F[n] \in Seq(Bytes)
  <2>1. F[n] = <<Digit[1 + n]>> /\ n \in 0 .. 9
    BY <1>1, <1>4
  <2> QED BY <1>3, <2>1
<1>5. ASSUME NEW n \in 0 .. v, ~(n < 10), F[n \div 10] \in Seq(Bytes) PROVE F[n] \in Seq(Bytes)
  <2>1. F[n] = <<Digit[1 + (n % 10)]>> \o F[n \div 10] /\ n % 10 \in 0 .. 9
    <3>1. F[n] = <<Digit[1 + (n % 10)]>> \o F[n \div 10]
      BY ONLY <1>1, <1>5, n \in 0 .. v, Zenon
    <3>2. n % 10 \in 0 .. 9
      OBVIOUS
    <3> QED BY <3>1, <3>2
  <2>2. <<Digit[1 + (n % 10)]>> \in Seq(Bytes)
    BY <1>3, <2>1
  <2> QED BY <1>5, <2>1, <2>2, Concat
<1>6. 0 \in S
  BY <1>4
<1>7. ASSUME NEW k \in Nat, k \in S PROVE k + 1 \in S
  <2> SUFFICES ASSUME NEW n \in 0 .. k + 1, n <= v PROVE F[n] \in Seq(Bytes)
    OBVIOUS
  <2>1. CASE n <= k
    BY <1>7, <2>1
  <2>2. CASE n < 10
    BY <1>4, <2>2
  <2>3. CASE n = k + 1 /\ ~(n < 10)
    <3>1. n \div 10 \in 0 .. k /\ n \div 10 <= v
      BY <2>3
    <3>2. F[n \div 10] \in Seq(Bytes)
      BY <1>7, <3>1
    <3> QED BY <1>5, <2>3, <3>2
  <2> QED BY <2>1, <2>2, <2>3
<1>8. Nat \subseteq S
  <2> HIDE DEF S
  <2> QED BY <1>6, <1>7, NatSetInduction
<1>9. F[v] \in Seq(Bytes)
  <2>1. v \in S
    BY <1>8
  <2>2. v \in 0 .. v /\ v <= v
    OBVIOUS
  <2> QED BY <2>1, <2>2
<1>10. PICK s : s = F[v]
  OBVIOUS
<1>11. s \in Seq(Bytes) /\ Len(s) \in Nat /\ \A i \in 1 .. Len(s) : s[i] \in Bytes
  BY <1>9, <1>10, SeqIs
<1>12. \A i \in 1 .. Len(s) : (Len(s) - i) + 1 \in 1 .. Len(s)
  BY <1>11
<1>13. Reverse(s) \in [1 .. Len(s) -> Bytes]
  BY <1>11, <1>12 DEF Reverse
<1>14. Reverse(s) \in Seq(Bytes)
  BY ONLY <1>11, <1>13
<1> QED BY <1>2, <1>10, <1>14

\* A piece is written after the text, and no terminator.
LEMMA PieceWritten ==
    ASSUME NEW h, NEW t, Body(h, t), NEW u \in Seq(Bytes), Len(u) <= h.free
    PROVE  Body([len |-> h.len + Len(u), free |-> h.free - Len(u), mem |-> Put(h.mem, h.len, u)], t \o u)
<1>1. PICK hl, hf, ml, ul, m, v :
          /\ hl = h.len /\ hf = h.free /\ ml = Len(h.mem) /\ ul = Len(u)
          /\ m = Put(h.mem, hl, u) /\ v = t \o u
  OBVIOUS
<1>2. /\ hl \in Nat /\ hf \in Nat /\ ml = hl + hf + 1 /\ ul \in Nat /\ ul <= hf /\ hl = Len(t)
      /\ h.mem \in Seq(Bytes) /\ t \in Seq(Bytes)
  BY <1>1, Numbers, SeqIs
<1>3. /\ hl + ul <= ml /\ hl + ul \in Nat /\ hf - ul \in Nat
      /\ ml = (hl + ul) + (hf - ul) + 1
      /\ \A i \in 1 .. hl : i \in 1 .. ml /\ i <= hl
      /\ \A i \in 1 .. (hl + ul) : i \in 1 .. hl \/ (i - hl \in 1 .. ul /\ i = hl + (i - hl))
  BY ONLY <1>2
<1>4. /\ m \in Seq(Bytes) /\ Len(m) = ml
      /\ \A i \in 1 .. ul : m[hl + i] = u[i]
      /\ \A i \in 1 .. ml : i <= hl => m[i] = h.mem[i]
  <2>1. /\ Put(h.mem, hl, u) \in Seq(Bytes) /\ Len(Put(h.mem, hl, u)) = Len(h.mem)
        /\ \A i \in 1 .. Len(u) : Put(h.mem, hl, u)[hl + i] = u[i]
        /\ \A i \in 1 .. Len(h.mem) : i <= hl \/ i > hl + Len(u) => Put(h.mem, hl, u)[i] = h.mem[i]
    <3>1. hl + Len(u) <= Len(h.mem)
      BY <1>1, <1>3
    <3> QED BY <1>2, <3>1, PutInside
  <2> QED BY <1>1, <2>1
<1>5. /\ v \in Seq(Bytes) /\ Len(v) = hl + ul
      /\ \A i \in 1 .. hl : v[i] = t[i]
      /\ \A i \in 1 .. ul : v[hl + i] = u[i]
  BY <1>1, <1>2, Concat
<1>6. \A i \in 1 .. hl : h.mem[i] = t[i]
  BY <1>2 DEF Body
<1>7. \A i \in 1 .. Len(v) : m[i] = v[i]
  <2> SUFFICES ASSUME NEW i \in 1 .. (hl + ul) PROVE m[i] = v[i]
    BY <1>5
  <2>1. CASE i \in 1 .. hl
    BY <1>3, <1>4, <1>5, <1>6, <2>1
  <2>2. CASE i - hl \in 1 .. ul /\ i = hl + (i - hl)
    <3>1. PICK j \in 1 .. ul : i = hl + j
      BY <2>2
    <3> QED BY <1>4, <1>5, <3>1
  <2> QED BY <1>3, <2>1, <2>2
<1>8. PICK l, f : l = hl + ul /\ f = hf - ul
  OBVIOUS
<1>9. l \in Nat /\ f \in Nat /\ l = Len(v) /\ Len(m) = l + f + 1
  BY <1>3, <1>4, <1>5, <1>8
<1>10. Body([len |-> l, free |-> f, mem |-> m], v)
  BY <1>4, <1>5, <1>7, <1>9, IsBody
<1> QED BY <1>1, <1>8, <1>10

LEMMA PieceBody ==
    ASSUME NEW h, NEW t, Body(h, t), NEW u \in Seq(Bytes)
    PROVE  Body(catfmtPiece(h, u), t \o u)
<1>1. PICK n : n = Len(u)
  OBVIOUS
<1>2. n \in Nat /\ 1 \in Nat
  BY <1>1, SeqIs
<1>3. PICK a : a = IF h.free = 0 THEN sdsMakeRoomFor(h, 1) ELSE h
  OBVIOUS
<1>4. Body(a, t)
  BY <1>2, <1>3, RoomMade
<1>5. PICK b : b = IF a.free < n THEN sdsMakeRoomFor(a, n) ELSE a
  OBVIOUS
<1>6. Body(b, t) /\ n <= b.free
  <2>1. CASE a.free < n
    <3>1. PICK c : c = sdsMakeRoomFor(a, n)
      OBVIOUS
    <3>2. Body(c, t) /\ c.free >= n
      BY <1>2, <1>4, <3>1, RoomMade
    <3>3. c.free \in Nat
      BY <3>2, Numbers
    <3> QED BY <1>2, <1>5, <2>1, <3>1, <3>2, <3>3
  <2>2. CASE ~(a.free < n)
    <3>1. a.free \in Nat
      BY <1>4, Numbers
    <3> QED BY <1>2, <1>4, <1>5, <2>2, <3>1
  <2> QED BY <2>1, <2>2
<1>7. catfmtPiece(h, u) = [len |-> b.len + n, free |-> b.free - n, mem |-> Put(b.mem, b.len, u)]
  BY <1>1, <1>3, <1>5 DEF catfmtPiece
<1> QED BY <1>1, <1>6, <1>7, PieceWritten

\* The terminator is written last.
LEMMA Terminated ==
    ASSUME NEW h, NEW t, Body(h, t)
    PROVE  Sound([h EXCEPT !.mem = Put(@, h.len, <<NUL>>)], t)
<1>1. PICK l, f, m : l = h.len /\ f = h.free /\ m = Put(h.mem, l, <<NUL>>)
  OBVIOUS
<1>2. /\ l \in Nat /\ f \in Nat /\ l = Len(t) /\ t \in Seq(Bytes)
  BY <1>1, Numbers
<1>3. [h EXCEPT !.mem = m] = [len |-> l, free |-> f, mem |-> m]
  BY <1>1, Numbers, Replaced
<1>4. l \in 0 .. Len(t) /\ l = l + Len(<<>>) /\ f = h.len + h.free - l /\ l <= h.len + h.free
  <2>1. l \in 0 .. l /\ l = l + 0 /\ f = l + f - l /\ l <= l + f
    BY ONLY <1>2
  <2> QED BY <1>1, <1>2, <2>1, NoText
<1>5. Sound([len |-> l, free |-> f, mem |-> Put(h.mem, l, Append(<<>>, NUL))], SubSeq(t, 1, l) \o <<>>)
  BY <1>4, NoText, Written
<1>6. SubSeq(t, 1, l) \o <<>> = t /\ Append(<<>>, NUL) = <<NUL>>
  <2>1. SubSeq(t, 1, l) = t
    BY <1>2, Whole
  <2> QED BY <1>2, <2>1, NoText
<1>7. Sound([len |-> l, free |-> f, mem |-> m], t)
  BY <1>1, <1>5, <1>6
<1> QED BY <1>1, <1>3, <1>7

LEMMA FormattedSound ==
    ASSUME NEW h, NEW t, Sound(h, t),
           NEW u \in Seq(Bytes), NEW v \in Seq(Bytes), NEW w \in Seq(Bytes)
    PROVE  Sound(sdscatfmt(h, <<u, v, w>>), t \o u \o v \o w)
<1>1. PICK ps : ps = <<u, v, w>>
  OBVIOUS
<1>2. Len(ps) = 3 /\ ps[1] = u /\ ps[2] = v /\ ps[3] = w
  BY <1>1
<1>3. PICK a, b, c : a = catfmtPiece(h, u) /\ b = catfmtPiece(a, v) /\ c = catfmtPiece(b, w)
  OBVIOUS
<1> DEFINE F == CHOOSE f : f = [k \in 0 .. Len(ps) |-> IF k = 0 THEN h ELSE catfmtPiece(f[k - 1], ps[k])]
<1>4. F = [k \in 0 .. 3 |-> IF k = 0 THEN h ELSE catfmtPiece(F[k - 1], ps[k])]
  <2> DEFINE g == [k \in 0 .. 3 |-> IF k = 0 THEN h ELSE IF k = 1 THEN a ELSE IF k = 2 THEN b ELSE c]
  <2>1. \A k \in 0 .. 3 : g[k] = IF k = 0 THEN h ELSE catfmtPiece(g[k - 1], ps[k])
    <3>1. g[0] = h /\ g[1] = a /\ g[2] = b /\ g[3] = c
      OBVIOUS
    <3> HIDE DEF g
    <3> TAKE k \in 0 .. 3
    <3>2. k = 0 \/ (k = 1 /\ k - 1 = 0) \/ (k = 2 /\ k - 1 = 1) \/ (k = 3 /\ k - 1 = 2)
      OBVIOUS
    <3> QED BY <1>2, <1>3, <3>1, <3>2
  <2>2. g = [k \in 0 .. 3 |-> g[k]]
    OBVIOUS
  <2> HIDE DEF g
  <2>3. g = [k \in 0 .. 3 |-> IF k = 0 THEN h ELSE catfmtPiece(g[k - 1], ps[k])]
    BY <2>1, <2>2
  <2> QED BY <1>2, <2>3
<1>5. sdscatfmt(h, ps) = [F[3] EXCEPT !.mem = Put(@, F[3].len, <<NUL>>)]
  BY <1>2 DEF sdscatfmt
<1> HIDE DEF F
<1>6. F[3] = c
  <2>1. 0 \in 0 .. 3 /\ 1 \in 0 .. 3 /\ 2 \in 0 .. 3 /\ 3 \in 0 .. 3 /\ 1 - 1 = 0 /\ 2 - 1 = 1 /\ 3 - 1 = 2
    OBVIOUS
  <2>2. F[0] = h /\ F[1] = catfmtPiece(F[0], u)
        /\ F[2] = catfmtPiece(F[1], v) /\ F[3] = catfmtPiece(F[2], w)
    BY <1>2, <1>4, <2>1
  <2> QED BY <1>3, <2>2
<1>7. Body(h, t)
  BY DEF Sound
<1>8. Body(a, t \o u)
  BY <1>3, <1>7, PieceBody
<1>9. Body(b, t \o u \o v)
  BY <1>3, <1>8, PieceBody
<1>10. Body(c, t \o u \o v \o w)
  BY <1>3, <1>9, PieceBody
<1>11. Sound([c EXCEPT !.mem = Put(@, c.len, <<NUL>>)], t \o u \o v \o w)
  BY <1>10, Terminated
<1> QED BY <1>1, <1>5, <1>6, <1>11

-----------------------------------------------------------------------------
(* The calls *)

LEMMA TextsAreBytes == ASSUME NEW t \in Texts PROVE t \in Seq(Bytes)
<1>1. PICK n \in 1 .. 2 : t \in [1 .. n -> Alphabet]
  BY DEF Texts
<1>2. t \in [1 .. n -> Bytes] /\ n \in Nat
  BY <1>1 DEF Bytes
<1> QED BY ONLY <1>2

LEMMA BecomesSound == ASSUME NEW h, NEW t, Becomes(h, t), Sound(h, t) PROVE StrInv'
<1>1. Sound(Settled(h), t)
  BY SettledSound
<1>2. str' = Settled(h) /\ text' = t
  BY DEF Becomes
<1>3. Sound(str', text')
  BY <1>1, <1>2
<1> QED BY <1>3 DEF StrInv, Sound, Body

LEMMA SoundText == ASSUME NEW h, NEW t, Sound(h, t) PROVE Text(h) = t
<1>0. Body(h, t)
  BY DEF Sound
<1>1. PICK m, l, u : m = h.mem /\ l = h.len /\ u = SubSeq(m, 1, l)
  OBVIOUS
<1>2. /\ l \in Nat /\ h.free \in Nat /\ m \in Seq(Bytes) /\ t \in Seq(Bytes) /\ l = Len(t)
      /\ Len(m) = l + h.free + 1
  BY <1>0, <1>1, Numbers
<1>3. l \in 0 .. Len(m)
  BY <1>2
<1>4. u \in Seq(Bytes) /\ Len(u) = l /\ \A i \in 1 .. l : u[i] = m[i]
  BY <1>1, <1>2, <1>3, Prefix
<1>5. \A i \in 1 .. l : u[i] = t[i]
  BY <1>0, <1>1, <1>2, <1>4 DEF Body
<1>6. u = t
  BY <1>2, <1>4, <1>5, SameSeq
<1> QED BY <1>1, <1>6 DEF Text

LEMMA StrInitInv == StrInit => StrInv
<1>1. Sound(sdsnewlen(<<>>), <<>>)
  BY NewSound, NoText
<1> QED BY <1>1 DEF StrInit, StrInv, sdsempty

\* One step per function of sds.c.
LEMMA StrStep == StrInv /\ [StrNext]_strVars => StrInv'
<1> SUFFICES ASSUME StrInv, [StrNext]_strVars PROVE StrInv'
  OBVIOUS
<1>0. /\ Sound(str, text) /\ Body(str, text)
      /\ str.len \in Nat /\ str.free \in Nat /\ text \in Seq(Bytes) /\ str.len = Len(text)
      /\ str.mem \in Seq(Bytes)
  <2>1. Sound(str, text) /\ Body(str, text)
    BY DEF StrInv, Sound
  <2> QED BY <2>1, Numbers
<1>1. ASSUME NEW t \in Texts, Cat(t) PROVE StrInv'
  BY <1>0, <1>1, TextsAreBytes, CatSound, BecomesSound DEF Cat
<1>2. ASSUME NEW t \in Texts, CatPrintf(t) PROVE StrInv'
  <2>1. PICK n \in DOMAIN t :
            /\ t[n] = NUL /\ \A i \in 1 .. (n - 1) : t[i] # NUL
            /\ Becomes(sdscatvprintf(str, t), text \o SubSeq(t, 1, n - 1))
    BY <1>2 DEF CatPrintf
  <2>2. Sound(sdscatvprintf(str, t), text \o SubSeq(t, 1, n - 1))
    BY <1>0, <2>1, TextsAreBytes, PrintedSound
  <2> QED BY <2>1, <2>2, BecomesSound
<1>3. ASSUME NEW t \in Texts, Cpy(t) PROVE StrInv'
  BY <1>0, <1>3, TextsAreBytes, CpySound, BecomesSound DEF Cpy
<1>4. ASSUME NEW t \in Texts, Incr(t) PROVE StrInv'
  <2>1. t \in Seq(Bytes) /\ Len(t) \in Nat /\ Len(t) <= str.free
    BY <1>0, <1>4, TextsAreBytes, SeqIs DEF Incr
  <2>2. Sound(sdsIncrLen([str EXCEPT !.mem = Put(@, str.len, t)], Len(t)), text \o t)
    BY <1>0, <2>1, IncrSound
  <2> QED BY <1>4, <2>2, BecomesSound DEF Incr
<1>5. ASSUME NEW c \in Alphabet, CatFmt(c, <<>>) PROVE StrInv'
  <2>1. c \in Bytes /\ <<c>> \in Seq(Bytes)
    BY DEF Bytes
  <2>2. PICK e, w : e = <<>> /\ w = sdsll2str(0)
    OBVIOUS
  <2>3. e \in Seq(Bytes) /\ w \in Seq(Bytes)
    BY <2>2, NoText, NumberWritten
  <2>4. Becomes(sdscatfmt(str, <<<<c>>, e, w>>), text \o <<c>> \o e \o w)
    BY <1>5, <2>2, NoText DEF CatFmt
  <2>5. Sound(sdscatfmt(str, <<<<c>>, e, w>>), text \o <<c>> \o e \o w)
    BY <1>0, <2>1, <2>3, FormattedSound
  <2> QED BY <2>4, <2>5, BecomesSound
<1>6. ASSUME NEW n \in 0 .. MaxText, MakeRoom(n) PROVE StrInv'
  <2>1. Sound(sdsMakeRoomFor(str, n), text)
    BY <1>0, StringAssumption, RoomMade
  <2> QED BY <1>6, <2>1, BecomesSound DEF MakeRoom
<1>7. ASSUME NEW n \in 0 .. MaxText, TrimRight(n) PROVE StrInv'
  <2>1. Sound(sdsIncrLen(str, -n), SubSeq(text, 1, Len(text) - n))
    BY <1>0, <1>7, StringAssumption, TakenOff DEF TrimRight
  <2> QED BY <1>7, <2>1, BecomesSound DEF TrimRight
<1>8. ASSUME NEW n \in 0 .. MaxText, GrowZero(n) PROVE StrInv'
  <2>1. n \in Nat
    BY StringAssumption
  <2>2. Sound(sdsgrowzero(str, n),
              IF n <= Len(text) THEN text ELSE text \o [i \in 1 .. (n - Len(text)) |-> NUL])
    BY <1>0, <2>1, GrownSound
  <2> QED BY <1>8, <2>2, BecomesSound DEF GrowZero
<1>9. ASSUME NEW n \in 0 .. MaxText, UpdateLen(n) PROVE StrInv'
  <2>1. n \in Nat /\ n < str.len
    BY <1>9, StringAssumption DEF UpdateLen
  <2>2. PICK z : z = {i \in 1 .. n : text[i] = NUL}
    OBVIOUS
  <2>3. Sound(sdsupdatelen([str EXCEPT !.mem = Put(@, n, <<NUL>>)]),
              SubSeq(text, 1, IF z = {} THEN n ELSE Min(z) - 1))
    BY <1>0, <2>1, <2>2, UpdatedSound
  <2>4. Becomes(sdsupdatelen([str EXCEPT !.mem = Put(@, n, <<NUL>>)]),
                SubSeq(text, 1, IF z = {} THEN n ELSE Min(z) - 1))
    BY <1>9, <2>2 DEF UpdateLen
  <2> QED BY <2>3, <2>4, BecomesSound
<1>10. ASSUME NEW i \in (-MaxText) .. MaxText, NEW j \in (-MaxText) .. MaxText, Cut(i, j) PROVE StrInv'
  <2>1. i \in Int /\ j \in Int
    BY StringAssumption
  <2>2. PICK S : S = {k \in 0 .. (Len(text) - 1) :
                         /\ IF i >= 0 THEN k >= i ELSE k - Len(text) >= i
                         /\ IF j >= 0 THEN k <= j
                            ELSE k - Len(text) <= j \/ (k = 0 /\ Len(text) + j < 0)}
    OBVIOUS
  <2>3. Sound(sdsrange(str, i, j), IF S = {} THEN <<>> ELSE SubSeq(text, Min(S) + 1, Max(S) + 1))
    BY <1>0, <2>1, <2>2, RangeSound
  <2>4. Becomes(sdsrange(str, i, j), IF S = {} THEN <<>> ELSE SubSeq(text, Min(S) + 1, Max(S) + 1))
    BY <1>10, <2>2 DEF Cut
  <2> QED BY <2>3, <2>4, BecomesSound
<1>11. ASSUME NEW c \in Alphabet, NEW d \in Alphabet, MapChars(c, d) PROVE StrInv'
  <2>1. d \in Bytes
    BY DEF Bytes
  <2>2. Sound(sdsmapchars(str, <<c>>, <<d>>), ReplaceAll(text, c, d))
    BY <1>0, <2>1, MappedSound
  <2> QED BY <1>11, <2>2, BecomesSound DEF MapChars
<1>12. ASSUME NEW c \in Alphabet, Trim({c}) PROVE StrInv'
  <2>1. PICK keep : keep = {i \in 1 .. Len(text) : text[i] \notin {c} \cup {NUL}}
    OBVIOUS
  <2>2. Sound(sdstrim(str, {c}), IF keep = {} THEN <<>> ELSE SubSeq(text, Min(keep), Max(keep)))
    BY <1>0, <2>1, TrimmedSound
  <2>3. Becomes(sdstrim(str, {c}), IF keep = {} THEN <<>> ELSE SubSeq(text, Min(keep), Max(keep)))
    BY <1>12, <2>1 DEF Trim
  <2> QED BY <2>2, <2>3, BecomesSound
<1>13. ASSUME Dup PROVE StrInv'
  <2>1. Text(str) = text
    BY <1>0, SoundText
  <2>2. Sound(sdsnewlen(Text(str)), text)
    BY <1>0, <2>1, NewSound
  <2> QED BY <1>13, <2>2, BecomesSound DEF Dup
<1>14. ASSUME RemoveFreeSpace PROVE StrInv'
  BY <1>0, <1>14, FreeSpaceRemoved, BecomesSound DEF RemoveFreeSpace
<1>15. ASSUME Clear PROVE StrInv'
  BY <1>0, <1>15, ClearSound, BecomesSound DEF Clear
<1>16. ASSUME UNCHANGED strVars PROVE StrInv'
  <2>1. str' = str /\ text' = text
    BY <1>16 DEF strVars
  <2>2. Sound(str', text')
    BY <1>0, <2>1
  <2> QED BY <2>2 DEF StrInv, Sound, Body
<1> QED BY <1>1, <1>2, <1>3, <1>4, <1>5, <1>6, <1>7, <1>8, <1>9, <1>10, <1>11, <1>12, <1>13,
           <1>14, <1>15, <1>16 DEF StrNext

LEMMA InvStringExact == StrInv => StringExact
<1> SUFFICES ASSUME StrInv PROVE StringExact
  OBVIOUS
<1>1. Sound(str, text) /\ Body(str, text)
  BY DEF StrInv, Sound
<1>2. /\ str.len \in Nat /\ str.free \in Nat /\ Len(str.mem) = str.len + str.free + 1
  BY <1>1, Numbers
<1>3. Text(str) = text
  BY <1>1, SoundText
<1>4. str.mem[str.len + 1] = NUL
  BY <1>1 DEF Sound
<1> QED BY <1>2, <1>3, <1>4 DEF StringExact

-----------------------------------------------------------------------------
(* Functions that are built place by place *)

\* The function f on 0 .. k with one more place.
Extended(f, k, x) == [n \in 0 .. k + 1 |-> IF n <= k THEN f[n] ELSE x]

Extends(g, f, k, x) == /\ g = [n \in 0 .. k + 1 |-> g[n]]
                       /\ \A n \in 0 .. k : g[n] = f[n]
                       /\ g[k + 1] = x

LEMMA ExtendedIs ==
    ASSUME NEW k \in Nat, NEW f, NEW x
    PROVE  Extends(Extended(f, k, x), f, k, x)
<1>1. \A n \in 0 .. k : n \in 0 .. k + 1 /\ n <= k
  OBVIOUS
<1>2. k + 1 \in 0 .. k + 1 /\ ~(k + 1 <= k)
  OBVIOUS
<1> QED BY <1>1, <1>2 DEF Extended, Extends

\* The places of 0 .. k + 1 are 0, the last one, and the ones in between.
LEMMA Places ==
    ASSUME NEW k \in Nat
    PROVE  /\ \A n \in 0 .. k + 1 : n = 0 \/ n = k + 1 \/ (n # 0 /\ n \in 0 .. k /\ n - 1 \in 0 .. k)
           /\ k + 1 # 0 /\ (k + 1) - 1 = k /\ k \in 0 .. k /\ 0 \in 0 .. k
OBVIOUS

LEMMA QuotedBuilt ==
    ASSUME NEW h, NEW t, Len(t) \in Nat
    PROVE  \E F : /\ F[0] = sdscatlen(h, <<Quote>>)
                  /\ \A k \in 1 .. Len(t) : F[k] = sdscatlen(F[k - 1], Repr(t[k]))
                  /\ sdscatrepr(h, t) = sdscatlen(F[Len(t)], <<Quote>>)
<1> DEFINE S == {n \in Nat : \E f : f = [k \in 0 .. n |-> IF k = 0 THEN sdscatlen(h, <<Quote>>)
                                                        ELSE sdscatlen(f[k - 1], Repr(t[k]))]}
<1>1. 0 \in S
  <2>1. PICK f : f = [k \in 0 .. 0 |-> sdscatlen(h, <<Quote>>)]
    OBVIOUS
  <2>2. f = [k \in 0 .. 0 |-> IF k = 0 THEN sdscatlen(h, <<Quote>>) ELSE sdscatlen(f[k - 1], Repr(t[k]))]
    BY <2>1
  <2> QED BY <2>2
<1>2. ASSUME NEW n \in Nat, n \in S PROVE n + 1 \in S
  <2>1. PICK f : f = [k \in 0 .. n |-> IF k = 0 THEN sdscatlen(h, <<Quote>>)
                                      ELSE sdscatlen(f[k - 1], Repr(t[k]))]
    BY <1>2
  <2>2. PICK x, g : x = sdscatlen(f[n], Repr(t[n + 1])) /\ g = Extended(f, n, x)
    OBVIOUS
  <2>20. /\ g = [k \in 0 .. n + 1 |-> g[k]]
         /\ \A k \in 0 .. n : g[k] = f[k]
         /\ g[n + 1] = x
    <3>1. g = Extended(f, n, x)
      BY ONLY <2>2
    <3>2. Extends(g, f, n, x)
      BY ONLY n \in Nat, <3>1, ExtendedIs
    <3> QED BY ONLY <3>2 DEF Extends
  <2>3. ASSUME NEW k \in 0 .. n + 1
        PROVE  g[k] = IF k = 0 THEN sdscatlen(h, <<Quote>>) ELSE sdscatlen(g[k - 1], Repr(t[k]))
    <3>1. CASE k = n + 1
      BY <2>2, <2>20, <3>1, Places
    <3>2. CASE k = 0
      BY <2>1, <2>20, <3>2, Places
    <3>3. CASE k # 0 /\ k \in 0 .. n /\ k - 1 \in 0 .. n
      <4>1. g[k] = f[k] /\ g[k - 1] = f[k - 1]
        BY <2>20, <3>3
      <4>2. f[k] = sdscatlen(f[k - 1], Repr(t[k]))
        BY <2>1, <3>3
      <4> QED BY <3>3, <4>1, <4>2
    <3> QED BY <3>1, <3>2, <3>3, Places
  <2>4. g = [k \in 0 .. n + 1 |-> IF k = 0 THEN sdscatlen(h, <<Quote>>) ELSE sdscatlen(g[k - 1], Repr(t[k]))]
    BY <2>20, <2>3
  <2> QED BY <2>4
<1>3. Nat \subseteq S
  <2> HIDE DEF S
  <2> QED BY <1>1, <1>2, NatSetInduction
<1> DEFINE F == CHOOSE f : f = [k \in 0 .. Len(t) |-> IF k = 0 THEN sdscatlen(h, <<Quote>>)
                                                      ELSE sdscatlen(f[k - 1], Repr(t[k]))]
<1>4. F = [k \in 0 .. Len(t) |-> IF k = 0 THEN sdscatlen(h, <<Quote>>) ELSE sdscatlen(F[k - 1], Repr(t[k]))]
  <2>1. Len(t) \in S
    BY <1>3
  <2> QED BY <2>1
<1>5. sdscatrepr(h, t) = sdscatlen(F[Len(t)], <<Quote>>)
  BY DEF sdscatrepr
<1> HIDE DEF F
<1>6. 0 \in 0 .. Len(t) /\ \A k \in 1 .. Len(t) : k \in 0 .. Len(t) /\ k # 0
  OBVIOUS
<1>7. F[0] = sdscatlen(h, <<Quote>>)
  BY <1>4, <1>6
<1>8. \A k \in 1 .. Len(t) : F[k] = sdscatlen(F[k - 1], Repr(t[k]))
  BY <1>4, <1>6
<1> QED BY <1>5, <1>7, <1>8

-----------------------------------------------------------------------------
(* Quoting *)

LEMMA NamesAre ==
    /\ DOMAIN Named = {"lf", "cr", "tab", "bel", "bs"}
    /\ Named["lf"] = "n" /\ Named["cr"] = "r" /\ Named["tab"] = "t" /\ Named["bel"] = "a" /\ Named["bs"] = "b"
BY DEF Named

LEMMA HexIs ==
    /\ DOMAIN Hex = {NUL, "esc"}
    /\ Hex[NUL] = <<"0", "0">> /\ Hex["esc"] = <<"1", "b">>
BY DEF Hex, NUL

\* The four ways to write a byte, of which one applies.
LEMMA ReprIs ==
    ASSUME NEW c
    PROVE  /\ c \in {Backslash, Quote} => Repr(c) = <<Backslash, c>>
           /\ c \in DOMAIN Named => Repr(c) = <<Backslash, Named[c]>>
           /\ c \in DOMAIN Hex => Repr(c) = <<Backslash, "x">> \o Hex[c]
           /\ c \notin {Backslash, Quote} \cup DOMAIN Named \cup DOMAIN Hex => Repr(c) = <<c>>
<1>1. /\ c \in {Backslash, Quote} => c \notin DOMAIN Named /\ c \notin DOMAIN Hex
      /\ c \in DOMAIN Named => c \notin {Backslash, Quote} /\ c \notin DOMAIN Hex
      /\ c \in DOMAIN Hex => c \notin {Backslash, Quote} /\ c \notin DOMAIN Named
  BY NamesAre, HexIs DEF Backslash, Quote, NUL
<1>2. c \in {Backslash, Quote} => Repr(c) = <<Backslash, c>>
  BY <1>1, Zenon DEF Repr
<1>3. c \in DOMAIN Named => Repr(c) = <<Backslash, Named[c]>>
  BY <1>1, Zenon DEF Repr
<1>4. c \in DOMAIN Hex => Repr(c) = <<Backslash, "x">> \o Hex[c]
  BY <1>1, Zenon DEF Repr
<1>5. c \notin {Backslash, Quote} \cup DOMAIN Named \cup DOMAIN Hex => Repr(c) = <<c>>
  BY Zenon DEF Repr
<1> QED BY <1>2, <1>3, <1>4, <1>5

LEMMA QuotingBytes ==
    /\ Backslash \in Bytes /\ Quote \in Bytes /\ Blank \in Bytes /\ "x" \in Bytes /\ "n" \in Bytes
    /\ "r" \in Bytes /\ "t" \in Bytes /\ "a" \in Bytes /\ "b" \in Bytes /\ "0" \in Bytes /\ "1" \in Bytes
<1>1. Digit[1] \in ToSet(Digit) /\ Digit[2] \in ToSet(Digit) /\ Digit[1] = "0" /\ Digit[2] = "1"
  BY DEF ToSet, Digit
<1> QED BY <1>1 DEF Bytes, Quoting

LEMMA ReprBytes == ASSUME NEW c \in Bytes PROVE Repr(c) \in Seq(Bytes) /\ Len(Repr(c)) \in 1 .. 4
<1>0. PICK bs, x : bs = Backslash /\ x = "x"
  OBVIOUS
<1>1. bs \in Bytes /\ x \in Bytes
  BY <1>0, QuotingBytes
<1>2. CASE c \in {Backslash, Quote}
  <2>1. Repr(c) = <<bs, c>>
    BY <1>0, <1>2, ReprIs
  <2> QED BY <1>1, <2>1
<1>3. CASE c \in DOMAIN Named
  <2>1. Named[c] \in Bytes
    BY <1>3, QuotingBytes, NamesAre
  <2>2. Repr(c) = <<bs, Named[c]>>
    BY <1>0, <1>3, ReprIs
  <2> QED BY <1>1, <2>1, <2>2
<1>4. CASE c \in DOMAIN Hex
  <2>1. PICK a, b : Hex[c] = <<a, b>> /\ a \in Bytes /\ b \in Bytes
    BY <1>4, QuotingBytes, HexIs
  <2>2. PICK u, v : u = <<bs, x>> /\ v = <<a, b>>
    OBVIOUS
  <2>3. Repr(c) = u \o v
    BY <1>0, <1>4, <2>1, <2>2, ReprIs
  <2>4. u \in Seq(Bytes) /\ Len(u) = 2 /\ v \in Seq(Bytes) /\ Len(v) = 2
    BY <1>1, <2>1, <2>2
  <2>5. Repr(c) \in Seq(Bytes) /\ Len(Repr(c)) = 2 + 2
    <3>1. PICK z : z = u \o v
      OBVIOUS
    <3>2. z \in Seq(Bytes) /\ Len(z) = Len(u) + Len(v)
      BY ONLY <2>4, <3>1, Concat
    <3> QED BY ONLY <2>3, <2>4, <3>1, <3>2
  <2> QED BY <2>5
<1>5. CASE c \notin {Backslash, Quote} \cup DOMAIN Named \cup DOMAIN Hex
  <2>1. Repr(c) = <<c>>
    BY <1>5, ReprIs
  <2> QED BY <2>1, Single
<1> QED BY <1>2, <1>3, <1>4, <1>5

\* w tells, for each prefix of t, what was written for it after v and a quote.
Quotes(w, v, t) ==
    /\ w[0] = v \o <<Quote>>
    /\ \A k \in 0 .. Len(t) : w[k] \in Seq(Bytes)
    /\ \A k \in 1 .. Len(t) : w[k] = w[k - 1] \o Repr(t[k])

LEMMA ReprWritten ==
    ASSUME NEW h, NEW v, Sound(h, v), NEW t \in Seq(Bytes)
    PROVE  \E w : Quotes(w, v, t) /\ Sound(sdscatrepr(h, t), w[Len(t)] \o <<Quote>>)
<1>1. PICK n, q : n = Len(t) /\ q = <<Quote>>
  OBVIOUS
<1>20. n \in Nat
  BY <1>1, SeqIs
<1>2. n \in Nat /\ 0 \in 0 .. n /\ n \in 0 .. n /\ q \in Seq(Bytes) /\ \A k \in 1 .. n : t[k] \in Bytes
  <2>1. q \in Seq(Bytes)
    BY <1>1, QuotingBytes, Single
  <2> QED BY <1>1, <2>1, SeqIs
<1>3. PICK F : /\ F[0] = sdscatlen(h, q)
               /\ \A k \in 1 .. n : F[k] = sdscatlen(F[k - 1], Repr(t[k]))
               /\ sdscatrepr(h, t) = sdscatlen(F[n], q)
  <2>1. Len(t) \in Nat
    BY SeqIs
  <2>2. \E F : /\ F[0] = sdscatlen(h, <<Quote>>)
               /\ \A k \in 1 .. Len(t) : F[k] = sdscatlen(F[k - 1], Repr(t[k]))
               /\ sdscatrepr(h, t) = sdscatlen(F[Len(t)], <<Quote>>)
    BY <2>1, QuotedBuilt
  <2> QED BY <1>1, <2>2
<1>5. Sound(F[0], v \o q)
  BY <1>2, <1>3, CatSound
<1>6. ASSUME NEW k \in 1 .. n, NEW u, Sound(F[k - 1], u) PROVE Sound(F[k], u \o Repr(t[k]))
  <2>1. Repr(t[k]) \in Seq(Bytes)
    BY <1>2, ReprBytes
  <2>3. F[k] = sdscatlen(F[k - 1], Repr(t[k]))
    BY <1>3
  <2> QED BY <1>6, <2>1, <2>3, CatSound
<1> DEFINE S == {k \in Nat : k <= n => Sound(F[k], Text(F[k]))}
<1>7. 0 \in S
  BY <1>5, SoundText
<1>8. ASSUME NEW k \in Nat, k \in S PROVE k + 1 \in S
  <2> SUFFICES ASSUME k + 1 <= n PROVE Sound(F[k + 1], Text(F[k + 1]))
    OBVIOUS
  <2>1. k + 1 \in 1 .. n /\ (k + 1) - 1 = k /\ k <= n
    BY <1>2
  <2>2. Sound(F[k], Text(F[k]))
    BY <1>8, <2>1
  <2>3. Sound(F[k + 1], Text(F[k]) \o Repr(t[k + 1]))
    BY <1>6, <2>1, <2>2
  <2> QED BY <2>3, SoundText
<1>9. Nat \subseteq S
  <2> HIDE DEF S
  <2> QED BY <1>7, <1>8, NatSetInduction
<1>10. \A k \in 0 .. n : Sound(F[k], Text(F[k]))
  BY <1>9
<1> HIDE DEF S
<1> DEFINE w == [k \in 0 .. n |-> Text(F[k])]
<1>11. w[0] = v \o q
  BY <1>2, <1>5, SoundText
<1>12. \A k \in 0 .. n : w[k] \in Seq(Bytes)
  BY <1>10 DEF Sound, Body
<1>13. ASSUME NEW k \in 1 .. n PROVE w[k] = w[k - 1] \o Repr(t[k])
  <2>1. k \in 0 .. n /\ k - 1 \in 0 .. n
    BY <1>2
  <2>2. Sound(F[k], Text(F[k - 1]) \o Repr(t[k]))
    BY <1>6, <1>10, <2>1
  <2>3. Text(F[k]) = Text(F[k - 1]) \o Repr(t[k])
    BY <2>2, SoundText
  <2> QED BY <2>1, <2>3
<1>14. Sound(sdscatrepr(h, t), w[n] \o q)
  BY <1>2, <1>3, <1>10, CatSound
<1> HIDE DEF w
<1>15. Quotes(w, v, t)
  BY <1>1, <1>11, <1>12, <1>13 DEF Quotes
<1> QED BY <1>1, <1>14, <1>15

-----------------------------------------------------------------------------
(* Reading quoted text *)

\* What the reader of a line keeps.
Reading(mode, cur, args, p) == [mode |-> mode, cur |-> cur, args |-> args, p |-> p]

\* The byte x is read from the next n bytes of the line.
Took(st, x, n) == [st EXCEPT !.cur = Append(@, x), !.p = @ + n]

\* A step between the quotes.
LEMMA QuotedStep ==
    ASSUME NEW line, NEW cur, NEW args, NEW p \in Nat, NEW st,
           st = Reading("quoted", cur, args, p)
    PROVE  /\ /\ At(line, p) = Backslash /\ At(line, p + 1) = "x"
              /\ is_hex_pair(At(line, p + 2), At(line, p + 3))
              => splitStep(line, st) = Reading("quoted", Append(cur, hexByte(At(line, p + 2), At(line, p + 3))), args, p + 4)
           /\ At(line, p) = Backslash /\ At(line, p + 1) \notin {"x", NUL}
              => splitStep(line, st) = Reading("quoted", Append(cur, Unnamed(At(line, p + 1))), args, p + 2)
           /\ At(line, p) \notin {Backslash, Quote, NUL}
              => splitStep(line, st) = Reading("quoted", Append(cur, At(line, p)), args, p + 1)
           /\ At(line, p) = Quote /\ (At(line, p + 1) = NUL \/ isspace(At(line, p + 1)))
              => splitStep(line, st) = Reading("blank", <<>>, Append(args, cur), p + 1)
<1>0. st.mode = "quoted" /\ st.p = p /\ st.cur = cur /\ st.args = args
  BY DEF Reading
<1>1. ASSUME NEW x, NEW n
      PROVE  Took(st, x, n) = Reading("quoted", Append(cur, x), args, p + n)
  <2>1. PICK a, b : a = Append(st.cur, x) /\ b = st.p + n
    OBVIOUS
  <2>2. [st EXCEPT !.cur = a, !.p = b] = Reading("quoted", a, args, b)
    <3>1. PICK g : g = [st EXCEPT !.cur = a, !.p = b]
      OBVIOUS
    <3>2. /\ DOMAIN g = {"mode", "cur", "args", "p"} /\ g = [i \in DOMAIN g |-> g[i]]
          /\ g.mode = "quoted" /\ g.cur = a /\ g.args = args /\ g.p = b
      BY <3>1 DEF Reading
    <3> QED BY ONLY <3>1, <3>2 DEF Reading
  <2> QED BY <1>0, <2>1, <2>2 DEF Took
<1>2. /\ st.mode # "blank" /\ st.mode # "bare" /\ st.mode # "single"
      /\ Backslash # Quote /\ Backslash # NUL /\ Quote # NUL
  BY <1>0 DEF Backslash, Quote, NUL
<1>3. /\ At(line, p) = Backslash /\ At(line, p + 1) = "x"
      /\ is_hex_pair(At(line, p + 2), At(line, p + 3))
      => splitStep(line, st) = Reading("quoted", Append(cur, hexByte(At(line, p + 2), At(line, p + 3))), args, p + 4)
  <2>1. /\ At(line, p) = Backslash /\ At(line, p + 1) = "x"
        /\ is_hex_pair(At(line, p + 2), At(line, p + 3))
        => splitStep(line, st) = Took(st, hexByte(At(line, p + 2), At(line, p + 3)), 4)
    BY <1>0, <1>2, Zenon DEF splitStep, At, Took
  <2> QED BY <1>1, <2>1
<1>4. At(line, p) = Backslash /\ At(line, p + 1) \notin {"x", NUL}
      => splitStep(line, st) = Reading("quoted", Append(cur, Unnamed(At(line, p + 1))), args, p + 2)
  <2>1. At(line, p) = Backslash /\ At(line, p + 1) \notin {"x", NUL}
        => splitStep(line, st) = Took(st, Unnamed(At(line, p + 1)), 2)
    BY <1>0, <1>2, Zenon DEF splitStep, At, Took
  <2> QED BY <1>1, <2>1
<1>5. At(line, p) \notin {Backslash, Quote, NUL}
      => splitStep(line, st) = Reading("quoted", Append(cur, At(line, p)), args, p + 1)
  <2>1. At(line, p) \notin {Backslash, Quote, NUL}
        => splitStep(line, st) = Took(st, At(line, p), 1)
    BY <1>0, <1>2, Zenon DEF splitStep, At, Took
  <2> QED BY <1>1, <2>1
<1>6. At(line, p) = Quote /\ (At(line, p + 1) = NUL \/ isspace(At(line, p + 1)))
      => splitStep(line, st) = Reading("blank", <<>>, Append(args, cur), p + 1)
  <2> SUFFICES ASSUME At(line, p) = Quote, At(line, p + 1) = NUL \/ isspace(At(line, p + 1))
               PROVE  splitStep(line, st) = [mode |-> "blank", cur |-> <<>>, args |-> Append(st.args, st.cur),
                                             p |-> st.p + 1]
    BY <1>0 DEF Reading
  <2> QED BY <1>0, <1>2, Zenon DEF splitStep, At
<1> QED BY ONLY <1>3, <1>4, <1>5, <1>6, Zenon

\* What the reader makes of what was written for one byte.
LEMMA UnquotedNames ==
    ASSUME NEW c \in DOMAIN Named
    PROVE  Unnamed(Named[c]) = c /\ Named[c] \notin {"x", NUL, Quote, Backslash}
<1>1. /\ Named[c] \notin {"x", NUL, Quote, Backslash}
      /\ \A b \in DOMAIN Named : Named[b] = Named[c] => b = c
  BY NamesAre DEF NUL, Quote, Backslash
<1>2. \E b \in DOMAIN Named : Named[b] = Named[c]
  OBVIOUS
<1> QED BY <1>1, <1>2 DEF Unnamed

LEMMA UnquotedSigns == Unnamed(Quote) = Quote /\ Unnamed(Backslash) = Backslash
<1>1. \A b \in DOMAIN Named : Named[b] # Quote /\ Named[b] # Backslash
  BY NamesAre DEF Quote, Backslash
<1> QED BY <1>1 DEF Unnamed

LEMMA HexDigitsAre ==
    /\ is_hex_pair("0", "0") /\ is_hex_pair("1", "b")
    /\ hex_digit_to_int("0") = 0 /\ hex_digit_to_int("1") = 1 /\ hex_digit_to_int("b") = 11
<1>1. /\ HexDigits[1] = {"0"} /\ HexDigits[2] = {"1"} /\ HexDigits[3] = {"2"} /\ HexDigits[4] = {"3"}
      /\ HexDigits[5] = {"4"} /\ HexDigits[6] = {"5"} /\ HexDigits[7] = {"6"} /\ HexDigits[8] = {"7"}
      /\ HexDigits[9] = {"8"} /\ HexDigits[10] = {"9"} /\ HexDigits[11] = {"a", "A"} /\ HexDigits[12] = {"b", "B"}
      /\ HexDigits[13] = {"c", "C"} /\ HexDigits[14] = {"d", "D"} /\ HexDigits[15] = {"e", "E"}
      /\ HexDigits[16] = {"f", "F"}
  BY DEF HexDigits
<1>2. is_hex_pair("0", "0") /\ is_hex_pair("1", "b")
  BY <1>1 DEF is_hex_pair
<1>3. \A n \in 0 .. 15 : /\ "0" \in HexDigits[n + 1] => n = 0
                         /\ "1" \in HexDigits[n + 1] => n = 1
                         /\ "b" \in HexDigits[n + 1] => n = 11
  <2> SUFFICES ASSUME NEW n \in 0 .. 15
               PROVE  /\ "0" \in HexDigits[n + 1] => n = 0
                      /\ "1" \in HexDigits[n + 1] => n = 1
                      /\ "b" \in HexDigits[n + 1] => n = 11
    OBVIOUS
  <2>1. n \in {0, 1, 2, 3, 4, 5, 6, 7, 8, 9, 10, 11, 12, 13, 14, 15}
    OBVIOUS
  <2> QED BY <1>1, <2>1
<1>4. "0" \in HexDigits[0 + 1] /\ "1" \in HexDigits[1 + 1] /\ "b" \in HexDigits[11 + 1]
  BY <1>1
<1>5. hex_digit_to_int("0") = 0
  BY <1>3, <1>4 DEF hex_digit_to_int
<1>6. hex_digit_to_int("1") = 1
  BY <1>3, <1>4 DEF hex_digit_to_int
<1>7. hex_digit_to_int("b") = 11
  BY <1>3, <1>4 DEF hex_digit_to_int
<1> QED BY <1>2, <1>5, <1>6, <1>7

LEMMA ControlIs ==
    /\ DOMAIN Control = {NUL, "bel", "bs", "tab", "lf", "cr", "esc"}
    /\ \A d \in DOMAIN Control : /\ Control[d] = 0 <=> d = NUL
                                 /\ Control[d] = 27 <=> d = "esc"
BY DEF Control, NUL

LEMMA UnquotedHex ==
    ASSUME NEW c \in DOMAIN Hex, NEW a, NEW b, Hex[c] = <<a, b>>
    PROVE  is_hex_pair(a, b) /\ hexByte(a, b) = c
<1>1. CASE c = NUL
  <2>1. a = "0" /\ b = "0"
    BY <1>1, HexIs
  <2>2. 16 * hex_digit_to_int(a) + hex_digit_to_int(b) = 0
    BY <2>1, HexDigitsAre
  <2>3. {d \in DOMAIN Control : Control[d] = 0} = {NUL}
    BY ControlIs
  <2>4. hexByte(a, b) = CHOOSE d \in {NUL} : TRUE
    BY <2>2, <2>3 DEF hexByte
  <2> QED BY <1>1, <2>1, <2>4, HexDigitsAre
<1>2. CASE c = "esc"
  <2>1. a = "1" /\ b = "b"
    BY <1>2, HexIs DEF NUL
  <2>2. 16 * hex_digit_to_int(a) + hex_digit_to_int(b) = 27
    BY <2>1, HexDigitsAre
  <2>3. {d \in DOMAIN Control : Control[d] = 27} = {"esc"}
    BY ControlIs
  <2>4. hexByte(a, b) = CHOOSE d \in {"esc"} : TRUE
    BY <2>2, <2>3 DEF hexByte
  <2> QED BY <1>2, <2>1, <2>4, HexDigitsAre
<1> QED BY <1>1, <1>2, HexIs

\* What is written for c follows the first a bytes of the line.
Stands(line, a, c) ==
    /\ a + Len(Repr(c)) <= Len(line)
    /\ \A j \in 1 .. Len(Repr(c)) : line[a + j] = Repr(c)[j]

LEMMA QuotedByte ==
    ASSUME NEW line \in Seq(Bytes), NEW cur, NEW args, NEW a \in Nat, NEW c \in Bytes, NEW st,
           st = Reading("quoted", cur, args, a + 1), Stands(line, a, c)
    PROVE  splitStep(line, st) = Reading("quoted", Append(cur, c), args, a + Len(Repr(c)) + 1)
<1>0. a + Len(Repr(c)) <= Len(line) /\ \A j \in 1 .. Len(Repr(c)) : line[a + j] = Repr(c)[j]
  BY DEF Stands
<1>1. a + 1 \in Nat /\ Len(line) \in Nat
  BY SeqIs
<1>2. \A j \in 1 .. Len(Repr(c)) : At(line, a + j) = Repr(c)[j]
  <2> TAKE j \in 1 .. Len(Repr(c))
  <2>1. Len(Repr(c)) \in Nat
    BY ReprBytes
  <2>2. a + j <= Len(line)
    BY <1>0, <1>1, <2>1
  <2> QED BY <1>0, <2>2 DEF At
<1>3. Backslash # Quote /\ Backslash # NUL /\ Quote # NUL /\ "x" # NUL /\ Quote # "x" /\ Backslash # "x"
  BY DEF Backslash, Quote, NUL
<1>4. CASE c \in {Backslash, Quote}
  <2>1. Repr(c) = <<Backslash, c>>
    BY <1>4, ReprIs
  <2>2. Len(Repr(c)) = 2 /\ Repr(c)[1] = Backslash /\ Repr(c)[2] = c
    BY <2>1
  <2>3. At(line, a + 1) = Backslash /\ At(line, (a + 1) + 1) = c /\ (a + 1) + 2 = a + 2 + 1
    BY <1>2, <2>2
  <2>4. c \notin {"x", NUL} /\ Unnamed(c) = c
    BY <1>3, <1>4, UnquotedSigns
  <2> QED BY <1>1, <2>2, <2>3, <2>4, QuotedStep
<1>5. CASE c \in DOMAIN Named
  <2>1. Repr(c) = <<Backslash, Named[c]>>
    BY <1>5, ReprIs
  <2>2. Len(Repr(c)) = 2 /\ Repr(c)[1] = Backslash /\ Repr(c)[2] = Named[c]
    BY <2>1
  <2>3. At(line, a + 1) = Backslash /\ At(line, (a + 1) + 1) = Named[c] /\ (a + 1) + 2 = a + 2 + 1
    BY <1>2, <2>2
  <2>4. Named[c] \notin {"x", NUL} /\ Unnamed(Named[c]) = c
    BY <1>5, UnquotedNames
  <2> QED BY <1>1, <2>2, <2>3, <2>4, QuotedStep
<1>6. CASE c \in DOMAIN Hex
  <2>1. PICK x, y, bs, ex : Hex[c] = <<x, y>> /\ x \in Bytes /\ y \in Bytes /\ bs = Backslash /\ ex = "x"
    BY <1>6, HexIs, QuotingBytes
  <2>2. bs \in Bytes /\ ex \in Bytes
    BY <2>1, QuotingBytes
  <2>3. Repr(c) = <<bs, ex>> \o <<x, y>>
    BY <1>6, <2>1, ReprIs
  <2>4. Len(Repr(c)) = 4 /\ Repr(c)[1] = Backslash /\ Repr(c)[2] = "x" /\ Repr(c)[3] = x /\ Repr(c)[4] = y
    <3>1. PICK u, v, r : u = <<bs, ex>> /\ v = <<x, y>> /\ r = u \o v
      OBVIOUS
    <3>2. /\ u \in Seq(Bytes) /\ Len(u) = 2 /\ u[1] = bs /\ u[2] = ex
          /\ v \in Seq(Bytes) /\ Len(v) = 2 /\ v[1] = x /\ v[2] = y
      BY <2>1, <2>2, <3>1
    <3>3. Len(r) = 4 /\ r[1] = u[1] /\ r[2] = u[2] /\ r[2 + 1] = v[1] /\ r[2 + 2] = v[2]
      BY ONLY <3>1, <3>2, Concat
    <3> QED BY <2>1, <2>3, <3>1, <3>2, <3>3
  <2>5. /\ At(line, a + 1) = Backslash /\ At(line, (a + 1) + 1) = "x"
        /\ At(line, (a + 1) + 2) = x /\ At(line, (a + 1) + 3) = y /\ (a + 1) + 4 = a + 4 + 1
    BY <1>2, <2>4
  <2>6. is_hex_pair(x, y) /\ hexByte(x, y) = c
    BY <1>6, <2>1, UnquotedHex
  <2> QED BY <1>1, <2>4, <2>5, <2>6, QuotedStep
<1>7. CASE c \notin {Backslash, Quote} \cup DOMAIN Named \cup DOMAIN Hex
  <2>1. Repr(c) = <<c>>
    BY <1>7, ReprIs
  <2>2. Len(Repr(c)) = 1 /\ Repr(c)[1] = c
    BY <2>1
  <2>3. At(line, a + 1) = c
    BY <1>2, <2>2
  <2>4. c \notin {Backslash, Quote, NUL}
    BY <1>7, HexIs
  <2> QED BY <1>1, <2>2, <2>3, <2>4, QuotedStep
<1> QED BY <1>4, <1>5, <1>6, <1>7

\* Where what was written for each byte is found in the line.
Placed(w, t, line) ==
    /\ \A k \in 0 .. Len(t) : /\ Len(w[k]) \in Nat /\ Len(w[k]) + (Len(t) - k) <= Len(w[Len(t)])
                              /\ \A i \in 1 .. Len(w[k]) : line[i] = w[k][i]
    /\ \A k \in 1 .. Len(t) :
           /\ Len(w[k]) = Len(w[k - 1]) + Len(Repr(t[k]))
           /\ \A j \in 1 .. Len(Repr(t[k])) : line[Len(w[k - 1]) + j] = Repr(t[k])[j]

LEMMA QuotedPlaces ==
    ASSUME NEW t \in Seq(Bytes), NEW w, NEW v, Quotes(w, v, t),
           NEW line \in Seq(Bytes), NEW u \in Seq(Bytes), line = w[Len(t)] \o u
    PROVE  Placed(w, t, line)
<1>1. PICK n : n = Len(t)
  OBVIOUS
<1>2. n \in Nat /\ n \in 0 .. n /\ \A k \in 1 .. n : t[k] \in Bytes
  BY <1>1, SeqIs
<1>20. /\ \A k \in 0 .. n : w[k] \in Seq(Bytes)
       /\ \A k \in 1 .. n : w[k] = w[k - 1] \o Repr(t[k])
  BY <1>1 DEF Quotes
<1>3. ASSUME NEW k \in 1 .. n
      PROVE  /\ k \in 0 .. n /\ k - 1 \in 0 .. n /\ w[k - 1] \in Seq(Bytes)
             /\ Len(w[k - 1]) \in Nat /\ Len(Repr(t[k])) \in 1 .. 4
             /\ Len(w[k]) = Len(w[k - 1]) + Len(Repr(t[k]))
             /\ \A i \in 1 .. Len(w[k - 1]) : w[k][i] = w[k - 1][i]
             /\ \A j \in 1 .. Len(Repr(t[k])) : w[k][Len(w[k - 1]) + j] = Repr(t[k])[j]
  <2>1. k \in 0 .. n /\ k - 1 \in 0 .. n
    BY <1>2
  <2>2. PICK a, b : a = w[k - 1] /\ b = Repr(t[k])
    OBVIOUS
  <2>3. a \in Seq(Bytes) /\ b \in Seq(Bytes) /\ Len(b) \in 1 .. 4
    BY <1>20, <1>2, <2>1, <2>2, ReprBytes
  <2>4. w[k] = a \o b
    BY <1>20, <2>2
  <2>5. /\ Len(a \o b) = Len(a) + Len(b)
        /\ \A i \in 1 .. Len(a) : (a \o b)[i] = a[i]
        /\ \A j \in 1 .. Len(b) : (a \o b)[Len(a) + j] = b[j]
    BY <2>3, Concat
  <2>6. Len(a) \in Nat
    BY <2>3, SeqIs
  <2> QED BY <2>1, <2>2, <2>3, <2>4, <2>5, <2>6
<1> DEFINE P(k) == /\ Len(w[k]) \in Nat /\ Len(w[k]) + (n - k) <= Len(w[n])
                   /\ \A i \in 1 .. Len(w[k]) : line[i] = w[k][i]
           S == {d \in Nat : d <= n => P(n - d)}
<1>4. 0 \in S
  <2>1. PICK x : x = w[n]
    OBVIOUS
  <2>2. x \in Seq(Bytes) /\ line = x \o u
    BY <1>1, <1>2, <1>20, <2>1
  <2>3. Len(x) \in Nat /\ Len(x) + (n - n) <= Len(x)
    BY <1>2, <2>2, SeqIs
  <2>4. \A i \in 1 .. Len(x) : line[i] = x[i]
    BY <2>2, Concat
  <2>5. P(n)
    BY <2>1, <2>3, <2>4
  <2> HIDE DEF P
  <2>6. n - 0 = n
    BY <1>2
  <2> QED BY <2>5, <2>6
<1>5. ASSUME NEW d \in Nat, d \in S PROVE d + 1 \in S
  <2> SUFFICES ASSUME d + 1 <= n PROVE P(n - (d + 1))
    <3> HIDE DEF P
    <3> QED OBVIOUS
  <2>1. PICK k : k = n - d
    OBVIOUS
  <2>2. k \in 1 .. n /\ k - 1 = n - (d + 1) /\ n - (k - 1) = n - k + 1 /\ d <= n
    BY <1>2, <2>1
  <2>3. P(k)
    BY <1>5, <2>1, <2>2
  <2>4. PICK a, b, z : a = Len(w[k - 1]) /\ b = Len(w[k]) /\ z = Len(w[n])
    OBVIOUS
  <2>5. PICK r \in 1 .. 4 : b = a + r
    BY <1>3, <2>2, <2>4
  <2>6. a \in Nat /\ b + (n - k) <= z /\ z \in Nat
    <3>1. w[n] \in Seq(Bytes)
      BY <1>2, <1>20
    <3> QED BY <1>3, <2>2, <2>3, <2>4, <3>1, SeqIs
  <2>7. a + (n - (k - 1)) <= z /\ \A i \in 1 .. a : i \in 1 .. b
    BY ONLY <1>2, <2>2, <2>5, <2>6
  <2>8. \A i \in 1 .. a : line[i] = w[k - 1][i]
    <3> TAKE i \in 1 .. a
    <3>1. line[i] = w[k][i]
      BY <2>3, <2>4, <2>7
    <3>2. w[k][i] = w[k - 1][i]
      BY <1>3, <2>2, <2>4
    <3> QED BY <3>1, <3>2
  <2>9. P(k - 1)
    BY <2>4, <2>6, <2>7, <2>8
  <2> HIDE DEF P
  <2> QED BY <2>2, <2>9
<1>6. Nat \subseteq S
  <2> HIDE DEF S
  <2> QED BY <1>4, <1>5, NatSetInduction
<1>7. \A k \in 0 .. n : P(k)
  <2> TAKE k \in 0 .. n
  <2>1. n - k \in Nat /\ n - k <= n /\ n - (n - k) = k
    BY <1>2
  <2>2. n - k \in S
    BY <1>6, <2>1
  <2>3. P(n - (n - k))
    BY <2>1, <2>2
  <2> HIDE DEF P
  <2> QED BY <2>1, <2>3
<1>8. \A k \in 1 .. n : \A j \in 1 .. Len(Repr(t[k])) : line[Len(w[k - 1]) + j] = Repr(t[k])[j]
  <2> TAKE k \in 1 .. n
  <2> TAKE j \in 1 .. Len(Repr(t[k]))
  <2>1. PICK a, b, r : a = Len(w[k - 1]) /\ b = Len(w[k]) /\ r = Len(Repr(t[k]))
    OBVIOUS
  <2>2. a \in Nat /\ r \in 1 .. 4 /\ b = a + r /\ j \in 1 .. r
    BY <1>3, <2>1
  <2>3. a + j \in 1 .. b
    BY ONLY <2>2
  <2>4. line[a + j] = w[k][a + j]
    <3>1. P(k)
      BY <1>3, <1>7
    <3> QED BY <2>1, <2>3, <3>1
  <2> QED BY <1>3, <2>1, <2>4
<1> QED BY <1>1, <1>3, <1>7, <1>8 DEF Placed

\* The steps outside quotes, as far as they occur.
LEMMA BlankStep ==
    ASSUME NEW line, NEW cur, NEW args, NEW p \in Nat, NEW st,
           st = Reading("blank", cur, args, p)
    PROVE  /\ At(line, p) = NUL => splitStep(line, st) = Reading("end", cur, args, p)
           /\ isspace(At(line, p)) /\ At(line, p) # NUL => splitStep(line, st) = Reading("blank", cur, args, p + 1)
           /\ At(line, p) = Quote => splitStep(line, st) = Reading("bare", cur, args, p)
<1>0. st.mode = "blank" /\ st.p = p /\ st.cur = cur /\ st.args = args
  BY DEF Reading
<1>1. /\ Quote # NUL /\ ~isspace(Quote) /\ ~isspace(NUL)
      /\ st.mode # "bare" /\ st.mode # "quoted" /\ st.mode # "single"
  BY <1>0 DEF Quote, NUL, isspace
<1>2. At(line, p) = NUL => splitStep(line, st) = [st EXCEPT !.mode = "end"]
  BY <1>0, <1>1, Zenon DEF splitStep, At
<1>3. isspace(At(line, p)) /\ At(line, p) # NUL => splitStep(line, st) = [st EXCEPT !.p = @ + 1]
  BY <1>0, <1>1, Zenon DEF splitStep, At
<1>4. At(line, p) = Quote => splitStep(line, st) = [st EXCEPT !.mode = "bare"]
  BY <1>0, <1>1, Zenon DEF splitStep, At
<1>5. ASSUME NEW m PROVE [st EXCEPT !.mode = m] = Reading(m, cur, args, p)
  <2>1. PICK g : g = [st EXCEPT !.mode = m]
    OBVIOUS
  <2>2. /\ DOMAIN g = {"mode", "cur", "args", "p"} /\ g = [i \in DOMAIN g |-> g[i]]
        /\ g.mode = m /\ g.cur = cur /\ g.args = args /\ g.p = p
    BY <2>1 DEF Reading
  <2> QED BY ONLY <2>1, <2>2 DEF Reading
<1>6. [st EXCEPT !.p = @ + 1] = Reading("blank", cur, args, p + 1)
  <2>1. PICK g : g = [st EXCEPT !.p = @ + 1]
    OBVIOUS
  <2>2. /\ DOMAIN g = {"mode", "cur", "args", "p"} /\ g = [i \in DOMAIN g |-> g[i]]
        /\ g.mode = "blank" /\ g.cur = cur /\ g.args = args /\ g.p = p + 1
    BY <1>0, <2>1 DEF Reading
  <2> QED BY ONLY <2>1, <2>2 DEF Reading
<1> QED BY <1>2, <1>3, <1>4, <1>5, <1>6

LEMMA BareStep ==
    ASSUME NEW line, NEW cur, NEW args, NEW p \in Nat, NEW st,
           st = Reading("bare", cur, args, p), At(line, p) = Quote
    PROVE  splitStep(line, st) = Reading("quoted", cur, args, p + 1)
<1>0. st.mode = "bare" /\ st.p = p /\ st.cur = cur /\ st.args = args
  BY DEF Reading
<1>1. Quote # NUL /\ ~isspace(Quote) /\ Quote # "'"
  BY DEF Quote, NUL, isspace
<1>2. splitStep(line, st) = [st EXCEPT !.mode = "quoted", !.p = @ + 1]
  BY <1>0, <1>1, Zenon DEF splitStep, At
<1>3. PICK g : g = [st EXCEPT !.mode = "quoted", !.p = @ + 1]
  OBVIOUS
<1>4. /\ DOMAIN g = {"mode", "cur", "args", "p"} /\ g = [i \in DOMAIN g |-> g[i]]
      /\ g.mode = "quoted" /\ g.cur = cur /\ g.args = args /\ g.p = p + 1
  BY <1>0, <1>3 DEF Reading
<1>5. g = Reading("quoted", cur, args, p + 1)
  BY ONLY <1>4 DEF Reading
<1> QED BY <1>2, <1>3, <1>5

LEMMA EndStep ==
    ASSUME NEW line, NEW cur, NEW args, NEW p, NEW st, st = Reading("end", cur, args, p)
    PROVE  splitStep(line, st) = st
<1>0. st.mode = "end"
  BY DEF Reading
<1>1. st.mode # "blank" /\ st.mode # "bare" /\ st.mode # "quoted" /\ st.mode # "single"
  BY <1>0
<1> QED BY <1>1, Zenon DEF splitStep

LEMMA LineRead ==
    ASSUME NEW line, Len(line) \in Nat
    PROVE  \E R : /\ R[0] = Reading("blank", <<>>, <<>>, 1)
                  /\ \A k \in 1 .. (3 * Len(line) + 3) : R[k] = splitStep(line, R[k - 1])
                  /\ R[3 * Len(line) + 3].mode = "end"
                     => sdssplitargs(line) = [ok |-> TRUE, args |-> R[3 * Len(line) + 3].args]
<1>0. PICK m, b : m = 3 * Len(line) + 3 /\ b = Reading("blank", <<>>, <<>>, 1)
  OBVIOUS
<1>1. m \in Nat
  BY <1>0
<1> DEFINE S == {n \in Nat : \E f : f = [k \in 0 .. n |-> IF k = 0 THEN b ELSE splitStep(line, f[k - 1])]}
<1>2. 0 \in S
  <2>1. PICK f : f = [k \in 0 .. 0 |-> b]
    OBVIOUS
  <2>2. f = [k \in 0 .. 0 |-> IF k = 0 THEN b ELSE splitStep(line, f[k - 1])]
    BY <2>1
  <2> QED BY <2>2
<1>3. ASSUME NEW n \in Nat, n \in S PROVE n + 1 \in S
  <2>1. PICK f : f = [k \in 0 .. n |-> IF k = 0 THEN b ELSE splitStep(line, f[k - 1])]
    BY <1>3
  <2>2. PICK x, g : x = splitStep(line, f[n]) /\ g = Extended(f, n, x)
    OBVIOUS
  <2>3. /\ g = [k \in 0 .. n + 1 |-> g[k]]
        /\ \A k \in 0 .. n : g[k] = f[k]
        /\ g[n + 1] = x
    <3>1. g = Extended(f, n, x)
      BY ONLY <2>2
    <3>2. Extends(g, f, n, x)
      BY ONLY n \in Nat, <3>1, ExtendedIs
    <3> QED BY ONLY <3>2 DEF Extends
  <2>4. ASSUME NEW k \in 0 .. n + 1
        PROVE  g[k] = IF k = 0 THEN b ELSE splitStep(line, g[k - 1])
    <3>1. CASE k = n + 1
      BY <2>2, <2>3, <3>1, Places
    <3>2. CASE k = 0
      BY <2>1, <2>3, <3>2, Places
    <3>3. CASE k # 0 /\ k \in 0 .. n /\ k - 1 \in 0 .. n
      <4>1. g[k] = f[k] /\ g[k - 1] = f[k - 1]
        BY <2>3, <3>3
      <4>2. f[k] = splitStep(line, f[k - 1])
        BY <2>1, <3>3
      <4> QED BY <3>3, <4>1, <4>2
    <3> QED BY <3>1, <3>2, <3>3, Places
  <2>5. g = [k \in 0 .. n + 1 |-> IF k = 0 THEN b ELSE splitStep(line, g[k - 1])]
    BY <2>3, <2>4
  <2> QED BY <2>5
<1>4. Nat \subseteq S
  <2> HIDE DEF S
  <2> QED BY <1>2, <1>3, NatSetInduction
<1> DEFINE R == CHOOSE f : f = [k \in 0 .. m |-> IF k = 0 THEN b ELSE splitStep(line, f[k - 1])]
<1>5. R = [k \in 0 .. m |-> IF k = 0 THEN b ELSE splitStep(line, R[k - 1])]
  <2>1. m \in S
    BY <1>1, <1>4
  <2> QED BY <2>1
<1>6. sdssplitargs(line) = [ok |-> R[m].mode = "end", args |-> IF R[m].mode = "end" THEN R[m].args ELSE <<>>]
  BY <1>0 DEF sdssplitargs, Reading
<1> HIDE DEF R
<1>7. 0 \in 0 .. m /\ \A k \in 1 .. m : k \in 0 .. m /\ k # 0
  BY <1>1
<1>8. R[0] = b
  BY <1>5, <1>7
<1>9. \A k \in 1 .. m : R[k] = splitStep(line, R[k - 1])
  BY <1>5, <1>7
<1>10. R[m].mode = "end" => sdssplitargs(line) = [ok |-> TRUE, args |-> R[m].args]
  BY <1>6
<1> QED BY <1>0, <1>8, <1>9, <1>10

LEMMA PrefixGrows ==
    ASSUME NEW t \in Seq(Bytes), NEW k \in Nat, k < Len(t)
    PROVE  Append(SubSeq(t, 1, k), t[k + 1]) = SubSeq(t, 1, k + 1)
<1>1. PICK a, b, x : a = SubSeq(t, 1, k) /\ b = SubSeq(t, 1, k + 1) /\ x = t[k + 1]
  OBVIOUS
<1>2. k \in 0 .. Len(t) /\ k + 1 \in 0 .. Len(t) /\ k + 1 \in 1 .. Len(t) /\ x \in Bytes
  <2>1. Len(t) \in Nat
    BY SeqIs
  <2>2. k \in 0 .. Len(t) /\ k + 1 \in 0 .. Len(t) /\ k + 1 \in 1 .. Len(t)
    BY <2>1
  <2> QED BY <1>1, <2>2, SeqIs
<1>3. /\ a \in Seq(Bytes) /\ Len(a) = k /\ \A i \in 1 .. k : a[i] = t[i]
      /\ b \in Seq(Bytes) /\ Len(b) = k + 1 /\ \A i \in 1 .. k + 1 : b[i] = t[i]
  <2>1. a \in Seq(Bytes) /\ Len(a) = k /\ \A i \in 1 .. k : a[i] = t[i]
    BY <1>1, <1>2, Prefix
  <2>2. b \in Seq(Bytes) /\ Len(b) = k + 1 /\ \A i \in 1 .. k + 1 : b[i] = t[i]
    BY <1>1, <1>2, Prefix
  <2> QED BY <2>1, <2>2
<1>4. PICK c : c = Append(a, x)
  OBVIOUS
<1>5. c \in Seq(Bytes) /\ Len(c) = k + 1 /\ (\A i \in 1 .. k : c[i] = a[i]) /\ c[k + 1] = x
  BY <1>2, <1>3, <1>4, Appended
<1>6. \A i \in 1 .. k + 1 : i \in 1 .. k \/ i = k + 1
  OBVIOUS
<1>7. \A i \in 1 .. Len(c) : c[i] = b[i]
  BY <1>1, <1>3, <1>5, <1>6
<1>8. c = b
  BY <1>3, <1>5, <1>7, SameSeq
<1> QED BY <1>1, <1>4, <1>8

\* A byte after a text.
LEMMA OneMore ==
    ASSUME NEW s \in Seq(Bytes), NEW b \in Bytes, NEW u, u = s \o <<b>>
    PROVE  /\ u \in Seq(Bytes) /\ Len(s) \in Nat /\ Len(u) = Len(s) + 1
           /\ \A i \in 1 .. Len(s) : u[i] = s[i]
           /\ u[Len(s) + 1] = b
<1>1. PICK x : x = <<b>>
  OBVIOUS
<1>2. x \in Seq(Bytes) /\ Len(x) = 1 /\ x[1] = b
  BY <1>1, Single
<1>3. Len(s) \in Nat
  BY SeqIs
<1>4. /\ u \in Seq(Bytes) /\ Len(u) = Len(s) + Len(x)
      /\ \A i \in 1 .. Len(s) : u[i] = s[i]
      /\ \A i \in 1 .. Len(x) : u[Len(s) + i] = x[i]
  BY <1>1, <1>2, Concat
<1> QED BY <1>2, <1>3, <1>4

\* A line that ends in a quote, a blank and an empty argument.
LineEnd(x, q, bl) == (((x \o <<q>>) \o <<bl>>) \o <<q>>) \o <<q>>

EndsLine(d, x, q, bl) ==
    /\ d \in Seq(Bytes) /\ Len(d) = Len(x) + 4
    /\ d = x \o <<q, bl, q, q>> /\ <<q, bl, q, q>> \in Seq(Bytes)
    /\ d[Len(x) + 1] = q /\ d[Len(x) + 2] = bl /\ d[Len(x) + 3] = q /\ d[Len(x) + 4] = q

LEMMA FourMore ==
    ASSUME NEW x \in Seq(Bytes), NEW q \in Bytes, NEW bl \in Bytes, NEW d, d = LineEnd(x, q, bl)
    PROVE  EndsLine(d, x, q, bl)
<1>0. PICK a, b, c : a = x \o <<q>> /\ b = a \o <<bl>> /\ c = b \o <<q>> /\ d = c \o <<q>>
  BY DEF LineEnd
<1>1. PICK l, u : l = Len(x) /\ u = <<q, bl, q, q>>
  OBVIOUS
<1>2. a \in Seq(Bytes) /\ l \in Nat /\ Len(a) = l + 1 /\ (\A i \in 1 .. l : a[i] = x[i]) /\ a[l + 1] = q
  <2>1. a = x \o <<q>>
    BY <1>0
  <2>2. l \in Nat /\ l = Len(x)
    BY <1>1, SeqIs
  <2>3. a \in Seq(Bytes) /\ Len(a) = Len(x) + 1 /\ (\A i \in 1 .. Len(x) : a[i] = x[i]) /\ a[Len(x) + 1] = q
    BY ONLY <2>1, x \in Seq(Bytes), q \in Bytes, OneMore
  <2> QED BY ONLY <2>2, <2>3
<1>3. b \in Seq(Bytes) /\ Len(b) = l + 2 /\ (\A i \in 1 .. l + 1 : b[i] = a[i]) /\ b[l + 2] = bl
  <2>1. /\ b \in Seq(Bytes) /\ Len(b) = Len(a) + 1 /\ (\A i \in 1 .. Len(a) : b[i] = a[i])
        /\ b[Len(a) + 1] = bl
    <3>1. b = a \o <<bl>> /\ a \in Seq(Bytes)
      BY <1>0, <1>2
    <3> QED BY ONLY <3>1, bl \in Bytes, OneMore
  <2> QED BY ONLY <1>2, <2>1
<1>4. c \in Seq(Bytes) /\ Len(c) = l + 3 /\ (\A i \in 1 .. l + 2 : c[i] = b[i]) /\ c[l + 3] = q
  <2>1. /\ c \in Seq(Bytes) /\ Len(c) = Len(b) + 1 /\ (\A i \in 1 .. Len(b) : c[i] = b[i])
        /\ c[Len(b) + 1] = q
    <3>1. c = b \o <<q>> /\ b \in Seq(Bytes)
      BY <1>0, <1>3
    <3> QED BY ONLY <3>1, q \in Bytes, OneMore
  <2> QED BY ONLY <1>2, <1>3, <2>1
<1>5. d \in Seq(Bytes) /\ Len(d) = l + 4 /\ (\A i \in 1 .. l + 3 : d[i] = c[i]) /\ d[l + 4] = q
  <2>1. /\ d \in Seq(Bytes) /\ Len(d) = Len(c) + 1 /\ (\A i \in 1 .. Len(c) : d[i] = c[i])
        /\ d[Len(c) + 1] = q
    <3>1. d = c \o <<q>> /\ c \in Seq(Bytes)
      BY <1>0, <1>4
    <3> QED BY ONLY <3>1, q \in Bytes, OneMore
  <2> QED BY ONLY <1>2, <1>4, <2>1
<1>6. u \in Seq(Bytes) /\ Len(u) = 4 /\ u[1] = q /\ u[2] = bl /\ u[3] = q /\ u[4] = q
  BY <1>1
<1>7. /\ \A i \in 1 .. l : i \in 1 .. l + 1 /\ i \in 1 .. l + 2 /\ i \in 1 .. l + 3
      /\ l + 1 \in 1 .. l + 1 /\ l + 1 \in 1 .. l + 2 /\ l + 1 \in 1 .. l + 3
      /\ l + 2 \in 1 .. l + 2 /\ l + 2 \in 1 .. l + 3 /\ l + 3 \in 1 .. l + 3
      /\ \A i \in 1 .. l + 4 : i \in 1 .. l \/ i = l + 1 \/ i = l + 2 \/ i = l + 3 \/ i = l + 4
  <2>1. l \in Nat
    BY <1>2
  <2> QED BY ONLY <2>1
<1>8. /\ \A i \in 1 .. l : d[i] = x[i]
      /\ d[l + 1] = q /\ d[l + 2] = bl /\ d[l + 3] = q /\ d[l + 4] = q
  BY ONLY <1>2, <1>3, <1>4, <1>5, <1>7
<1>9. d = x \o u
  <2>1. PICK z : z = x \o u
    OBVIOUS
  <2>2. /\ z \in Seq(Bytes) /\ Len(z) = l + 4 /\ \A i \in 1 .. l : z[i] = x[i]
        /\ z[l + 1] = u[1] /\ z[l + 2] = u[2] /\ z[l + 3] = u[3] /\ z[l + 4] = u[4]
    <3>1. /\ z \in Seq(Bytes) /\ Len(z) = Len(x) + Len(u)
          /\ \A i \in 1 .. Len(x) : z[i] = x[i]
          /\ \A i \in 1 .. Len(u) : z[Len(x) + i] = u[i]
      <4>1. u \in Seq(Bytes)
        BY <1>6
      <4> QED BY ONLY x \in Seq(Bytes), <4>1, <2>1, Concat
    <3> QED BY <1>1, <1>6, <3>1
  <2>3. \A i \in 1 .. Len(d) : d[i] = z[i]
    BY ONLY <1>5, <1>6, <1>7, <1>8, <2>2
  <2> QED BY <1>5, <2>1, <2>2, <2>3, SameSeq
<1> QED BY <1>1, <1>5, <1>6, <1>8, <1>9 DEF EndsLine

\* What sdscatrepr writes for a text, a blank and what it writes for none.
LEMMA LineWritten ==
    ASSUME NEW t \in Seq(Bytes)
    PROVE  \E line, w :
              /\ line = Text(sdscatrepr(sdscatlen(sdscatrepr(sdsempty, t), <<Blank>>), <<>>))
              /\ Quotes(w, <<>>, t) /\ EndsLine(line, w[Len(t)], Quote, Blank)
<1>1. PICK q, bl, h1, h2, h3 : /\ q = Quote /\ bl = Blank /\ h1 = sdscatrepr(sdsempty, t)
                               /\ h2 = sdscatlen(h1, <<bl>>) /\ h3 = sdscatrepr(h2, <<>>)
  OBVIOUS
<1>2. q \in Bytes /\ bl \in Bytes
  BY <1>1, QuotingBytes
<1>3. <<q>> \in Seq(Bytes) /\ <<bl>> \in Seq(Bytes)
  BY <1>2, Single
<1>4. PICK h0, t0 : h0 = sdsempty /\ t0 = <<>>
  OBVIOUS
<1>40. Sound(h0, t0) /\ t0 \in Seq(Bytes) /\ Len(t0) = 0
  BY <1>4, NewSound, NoText DEF sdsempty
<1>5. PICK w : /\ Quotes(w, t0, t)
               /\ Sound(sdscatrepr(h0, t), w[Len(t)] \o <<Quote>>)
  BY ONLY <1>40, t \in Seq(Bytes), ReprWritten
<1>6. PICK x, a, b, d : /\ x = w[Len(t)] /\ a = x \o <<q>> /\ b = a \o <<bl>>
                        /\ d = (b \o <<q>>) \o <<q>>
  OBVIOUS
<1>7. Sound(h1, a)
  BY ONLY <1>1, <1>4, <1>5, <1>6
<1>8. Sound(h2, b)
  BY ONLY <1>1, <1>3, <1>6, <1>7, CatSound
<1>9. PICK v : /\ Quotes(v, b, t0)
               /\ Sound(sdscatrepr(h2, t0), v[Len(t0)] \o <<Quote>>)
  BY ONLY <1>8, <1>40, ReprWritten
<1>10. v[Len(t0)] = b \o <<q>>
  BY ONLY <1>1, <1>40, <1>9 DEF Quotes
<1>11. Sound(h3, d)
  BY ONLY <1>1, <1>4, <1>6, <1>9, <1>10
<1>12. Text(h3) = d
  BY ONLY <1>11, SoundText
<1>13. x \in Seq(Bytes)
  <2>1. Len(t) \in 0 .. Len(t)
    BY SeqIs
  <2> QED BY <1>5, <1>6, <2>1 DEF Quotes
<1>14. EndsLine(d, x, q, bl)
  <2>1. d = LineEnd(x, q, bl)
    BY <1>6 DEF LineEnd
  <2>2. x \in Seq(Bytes) /\ q \in Bytes /\ bl \in Bytes
    BY <1>2, <1>13
  <2> QED BY ONLY <2>1, <2>2, FourMore
<1>15. Quotes(w, <<>>, t)
  BY <1>4, <1>5
<1>16. d = Text(sdscatrepr(sdscatlen(sdscatrepr(sdsempty, t), <<Blank>>), <<>>))
  BY ONLY <1>1, <1>12
<1> QED BY <1>1, <1>6, <1>14, <1>15, <1>16

LEMMA Both == ASSUME NEW B, NEW x \in B, NEW y \in B PROVE Append(<<x>>, y) = <<x, y>>
<1>1. PICK s, a, b : s = <<x>> /\ a = Append(s, y) /\ b = <<x, y>>
  OBVIOUS
<1>2. s \in Seq(B) /\ Len(s) = 1 /\ s[1] = x
  BY <1>1, Single
<1>3. a \in Seq(B) /\ Len(a) = 2 /\ a[1] = x /\ a[2] = y
  <2>1. /\ a \in Seq(B) /\ Len(a) = Len(s) + 1 /\ \A i \in 1 .. Len(s) : a[i] = s[i]
        /\ a[Len(s) + 1] = y
    BY <1>1, <1>2, Appended
  <2> QED BY ONLY <1>2, <2>1
<1>4. b \in Seq(B) /\ Len(b) = 2 /\ b[1] = x /\ b[2] = y
  BY ONLY <1>1, x \in B, y \in B
<1>5. \A i \in 1 .. Len(a) : a[i] = b[i]
  BY ONLY <1>3, <1>4
<1>6. a = b
  BY ONLY <1>3, <1>4, <1>5, SameSeq
<1> QED BY <1>1, <1>6

\* The line is read to its end: one step for each byte of the text, and the few around them.
\* R is a run of the reader over the line; its result r has t and an empty argument.
Reads(R, line, m) == /\ R[0] = Reading("blank", <<>>, <<>>, 1)
                     /\ \A k \in 1 .. m : R[k] = splitStep(line, R[k - 1])
Finds(r, t, p) == r = Reading("end", <<>>, <<t, <<>>>>, p)

LEMMA ReadSteps ==
    ASSUME NEW t \in Seq(Bytes), NEW line, NEW w, NEW n, NEW l, NEW m, NEW R, NEW nil,
           n = Len(t), l = Len(w[n]), m = 3 * Len(line) + 3, nil = <<>>,
           Quotes(w, nil, t), EndsLine(line, w[n], Quote, Blank), Reads(R, line, m)
    PROVE  Finds(R[m], t, l + 5)
<1>0. /\ Quotes(w, <<>>, t) /\ R[0] = Reading("blank", <<>>, <<>>, 1)
      /\ \A k \in 1 .. m : R[k] = splitStep(line, R[k - 1])
  BY DEF Reads
<1> DEFINE u == <<Quote, Blank, Quote, Quote>>
<1>1. /\ line \in Seq(Bytes) /\ Len(line) = l + 4 /\ u \in Seq(Bytes) /\ line = w[n] \o u
      /\ line[l + 1] = Quote /\ line[l + 2] = Blank /\ line[l + 3] = Quote /\ line[l + 4] = Quote
  BY DEF EndsLine
<1> HIDE DEF u
<1>2. n \in Nat /\ 0 \in 0 .. n /\ n \in 0 .. n /\ \A k \in 1 .. n : t[k] \in Bytes
  BY SeqIs
<1>3. /\ \A k \in 0 .. n : /\ Len(w[k]) \in Nat /\ Len(w[k]) + (n - k) <= l
                           /\ \A i \in 1 .. Len(w[k]) : line[i] = w[k][i]
      /\ \A k \in 1 .. n : /\ Len(w[k]) = Len(w[k - 1]) + Len(Repr(t[k]))
                           /\ \A j \in 1 .. Len(Repr(t[k])) : line[Len(w[k - 1]) + j] = Repr(t[k])[j]
  <2>1. Placed(w, t, line)
    BY ONLY <1>1, t \in Seq(Bytes), n = Len(t), <1>0, QuotedPlaces
  <2> QED BY <2>1 DEF Placed
<1>4. w[0] \in Seq(Bytes) /\ Len(w[0]) = 1 /\ w[0][1] = Quote
  <2>1. PICK q : q = Quote
    OBVIOUS
  <2>2. q \in Bytes
    BY <2>1, QuotingBytes
  <2>3. <<q>> \in Seq(Bytes) /\ Len(<<q>>) = 1 /\ <<q>>[1] = q
    BY <2>2, Single
  <2>4. w[0] = <<q>>
    BY <1>0, <2>1, <2>3, NoText DEF Quotes
  <2> QED BY <2>1, <2>3, <2>4
<1>5. l \in Nat /\ 1 + n <= l
  <2>1. Len(w[0]) + (n - 0) <= l
    BY <1>2, <1>3
  <2>2. l \in Nat
    BY <1>2, <1>3
  <2> QED BY <1>2, <1>4, <2>1, <2>2
<1>6. /\ m = 3 * (l + 4) + 3 /\ m \in Nat /\ n + 8 <= m
      /\ \A k \in 1 .. n + 8 : k \in 1 .. m
  <2>1. m = 3 * (l + 4) + 3
    BY <1>1
  <2>2. m \in Nat /\ n + 8 <= m
    BY ONLY <1>2, <1>5, <2>1
  <2> QED BY ONLY <1>2, <2>1, <2>2
<1>7. /\ At(line, 1) = Quote /\ At(line, l + 1) = Quote /\ At(line, l + 2) = Blank /\ At(line, l + 3) = Quote
      /\ At(line, l + 4) = Quote /\ At(line, l + 5) = NUL
  <2>1. line[1] = Quote
    <3>1. 1 \in 1 .. Len(w[0])
      BY <1>4
    <3> QED BY <1>2, <1>3, <1>4, <3>1
  <2>2. 1 <= l + 4 /\ l + 1 <= l + 4 /\ l + 2 <= l + 4 /\ l + 3 <= l + 4 /\ l + 4 <= l + 4 /\ ~(l + 5 <= l + 4)
    BY <1>5
  <2> QED BY <1>1, <2>1, <2>2 DEF At
<1>8. Quote # NUL /\ Blank # NUL /\ isspace(Blank)
  BY DEF Quote, NUL, isspace, Blank
<1>9. R[1] = Reading("bare", <<>>, <<>>, 1)
  <2>1. R[1] = splitStep(line, R[0])
    BY <1>0, <1>2, <1>6
  <2> QED BY <1>0, <1>7, <2>1, BlankStep
<1>10. R[2] = Reading("quoted", <<>>, <<>>, 2)
  <2>1. R[2] = splitStep(line, R[1])
    BY <1>0, <1>2, <1>6
  <2>2. splitStep(line, R[1]) = Reading("quoted", <<>>, <<>>, 1 + 1)
    BY <1>7, <1>9, BareStep
  <2> QED BY <2>1, <2>2
<1> DEFINE S == {k \in Nat : k <= n => R[k + 2] = Reading("quoted", SubSeq(t, 1, k), <<>>, Len(w[k]) + 1)}
<1>11. 0 \in S
  <2>1. SubSeq(t, 1, 0) = <<>>
    BY Whole
  <2>2. Len(w[0]) + 1 = 2 /\ 0 + 2 = 2
    BY <1>4
  <2> QED BY <1>10, <2>1, <2>2
<1>12. ASSUME NEW k \in Nat, k \in S PROVE k + 1 \in S
  <2> SUFFICES ASSUME k + 1 <= n
               PROVE  R[(k + 1) + 2] = Reading("quoted", SubSeq(t, 1, k + 1), <<>>, Len(w[k + 1]) + 1)
    OBVIOUS
  <2>1. PICK a, c, cur, j : a = Len(w[k]) /\ c = t[k + 1] /\ cur = SubSeq(t, 1, k) /\ j = k + 1
    OBVIOUS
  <2>2. /\ j \in 1 .. n /\ j - 1 = k /\ k \in 0 .. n /\ j \in 0 .. n /\ k <= n /\ k < n
        /\ (k + 1) + 2 \in 1 .. m /\ ((k + 1) + 2) - 1 = k + 2
    BY <1>2, <1>6, <2>1
  <2>3. R[k + 2] = Reading("quoted", cur, <<>>, a + 1)
    BY <1>12, <2>1, <2>2
  <2>4. c \in Bytes /\ a \in Nat /\ Len(w[j]) = a + Len(Repr(c))
        /\ \A i \in 1 .. Len(Repr(c)) : line[a + i] = Repr(c)[i]
    <3>1. t[j] = c /\ w[j - 1] = w[k]
      BY <2>1, <2>2
    <3>2. /\ Len(w[j]) = Len(w[j - 1]) + Len(Repr(t[j]))
          /\ \A i \in 1 .. Len(Repr(t[j])) : line[Len(w[j - 1]) + i] = Repr(t[j])[i]
      BY <1>3, <2>2
    <3>3. c \in Bytes /\ a \in Nat
      BY <1>2, <1>3, <2>1, <2>2, <3>1
    <3> QED BY ONLY <2>1, <3>1, <3>2, <3>3
  <2>5. a + Len(Repr(c)) <= Len(line)
    <3>1. Len(w[j]) \in Nat /\ Len(w[j]) + (n - j) <= l
      BY <1>3, <2>2
    <3>2. PICK z : z = Len(w[j])
      OBVIOUS
    <3>3. z <= l + 4
      BY ONLY <1>2, <1>5, <2>2, <3>1, <3>2
    <3> QED BY <1>1, <2>4, <3>2, <3>3
  <2>6. splitStep(line, R[k + 2]) = Reading("quoted", Append(cur, c), <<>>, a + Len(Repr(c)) + 1)
    <3>1. PICK st, none : st = R[k + 2] /\ none = <<>>
      OBVIOUS
    <3>2. st = Reading("quoted", cur, none, a + 1)
      BY <2>3, <3>1
    <3>3. line \in Seq(Bytes)
      BY <1>1
    <3>4. splitStep(line, st) = Reading("quoted", Append(cur, c), none, a + Len(Repr(c)) + 1)
      <4>1. Stands(line, a, c)
        BY <2>4, <2>5 DEF Stands
      <4>2. c \in Bytes /\ a \in Nat
        BY <2>4
      <4> QED BY ONLY <3>2, <3>3, <4>1, <4>2, QuotedByte
    <3> QED BY <3>1, <3>4
  <2>7. R[(k + 1) + 2] = splitStep(line, R[k + 2])
    BY <1>0, <2>2
  <2>8. Append(cur, c) = SubSeq(t, 1, k + 1)
    BY <2>1, <2>2, PrefixGrows
  <2> QED BY <2>1, <2>4, <2>6, <2>7, <2>8
<1>13. Nat \subseteq S
  <2> HIDE DEF S
  <2> QED BY <1>11, <1>12, NatSetInduction
<1>14. R[n + 2] = Reading("quoted", t, <<>>, l + 1)
  <2>1. n \in S
    BY <1>2, <1>13
  <2>2. R[n + 2] = Reading("quoted", SubSeq(t, 1, n), <<>>, Len(w[n]) + 1)
    BY <1>2, <2>1
  <2> QED BY <2>2, Whole
<1> HIDE DEF S
<1>15. ASSUME NEW i \in 2 .. 7 PROVE R[n + i + 1] = splitStep(line, R[n + i])
  <2>1. n + i + 1 \in 1 .. n + 8 /\ (n + i + 1) - 1 = n + i
    BY <1>2
  <2> QED BY <1>0, <1>6, <2>1
<1>16. /\ l + 1 + 1 = l + 2 /\ l + 2 + 1 = l + 3 /\ l + 3 + 1 = l + 4 /\ l + 4 + 1 = l + 5
       /\ l + 1 \in Nat /\ l + 2 \in Nat /\ l + 3 \in Nat /\ l + 4 \in Nat /\ l + 5 \in Nat
       /\ n + 2 + 1 = n + 3 /\ n + 3 + 1 = n + 4 /\ n + 4 + 1 = n + 5 /\ n + 5 + 1 = n + 6
       /\ n + 6 + 1 = n + 7 /\ n + 7 + 1 = n + 8
  BY <1>2, <1>5
<1>17. R[n + 3] = Reading("blank", <<>>, <<t>>, l + 2)
  <2>1. splitStep(line, R[n + 2]) = Reading("blank", <<>>, Append(<<>>, t), l + 1 + 1)
    <3>1. PICK st, none : st = R[n + 2] /\ none = <<>>
      OBVIOUS
    <3>2. st = Reading("quoted", t, none, l + 1) /\ l + 1 \in Nat
      BY <1>14, <1>16, <3>1
    <3>3. At(line, l + 1) = Quote /\ (At(line, l + 1 + 1) = NUL \/ isspace(At(line, l + 1 + 1)))
      BY <1>7, <1>8, <1>16
    <3>4. splitStep(line, st) = Reading("blank", <<>>, Append(none, t), l + 1 + 1)
      BY ONLY <3>2, <3>3, QuotedStep
    <3> QED BY <3>1, <3>4
  <2>2. Append(<<>>, t) = <<t>>
    OBVIOUS
  <2> QED BY <1>15, <1>16, <2>1, <2>2
<1>18. R[n + 4] = Reading("blank", <<>>, <<t>>, l + 3)
  <2>1. splitStep(line, R[n + 3]) = Reading("blank", <<>>, <<t>>, l + 2 + 1)
    BY <1>7, <1>8, <1>16, <1>17, BlankStep
  <2> QED BY <1>15, <1>16, <2>1
<1>19. R[n + 5] = Reading("bare", <<>>, <<t>>, l + 3)
  <2>1. splitStep(line, R[n + 4]) = Reading("bare", <<>>, <<t>>, l + 3)
    BY <1>7, <1>16, <1>18, BlankStep
  <2> QED BY <1>15, <1>16, <2>1
<1>20. R[n + 6] = Reading("quoted", <<>>, <<t>>, l + 4)
  <2>1. splitStep(line, R[n + 5]) = Reading("quoted", <<>>, <<t>>, l + 3 + 1)
    BY <1>7, <1>16, <1>19, BareStep
  <2> QED BY <1>15, <1>16, <2>1
<1>21. R[n + 7] = Reading("blank", <<>>, <<t, <<>>>>, l + 5)
  <2>1. splitStep(line, R[n + 6]) = Reading("blank", <<>>, Append(<<t>>, <<>>), l + 4 + 1)
    BY <1>7, <1>8, <1>16, <1>20, QuotedStep
  <2>2. <<>> \in Seq(Bytes)
    OBVIOUS
  <2>3. PICK none : none = <<>>
    OBVIOUS
  <2>4. none \in Seq(Bytes)
    BY <2>2, <2>3
  <2>5. Append(<<t>>, none) = <<t, none>>
    BY ONLY t \in Seq(Bytes), <2>4, Both
  <2>6. R[n + 7] = splitStep(line, R[n + 6])
    BY <1>15, <1>16
  <2>7. R[n + 7] = Reading("blank", none, Append(<<t>>, none), l + 5)
    BY ONLY <1>16, <2>1, <2>3, <2>6
  <2>8. R[n + 7] = Reading("blank", none, <<t, none>>, l + 5)
    BY ONLY <2>5, <2>7
  <2> QED BY ONLY <2>3, <2>8
<1> DEFINE e == Reading("end", <<>>, <<t, <<>>>>, l + 5)
<1>22. R[n + 8] = e
  <2>1. splitStep(line, R[n + 7]) = e
    BY <1>7, <1>16, <1>21, BlankStep
  <2> QED BY <1>15, <1>16, <2>1
<1>23. splitStep(line, e) = e
  BY EndStep
<1> HIDE DEF e
<1> DEFINE T == {k \in Nat : n + 8 + k <= m => R[n + 8 + k] = e}
<1>24. 0 \in T
  <2>1. n + 8 + 0 = n + 8
    BY <1>2
  <2> QED BY <1>22, <2>1
<1>25. ASSUME NEW k \in Nat, k \in T PROVE k + 1 \in T
  <2> SUFFICES ASSUME n + 8 + (k + 1) <= m PROVE R[n + 8 + (k + 1)] = e
    OBVIOUS
  <2>1. n + 8 + (k + 1) \in 1 .. m /\ (n + 8 + (k + 1)) - 1 = n + 8 + k /\ n + 8 + k <= m
    BY <1>2, <1>6
  <2>2. R[n + 8 + k] = e
    BY <1>25, <2>1
  <2> QED BY <1>0, <1>23, <2>1, <2>2
<1>26. Nat \subseteq T
  <2> HIDE DEF T
  <2> QED BY <1>24, <1>25, NatSetInduction
<1>27. R[m] = e
  <2>1. m - (n + 8) \in Nat /\ n + 8 + (m - (n + 8)) = m
    BY <1>2, <1>6
  <2>2. m - (n + 8) \in T
    BY <1>26, <2>1
  <2>3. n + 8 + (m - (n + 8)) <= m => R[n + 8 + (m - (n + 8))] = e
    BY <2>2
  <2> QED BY <1>6, <2>1, <2>3
<1> QED BY <1>27 DEF e, Finds

\* What sdscatrepr wrote, sdssplitargs reads back.
LEMMA QuotesReadBack ==
    ASSUME NEW t \in Seq(Bytes), NEW line,
           line = Text(sdscatrepr(sdscatlen(sdscatrepr(sdsempty, t), <<Blank>>), <<>>))
    PROVE  sdssplitargs(line) = [ok |-> TRUE, args |-> <<t, <<>>>>]
<1>1. PICK w : Quotes(w, <<>>, t) /\ EndsLine(line, w[Len(t)], Quote, Blank)
  BY LineWritten
<1>2. Len(line) \in Nat
  BY <1>1, SeqIs DEF EndsLine
<1>3. PICK R : /\ Reads(R, line, 3 * Len(line) + 3)
               /\ R[3 * Len(line) + 3].mode = "end"
                  => sdssplitargs(line) = [ok |-> TRUE, args |-> R[3 * Len(line) + 3].args]
  BY <1>2, LineRead DEF Reads
<1>4. Finds(R[3 * Len(line) + 3], t, Len(w[Len(t)]) + 5)
  <2>1. PICK n, l, m, none : n = Len(t) /\ l = Len(w[n]) /\ m = 3 * Len(line) + 3 /\ none = <<>>
    OBVIOUS
  <2>2. Quotes(w, none, t) /\ EndsLine(line, w[n], Quote, Blank) /\ Reads(R, line, m)
    BY <1>1, <1>3, <2>1
  <2>3. Finds(R[m], t, l + 5)
    BY ONLY t \in Seq(Bytes), <2>1, <2>2, ReadSteps
  <2> QED BY <2>1, <2>3
<1>5. PICK r : r = R[3 * Len(line) + 3]
  OBVIOUS
<1>6. r.mode = "end" /\ r.args = <<t, <<>>>>
  BY <1>4, <1>5 DEF Reading, Finds
<1> QED BY <1>3, <1>5, <1>6

-----------------------------------------------------------------------------
(* Splitting and joining *)

\* sep is in t at j; what sdssplitlen does at j; what sdsjoinsds does with part j.
Found(t, sep, j) == j + Len(sep) - 1 <= Len(t) /\ SubSeq(t, j, j + Len(sep) - 1) = sep
Parts(start, toks) == [start |-> start, toks |-> toks]
Taken(acc, t, sep, j) ==
    IF j >= acc.start /\ Found(t, sep, j)
    THEN Parts(j + Len(sep), Append(acc.toks, SubSeq(t, acc.start, j - 1)))
    ELSE acc
Added(h, ts, sep, j) ==
    IF j # Len(ts) THEN sdscatlen(sdscatlen(h, ts[j]), sep) ELSE sdscatlen(h, ts[j])

LEMMA SplitBuilt ==
    ASSUME NEW t, NEW sep, Len(t) \in Nat, t # <<>>
    PROVE  \E R : /\ R[0] = Parts(1, <<>>)
                  /\ \A k \in 1 .. Len(t) : R[k] = Taken(R[k - 1], t, sep, k)
                  /\ sdssplitlen(t, sep) = Append(R[Len(t)].toks, SubSeq(t, R[Len(t)].start, Len(t)))
<1>0. PICK m, b : m = Len(t) /\ b = Parts(1, <<>>)
  OBVIOUS
<1>1. m \in Nat
  BY <1>0
<1> DEFINE S == {n \in Nat : \E f : f = [k \in 0 .. n |-> IF k = 0 THEN b ELSE Taken(f[k - 1], t, sep, k)]}
<1>2. 0 \in S
  <2>1. PICK f : f = [k \in 0 .. 0 |-> b]
    OBVIOUS
  <2>2. f = [k \in 0 .. 0 |-> IF k = 0 THEN b ELSE Taken(f[k - 1], t, sep, k)]
    BY <2>1
  <2> QED BY <2>2
<1>3. ASSUME NEW n \in Nat, n \in S PROVE n + 1 \in S
  <2>1. PICK f : f = [k \in 0 .. n |-> IF k = 0 THEN b ELSE Taken(f[k - 1], t, sep, k)]
    BY <1>3
  <2>2. PICK x, g : x = Taken(f[n], t, sep, n + 1) /\ g = Extended(f, n, x)
    OBVIOUS
  <2>3. /\ g = [k \in 0 .. n + 1 |-> g[k]]
        /\ \A k \in 0 .. n : g[k] = f[k]
        /\ g[n + 1] = x
    <3>1. g = Extended(f, n, x)
      BY ONLY <2>2
    <3>2. Extends(g, f, n, x)
      BY ONLY n \in Nat, <3>1, ExtendedIs
    <3> QED BY ONLY <3>2 DEF Extends
  <2>4. ASSUME NEW k \in 0 .. n + 1
        PROVE  g[k] = IF k = 0 THEN b ELSE Taken(g[k - 1], t, sep, k)
    <3>1. CASE k = n + 1
      BY <2>2, <2>3, <3>1, Places
    <3>2. CASE k = 0
      BY <2>1, <2>3, <3>2, Places
    <3>3. CASE k # 0 /\ k \in 0 .. n /\ k - 1 \in 0 .. n
      <4>1. g[k] = f[k] /\ g[k - 1] = f[k - 1]
        BY <2>3, <3>3
      <4>2. f[k] = Taken(f[k - 1], t, sep, k)
        BY <2>1, <3>3
      <4> QED BY <3>3, <4>1, <4>2
    <3> QED BY <3>1, <3>2, <3>3, Places
  <2>5. g = [k \in 0 .. n + 1 |-> IF k = 0 THEN b ELSE Taken(g[k - 1], t, sep, k)]
    BY <2>3, <2>4
  <2> QED BY <2>5
<1>4. Nat \subseteq S
  <2> HIDE DEF S
  <2> QED BY <1>2, <1>3, NatSetInduction
<1> DEFINE R == CHOOSE f : f = [k \in 0 .. m |-> IF k = 0 THEN b ELSE Taken(f[k - 1], t, sep, k)]
<1>5. R = [k \in 0 .. m |-> IF k = 0 THEN b ELSE Taken(R[k - 1], t, sep, k)]
  <2>1. m \in S
    BY <1>1, <1>4
  <2> QED BY <2>1
<1>6. sdssplitlen(t, sep) = Append(R[m].toks, SubSeq(t, R[m].start, m))
  BY <1>0 DEF sdssplitlen, Parts, Taken, Found
<1> HIDE DEF R
<1>7. 0 \in 0 .. m /\ \A k \in 1 .. m : k \in 0 .. m /\ k # 0
  BY <1>1
<1>8. R[0] = b
  BY <1>5, <1>7
<1>9. \A k \in 1 .. m : R[k] = Taken(R[k - 1], t, sep, k)
  BY <1>5, <1>7
<1> QED BY <1>0, <1>6, <1>8, <1>9

LEMMA JoinBuilt ==
    ASSUME NEW ts, NEW sep, Len(ts) \in Nat
    PROVE  \E R : /\ R[0] = sdsempty
                  /\ \A k \in 1 .. Len(ts) : R[k] = Added(R[k - 1], ts, sep, k)
                  /\ sdsjoinsds(ts, sep) = R[Len(ts)]
<1>0. PICK m, b : m = Len(ts) /\ b = sdsempty
  OBVIOUS
<1>1. m \in Nat
  BY <1>0
<1> DEFINE S == {n \in Nat : \E f : f = [k \in 0 .. n |-> IF k = 0 THEN b ELSE Added(f[k - 1], ts, sep, k)]}
<1>2. 0 \in S
  <2>1. PICK f : f = [k \in 0 .. 0 |-> b]
    OBVIOUS
  <2>2. f = [k \in 0 .. 0 |-> IF k = 0 THEN b ELSE Added(f[k - 1], ts, sep, k)]
    BY <2>1
  <2> QED BY <2>2
<1>3. ASSUME NEW n \in Nat, n \in S PROVE n + 1 \in S
  <2>1. PICK f : f = [k \in 0 .. n |-> IF k = 0 THEN b ELSE Added(f[k - 1], ts, sep, k)]
    BY <1>3
  <2>2. PICK x, g : x = Added(f[n], ts, sep, n + 1) /\ g = Extended(f, n, x)
    OBVIOUS
  <2>3. /\ g = [k \in 0 .. n + 1 |-> g[k]]
        /\ \A k \in 0 .. n : g[k] = f[k]
        /\ g[n + 1] = x
    <3>1. g = Extended(f, n, x)
      BY ONLY <2>2
    <3>2. Extends(g, f, n, x)
      BY ONLY n \in Nat, <3>1, ExtendedIs
    <3> QED BY ONLY <3>2 DEF Extends
  <2>4. ASSUME NEW k \in 0 .. n + 1
        PROVE  g[k] = IF k = 0 THEN b ELSE Added(g[k - 1], ts, sep, k)
    <3>1. CASE k = n + 1
      BY <2>2, <2>3, <3>1, Places
    <3>2. CASE k = 0
      BY <2>1, <2>3, <3>2, Places
    <3>3. CASE k # 0 /\ k \in 0 .. n /\ k - 1 \in 0 .. n
      <4>1. g[k] = f[k] /\ g[k - 1] = f[k - 1]
        BY <2>3, <3>3
      <4>2. f[k] = Added(f[k - 1], ts, sep, k)
        BY <2>1, <3>3
      <4> QED BY <3>3, <4>1, <4>2
    <3> QED BY <3>1, <3>2, <3>3, Places
  <2>5. g = [k \in 0 .. n + 1 |-> IF k = 0 THEN b ELSE Added(g[k - 1], ts, sep, k)]
    BY <2>3, <2>4
  <2> QED BY <2>5
<1>4. Nat \subseteq S
  <2> HIDE DEF S
  <2> QED BY <1>2, <1>3, NatSetInduction
<1> DEFINE R == CHOOSE f : f = [k \in 0 .. m |-> IF k = 0 THEN b ELSE Added(f[k - 1], ts, sep, k)]
<1>5. R = [k \in 0 .. m |-> IF k = 0 THEN b ELSE Added(R[k - 1], ts, sep, k)]
  <2>1. m \in S
    BY <1>1, <1>4
  <2> QED BY <2>1
<1>6. sdsjoinsds(ts, sep) = R[m]
  BY <1>0 DEF sdsjoinsds, Added
<1> HIDE DEF R
<1>7. 0 \in 0 .. m /\ \A k \in 1 .. m : k \in 0 .. m /\ k # 0
  BY <1>1
<1>8. R[0] = b
  BY <1>5, <1>7
<1>9. \A k \in 1 .. m : R[k] = Added(R[k - 1], ts, sep, k)
  BY <1>5, <1>7
<1> QED BY <1>0, <1>6, <1>8, <1>9

\* No occurrence of sep in u.
Free(u, sep) == \A j \in 1 .. (Len(u) - Len(sep) + 1) : SubSeq(u, j, j + Len(sep) - 1) # sep

\* x is what t has after its first a bytes, up to a separator that ends at c.
Slot(t, sep, a, c, x) ==
    /\ a \in Nat /\ c \in Nat /\ a + Len(sep) <= c /\ c <= Len(t)
    /\ x \in Seq(Bytes) /\ x = SubSeq(t, a + 1, c - Len(sep))
    /\ SubSeq(t, c - Len(sep) + 1, c) = sep
    /\ Free(x, sep)

\* The parts ts taken so far, part i up to q[i].
Cuts(q, ts, t, sep) ==
    /\ ts \in Seq(Seq(Bytes)) /\ q[0] = 0
    /\ \A i \in 1 .. Len(ts) : Slot(t, sep, q[i - 1], q[i], ts[i])

\* What sdssplitlen has done when it has looked at place j: no separator begins
\* between the last cut and there.
Upto(acc, q, t, sep, j) ==
    /\ acc = Parts(q[Len(acc.toks)] + 1, acc.toks)
    /\ Cuts(q, acc.toks, t, sep)
    /\ q[Len(acc.toks)] \in 0 .. Len(t)
    /\ \A p \in (q[Len(acc.toks)] + 1) .. j : ~Found(t, sep, p)

LEMMA SliceJoin ==
    ASSUME NEW t \in Seq(Bytes), NEW a \in Nat, NEW c \in Nat, a <= c, c <= Len(t)
    PROVE  SubSeq(t, 1, a) \o SubSeq(t, a + 1, c) = SubSeq(t, 1, c)
<1>1. PICK x, y, z, n, l : /\ x = SubSeq(t, 1, a) /\ y = SubSeq(t, a + 1, c) /\ z = SubSeq(t, 1, c)
                           /\ n = c - a /\ l = Len(t)
  OBVIOUS
<1>2. n \in Nat /\ a + n = c /\ l \in Nat /\ a \in 0 .. l /\ c \in 0 .. l
  <2>1. l \in Nat
    BY <1>1, SeqIs
  <2> QED BY <1>1, <2>1
<1>3. /\ x \in Seq(Bytes) /\ Len(x) = a /\ \A i \in 1 .. a : x[i] = t[i]
      /\ z \in Seq(Bytes) /\ Len(z) = c /\ \A i \in 1 .. c : z[i] = t[i]
  <2>1. x \in Seq(Bytes) /\ Len(x) = a /\ \A i \in 1 .. a : x[i] = t[i]
    BY <1>1, <1>2, Prefix
  <2>2. z \in Seq(Bytes) /\ Len(z) = c /\ \A i \in 1 .. c : z[i] = t[i]
    BY <1>1, <1>2, Prefix
  <2> QED BY <2>1, <2>2
<1>4. y \in Seq(Bytes) /\ Len(y) = n /\ \A i \in 1 .. n : y[i] = t[a + i]
  <2>1. y = SubSeq(t, a + 1, a + n)
    BY <1>1, <1>2
  <2>2. a + n <= Len(t)
    BY <1>2
  <2> QED BY ONLY t \in Seq(Bytes), a \in Nat, <1>2, <2>1, <2>2, Slice
<1>5. PICK v : v = x \o y
  OBVIOUS
<1>6. /\ v \in Seq(Bytes) /\ Len(v) = a + n /\ (\A i \in 1 .. a : v[i] = x[i])
      /\ \A i \in 1 .. n : v[a + i] = y[i]
  <2>1. /\ v \in Seq(Bytes) /\ Len(v) = Len(x) + Len(y) /\ (\A i \in 1 .. Len(x) : v[i] = x[i])
        /\ \A i \in 1 .. Len(y) : v[Len(x) + i] = y[i]
    <3>1. x \in Seq(Bytes) /\ y \in Seq(Bytes)
      BY <1>3, <1>4
    <3> QED BY ONLY <1>5, <3>1, Concat
  <2> QED BY <1>3, <1>4, <2>1
<1>7. ASSUME NEW i \in 1 .. c PROVE v[i] = z[i]
  <2>1. CASE i \in 1 .. a
    BY <1>3, <1>6, <2>1
  <2>2. CASE ~(i \in 1 .. a)
    <3>1. i - a \in 1 .. n /\ a + (i - a) = i
      BY <1>2, <2>2
    <3>2. v[a + (i - a)] = y[i - a] /\ y[i - a] = t[a + (i - a)]
      BY <1>4, <1>6, <3>1
    <3> QED BY <1>3, <3>1, <3>2
  <2> QED BY <2>1, <2>2
<1>8. v = z
  BY ONLY <1>2, <1>3, <1>6, <1>7, SameSeq
<1> QED BY <1>1, <1>5, <1>8

LEMMA Within ==
    ASSUME NEW t \in Seq(Bytes), NEW sep \in Seq(Bytes), NEW a \in Nat, NEW n \in Nat, a + n <= Len(t),
           Len(sep) >= 1, \A p \in (a + 1) .. (a + n) : ~Found(t, sep, p)
    PROVE  Free(SubSeq(t, a + 1, a + n), sep)
<1>1. PICK u, l, m : u = SubSeq(t, a + 1, a + n) /\ l = Len(sep) /\ m = Len(t)
  OBVIOUS
<1>2. l \in Nat /\ 1 <= l /\ m \in Nat /\ a + n <= m
  BY <1>1, SeqIs
<1>3. u \in Seq(Bytes) /\ Len(u) = n /\ \A i \in 1 .. n : u[i] = t[a + i]
  BY <1>1, Slice
<1>4. ASSUME NEW j \in 1 .. (n - l + 1) PROVE SubSeq(u, j, j + l - 1) # sep
  <2>0. PICK k, x, y : k = j - 1 /\ x = SubSeq(u, k + 1, k + l) /\ y = SubSeq(t, (a + k) + 1, (a + k) + l)
    OBVIOUS
  <2>1. k \in Nat /\ k + l <= n /\ a + k \in Nat /\ (a + k) + l <= m
    BY <1>2, <2>0
  <2>2. x \in Seq(Bytes) /\ Len(x) = l /\ \A i \in 1 .. l : x[i] = u[k + i]
    <3>1. u \in Seq(Bytes) /\ k + l <= Len(u)
      BY <1>3, <2>1
    <3> QED BY ONLY <1>2, <2>0, <2>1, <3>1, Slice
  <2>3. y \in Seq(Bytes) /\ Len(y) = l /\ \A i \in 1 .. l : y[i] = t[(a + k) + i]
    <3>1. PICK b : b = a + k
      OBVIOUS
    <3>2. b \in Nat /\ b + l <= Len(t) /\ y = SubSeq(t, b + 1, b + l)
      BY <1>1, <2>0, <2>1, <3>1
    <3>3. y \in Seq(Bytes) /\ Len(y) = l /\ \A i \in 1 .. l : y[i] = t[b + i]
      BY ONLY t \in Seq(Bytes), <1>2, <3>2, Slice
    <3> QED BY ONLY <3>1, <3>3
  <2>4. ASSUME NEW i \in 1 .. l PROVE x[i] = y[i]
    <3>1. k + i \in 1 .. n /\ a + (k + i) = (a + k) + i
      BY <1>2, <2>1
    <3> QED BY <1>3, <2>2, <2>3, <3>1
  <2>5. x = y
    BY ONLY <2>2, <2>3, <2>4, SameSeq
  <2>6. ~Found(t, sep, a + j)
    <3>1. a + j \in (a + 1) .. (a + n)
      BY <1>2
    <3> QED BY <3>1
  <2>7. a + j + l - 1 <= m /\ (a + k) + 1 = a + j /\ (a + k) + l = a + j + l - 1
    BY <1>2, <2>0
  <2>8. y # sep
    BY <1>1, <2>0, <2>6, <2>7 DEF Found
  <2>9. k + 1 = j /\ k + l = j + l - 1
    BY <1>2, <2>0
  <2> QED BY <2>0, <2>5, <2>8, <2>9
<1> QED BY <1>1, <1>3, <1>4 DEF Free

LEMMA UptoNext ==
    ASSUME NEW t \in Seq(Bytes), NEW sep \in Seq(Bytes), Len(sep) >= 1, NEW j \in 1 .. Len(t),
           NEW acc, NEW q, Upto(acc, q, t, sep, j - 1)
    PROVE  \E r : Upto(Taken(acc, t, sep, j), r, t, sep, j)
<1>1. PICK ts, n, s, l, m, nx : /\ ts = acc.toks /\ n = Len(ts) /\ s = q[n] /\ l = Len(sep) /\ m = Len(t)
                                /\ nx = Taken(acc, t, sep, j)
  OBVIOUS
<1>2. /\ acc = Parts(s + 1, ts) /\ Cuts(q, ts, t, sep) /\ s \in 0 .. m
      /\ \A p \in (s + 1) .. (j - 1) : ~Found(t, sep, p)
  BY <1>1 DEF Upto
<1>3. l \in Nat /\ 1 <= l /\ m \in Nat /\ s \in Nat /\ j \in Nat /\ 1 <= j /\ j <= m /\ s <= m
  BY <1>1, <1>2, SeqIs
<1>4. n \in Nat /\ ts \in Seq(Seq(Bytes)) /\ acc.start = s + 1
  <2>1. ts \in Seq(Seq(Bytes))
    BY <1>2 DEF Cuts
  <2>2. n \in Nat
    BY <1>1, <2>1, SeqIs
  <2> QED BY <1>2, <2>1, <2>2 DEF Parts
<1>5. CASE j >= s + 1 /\ Found(t, sep, j)
  <2>1. PICK x, c, k, us, r : /\ x = SubSeq(t, s + 1, j - 1) /\ c = j + l - 1 /\ k = (j - 1) - s
                              /\ us = Append(ts, x) /\ r = Extended(q, n, c)
    OBVIOUS
  <2>2. nx = Parts(j + l, us)
    BY <1>1, <1>4, <1>5, <2>1 DEF Taken
  <2>3. /\ k \in Nat /\ s + k = j - 1 /\ s + k <= m
        /\ c \in Nat /\ s + l <= c /\ c - l = j - 1 /\ c - l + 1 = j /\ c + 1 = j + l
    BY <1>3, <1>5, <2>1
  <2>4. c <= m /\ SubSeq(t, j, c) = sep
    BY <1>1, <1>5, <2>1 DEF Found
  <2>5. x \in Seq(Bytes) /\ Free(x, sep)
    <3>1. x = SubSeq(t, s + 1, s + k)
      BY <2>1, <2>3
    <3>2. x \in Seq(Bytes)
      BY ONLY t \in Seq(Bytes), <1>1, <1>3, <2>3, <3>1, Slice
    <3>3. \A p \in (s + 1) .. (s + k) : ~Found(t, sep, p)
      BY <1>2, <2>3
    <3>4. Free(x, sep)
      BY ONLY t \in Seq(Bytes), sep \in Seq(Bytes), <1>1, <1>3, <2>3, <3>1, <3>3, Within
    <3> QED BY <3>2, <3>4
  <2>6. /\ us \in Seq(Seq(Bytes)) /\ Len(us) = n + 1
        /\ (\A i \in 1 .. n : us[i] = ts[i]) /\ us[n + 1] = x
    <3>1. PICK B : B = Seq(Bytes)
      OBVIOUS
    <3>2. ts \in Seq(B) /\ x \in B
      BY ONLY <1>4, <2>5, <3>1
    <3>3. /\ us \in Seq(B) /\ Len(us) = Len(ts) + 1
          /\ (\A i \in 1 .. Len(ts) : us[i] = ts[i]) /\ us[Len(ts) + 1] = x
      <4>1. us = Append(ts, x)
        BY <2>1
      <4> QED BY ONLY <3>2, <4>1, Appended
    <3> QED BY ONLY <1>1, <3>1, <3>3
  <2>7. (\A i \in 0 .. n : r[i] = q[i]) /\ r[n + 1] = c
    <3>1. r = Extended(q, n, c) /\ n \in Nat
      BY <1>4, <2>1
    <3>2. Extends(r, q, n, c)
      BY ONLY <3>1, ExtendedIs
    <3> QED BY ONLY <3>2 DEF Extends
  <2>8. Slot(t, sep, s, c, x)
    <3>1. x = SubSeq(t, s + 1, c - l) /\ SubSeq(t, c - l + 1, c) = sep
      BY <2>1, <2>3, <2>4
    <3>2. s + l <= c /\ c <= m /\ s \in Nat /\ c \in Nat
      BY <1>3, <2>3, <2>4
    <3> QED BY <1>1, <2>5, <3>1, <3>2 DEF Slot
  <2>9. ASSUME NEW i \in 1 .. n + 1 PROVE Slot(t, sep, r[i - 1], r[i], us[i])
    <3>1. CASE i = n + 1
      <4>1. i - 1 = n /\ n \in 0 .. n
        BY <1>4, <3>1
      <4>2. r[i - 1] = s /\ r[i] = c /\ us[i] = x
        BY <1>1, <2>6, <2>7, <3>1, <4>1
      <4> QED BY <2>8, <4>2
    <3>2. CASE i # n + 1
      <4>1. i \in 1 .. n /\ i \in 0 .. n /\ i - 1 \in 0 .. n
        BY <1>4, <3>2
      <4>2. r[i - 1] = q[i - 1] /\ r[i] = q[i] /\ us[i] = ts[i]
        BY <2>6, <2>7, <4>1
      <4>3. Slot(t, sep, q[i - 1], q[i], ts[i])
        BY <1>1, <1>2, <4>1 DEF Cuts
      <4> QED BY <4>2, <4>3
    <3> QED BY <3>1, <3>2
  <2>10. Cuts(r, us, t, sep)
    <3>1. r[0] = 0
      <4>1. 0 \in 0 .. n
        BY <1>4
      <4>2. q[0] = 0
        BY <1>2 DEF Cuts
      <4> QED BY <2>7, <4>1, <4>2
    <3> QED BY <2>6, <2>9, <3>1 DEF Cuts
  <2>11. nx.toks = us /\ r[Len(us)] = c
    BY <2>2, <2>6, <2>7 DEF Parts
  <2>12. nx = Parts(c + 1, us)
    BY <2>2, <2>3
  <2>13. c \in 0 .. m /\ \A p \in (c + 1) .. j : ~Found(t, sep, p)
    <3>1. c + 1 > j
      BY <1>3, <2>1
    <3>2. \A p \in (c + 1) .. j : FALSE
      BY <1>3, <2>3, <3>1
    <3> QED BY <1>3, <2>3, <2>4, <3>2
  <2>14. Upto(nx, r, t, sep, j)
    BY ONLY <1>1, <2>10, <2>11, <2>12, <2>13 DEF Upto
  <2> QED BY <1>1, <2>14
<1>6. CASE ~(j >= s + 1 /\ Found(t, sep, j))
  <2>1. nx = acc
    BY <1>1, <1>4, <1>6 DEF Taken
  <2>2. ASSUME NEW p \in (s + 1) .. j PROVE ~Found(t, sep, p)
    <3>1. p \in (s + 1) .. (j - 1) \/ (p = j /\ j >= s + 1)
      BY <1>3
    <3> QED BY <1>2, <1>6, <3>1
  <2>3. Upto(nx, q, t, sep, j)
    BY ONLY <1>1, <1>2, <2>1, <2>2 DEF Upto
  <2> QED BY <1>1, <2>3
<1> QED BY <1>5, <1>6

LEMMA Splits ==
    ASSUME NEW t \in Seq(Bytes), NEW sep \in Seq(Bytes), Len(sep) >= 1, NEW R,
           R[0] = Parts(1, <<>>), \A k \in 1 .. Len(t) : R[k] = Taken(R[k - 1], t, sep, k)
    PROVE  \E q : Upto(R[Len(t)], q, t, sep, Len(t))
<1>1. PICK m : m = Len(t)
  OBVIOUS
<1>2. m \in Nat
  BY <1>1, SeqIs
<1> DEFINE S == {j \in Nat : j <= m => \E q : Upto(R[j], q, t, sep, j)}
<1>3. 0 \in S
  <2>1. PICK q, acc, none : none = <<>> /\ q = [i \in 0 .. 0 |-> 0] /\ acc = R[0]
    OBVIOUS
  <2>2. q[0] = 0 /\ acc = Parts(1, none)
    BY <2>1
  <2>3. none \in Seq(Seq(Bytes)) /\ Len(none) = 0
    BY ONLY <2>1
  <2>4. acc.toks = none /\ q[Len(acc.toks)] = 0
    BY <2>2, <2>3 DEF Parts
  <2>5. Cuts(q, none, t, sep)
    BY <2>2, <2>3 DEF Cuts
  <2>6. 0 \in 0 .. m /\ 0 + 1 = 1 /\ \A p \in (0 + 1) .. 0 : FALSE
    BY <1>2
  <2>7. Upto(acc, q, t, sep, 0)
    BY ONLY <1>1, <2>2, <2>4, <2>5, <2>6 DEF Upto
  <2> QED BY <2>1, <2>7
<1>4. ASSUME NEW j \in Nat, j \in S PROVE j + 1 \in S
  <2> SUFFICES ASSUME j + 1 <= m PROVE \E q : Upto(R[j + 1], q, t, sep, j + 1)
    OBVIOUS
  <2>1. PICK i : i = j + 1
    OBVIOUS
  <2>2. i \in 1 .. Len(t) /\ i - 1 = j /\ j <= m
    BY <1>1, <1>2, <2>1
  <2>3. PICK q : Upto(R[j], q, t, sep, j)
    BY <1>4, <2>2
  <2>4. PICK acc : acc = R[j]
    OBVIOUS
  <2>5. Upto(acc, q, t, sep, i - 1)
    BY <2>2, <2>3, <2>4
  <2>6. \E r : Upto(Taken(acc, t, sep, i), r, t, sep, i)
    BY ONLY t \in Seq(Bytes), sep \in Seq(Bytes), Len(sep) >= 1, <2>2, <2>5, UptoNext
  <2>7. R[i] = Taken(acc, t, sep, i)
    BY <2>2, <2>4
  <2> QED BY <2>1, <2>6, <2>7
<1>5. Nat \subseteq S
  <2> HIDE DEF S
  <2> QED BY <1>3, <1>4, NatSetInduction
<1>6. m \in S
  BY <1>2, <1>5
<1> QED BY <1>1, <1>2, <1>6

\* x is what is left of t after the last cut.
Rest(q, ts, t, x) == q[Len(ts)] \in 0 .. Len(t) /\ x = SubSeq(t, q[Len(ts)] + 1, Len(t))

\* The parts, joined again.
LEMMA Joins ==
    ASSUME NEW t \in Seq(Bytes), NEW sep \in Seq(Bytes), NEW q, NEW ts, NEW x,
           Cuts(q, ts, t, sep), Rest(q, ts, t, x)
    PROVE  Text(sdsjoinsds(Append(ts, x), sep)) = t
<1>0. PICK n, us : /\ n = Len(ts) /\ us = Append(ts, x)
                   /\ q[n] \in 0 .. Len(t) /\ x = SubSeq(t, q[n] + 1, Len(t))
  BY DEF Rest
<1>1. PICK l, m : l = Len(sep) /\ m = Len(t)
  OBVIOUS
<1>2. /\ ts \in Seq(Seq(Bytes)) /\ n \in Nat /\ l \in Nat /\ m \in Nat
      /\ q[0] = 0 /\ \A i \in 1 .. n : Slot(t, sep, q[i - 1], q[i], ts[i])
  <2>1. ts \in Seq(Seq(Bytes)) /\ q[0] = 0 /\ \A i \in 1 .. n : Slot(t, sep, q[i - 1], q[i], ts[i])
    BY <1>0 DEF Cuts
  <2> QED BY <1>0, <1>1, <2>1, SeqIs
<1>3. /\ x \in Seq(Bytes) /\ SubSeq(t, 1, q[n]) \o x = t
  <2>1. PICK s, k : s = q[n] /\ k = m - s
    OBVIOUS
  <2>2. s \in Nat /\ k \in Nat /\ s + k = m /\ s <= m
    <3>1. s \in 0 .. m /\ k = m - s /\ m \in Nat
      BY <1>0, <1>1, <1>2, <2>1
    <3> QED BY ONLY <3>1
  <2>3. x = SubSeq(t, s + 1, s + k) /\ s + k <= Len(t)
    <3>1. x = SubSeq(t, s + 1, m)
      BY <1>0, <1>1, <2>1
    <3>2. x = SubSeq(t, s + 1, s + k)
      BY <2>2, <3>1, Zenon
    <3> QED BY ONLY <1>1, <1>2, <2>2, <3>2
  <2>4. x \in Seq(Bytes)
    BY ONLY t \in Seq(Bytes), <2>2, <2>3, Slice
  <2>5. x = SubSeq(t, s + 1, m) /\ m <= Len(t)
    BY <1>0, <1>1, <1>2, <2>1
  <2>6. SubSeq(t, 1, s) \o x = SubSeq(t, 1, m)
    BY ONLY t \in Seq(Bytes), <1>2, <2>2, <2>5, SliceJoin
  <2> QED BY <1>1, <2>1, <2>4, <2>6, Whole
<1>4. /\ us \in Seq(Seq(Bytes)) /\ Len(us) = n + 1
      /\ (\A i \in 1 .. n : us[i] = ts[i]) /\ us[n + 1] = x
  <2>1. PICK B : B = Seq(Bytes)
    OBVIOUS
  <2>2. ts \in Seq(B) /\ x \in B
    BY ONLY <1>2, <1>3, <2>1
  <2>3. /\ us \in Seq(B) /\ Len(us) = Len(ts) + 1
        /\ (\A i \in 1 .. Len(ts) : us[i] = ts[i]) /\ us[Len(ts) + 1] = x
    <3>1. us = Append(ts, x)
      BY <1>0
    <3> QED BY ONLY <2>2, <3>1, Appended
  <2> QED BY ONLY <1>0, <2>1, <2>3
<1>5. PICK G : /\ G[0] = sdsempty
               /\ \A k \in 1 .. n + 1 : G[k] = Added(G[k - 1], us, sep, k)
               /\ sdsjoinsds(us, sep) = G[n + 1]
  <2>1. Len(us) \in Nat
    BY <1>2, <1>4
  <2>2. \E R : /\ R[0] = sdsempty
               /\ \A k \in 1 .. Len(us) : R[k] = Added(R[k - 1], us, sep, k)
               /\ sdsjoinsds(us, sep) = R[Len(us)]
    BY ONLY <2>1, JoinBuilt
  <2> QED BY ONLY <1>4, <2>2
<1> DEFINE S == {k \in Nat : k <= n => Sound(G[k], SubSeq(t, 1, q[k]))}
<1>6. 0 \in S
  <2>1. Sound(sdsempty, <<>>)
    BY NoText, NewSound DEF sdsempty
  <2>2. SubSeq(t, 1, q[0]) = <<>>
    BY <1>2, Whole
  <2> QED BY <1>5, <2>1, <2>2
<1>7. ASSUME NEW k \in Nat, k \in S PROVE k + 1 \in S
  <2> SUFFICES ASSUME k + 1 <= n PROVE Sound(G[k + 1], SubSeq(t, 1, q[k + 1]))
    OBVIOUS
  <2>1. PICK i, a, c, d, y, h : i = k + 1 /\ a = q[k] /\ c = q[i] /\ d = c - l /\ y = ts[i] /\ h = G[k]
    OBVIOUS
  <2>2. i \in 1 .. n /\ i \in 1 .. n + 1 /\ i - 1 = k /\ k <= n /\ i # n + 1
    BY <1>2, <2>1
  <2>3. Slot(t, sep, a, c, y)
    BY <1>2, <2>1, <2>2
  <2>4. /\ a \in Nat /\ c \in Nat /\ a + l <= c /\ c <= m /\ y \in Seq(Bytes)
        /\ y = SubSeq(t, a + 1, d) /\ sep = SubSeq(t, d + 1, c)
    BY <1>1, <2>1, <2>3 DEF Slot
  <2>5. d \in Nat /\ a <= d /\ d <= c /\ d <= m
    <3>1. d = c - l
      BY <2>1
    <3> QED BY ONLY <1>2, <2>4, <3>1
  <2>6. Sound(h, SubSeq(t, 1, a))
    BY <1>7, <2>1, <2>2
  <2>7. SubSeq(t, 1, a) \o y = SubSeq(t, 1, d)
    BY ONLY t \in Seq(Bytes), <1>1, <2>4, <2>5, SliceJoin
  <2>8. SubSeq(t, 1, d) \o sep = SubSeq(t, 1, c)
    BY ONLY t \in Seq(Bytes), <1>1, <2>4, <2>5, SliceJoin
  <2>9. Sound(sdscatlen(h, y), SubSeq(t, 1, d))
    BY ONLY <2>4, <2>6, <2>7, CatSound
  <2>10. Sound(sdscatlen(sdscatlen(h, y), sep), SubSeq(t, 1, c))
    BY ONLY sep \in Seq(Bytes), <2>8, <2>9, CatSound
  <2>11. G[i] = sdscatlen(sdscatlen(h, y), sep)
    <3>1. G[i] = Added(G[i - 1], us, sep, i) /\ us[i] = y
      BY <1>4, <1>5, <2>1, <2>2
    <3> QED BY <1>4, <2>1, <2>2, <3>1 DEF Added
  <2> QED BY <2>1, <2>10, <2>11
<1>8. Nat \subseteq S
  <2> HIDE DEF S
  <2> QED BY <1>6, <1>7, NatSetInduction
<1>9. Sound(G[n], SubSeq(t, 1, q[n]))
  <2>1. n \in S
    BY <1>2, <1>8
  <2> QED BY <1>2, <2>1
<1>10. G[n + 1] = sdscatlen(G[n], x)
  <2>1. n + 1 \in 1 .. n + 1 /\ (n + 1) - 1 = n
    BY <1>2
  <2>2. G[n + 1] = Added(G[n], us, sep, n + 1)
    BY <1>5, <2>1
  <2> QED BY <1>4, <2>2 DEF Added
<1>11. Sound(G[n + 1], SubSeq(t, 1, q[n]) \o x)
  BY <1>3, <1>9, <1>10, CatSound
<1>12. Text(G[n + 1]) = t
  BY <1>3, <1>11, SoundText
<1> QED BY <1>0, <1>5, <1>12

LEMMA JoinsBack ==
    ASSUME NEW t \in Seq(Bytes), t # <<>>, NEW sep \in Seq(Bytes), Len(sep) >= 1
    PROVE  /\ Text(sdsjoinsds(sdssplitlen(t, sep), sep)) = t
           /\ \A i \in DOMAIN sdssplitlen(t, sep) : Free(sdssplitlen(t, sep)[i], sep)
<1>1. PICK m, us : m = Len(t) /\ us = sdssplitlen(t, sep)
  OBVIOUS
<1>2. m \in Nat
  BY <1>1, SeqIs
<1>3. PICK R : /\ R[0] = Parts(1, <<>>)
               /\ \A k \in 1 .. Len(t) : R[k] = Taken(R[k - 1], t, sep, k)
               /\ us = Append(R[m].toks, SubSeq(t, R[m].start, m))
  BY <1>1, <1>2, SplitBuilt
<1>4. PICK acc, q : acc = R[m] /\ Upto(acc, q, t, sep, m)
  <2>1. \E q : Upto(R[Len(t)], q, t, sep, Len(t))
    BY <1>3, Splits
  <2> QED BY <1>1, <2>1
<1>5. PICK ts, n, s, x : ts = acc.toks /\ n = Len(ts) /\ s = q[n] /\ x = SubSeq(t, s + 1, m)
  OBVIOUS
<1>6. acc = Parts(s + 1, ts) /\ Cuts(q, ts, t, sep) /\ s \in 0 .. m /\ \A p \in (s + 1) .. m : ~Found(t, sep, p)
  BY <1>1, <1>4, <1>5 DEF Upto
<1>7. us = Append(ts, x)
  <2>1. acc.start = s + 1
    BY <1>6 DEF Parts
  <2> QED BY <1>3, <1>4, <1>5, <2>1
<1>8. Text(sdsjoinsds(us, sep)) = t
  <2>1. Rest(q, ts, t, x)
    BY <1>1, <1>5, <1>6 DEF Rest
  <2>2. Cuts(q, ts, t, sep)
    BY <1>6
  <2>3. Text(sdsjoinsds(Append(ts, x), sep)) = t
    BY ONLY t \in Seq(Bytes), sep \in Seq(Bytes), <2>1, <2>2, Joins
  <2> QED BY <1>7, <2>3
<1>9. x \in Seq(Bytes) /\ Free(x, sep)
  <2>1. PICK k : k = m - s
    OBVIOUS
  <2>2. k \in Nat /\ s \in Nat /\ s + k = m
    BY <1>2, <1>6, <2>1
  <2>3. x = SubSeq(t, s + 1, s + k) /\ s + k <= Len(t) /\ \A p \in (s + 1) .. (s + k) : ~Found(t, sep, p)
    <3>1. x = SubSeq(t, s + 1, m)
      BY <1>5
    <3>2. x = SubSeq(t, s + 1, s + k) /\ s + k <= Len(t)
      BY ONLY <1>1, <1>2, <2>2, <3>1
    <3> QED BY <1>6, <2>2, <3>2
  <2>4. x \in Seq(Bytes)
    BY ONLY t \in Seq(Bytes), <2>2, <2>3, Slice
  <2>5. Free(x, sep)
    BY ONLY t \in Seq(Bytes), sep \in Seq(Bytes), Len(sep) >= 1, <2>2, <2>3, Within
  <2> QED BY <2>4, <2>5
<1>10. ts \in Seq(Seq(Bytes)) /\ \A i \in 1 .. n : Free(ts[i], sep)
  BY <1>5, <1>6 DEF Cuts, Slot
<1>11. /\ n \in Nat /\ DOMAIN us = 1 .. n + 1
       /\ (\A i \in 1 .. n : us[i] = ts[i]) /\ us[n + 1] = x
  <2>1. PICK B : B = Seq(Bytes)
    OBVIOUS
  <2>2. ts \in Seq(B) /\ x \in B
    BY ONLY <1>9, <1>10, <2>1
  <2>3. /\ us \in Seq(B) /\ Len(us) = Len(ts) + 1
        /\ (\A i \in 1 .. Len(ts) : us[i] = ts[i]) /\ us[Len(ts) + 1] = x
    BY ONLY <1>7, <2>2, Appended
  <2>4. n = Len(ts)
    BY <1>5
  <2>5. n \in Nat /\ DOMAIN us = 1 .. Len(us)
    BY ONLY <2>2, <2>3, <2>4, SeqIs
  <2> QED BY ONLY <2>3, <2>4, <2>5
<1>12. ASSUME NEW i \in DOMAIN us PROVE Free(us[i], sep)
  <2>1. i \in 1 .. n \/ i = n + 1
    BY <1>11
  <2> QED BY <1>9, <1>10, <1>11, <2>1
<1> QED BY <1>1, <1>8, <1>12

-----------------------------------------------------------------------------
(* Theorems *)

\* After any sequence of calls of sds.c's functions (making room, appending,
\* formatting, copying, cutting, trimming, mapping, growing, duplicating), the
\* string holds what its caller expects, its allocation is as large as its
\* header says and the terminator is after the text; for every alphabet, length
\* and preallocation.
THEOREM StringsAreExact == StrSpec => []StringExact
<1>1. StrInit => StrInv
  BY StrInitInv
<1>2. StrInv /\ [StrNext]_strVars => StrInv'
  BY StrStep
<1>3. StrInv => StringExact
  BY InvStringExact
<1> QED BY <1>1, <1>2, <1>3, PTL DEF StrSpec

\* After any sequence of calls, sdssplitargs reads back what sdscatrepr wrote of
\* the string and of an empty one, and sdsjoinsds puts together again what
\* sdssplitlen cut at a separator of one or two bytes, no part of which has it
\* inside; for every alphabet, length and preallocation.
THEOREM TextsReadBack == StrSpec => []TextReadBack
<1>1. ASSUME StrInv PROVE TextReadBack
  <2> SUFFICES ASSUME text # <<>> PROVE ReprReadBack /\ SplitJoined
    BY DEF TextReadBack
  <2>1. text \in Seq(Bytes)
    BY <1>1, Zenon DEF StrInv, Sound, Body
  <2>2. ReprReadBack
    <3>1. PICK line : line = Text(sdscatrepr(sdscatlen(sdscatrepr(sdsempty, text), <<Blank>>), <<>>))
      OBVIOUS
    <3>2. sdssplitargs(line) = [ok |-> TRUE, args |-> <<text, <<>>>>]
      BY ONLY <2>1, <3>1, QuotesReadBack
    <3> QED BY <3>1, <3>2, Zenon DEF ReprReadBack, Blank
  <2>3. ASSUME NEW sep \in Texts
        PROVE  /\ Text(sdsjoinsds(sdssplitlen(text, sep), sep)) = text
               /\ \A i \in DOMAIN sdssplitlen(text, sep) : Free(sdssplitlen(text, sep)[i], sep)
    <3>1. sep \in Seq(Bytes)
      BY TextsAreBytes
    <3>2. Len(sep) >= 1
      <4>1. PICK n \in 1 .. 2 : sep \in [1 .. n -> Alphabet]
        BY DEF Texts
      <4>2. n \in Nat /\ n >= 1
        OBVIOUS
      <4> QED BY ONLY <4>1, <4>2
    <3> QED BY ONLY <2>1, text # <<>>, <3>1, <3>2, JoinsBack
  <2>4. SplitJoined
    BY <2>3 DEF SplitJoined, Free
  <2> QED BY <2>2, <2>4
<1>2. StrInit => StrInv
  BY StrInitInv
<1>3. StrInv /\ [StrNext]_strVars => StrInv'
  BY StrStep
<1>4. StrInv => TextReadBack
  BY <1>1
<1> QED BY <1>2, <1>3, <1>4, PTL DEF StrSpec
=============================================================================
