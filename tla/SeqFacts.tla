------------------------------ MODULE SeqFacts ------------------------------
(***************************************************************************)
(* Facts that the proofs about hiredis share: induction over the natural   *)
(* numbers, stated for a set so that the provers can use it, and sequences *)
(* whose elements are of no interest.                                      *)
(***************************************************************************)
EXTENDS Integers, Sequences, SequencesExt, WellFoundedInduction, TLAPS

-----------------------------------------------------------------------------
(* Induction *)

\* A set of natural numbers that is not empty has a least element.
LEMMA LeastNat ==
    ASSUME NEW S, S \subseteq Nat, S # {}
    PROVE  \E m \in S : \A n \in S : m <= n
<1>1. PICK R : R = {ss \in Nat \X Nat : ss[1] < ss[2]}
  OBVIOUS
<1>2. IsWellFoundedOn(R, Nat)
  BY <1>1, NatLessThanWellFounded DEF OpToRel
<1>3. PICK m \in S : \A y \in S : ~ (<<y, m>> \in R)
  BY <1>2, WFMin
<1>4. \A x, y \in S : <<y, x>> \in R <=> y < x
  BY <1>1
<1>5. \A n \in S : m <= n
  <2> TAKE n \in S
  <2>1. ~(n < m)
    BY <1>3, <1>4
  <2> QED BY <2>1
<1> QED BY <1>5

\* A set that contains 0 and, with every natural number, the next.
LEMMA NatSetInduction ==
    ASSUME NEW S, 0 \in S, \A n \in Nat : n \in S => n + 1 \in S
    PROVE  Nat \subseteq S
<1> SUFFICES ASSUME Nat \ S # {} PROVE FALSE
  OBVIOUS
<1>1. PICK m \in Nat \ S : \A n \in Nat \ S : m <= n
  BY LeastNat
<1>2. m # 0 /\ m - 1 \in Nat /\ m - 1 \notin Nat \ S
  BY <1>1
<1> QED BY <1>1, <1>2

\* The least and the greatest element of a set of numbers.
LEMMA MinIn ==
    ASSUME NEW S, S \subseteq Nat, S # {}
    PROVE  Min(S) \in S /\ \A n \in S : Min(S) <= n
BY LeastNat DEF Min

LEMMA MaxIn ==
    ASSUME NEW S, NEW b \in Nat, S \subseteq 0 .. b, S # {}
    PROVE  Max(S) \in S /\ \A n \in S : n <= Max(S)
<1> DEFINE T == {b - x : x \in S}
<1>1. T \subseteq Nat /\ T # {}
  <2>1. \A x \in S : b - x \in Nat
    OBVIOUS
  <2>2. \E x \in S : b - x \in T
    OBVIOUS
  <2> QED BY <2>1, <2>2
<1>2. PICK m \in T : \A n \in T : m <= n
  <2> HIDE DEF T
  <2> QED BY <1>1, LeastNat
<1>3. PICK x \in S : m = b - x
  OBVIOUS
<1>4. \A y \in S : x >= y
  <2> TAKE y \in S
  <2>1. b - y \in T
    OBVIOUS
  <2>2. b - x <= b - y
    BY <1>2, <1>3, <2>1
  <2>3. x \in 0 .. b /\ y \in 0 .. b
    OBVIOUS
  <2> QED BY <2>2, <2>3
<1>5. \E z \in S : \A y \in S : z >= y
  BY <1>3, <1>4
<1>6. Max(S) \in S /\ \A y \in S : Max(S) >= y
  BY <1>5 DEF Max
<1> QED BY <1>6

-----------------------------------------------------------------------------
(* Sequences whose elements are of no interest *)

ASeq(s) == \E S : s \in Seq(S)

LEMMA EmptyIsASeq == ASeq(<<>>) /\ ToSet(<<>>) = {} /\ Len(<<>>) = 0
<1>1. <<>> \in Seq({}) /\ DOMAIN <<>> = {}
  OBVIOUS
<1> QED BY <1>1 DEF ASeq, ToSet

LEMMA AFunction ==
    ASSUME NEW n \in Nat, NEW f, DOMAIN f = 1 .. n, f = [i \in DOMAIN f |-> f[i]]
    PROVE  ASeq(f) /\ Len(f) = n
<1>1. f \in Seq({f[i] : i \in 1 .. n})
  OBVIOUS
<1> QED BY <1>1 DEF ASeq

LEMMA ASeqLen ==
    ASSUME NEW s, ASeq(s)
    PROVE  /\ Len(s) \in Nat /\ DOMAIN s = 1 .. Len(s) /\ s = [i \in DOMAIN s |-> s[i]]
           /\ s = <<>> <=> Len(s) = 0
<1>1. PICK S : s \in Seq(S)
  BY DEF ASeq
<1> QED BY <1>1

LEMMA ASeqTail ==
    ASSUME NEW s, ASeq(s), s # <<>>
    PROVE  /\ ASeq(Tail(s)) /\ Len(Tail(s)) = Len(s) - 1
           /\ ToSet(s) = {Head(s)} \cup ToSet(Tail(s))
<1>1. PICK S : s \in Seq(S)
  BY DEF ASeq
<1>2. /\ Tail(s) \in Seq(S) /\ Len(Tail(s)) = Len(s) - 1 /\ Len(s) \in Nat \ {0} /\ DOMAIN s = 1 .. Len(s)
      /\ DOMAIN Tail(s) = 1 .. (Len(s) - 1)
  BY <1>1
<1>3. Head(s) = s[1] /\ \A i \in 1 .. (Len(s) - 1) : Tail(s)[i] = s[i + 1]
  BY <1>1, <1>2
<1>4. \A i \in 1 .. Len(s) : i = 1 \/ (i - 1 \in 1 .. (Len(s) - 1) /\ s[i] = Tail(s)[i - 1])
  BY <1>2, <1>3
<1>5. ToSet(s) \subseteq {Head(s)} \cup ToSet(Tail(s))
  <2> SUFFICES ASSUME NEW i \in 1 .. Len(s), s[i] # Head(s)
               PROVE  s[i] \in ToSet(Tail(s))
    BY <1>2 DEF ToSet
  <2>1. i - 1 \in 1 .. (Len(s) - 1) /\ s[i] = Tail(s)[i - 1]
    BY <1>3, <1>4
  <2> QED BY <1>2, <2>1 DEF ToSet
<1>6. {Head(s)} \cup ToSet(Tail(s)) \subseteq ToSet(s)
  <2>1. \A i \in 1 .. (Len(s) - 1) : i + 1 \in 1 .. Len(s)
    BY <1>2
  <2> QED BY <1>2, <1>3, <2>1 DEF ToSet
<1> QED BY <1>2, <1>5, <1>6 DEF ASeq

LEMMA ASeqAppend ==
    ASSUME NEW s, NEW x, ASeq(s)
    PROVE  /\ ASeq(Append(s, x)) /\ Len(Append(s, x)) = Len(s) + 1 /\ Append(s, x) # <<>>
           /\ \A i \in DOMAIN s : Append(s, x)[i] = s[i]
           /\ Append(s, x)[Len(s) + 1] = x
           /\ ToSet(Append(s, x)) = ToSet(s) \cup {x}
<1>1. PICK S : s \in Seq(S)
  BY DEF ASeq
<1>2. s \in Seq(S \cup {x})
  BY <1>1
<1>3. /\ Append(s, x) \in Seq(S \cup {x}) /\ Len(Append(s, x)) = Len(s) + 1 /\ Append(s, x) # <<>>
      /\ \A i \in 1 .. Len(s) : Append(s, x)[i] = s[i]
      /\ Append(s, x)[Len(s) + 1] = x
      /\ DOMAIN s = 1 .. Len(s) /\ Len(s) \in Nat /\ DOMAIN Append(s, x) = 1 .. (Len(s) + 1)
  BY <1>2
<1>4. 1 .. (Len(s) + 1) = (1 .. Len(s)) \cup {Len(s) + 1}
  BY <1>3
<1>5. ToSet(Append(s, x)) = ToSet(s) \cup {x}
  BY <1>3, <1>4 DEF ToSet
<1> QED BY <1>3, <1>5 DEF ASeq

LEMMA ASeqSub ==
    ASSUME NEW s, ASeq(s), NEW m \in Int, NEW n \in Int, 1 <= m, n <= Len(s)
    PROVE  ASeq(SubSeq(s, m, n)) /\ Len(SubSeq(s, m, n)) = (IF m <= n THEN n - m + 1 ELSE 0)
           /\ \A i \in 1 .. n - m + 1 : SubSeq(s, m, n)[i] = s[m + i - 1]
<1>1. PICK S : s \in Seq(S)
  BY DEF ASeq
<1>2. SubSeq(s, m, n) \in Seq(S) /\ Len(SubSeq(s, m, n)) = (IF m <= n THEN n - m + 1 ELSE 0)
  BY <1>1
<1>3. \A i \in 1 .. n - m + 1 : SubSeq(s, m, n)[i] = s[m + i - 1]
  BY <1>1
<1> QED BY <1>2, <1>3 DEF ASeq

LEMMA ASeqConcat ==
    ASSUME NEW s, ASeq(s), NEW t, ASeq(t)
    PROVE  ASeq(s \o t) /\ Len(s \o t) = Len(s) + Len(t)
<1>1. PICK S : s \in Seq(S)
  BY DEF ASeq
<1>2. PICK T : t \in Seq(T)
  BY DEF ASeq
<1>3. s \in Seq(S \cup T) /\ t \in Seq(S \cup T)
  BY <1>1, <1>2
<1> QED BY <1>3 DEF ASeq

LEMMA ShortASeq == \A x, y, z : ASeq(<<x>>) /\ ASeq(<<x, y>>) /\ ASeq(<<x, y, z>>)
<1> SUFFICES ASSUME NEW x, NEW y, NEW z PROVE ASeq(<<x>>) /\ ASeq(<<x, y>>) /\ ASeq(<<x, y, z>>)
  OBVIOUS
<1>1. <<x>> \in Seq({x, y, z}) /\ <<x, y>> \in Seq({x, y, z}) /\ <<x, y, z>> \in Seq({x, y, z})
  OBVIOUS
<1> QED BY <1>1 DEF ASeq
-----------------------------------------------------------------------------
(* Sequences whose elements are in step with numbers: S has the pairs that  *)
(* may be, and the first element belongs to m + 1.                          *)

Fits(s, m, S) == \A j \in DOMAIN s : <<m + j, s[j]>> \in S

LEMMA FitsEmpty == \A m, S : Fits(<<>>, m, S)
BY DEF Fits

LEMMA FitsMore ==
    ASSUME NEW s, NEW m, NEW S, NEW T, Fits(s, m, S), S \subseteq T
    PROVE  Fits(s, m, T)
BY DEF Fits

LEMMA FitsTail ==
    ASSUME NEW s, ASeq(s), s # <<>>, NEW m \in Int, NEW S, Fits(s, m, S)
    PROVE  <<m + 1, Head(s)>> \in S /\ Fits(Tail(s), m + 1, S)
<1>1. PICK E : s \in Seq(E)
  BY DEF ASeq
<1>2. /\ Len(s) \in Nat \ {0} /\ DOMAIN s = 1 .. Len(s) /\ DOMAIN Tail(s) = 1 .. (Len(s) - 1)
      /\ Head(s) = s[1] /\ \A j \in 1 .. (Len(s) - 1) : Tail(s)[j] = s[j + 1]
  BY <1>1
<1>3. \A j \in 1 .. (Len(s) - 1) : j + 1 \in DOMAIN s /\ m + (j + 1) = (m + 1) + j
  BY <1>2
<1>4. 1 \in DOMAIN s
  BY <1>2
<1> QED BY <1>2, <1>3, <1>4 DEF Fits

LEMMA FitsAppend ==
    ASSUME NEW s, ASeq(s), NEW m \in Int, NEW S, Fits(s, m, S), NEW x, <<m + Len(s) + 1, x>> \in S
    PROVE  Fits(Append(s, x), m, S)
<1>1. /\ Len(s) \in Nat /\ DOMAIN s = 1 .. Len(s) /\ DOMAIN Append(s, x) = 1 .. (Len(s) + 1)
      /\ \A i \in DOMAIN s : Append(s, x)[i] = s[i]
      /\ Append(s, x)[Len(s) + 1] = x
  BY ASeqLen, ASeqAppend
<1>2. ASSUME NEW j \in 1 .. (Len(s) + 1) PROVE <<m + j, Append(s, x)[j]>> \in S
  <2>1. CASE j \in DOMAIN s
    BY <1>1, <2>1 DEF Fits
  <2>2. CASE j = Len(s) + 1
    <3>1. m + j = m + Len(s) + 1
      BY <1>1, <2>2
    <3> QED BY <1>1, <2>2, <3>1
  <2> QED BY <1>1, <2>1, <2>2
<1> QED BY <1>1, <1>2 DEF Fits

LEMMA FitsConcat ==
    ASSUME NEW s, ASeq(s), NEW t, ASeq(t), NEW m \in Int, NEW S, Fits(s, m, S), Fits(t, m + Len(s), S)
    PROVE  Fits(s \o t, m, S)
<1>0. PICK E : s \in Seq(E) /\ t \in Seq(E)
  <2>1. PICK A : s \in Seq(A)
    BY DEF ASeq
  <2>2. PICK B : t \in Seq(B)
    BY DEF ASeq
  <2>3. s \in Seq(A \cup B) /\ t \in Seq(A \cup B)
    BY <2>1, <2>2
  <2> QED BY <2>3
<1>1. /\ Len(s) \in Nat /\ DOMAIN s = 1 .. Len(s) /\ Len(t) \in Nat /\ DOMAIN t = 1 .. Len(t)
      /\ DOMAIN (s \o t) = 1 .. (Len(s) + Len(t))
  BY <1>0
<1>2. /\ \A j \in 1 .. Len(s) : (s \o t)[j] = s[j]
      /\ \A j \in (Len(s) + 1) .. (Len(s) + Len(t)) : (s \o t)[j] = t[j - Len(s)]
  BY <1>0, <1>1
<1>3. ASSUME NEW j \in 1 .. (Len(s) + Len(t)) PROVE <<m + j, (s \o t)[j]>> \in S
  <2>1. CASE j <= Len(s)
    <3>1. j \in DOMAIN s
      BY <1>1, <2>1
    <3> QED BY <1>1, <1>2, <3>1 DEF Fits
  <2>2. CASE j > Len(s)
    <3>1. j - Len(s) \in DOMAIN t /\ m + Len(s) + (j - Len(s)) = m + j
          /\ j \in (Len(s) + 1) .. (Len(s) + Len(t))
      BY <1>1, <2>2
    <3>2. <<m + Len(s) + (j - Len(s)), t[j - Len(s)]>> \in S
      BY <3>1 DEF Fits
    <3>3. (s \o t)[j] = t[j - Len(s)]
      BY <1>2, <3>1
    <3> QED BY <3>1, <3>2, <3>3
  <2> QED BY <1>1, <2>1, <2>2
<1> QED BY <1>1, <1>3 DEF Fits

LEMMA FitsParts ==
    ASSUME NEW s, ASeq(s), NEW n \in 0 .. Len(s), NEW m \in Int, NEW S, Fits(s, m, S)
    PROVE  /\ Fits(SubSeq(s, 1, n), m, S) /\ Fits(SubSeq(s, n + 1, Len(s)), m + n, S)
           /\ ASeq(SubSeq(s, 1, n)) /\ Len(SubSeq(s, 1, n)) = n
           /\ ASeq(SubSeq(s, n + 1, Len(s))) /\ Len(SubSeq(s, n + 1, Len(s))) = Len(s) - n
<1>1. Len(s) \in Nat /\ DOMAIN s = 1 .. Len(s) /\ n \in Nat /\ n <= Len(s)
  BY ASeqLen
<1>2. /\ ASeq(SubSeq(s, 1, n)) /\ Len(SubSeq(s, 1, n)) = n
      /\ \A i \in 1 .. n : SubSeq(s, 1, n)[i] = s[i]
  <2>1. /\ ASeq(SubSeq(s, 1, n)) /\ Len(SubSeq(s, 1, n)) = (IF 1 <= n THEN n - 1 + 1 ELSE 0)
        /\ \A i \in 1 .. n - 1 + 1 : SubSeq(s, 1, n)[i] = s[1 + i - 1]
    BY <1>1, ASeqSub
  <2>2. n - 1 + 1 = n /\ \A i \in 1 .. n : 1 + i - 1 = i
    BY <1>1
  <2> QED BY <1>1, <2>1, <2>2
<1>3. /\ ASeq(SubSeq(s, n + 1, Len(s))) /\ Len(SubSeq(s, n + 1, Len(s))) = Len(s) - n
      /\ \A i \in 1 .. (Len(s) - n) : SubSeq(s, n + 1, Len(s))[i] = s[n + i]
  <2>1. /\ ASeq(SubSeq(s, n + 1, Len(s)))
        /\ Len(SubSeq(s, n + 1, Len(s))) = (IF n + 1 <= Len(s) THEN Len(s) - (n + 1) + 1 ELSE 0)
        /\ \A i \in 1 .. Len(s) - (n + 1) + 1 : SubSeq(s, n + 1, Len(s))[i] = s[n + 1 + i - 1]
    BY <1>1, ASeqSub
  <2>2. Len(s) - (n + 1) + 1 = Len(s) - n /\ \A i \in 1 .. (Len(s) - n) : n + 1 + i - 1 = n + i
    BY <1>1
  <2>3. Len(SubSeq(s, n + 1, Len(s))) = Len(s) - n
    <3>1. PICK k : k = Len(s)
      OBVIOUS
    <3>2. PICK l : l = Len(SubSeq(s, n + 1, Len(s)))
      OBVIOUS
    <3>3. k \in Nat /\ n \in Nat /\ n <= k
      BY <1>1, <3>1
    <3>4. l = IF n + 1 <= k THEN k - (n + 1) + 1 ELSE 0
      BY <2>1, <3>1, <3>2
    <3>5. l = k - n
      BY ONLY <3>3, <3>4
    <3> QED BY <3>1, <3>2, <3>5
  <2>4. \A i \in 1 .. (Len(s) - n) : SubSeq(s, n + 1, Len(s))[i] = s[n + 1 + i - 1]
    BY <2>1, <2>2
  <2> QED BY <2>1, <2>2, <2>3, <2>4
<1>4. Fits(SubSeq(s, 1, n), m, S)
  <2>1. DOMAIN SubSeq(s, 1, n) = 1 .. n
    BY <1>2, ASeqLen
  <2>2. \A j \in 1 .. n : j \in DOMAIN s
    BY <1>1
  <2> QED BY <1>2, <2>1, <2>2 DEF Fits
<1>5. Fits(SubSeq(s, n + 1, Len(s)), m + n, S)
  <2>1. DOMAIN SubSeq(s, n + 1, Len(s)) = 1 .. (Len(s) - n)
    BY <1>3, ASeqLen
  <2>2. \A j \in 1 .. (Len(s) - n) : n + j \in DOMAIN s /\ m + (n + j) = m + n + j
    BY <1>1
  <2> QED BY <1>3, <2>1, <2>2 DEF Fits
<1> QED BY <1>2, <1>3, <1>4, <1>5
=============================================================================
