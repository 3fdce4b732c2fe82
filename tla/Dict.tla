-------------------------------- MODULE Dict -------------------------------
(***************************************************************************)
(* The chained hash table of hiredis (dict.c), which the asynchronous API  *)
(* keeps the callbacks of its subscriptions in.  A table is a record of    *)
(* its size, its count of entries and its buckets; a bucket is the chain   *)
(* from its head.  Values are copied in (callbackValDup) and compared keys *)
(* are texts (callbackKeyCompare).                                         *)
(***************************************************************************)
EXTENDS Integers, Sequences, SequencesExt, FiniteSetsExt

CONSTANTS
    DICT_HT_INITIAL_SIZE,   \* a power of two
    Hash                    \* dictGenHashFunction of each key

ASSUME DictAssumption ==
    /\ DICT_HT_INITIAL_SIZE \in Nat \ {0}
    /\ \A k \in DOMAIN Hash : Hash[k] \in Nat

\* _dictReset, dictCreate
dictCreate == [size |-> 0, used |-> 0, table |-> <<>>]

Slot(key, size) == Hash[key] % size     \* hash & sizemask

\* The order in which dictNext returns the entries.
Entries(d) == FlattenSeq([i \in 1 .. d.size |-> d.table[i - 1]])

dictNextPower(size) ==
    Min({p \in {DICT_HT_INITIAL_SIZE * 2 ^ k : k \in 0 .. size} : p >= size})

\* Mutant of dictExpand: entries keep the bucket they had.
MutExpand(d, size) ==
    [d EXCEPT !.size = dictNextPower(size),
              !.table = [i \in 0 .. (dictNextPower(size) - 1) |-> IF i < d.size THEN d.table[i] ELSE <<>>]]

\* Each entry, in the order of the old table, goes to the head of its chain.
dictExpand(d, size) ==
    LET n == dictNextPower(size)
    IN  [size  |-> n,
         used  |-> d.used,
         table |-> [i \in 0 .. (n - 1) |->
                       Reverse(SelectSeq(Entries(d), LAMBDA e : Slot(e.key, n) = i))]]

dictExpandIfNeeded(d) ==
    CASE d.size = 0      -> dictExpand(d, DICT_HT_INITIAL_SIZE)
      [] d.size > 0 /\ d.used = d.size -> dictExpand(d, d.size * 2)
      [] OTHER           -> d

\* The place of the key in its chain, 0 if it has none.
Place(d, key) ==
    IF d.size = 0 THEN 0
    ELSE SelectInSeq(d.table[Slot(key, d.size)], LAMBDA e : e.key = key)

HasKey(d, key)   == Place(d, key) # 0
dictFind(d, key) == d.table[Slot(key, d.size)][Place(d, key)].val

\* The search for the slot has expanded the table even when the key is found.
dictAdd(d, key, val) ==
    LET x == dictExpandIfNeeded(d)
    IN  IF HasKey(x, key) THEN [ok |-> FALSE, d |-> x]
        ELSE [ok |-> TRUE,
              d  |-> [x EXCEPT !.used = @ + 1,
                               !.table[Slot(key, x.size)] = <<[key |-> key, val |-> val]>> \o @]]

dictReplace(d, key, val) ==
    LET a == dictAdd(d, key, val)
    IN  IF a.ok THEN a.d
        ELSE [a.d EXCEPT !.table[Slot(key, a.d.size)][Place(a.d, key)].val = val]

dictDelete(d, key) ==
    IF ~HasKey(d, key) THEN d
    ELSE [d EXCEPT !.used = @ - 1, !.table[Slot(key, d.size)] = RemoveAt(@, Place(d, key))]

\* The table is the map m: every key is found with its value, no key is in it
\* twice, and the count is right.
IsMap(d, m) ==
    /\ \A key \in DOMAIN m : HasKey(d, key) /\ dictFind(d, key) = m[key]
    /\ d.used = Cardinality(DOMAIN m)
    /\ Len(Entries(d)) = d.used
    /\ \A i \in 1 .. d.used : Entries(d)[i].key \in DOMAIN m
=============================================================================
