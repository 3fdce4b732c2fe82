------------------------- MODULE HashtableDBProofs -------------------------
(***************************************************************************)
(* Proofs about HashtableDB, for any clients, keys and fields: the strings *)
(* of the records have one owner each, so that none is deleted twice or    *)
(* while a field points to it, although calls of different clients on one  *)
(* record interleave freely; and no record is replaced.                    *)
(***************************************************************************)
EXTENDS HashtableDB, TLAPS

PCs == {"idle", "find", "rows", "get", "copy", "put", "ins", "fill", "upd", "updins",
        "free", "drop", "dropping"}

CallRecs == [pc : PCs, op : Ops \cup {"none"}, key : Keys \cup {NULL}, todo : Seq(Fields),
             tab : Tables \cup {NULL}, rows : SUBSET Tables, ptrs : SUBSET Strings,
             old : Strings \cup {NULL}, got : SUBSET (Strings \cup {Garbage}),
             status : {kOK, kErrorNoData, kErrorConflict}]

\* A client that changes a field table, or deletes it.
Changing == {"ins", "fill", "upd", "updins", "free", "drop", "dropping"}

\* A client past the lookup has a table, and one about to delete a string has it;
\* a client in a call has one of its keys.
Located ==
    \A c \in Clients :
        /\ cl[c].pc \in Changing \cup {"get"} => cl[c].tab # NULL
        /\ cl[c].old # NULL <=> cl[c].pc = "free"
        /\ cl[c].pc # "idle" => cl[c].key \in KeysOf[c]
        /\ cl[c].pc \in {"drop", "dropping"} => "Delete" \in Ops

\* Where Delete may be called and clients share no keys, no two of them have one
\* table: a table is in one record, and the client that has it is that record's.
Apart ==
    "Delete" \in Ops /\ Exclusive =>
        /\ \A j, k \in Keys : key_table_[j] = key_table_[k] /\ key_table_[j] # NULL => j = k
        /\ \A c \in Clients, k \in Keys :
              cl[c].pc \in Changing /\ key_table_[k] = cl[c].tab => k = cl[c].key
        /\ \A c, d \in Clients :
              cl[c].pc \in Changing /\ cl[d].pc \in Changing /\ cl[c].tab = cl[d].tab => c = d

HTBase == HTTypeOK /\ Located /\ (Exclusive => OwnedOnce)

HTInv == HTBase /\ Apart

LEMMA HTInitInv == HTInit => HTInv
  <1> SUFFICES ASSUME HTInit PROVE HTInv
    OBVIOUS
  <1> USE DEF HTInit
  <1>1. Tables = {} /\ Strings = {}
    BY DEF Tables, Strings
  <1>2. Idle \in CallRecs
    BY DEF Idle, CallRecs, PCs, NULL, kOK
  <1>3. cl \in [Clients -> CallRecs]
    BY <1>2
  <1>4. HTTypeOK
    <2>1. tables \in Seq([Fields -> Strings \cup {NULL}])
      OBVIOUS
    <2>2. key_table_ \in [Keys -> Tables \cup {NULL}]
      OBVIOUS
    <2>3. dead \subseteq Tables /\ nstr \in Nat /\ freed \subseteq Strings
          /\ calls \in Nat /\ crashed \in BOOLEAN
      OBVIOUS
    <2> QED
      BY <1>3, <2>1, <2>2, <2>3 DEF HTTypeOK, CallRecs, PCs
  <1>5. \A c \in Clients : cl[c].pc = "idle" /\ cl[c].old = NULL
    BY DEF Idle
  <1>6. Located /\ OwnedOnce
    BY <1>1, <1>5 DEF Located, OwnedOnce, Holds, Changing
  <1>7. Apart
    BY <1>5 DEF Apart, Changing
  <1> QED
    BY <1>4, <1>6, <1>7 DEF HTInv, HTBase, HTBase

-----------------------------------------------------------------------------
(***************************************************************************)
(* Steps that change nothing but the client's own call, and give it no     *)
(* string to delete.                                                       *)
(***************************************************************************)
LEMMA LocalStep ==
    ASSUME HTInv, NEW c \in Clients, NEW r \in CallRecs,
           cl' = [cl EXCEPT ![c] = r],
           UNCHANGED <<key_table_, tables, dead, nstr, freed, crashed>>,
           calls' \in Nat,
           r.old = NULL, cl[c].pc # "dropping",
           r.pc \in Changing \cup {"get"} => r.tab # NULL,
           r.pc \notin {"free", "drop", "dropping"},
           r.pc # "idle" => r.key \in KeysOf[c]
    PROVE  HTBase'
  <1>1. Tables' = Tables /\ Strings' = Strings
    BY DEF Tables, Strings
  <1>2. cl \in [Clients -> CallRecs]
    BY DEF HTInv, HTBase, HTTypeOK, CallRecs, PCs
  <1>3. cl' \in [Clients -> CallRecs] /\ cl'[c] = r
        /\ \A d \in Clients \ {c} : cl'[d] = cl[d]
    BY <1>2
  <1>4. HTTypeOK'
    BY <1>1, <1>3 DEF HTInv, HTBase, HTTypeOK, CallRecs, PCs
  <1>5. Located'
    BY <1>3 DEF HTInv, HTBase, Located
  <1>6. ASSUME Exclusive PROVE OwnedOnce'
    <2>1. OwnedOnce
      BY <1>6 DEF HTInv, HTBase
    <2>2. Dropping' = Dropping
      BY <1>3 DEF Dropping
    <2>3. \A d \in Clients : Holds(d)' \subseteq Holds(d)
      BY <1>3 DEF Holds
    <2> QED
      BY <1>1, <2>1, <2>2, <2>3 DEF OwnedOnce
  <1> QED
    BY <1>4, <1>5, <1>6 DEF HTBase

LEMMA CallTyped ==
    ASSUME HTInv, NEW c \in Clients
    PROVE  /\ cl \in [Clients -> CallRecs]
           /\ cl[c] \in CallRecs
           /\ cl[c].pc # "free" => cl[c].old = NULL
           /\ cl[c].pc # "idle" => cl[c].key \in KeysOf[c] /\ cl[c].key \in Keys
  BY HashtableAssumption DEF HTInv, HTBase, HTTypeOK, Located, CallRecs, PCs

\* Done, of a client that holds no string, changes its call only.
LEMMA DoneInv ==
    ASSUME HTInv, NEW c \in Clients, NEW s \in {kOK, kErrorNoData, kErrorConflict},
           Done(c, s), UNCHANGED <<key_table_, tables, dead, nstr, freed, crashed>>,
           calls' = calls, cl[c].pc # "dropping"
    PROVE  HTBase'
  <1> DEFINE r == [cl[c] EXCEPT !.pc = "idle", !.status = s, !.old = NULL, !.tab = NULL]
  <1>1. r \in CallRecs /\ r.pc = "idle" /\ r.old = NULL
    BY CallTyped, ZenonT(30) DEF CallRecs, PCs
  <1>2. cl' = [cl EXCEPT ![c] = r]
    BY DEF Done
  <1>3. calls' \in Nat
    BY DEF HTInv, HTBase, HTTypeOK
  <1> HIDE DEF r
  <1> QED
    BY <1>1, <1>2, <1>3, LocalStep DEF Changing

LEMMA BeginInv ==
    ASSUME HTInv, NEW c \in Clients, NEW op \in Ops, NEW key \in KeysOf[c],
           NEW fields \in Seq(Fields), Begin(c, op, key, fields)
    PROVE  HTBase'
  <1> DEFINE r == [Idle EXCEPT !.pc = "find", !.op = op, !.key = key, !.todo = fields]
  <1>1. key \in Keys
    BY HashtableAssumption
  <1>2. r \in CallRecs /\ r.pc = "find" /\ r.old = NULL /\ r.key \in KeysOf[c]
    BY <1>1 DEF CallRecs, PCs, Idle, kOK
  <1>3. cl' = [cl EXCEPT ![c] = r] /\ cl[c].pc # "dropping"
    BY DEF Begin
  <1>4. calls' \in Nat /\ UNCHANGED <<key_table_, tables, dead, nstr, freed, crashed>>
    BY DEF HTInv, HTBase, HTTypeOK, Begin
  <1> HIDE DEF r
  <1> QED
    BY <1>2, <1>3, <1>4, LocalStep DEF Changing

LEMMA CallInv == ASSUME HTInv, NEW c \in Clients, Call(c) PROVE HTBase'
  <1>1. PICK op \in Ops, key \in KeysOf[c] :
           \/ Begin(c, op, key, FieldSeq)
           \/ \E f \in Fields : Begin(c, op, key, <<f>>)
           \/ Begin(c, op, key, <<>>)
    BY DEF Call
  <1>2. FieldSeq \in Seq(Fields) /\ <<>> \in Seq(Fields) /\ \A f \in Fields : <<f>> \in Seq(Fields)
    BY HashtableAssumption
  <1> QED
    BY <1>1, <1>2, BeginInv

\* The other steps of this kind.
LEMMA PlaceInv ==
    ASSUME HTInv, NEW c \in Clients,
           Find(c) \/ FindRows(c) \/ NextRow(c) \/ GetField(c) \/ CopyOut(c) \/ Filled(c)
    PROVE  HTBase'
  <1>1. calls' = calls /\ calls \in Nat
        /\ UNCHANGED <<key_table_, tables, dead, nstr, freed, crashed>>
    BY DEF HTInv, HTBase, HTTypeOK, Find, FindRows, NextRow, GetField, CopyOut, Filled
  <1>2. /\ cl \in [Clients -> CallRecs] /\ cl[c] \in CallRecs
        /\ cl[c].pc # "free" => cl[c].old = NULL
        /\ cl[c].pc # "idle" => cl[c].key \in KeysOf[c] /\ cl[c].key \in Keys
        /\ cl[c].pc # "dropping"
    BY CallTyped DEF Find, FindRows, NextRow, GetField, CopyOut, Filled
  <1>3. ASSUME Done(c, kOK) \/ Done(c, kErrorNoData) PROVE HTBase'
    BY <1>1, <1>2, <1>3, DoneInv
  <1>4. CASE Find(c)
    <2> DEFINE t == key_table_[cl[c].key]
    <2>1. cl[c].key \in KeysOf[c] /\ t \in Tables \cup {NULL} /\ cl[c].pc = "find"
      BY <1>2, <1>4 DEF Find, HTInv, HTBase, HTTypeOK
    <2>2. ASSUME t # NULL, cl' = [cl EXCEPT ![c].pc = "rows", ![c].rows = {t}]
          PROVE  HTBase'
      <3> DEFINE r == [cl[c] EXCEPT !.pc = "rows", !.rows = {t}]
      <3>1. r \in CallRecs /\ r.pc = "rows" /\ r.old = NULL /\ r.key \in KeysOf[c] /\ cl' = [cl EXCEPT ![c] = r]
        BY <1>2, <2>1, <2>2 DEF CallRecs, PCs
      <3> HIDE DEF r
      <3> QED
        BY <1>1, <1>2, <3>1, LocalStep DEF Changing
    <2>3. ASSUME cl' = [cl EXCEPT ![c].pc = "put"] PROVE HTBase'
      <3> DEFINE r == [cl[c] EXCEPT !.pc = "put"]
      <3>1. r \in CallRecs /\ r.pc = "put" /\ r.old = NULL /\ r.key \in KeysOf[c]
            /\ cl' = [cl EXCEPT ![c] = r]
        BY <1>2, <2>1, <2>3 DEF CallRecs, PCs
      <3> HIDE DEF r
      <3> QED
        BY <1>1, <1>2, <3>1, LocalStep DEF Changing
    <2>4. ASSUME t # NULL, NEW q \in {"ins", "upd"},
                 cl' = [cl EXCEPT ![c].pc = q, ![c].tab = t]
          PROVE  HTBase'
      <3> DEFINE r == [cl[c] EXCEPT !.pc = q, !.tab = t]
      <3>1. r \in CallRecs /\ r.pc \in {"ins", "upd"} /\ r.old = NULL /\ r.key \in KeysOf[c] /\ r.tab # NULL
            /\ cl' = [cl EXCEPT ![c] = r]
        BY <1>2, <2>1, <2>4 DEF CallRecs, PCs
      <3> HIDE DEF r
      <3> QED
        BY <1>1, <1>2, <3>1, LocalStep DEF Changing
    <2> QED
      BY <1>3, <1>4, <2>2, <2>3, <2>4 DEF Find
  <1>5. CASE FindRows(c)
    <2>1. PICK rows \in SUBSET ({key_table_[k] : k \in Keys} \ {NULL}) :
             cl' = [cl EXCEPT ![c].pc = "rows", ![c].rows = rows]
      BY <1>5 DEF FindRows, Entries
    <2> DEFINE r == [cl[c] EXCEPT !.pc = "rows", !.rows = rows]
    <2>2. rows \in SUBSET Tables
      BY DEF HTInv, HTBase, HTTypeOK
    <2>3. r \in CallRecs /\ r.pc = "rows" /\ r.old = NULL /\ r.key \in KeysOf[c] /\ cl' = [cl EXCEPT ![c] = r]
      BY <1>2, <1>5, <2>1, <2>2 DEF CallRecs, PCs, FindRows
    <2> HIDE DEF r
    <2> QED
      BY <1>1, <1>2, <2>3, LocalStep DEF Changing
  <1>6. CASE NextRow(c)
    <2>1. ASSUME NEW t \in cl[c].rows,
                 cl' = [cl EXCEPT ![c].pc = "get", ![c].tab = t, ![c].rows = @ \ {t}]
          PROVE  HTBase'
      <3> DEFINE r == [cl[c] EXCEPT !.pc = "get", !.tab = t, !.rows = @ \ {t}]
      <3>1. t \in Tables /\ t # NULL
        BY <1>2, <2>1 DEF CallRecs, Tables, NULL
      <3>2. r \in CallRecs /\ r.pc = "get" /\ r.old = NULL /\ r.key \in KeysOf[c] /\ r.tab # NULL
            /\ cl' = [cl EXCEPT ![c] = r]
        BY <1>2, <1>6, <2>1, <3>1 DEF CallRecs, PCs, NextRow
      <3> HIDE DEF r
      <3> QED
        BY <1>1, <1>2, <3>2, LocalStep DEF Changing
    <2> QED
      BY <1>3, <1>6, <2>1 DEF NextRow
  <1>7. CASE GetField(c)
    <2> DEFINE fs == IF cl[c].todo = <<>> THEN Fields ELSE {Head(cl[c].todo)}
               P == {tables[cl[c].tab][f] : f \in fs} \ {NULL}
               r == [cl[c] EXCEPT !.pc = "copy", !.ptrs = P]
    <2>1. fs \subseteq Fields /\ cl[c].tab \in Tables
      BY <1>2, <1>7 DEF GetField, CallRecs, HTInv, HTBase, Located
    <2>2. P \subseteq Strings
      <3>1. tables[cl[c].tab] \in [Fields -> Strings \cup {NULL}]
        BY <2>1 DEF HTInv, HTBase, HTTypeOK, Tables
      <3> QED
        BY <2>1, <3>1
    <2>3. cl' = [cl EXCEPT ![c] = r]
      BY <1>7 DEF GetField, Entries
    <2> HIDE DEF P, fs
    <2>4. r \in CallRecs /\ r.pc = "copy" /\ r.old = NULL /\ r.key \in KeysOf[c]
      BY <1>2, <1>7, <2>2 DEF CallRecs, PCs, GetField
    <2> HIDE DEF r
    <2> QED
      BY <1>1, <1>2, <2>3, <2>4, LocalStep DEF Changing
  <1>8. CASE CopyOut(c)
    <2>1. ASSUME cl' = [cl EXCEPT ![c].pc = "rows"] PROVE HTBase'
      <3> DEFINE r == [cl[c] EXCEPT !.pc = "rows"]
      <3>1. r \in CallRecs /\ r.pc = "rows" /\ r.old = NULL /\ r.key \in KeysOf[c] /\ cl' = [cl EXCEPT ![c] = r]
        BY <1>2, <1>8, <2>1 DEF CallRecs, PCs, CopyOut
      <3> HIDE DEF r
      <3> QED
        BY <1>1, <1>2, <3>1, LocalStep DEF Changing
    <2>2. ASSUME NEW p \in cl[c].ptrs,
                 cl' = [cl EXCEPT ![c].ptrs = @ \ {p},
                                  ![c].got = @ \cup {IF p \in freed THEN Garbage ELSE p}]
          PROVE  HTBase'
      <3> DEFINE v == IF p \in freed THEN Garbage ELSE p
                 r == [cl[c] EXCEPT !.ptrs = @ \ {p}, !.got = @ \cup {v}]
      <3>1. v \in Strings \cup {Garbage}
        BY <1>2, <2>2 DEF CallRecs
      <3>2. cl' = [cl EXCEPT ![c] = r]
        BY <1>2, <2>2 DEF CallRecs
      <3> HIDE DEF v
      <3>3. r \in CallRecs /\ r.pc = "copy" /\ r.old = NULL /\ r.key \in KeysOf[c]
        BY <1>2, <1>8, <3>1 DEF CallRecs, PCs, CopyOut
      <3> HIDE DEF r
      <3> QED
        BY <1>1, <1>2, <3>2, <3>3, LocalStep DEF Changing
    <2> QED
      BY <1>8, <2>1, <2>2 DEF CopyOut
  <1>9. CASE Filled(c)
    BY <1>3, <1>9 DEF Filled
  <1> QED
    BY <1>4, <1>5, <1>6, <1>7, <1>8, <1>9

-----------------------------------------------------------------------------
(***************************************************************************)
(* Steps that allocate a string or a table.                                *)
(***************************************************************************)
\* What is well-typed stays so when strings and tables are added.
LEMMA Grows ==
    ASSUME HTInv, nstr' \in Nat, nstr' >= nstr, Len(tables') \in Nat, Len(tables') >= Len(tables)
    PROVE  /\ Tables \subseteq Tables' /\ Strings \subseteq Strings'
           /\ CallRecs \subseteq CallRecs'
           /\ NULL \notin Tables /\ NULL \notin Strings
           /\ key_table_ \in [Keys -> Tables' \cup {NULL}]
           /\ dead \subseteq Tables' /\ freed \subseteq Strings'
  <1>1. nstr \in Nat /\ Len(tables) \in Nat
    BY DEF HTInv, HTBase, HTTypeOK
  <1>2. Tables \subseteq Tables' /\ Strings \subseteq Strings'
    BY <1>1 DEF Tables, Strings
  <1>3. NULL \notin Tables /\ NULL \notin Strings
    BY <1>1 DEF Tables, Strings, NULL
  <1>4. CallRecs \subseteq CallRecs'
    BY <1>2 DEF CallRecs
  <1> QED
    BY <1>2, <1>3, <1>4 DEF HTInv, HTBase, HTTypeOK

\* A field of a table is made to point to a new string.
LEMMA SetField ==
    ASSUME HTInv, NEW t \in Tables, NEW f \in Fields, nstr' = nstr + 1,
           tables' = [tables EXCEPT ![t][f] = nstr + 1]
    PROVE  /\ tables' \in Seq([Fields -> Strings' \cup {NULL}])
           /\ Len(tables') = Len(tables) /\ Tables' = Tables
           /\ tables'[t][f] = nstr + 1
           /\ \A u \in Tables, g \in Fields : <<u, g>> # <<t, f>> => tables'[u][g] = tables[u][g]
  <1> DEFINE row == [tables[t] EXCEPT ![f] = nstr + 1]
             S == [Fields -> Strings \cup {NULL}]
             T == [Fields -> Strings' \cup {NULL}]
  <1>1. tables \in Seq(S) /\ nstr \in Nat /\ t \in 1 .. Len(tables)
    BY DEF HTInv, HTBase, HTTypeOK, Tables
  <1>2. Strings \subseteq Strings' /\ nstr + 1 \in Strings'
    BY <1>1 DEF Strings
  <1>3. S \subseteq T
    BY <1>2
  <1>4. row \in T /\ row[f] = nstr + 1 /\ \A g \in Fields \ {f} : row[g] = tables[t][g]
    BY <1>1, <1>2
  <1>5. tables' = [tables EXCEPT ![t] = row]
    OBVIOUS
  <1> HIDE DEF row, S, T
  <1>6. /\ tables' \in Seq(T) /\ Len(tables') = Len(tables) /\ tables'[t] = row
        /\ \A u \in 1 .. Len(tables) : u # t => tables'[u] = tables[u]
    <2>1. tables \in Seq(T)
      BY <1>1, <1>3
    <2> QED
      BY <1>1, <1>4, <1>5, <2>1
  <1>7. ASSUME NEW u \in Tables, NEW g \in Fields, <<u, g>> # <<t, f>>
        PROVE  tables'[u][g] = tables[u][g]
    BY <1>4, <1>6, <1>7 DEF Tables
  <1> QED
    BY <1>4, <1>6, <1>7 DEF Tables, T

\* A new string is no field's, no client's, and not deallocated.
LEMMA Fresh ==
    ASSUME HTInv
    PROVE  /\ nstr \in Nat /\ nstr + 1 # NULL
           /\ nstr + 1 \notin freed
           /\ \A t \in Tables, f \in Fields : tables[t][f] # nstr + 1
           /\ \A c \in Clients : nstr + 1 \notin Holds(c)
  <1>1. nstr \in Nat /\ freed \subseteq 1 .. nstr
    BY DEF HTInv, HTBase, HTTypeOK, Strings
  <1>2. \A t \in Tables, f \in Fields : tables[t][f] \in (1 .. nstr) \cup {0}
    BY DEF HTInv, HTBase, HTTypeOK, Strings, Tables, NULL
  <1>3. \A c \in Clients : Holds(c) \subseteq 1 .. nstr
    <2>1. \A c \in Clients : cl[c].old \in (1 .. nstr) \cup {NULL} /\ cl[c].ptrs \subseteq 1 .. nstr
      BY DEF HTInv, HTBase, HTTypeOK, Strings
    <2> QED
      BY <2>1 DEF Holds
  <1> QED
    BY <1>1, <1>2, <1>3 DEF NULL

\* A table that a client writes to, or is about to delete, is not being deleted.
LEMMA NotDropping ==
    ASSUME HTInv, Exclusive, NEW c \in Clients, cl[c].pc \in Changing \ {"dropping"}
    PROVE  cl[c].tab \notin Dropping
  <1> SUFFICES ASSUME NEW d \in Clients, cl[d].pc = "dropping", cl[d].tab = cl[c].tab
               PROVE  FALSE
    BY DEF Dropping
  <1>1. "Delete" \in Ops
    BY DEF HTInv, HTBase, Located
  <1>2. c = d
    BY <1>1 DEF HTInv, Apart, Changing
  <1> QED
    BY <1>2

\* Where a client that writes a field is.
LEMMA Writing ==
    ASSUME HTInv, NEW c \in Clients, cl[c].pc \in {"ins", "fill", "upd", "updins"},
           cl[c].todo # <<>>
    PROVE  /\ cl[c].tab \in Tables /\ Head(cl[c].todo) \in Fields
           /\ Tail(cl[c].todo) \in Seq(Fields) /\ cl[c].old = NULL
  <1>1. cl[c] \in CallRecs
    BY CallTyped
  <1>2. cl[c].tab \in Tables /\ cl[c].todo \in Seq(Fields)
    BY <1>1 DEF CallRecs, HTInv, HTBase, Located, Changing
  <1> QED
    BY <1>2, CallTyped

\* A client stores a new string in a field; the one it replaces, if any, becomes
\* its own to delete.
LEMMA StoreInv ==
    ASSUME HTInv, NEW c \in Clients, NEW t \in Tables, NEW f \in Fields, NEW r \in CallRecs',
           nstr' = nstr + 1, tables' = [tables EXCEPT ![t][f] = nstr + 1],
           cl' = [cl EXCEPT ![c] = r],
           UNCHANGED <<key_table_, dead, freed, calls, crashed>>,
           cl[c].pc \in Changing \ {"drop", "dropping"}, cl[c].tab = t,
           r.tab # NULL, r.key = cl[c].key, r.pc \notin {"drop", "dropping"},
           r.old = tables[t][f], r.old # NULL <=> r.pc = "free"
    PROVE  HTBase'
  <1>1. /\ tables' \in Seq([Fields -> Strings' \cup {NULL}])
        /\ Len(tables') = Len(tables) /\ Tables' = Tables
        /\ tables'[t][f] = nstr + 1
        /\ \A u \in Tables, g \in Fields : <<u, g>> # <<t, f>> => tables'[u][g] = tables[u][g]
    BY SetField
  <1>2. nstr \in Nat /\ Len(tables) \in Nat
    BY DEF HTInv, HTBase, HTTypeOK
  <1>3. /\ CallRecs \subseteq CallRecs' /\ key_table_ \in [Keys -> Tables' \cup {NULL}]
        /\ dead \subseteq Tables' /\ freed \subseteq Strings'
    BY <1>1, <1>2, Grows
  <1>4. /\ cl' \in [Clients -> CallRecs'] /\ cl'[c] = r
        /\ \A d \in Clients \ {c} : cl'[d] = cl[d]
    BY <1>3, CallTyped
  <1>5. HTTypeOK'
    BY <1>1, <1>2, <1>3, <1>4 DEF HTInv, HTBase, HTTypeOK, CallRecs, PCs
  <1>6. Located'
    BY <1>4 DEF HTInv, HTBase, Located, Changing
  <1>7. ASSUME Exclusive PROVE OwnedOnce'
    <2> DEFINE new == nstr + 1
               old == tables[t][f]
    <2>a. OwnedOnce
      BY <1>7 DEF HTInv, HTBase
    <2>b. t \notin Dropping
      BY <1>7, NotDropping
    <2>c. Dropping' = Dropping
      BY <1>4 DEF Dropping, Changing
    <2>d. /\ \A d \in Clients \ {c} : Holds(d)' = Holds(d)
          /\ Holds(c)' \subseteq {old} \ {NULL}
      BY <1>4 DEF Holds
    <2>1. /\ new # NULL /\ new \notin freed
          /\ \A u \in Tables, g \in Fields : tables[u][g] # new
          /\ \A d \in Clients : new \notin Holds(d)
      BY Fresh
    <2> HIDE DEF new
    <2>2. tables'[t][f] = new
      BY <1>1 DEF new
    <2>3. ASSUME NEW u \in Tables, NEW g \in Fields
          PROVE  tables'[u][g] = new \/ tables'[u][g] = tables[u][g]
      BY <1>1, <2>2
    <2>4. \A u \in Tables \ Dropping, g \in Fields : tables'[u][g] \notin freed
      BY <2>1, <2>3, <2>a DEF OwnedOnce
    <2>e. old \notin freed /\ \A d \in Clients : old \notin Holds(d)
      BY <2>a, <2>b DEF OwnedOnce
    <2>5. \A d \in Clients : Holds(d)' \cap freed = {}
      BY <2>a, <2>d, <2>e DEF OwnedOnce
    <2>6. ASSUME NEW u \in Tables, NEW v \in Tables, NEW g \in Fields, NEW h \in Fields,
                 tables'[u][g] = tables'[v][h], tables'[u][g] # NULL
          PROVE  u = v /\ g = h
      <3>1. CASE <<u, g>> = <<t, f>> /\ <<v, h>> = <<t, f>>
        BY <3>1
      <3>2. CASE <<u, g>> # <<t, f>> /\ <<v, h>> # <<t, f>>
        BY <1>1, <2>6, <3>2, <2>a DEF OwnedOnce
      <3>3. CASE <<u, g>> = <<t, f>> /\ <<v, h>> # <<t, f>>
        BY <1>1, <2>1, <2>2, <2>6, <3>3
      <3>4. CASE <<u, g>> # <<t, f>> /\ <<v, h>> = <<t, f>>
        BY <1>1, <2>1, <2>2, <2>6, <3>4
      <3> QED
        BY <3>1, <3>2, <3>3, <3>4
    <2>7. ASSUME NEW d \in Clients, NEW u \in Tables \ Dropping, NEW g \in Fields
          PROVE  tables'[u][g] \notin Holds(d)'
      <3>1. CASE d # c
        BY <2>1, <2>3, <2>a, <2>d, <3>1 DEF OwnedOnce
      <3>2. CASE d = c
        <4>1. CASE <<u, g>> = <<t, f>>
          BY <2>1, <2>2, <2>d, <3>2, <4>1
        <4>2. CASE <<u, g>> # <<t, f>>
          BY <1>1, <2>a, <2>d, <3>2, <4>2 DEF OwnedOnce
        <4> QED
          BY <4>1, <4>2
      <3> QED
        BY <3>1, <3>2
    <2>8. \A d, e \in Clients : d # e => Holds(d)' \cap Holds(e)' = {}
      BY <2>a, <2>d, <2>e DEF OwnedOnce
    <2> QED
      BY <1>1, <2>c, <2>4, <2>5, <2>6, <2>7, <2>8 DEF OwnedOnce
  <1> QED
    BY <1>5, <1>6, <1>7 DEF HTBase

\* A client allocates a string that gets no owner: it is deleted at once, or lost.
LEMMA AllocInv ==
    ASSUME HTInv, NEW c \in Clients, NEW r \in CallRecs',
           nstr' = nstr + 1, freed' = freed \/ freed' = freed \cup {nstr + 1},
           cl' = [cl EXCEPT ![c] = r],
           UNCHANGED <<key_table_, tables, dead, calls, crashed>>,
           cl[c].pc \in Changing \ {"drop", "dropping"},
           r.pc \notin {"free", "drop", "dropping"}, r.old = NULL,
           r.pc # "idle" => r.tab # NULL /\ r.key = cl[c].key
    PROVE  HTBase'
  <1>1. nstr \in Nat /\ Len(tables) \in Nat /\ Tables' = Tables /\ Strings' = 1 .. nstr + 1
    BY DEF HTInv, HTBase, HTTypeOK, Tables, Strings
  <1>2. /\ CallRecs \subseteq CallRecs' /\ Strings \subseteq Strings'
        /\ freed \subseteq Strings' /\ NULL \notin Strings
    BY <1>1, Grows
  <1>3. /\ cl' \in [Clients -> CallRecs'] /\ cl'[c] = r
        /\ \A d \in Clients \ {c} : cl'[d] = cl[d]
    BY <1>2, CallTyped
  <1>4. tables' \in Seq([Fields -> Strings' \cup {NULL}])
    BY <1>2 DEF HTInv, HTBase, HTTypeOK
  <1>5. freed' \subseteq Strings'
    <2>1. nstr + 1 \in Strings'
      BY <1>1
    <2> QED
      BY <1>2, <2>1
  <1>6. HTTypeOK'
    BY <1>1, <1>3, <1>4, <1>5 DEF HTInv, HTBase, HTTypeOK, CallRecs, PCs
  <1>7. Located'
    BY <1>3 DEF HTInv, HTBase, Located, Changing
  <1>8. ASSUME Exclusive PROVE OwnedOnce'
    <2>1. /\ \A u \in Tables, g \in Fields : tables[u][g] # nstr + 1
          /\ \A d \in Clients : nstr + 1 \notin Holds(d)
      BY Fresh
    <2>2. OwnedOnce
      BY <1>8 DEF HTInv, HTBase
    <2>3. Dropping' = Dropping /\ \A d \in Clients : Holds(d)' \subseteq Holds(d)
      BY <1>3 DEF Dropping, Holds, Changing
    <2>4. \A d \in Clients : Holds(d)' \cap freed' = {}
      BY <2>1, <2>2, <2>3 DEF OwnedOnce
    <2>5. \A u \in Tables \ Dropping, g \in Fields : tables[u][g] \notin freed'
      BY <2>1, <2>2 DEF OwnedOnce
    <2> QED
      BY <1>1, <2>2, <2>3, <2>4, <2>5 DEF OwnedOnce
  <1> QED
    BY <1>6, <1>7, <1>8 DEF HTBase

LEMMA InsertFieldInv == ASSUME HTInv, NEW c \in Clients, InsertField(c) PROVE HTBase'
  <1> DEFINE t == cl[c].tab
             f == Head(cl[c].todo)
  <1>1. t \in Tables /\ t # NULL /\ f \in Fields /\ Tail(cl[c].todo) \in Seq(Fields)
        /\ cl[c].old = NULL
    BY Writing DEF InsertField, Tables, NULL
  <1>2. nstr \in Nat /\ Len(tables) \in Nat /\ Len(tables') = Len(tables)
        /\ nstr' = nstr + 1 /\ cl[c].pc = "ins"
    BY DEF InsertField, HTInv, HTBase, HTTypeOK
  <1>3. CallRecs \subseteq CallRecs' /\ cl[c] \in CallRecs
    BY <1>2, Grows, CallTyped
  <1>4. CASE /\ tables[t][f] = NULL
             /\ tables' = [tables EXCEPT ![t][f] = nstr + 1]
             /\ cl' = [cl EXCEPT ![c].todo = Tail(@)]
             /\ UNCHANGED freed
    <2> DEFINE r == [cl[c] EXCEPT !.todo = Tail(@)]
    <2>1. r \in CallRecs /\ r.pc = "ins" /\ r.tab = t /\ r.old = NULL /\ r.key = cl[c].key
      BY <1>1, <1>2, <1>3, ZenonT(30) DEF CallRecs
    <2>2. cl' = [cl EXCEPT ![c] = r]
      BY <1>4
    <2>3. UNCHANGED <<key_table_, dead, freed, calls, crashed>>
      BY <1>4 DEF InsertField
    <2>4. /\ r \in CallRecs' /\ r.tab # NULL /\ r.pc \notin {"drop", "dropping"}
          /\ r.old = tables[t][f] /\ (r.old # NULL <=> r.pc = "free")
      BY <1>1, <1>3, <1>4, <2>1
    <2>5. nstr' = nstr + 1 /\ tables' = [tables EXCEPT ![t][f] = nstr + 1]
      BY <1>2, <1>4
    <2>6. cl[c].pc \in Changing \ {"drop", "dropping"} /\ cl[c].tab = t
      BY <1>2 DEF Changing
    <2> HIDE DEF r, t, f
    <2> QED
      BY <1>1, <2>1, <2>2, <2>3, <2>4, <2>5, <2>6, StoreInv
  <1>5. CASE /\ freed' = freed \cup {nstr + 1}
             /\ Done(c, kErrorConflict)
             /\ UNCHANGED tables
    <2> DEFINE r == [cl[c] EXCEPT !.pc = "idle", !.status = kErrorConflict,
                                  !.old = NULL, !.tab = NULL]
    <2>1. r \in CallRecs /\ r.pc = "idle" /\ r.old = NULL
      BY <1>3 DEF CallRecs, PCs
    <2>2. cl' = [cl EXCEPT ![c] = r]
      BY <1>5 DEF Done
    <2>3. UNCHANGED <<key_table_, tables, dead, calls, crashed>>
      BY <1>5 DEF InsertField
    <2>4. cl[c].pc \in Changing \ {"drop", "dropping"}
      BY <1>2 DEF Changing
    <2> HIDE DEF r
    <2> QED
      BY <1>2, <1>3, <1>5, <2>1, <2>2, <2>3, <2>4, AllocInv
  <1> QED
    BY <1>4, <1>5 DEF InsertField

LEMMA FillFieldInv == ASSUME HTInv, NEW c \in Clients, FillField(c) PROVE HTBase'
  <1> DEFINE t == cl[c].tab
             f == Head(cl[c].todo)
             q == IF cl[c].pc = "updins" THEN "upd" ELSE cl[c].pc
             rest == Tail(cl[c].todo)
             r == [cl[c] EXCEPT !.todo = rest, !.pc = q]
  <1>1. t \in Tables /\ t # NULL /\ f \in Fields /\ Tail(cl[c].todo) \in Seq(Fields)
        /\ cl[c].old = NULL
    BY Writing DEF FillField, Tables, NULL
  <1>2. nstr \in Nat /\ Len(tables) \in Nat /\ Len(tables') = Len(tables)
        /\ nstr' = nstr + 1 /\ cl[c].pc \in {"fill", "updins"}
    BY DEF FillField, HTInv, HTBase, HTTypeOK
  <1>3. CallRecs \subseteq CallRecs' /\ cl[c] \in CallRecs
    BY <1>2, Grows, CallTyped
  <1>4. r \in CallRecs /\ r.pc \in {"fill", "upd"} /\ r.tab = t /\ r.old = NULL
        /\ r.key = cl[c].key
    <2>1. q \in {"fill", "upd"} /\ rest \in Seq(Fields)
      BY <1>1, <1>2
    <2>2. cl[c] \in CallRecs /\ cl[c].old = NULL
      BY <1>1, <1>3
    <2> HIDE DEF q, rest
    <2> QED
      BY <2>1, <2>2 DEF CallRecs, PCs
  <1>5. cl' = [cl EXCEPT ![c] = r]
    BY DEF FillField
  <1>6. /\ UNCHANGED <<key_table_, dead, freed, calls, crashed>>
        /\ cl[c].pc \in Changing \ {"drop", "dropping"} /\ cl[c].tab = t
    BY DEF FillField, Changing
  <1>7. CASE tables[t][f] = NULL
    <2>1. tables' = [tables EXCEPT ![t][f] = nstr + 1] /\ nstr' = nstr + 1
      BY <1>7 DEF FillField, TableInsert
    <2> HIDE DEF r, t, f
    <2>2. /\ r \in CallRecs' /\ r.tab # NULL /\ r.pc \notin {"drop", "dropping"}
          /\ r.old = tables[t][f] /\ (r.old # NULL <=> r.pc = "free")
      BY <1>1, <1>3, <1>4, <1>7
    <2> QED
      BY <1>1, <1>4, <1>5, <1>6, <2>1, <2>2, StoreInv
  <1>8. CASE tables[t][f] # NULL
    <2>1. tables' = tables
      BY <1>8 DEF FillField, TableInsert, HTInv, HTBase, HTTypeOK
    <2> HIDE DEF r, t, f
    <2> QED
      BY <1>1, <1>2, <1>3, <1>4, <1>5, <1>6, <2>1, AllocInv
  <1> QED
    BY <1>7, <1>8

LEMMA UpdateFieldInv == ASSUME HTInv, NEW c \in Clients, UpdateField(c) PROVE HTBase'
  <1> DEFINE t == cl[c].tab
             f == Head(cl[c].todo)
  <1>1. t \in Tables /\ t # NULL /\ f \in Fields /\ Tail(cl[c].todo) \in Seq(Fields)
        /\ cl[c].old = NULL
    <2>1. cl[c].pc \in {"ins", "fill", "upd", "updins"} /\ cl[c].todo # <<>>
      BY DEF UpdateField
    <2>2. t \in Tables /\ f \in Fields /\ Tail(cl[c].todo) \in Seq(Fields) /\ cl[c].old = NULL
      BY <2>1, Writing
    <2>3. t # NULL
      BY <2>2 DEF Tables, NULL
    <2> QED
      BY <2>2, <2>3
  <1>2. cl[c] \in CallRecs /\ cl[c].pc = "upd" /\ nstr \in Nat /\ Len(tables) \in Nat
    BY CallTyped DEF UpdateField, HTInv, HTBase, HTTypeOK
  <1>3. CASE /\ tables[t][f] # NULL
             /\ nstr' = nstr + 1
             /\ tables' = [tables EXCEPT ![t][f] = nstr + 1]
             /\ cl' = [cl EXCEPT ![c].pc = "free", ![c].old = tables[t][f], ![c].todo = Tail(@)]
    <2> DEFINE r == [cl[c] EXCEPT !.pc = "free", !.old = tables[t][f], !.todo = Tail(@)]
    <2>1. tables[t][f] \in Strings
      BY <1>1, <1>3 DEF HTInv, HTBase, HTTypeOK, Tables
    <2>2. r \in CallRecs /\ r.pc = "free" /\ r.tab = t /\ r.old = tables[t][f]
          /\ r.key = cl[c].key
      BY <1>1, <1>2, <2>1 DEF CallRecs, PCs
    <2>3. CallRecs \subseteq CallRecs'
      BY <1>2, <1>3, Grows
    <2>4. cl' = [cl EXCEPT ![c] = r] /\ UNCHANGED <<key_table_, dead, freed, calls, crashed>>
      BY <1>3 DEF UpdateField
    <2> HIDE DEF r, t, f
    <2>5. /\ r \in CallRecs' /\ r.tab # NULL /\ r.pc \notin {"drop", "dropping"}
          /\ r.old = tables[t][f] /\ (r.old # NULL <=> r.pc = "free")
      BY <1>1, <1>3, <2>2, <2>3
    <2>6. nstr' = nstr + 1 /\ tables' = [tables EXCEPT ![t][f] = nstr + 1]
      BY <1>3
    <2>7. cl[c].pc \in Changing \ {"drop", "dropping"} /\ cl[c].tab = t
      BY <1>2 DEF Changing, t
    <2> QED
      BY <1>1, <2>2, <2>4, <2>5, <2>6, <2>7, StoreInv
  <1>4. CASE cl' = [cl EXCEPT ![c].pc = "updins"] /\ UNCHANGED <<tables, nstr>>
    <2> DEFINE r == [cl[c] EXCEPT !.pc = "updins"]
    <2>1. r \in CallRecs /\ r.pc = "updins" /\ r.tab = t /\ r.old = NULL /\ r.key \in KeysOf[c]
      BY <1>1, <1>2, CallTyped DEF CallRecs, PCs
    <2>2. cl' = [cl EXCEPT ![c] = r] /\ calls' \in Nat
          /\ UNCHANGED <<key_table_, tables, dead, nstr, freed, crashed>>
      BY <1>4 DEF UpdateField, HTInv, HTBase, HTTypeOK
    <2> HIDE DEF r
    <2> QED
      BY <1>1, <1>2, <2>1, <2>2, LocalStep DEF Changing
  <1> QED
    BY <1>3, <1>4 DEF UpdateField

\* The new table is empty.
LEMMA PutInv == ASSUME HTInv, NEW c \in Clients, Put(c) PROVE HTBase'
  <1> DEFINE t == Len(tables) + 1
             q == IF cl[c].op = "Insert" THEN "ins" ELSE "fill"
             r == [cl[c] EXCEPT !.pc = q, !.tab = t]
  <1>1. nstr \in Nat /\ Len(tables) \in Nat /\ cl[c] \in CallRecs /\ cl[c].key \in Keys
        /\ cl[c].old = NULL /\ nstr' = nstr /\ cl[c].key \in KeysOf[c]
    BY CallTyped DEF Put, HTInv, HTBase, HTTypeOK
  <1>2. EmptyTable \in [Fields -> Strings \cup {NULL}] /\ \A f \in Fields : EmptyTable[f] = NULL
    BY DEF EmptyTable
  <1>3. /\ tables' \in Seq([Fields -> Strings \cup {NULL}]) /\ Len(tables') = t
        /\ tables'[t] = EmptyTable
        /\ \A u \in Tables : tables'[u] = tables[u]
    BY <1>1, <1>2 DEF Put, HTInv, HTBase, HTTypeOK, Tables
  <1>4. /\ Tables \subseteq Tables' /\ CallRecs \subseteq CallRecs' /\ Strings' = Strings
        /\ key_table_ \in [Keys -> Tables' \cup {NULL}]
        /\ dead \subseteq Tables' /\ freed \subseteq Strings'
        /\ NULL \notin Strings
    BY <1>1, <1>3, Grows DEF Strings
  <1>5. t \in Tables' /\ t # NULL /\ \A u \in Tables' : u \in Tables \/ u = t
    BY <1>1, <1>3 DEF Tables, NULL
  <1>6. r \in CallRecs' /\ r.pc \in {"ins", "fill"} /\ r.tab = t /\ r.old = NULL
        /\ r.key \in KeysOf[c]
    <2>1. cl[c] \in CallRecs'
      BY <1>1, <1>4
    <2>2. q \in {"ins", "fill"}
      OBVIOUS
    <2> HIDE DEF t, q
    <2> QED
      BY <1>1, <1>5, <2>1, <2>2 DEF CallRecs, PCs
  <1>7. cl' = [cl EXCEPT ![c] = r]
    BY DEF Put
  <1> HIDE DEF r
  <1>8. /\ cl' \in [Clients -> CallRecs'] /\ cl'[c] = r
        /\ \A d \in Clients \ {c} : cl'[d] = cl[d]
    BY <1>4, <1>6, <1>7, CallTyped
  <1>9. key_table_' \in [Keys -> Tables' \cup {NULL}]
    BY <1>1, <1>4, <1>5 DEF Put, TableInsert
  <1>10. HTTypeOK'
    BY <1>1, <1>3, <1>4, <1>8, <1>9 DEF Put, HTInv, HTBase, HTTypeOK, CallRecs, PCs
  <1>11. Located'
    BY <1>5, <1>6, <1>8 DEF HTInv, HTBase, Located
  <1>12. ASSUME Exclusive PROVE OwnedOnce'
    <2> HIDE DEF t
    <2>a. OwnedOnce
      BY <1>12 DEF HTInv, HTBase
    <2>1. NULL \notin freed /\ freed' = freed /\ \A d \in Clients : NULL \notin Holds(d)
      BY <1>4 DEF Put, HTInv, HTBase, HTTypeOK, Holds
    <2>b. cl[c].pc = "put"
      BY DEF Put
    <2>2. Dropping' = Dropping /\ \A d \in Clients : Holds(d)' = Holds(d)
      <3>1. Dropping' = Dropping
        BY <1>6, <1>8, <2>b DEF Dropping
      <3>2. \A d \in Clients : Holds(d)' = Holds(d)
        BY <1>1, <1>6, <1>8, <2>b DEF Holds
      <3> QED
        BY <3>1, <3>2
    <2>3. \A u \in Tables', f \in Fields :
             tables'[u][f] # NULL => u \in Tables /\ tables'[u][f] = tables[u][f]
      BY <1>2, <1>3, <1>5
    <2>4. \A u \in Tables' \ Dropping, f \in Fields : tables'[u][f] \notin freed
      BY <2>1, <2>3, <2>a DEF OwnedOnce
    <2>5. ASSUME NEW u \in Tables', NEW v \in Tables', NEW g \in Fields, NEW h \in Fields,
                 tables'[u][g] = tables'[v][h], tables'[u][g] # NULL
          PROVE  u = v /\ g = h
      BY <2>3, <2>5, <2>a DEF OwnedOnce
    <2>6. ASSUME NEW d \in Clients, NEW u \in Tables' \ Dropping, NEW g \in Fields
          PROVE  tables'[u][g] \notin Holds(d)
      BY <2>1, <2>3, <2>a DEF OwnedOnce
    <2> QED
      BY <2>1, <2>2, <2>4, <2>5, <2>6, <2>a DEF OwnedOnce
  <1> QED
    BY <1>10, <1>11, <1>12 DEF HTBase

-----------------------------------------------------------------------------
(***************************************************************************)
(* Steps that deallocate.                                                  *)
(***************************************************************************)
\* The step of client c leaves the tables of fields alone.
LEMMA FreeStep ==
    ASSUME HTInv, NEW c \in Clients, NEW r \in CallRecs, NEW F \in SUBSET Strings,
           cl' = [cl EXCEPT ![c] = r], freed' = freed \cup F,
           UNCHANGED <<tables, dead, nstr, calls, crashed>>,
           key_table_' \in [Keys -> Tables \cup {NULL}],
           r.pc \in {"idle", "upd", "drop", "dropping"}, r.old = NULL,
           r.pc # "idle" => r.tab # NULL /\ r.key \in KeysOf[c],
           r.pc \in {"drop", "dropping"} => "Delete" \in Ops
    PROVE  /\ HTTypeOK' /\ Located'
           /\ Tables' = Tables /\ Strings' = Strings /\ cl'[c] = r
           /\ \A d \in Clients \ {c} : cl'[d] = cl[d]
  <1>1. Tables' = Tables /\ Strings' = Strings
    BY DEF Tables, Strings
  <1>2. cl' \in [Clients -> CallRecs] /\ cl'[c] = r /\ \A d \in Clients \ {c} : cl'[d] = cl[d]
    BY CallTyped
  <1>3. HTTypeOK'
    BY <1>1, <1>2 DEF HTInv, HTBase, HTTypeOK, CallRecs, PCs
  <1>4. Located'
    BY <1>2 DEF HTInv, HTBase, Located, Changing
  <1> QED
    BY <1>1, <1>2, <1>3, <1>4

\* The string deleted was the client's alone.
LEMMA FreeOldInv == ASSUME HTInv, NEW c \in Clients, FreeOld(c) PROVE HTBase'
  <1> DEFINE r == [cl[c] EXCEPT !.pc = "upd", !.old = NULL]
             p == cl[c].old
  <1>1. cl[c] \in CallRecs /\ p # NULL /\ cl[c].tab # NULL /\ cl[c].key \in KeysOf[c]
    BY CallTyped DEF FreeOld, HTInv, HTBase, Located, Changing
  <1>2. {p} \in SUBSET Strings
    BY <1>1 DEF CallRecs
  <1>3. r \in CallRecs /\ r.pc = "upd" /\ r.old = NULL /\ r.tab # NULL /\ r.key \in KeysOf[c]
    BY <1>1 DEF CallRecs, PCs
  <1>4. /\ cl' = [cl EXCEPT ![c] = r] /\ freed' = freed \cup {p}
        /\ UNCHANGED <<tables, dead, nstr, calls, crashed>>
        /\ key_table_' \in [Keys -> Tables \cup {NULL}]
    BY DEF FreeOld, HTInv, HTBase, HTTypeOK
  <1> HIDE DEF r
  <1>5. /\ HTTypeOK' /\ Located'
        /\ Tables' = Tables /\ Strings' = Strings /\ cl'[c] = r
        /\ \A d \in Clients \ {c} : cl'[d] = cl[d]
    BY <1>2, <1>3, <1>4, FreeStep
  <1>6. ASSUME Exclusive PROVE OwnedOnce'
    <2>1. OwnedOnce
      BY <1>6 DEF HTInv, HTBase
    <2>a. cl[c].pc = "free"
      BY DEF FreeOld
    <2>2. Dropping' = Dropping
      BY <1>3, <1>5, <2>a DEF Dropping
    <2>3. /\ Holds(c) = {p} /\ Holds(c)' = {}
          /\ \A d \in Clients \ {c} : Holds(d)' = Holds(d)
      BY <1>1, <1>3, <1>5, <2>a DEF Holds
    <2>4. \A t \in Tables \ Dropping, f \in Fields : tables[t][f] \notin freed'
      BY <1>4, <2>1, <2>3 DEF OwnedOnce
    <2>5. \A d \in Clients : Holds(d)' \cap freed' = {}
      BY <1>4, <2>1, <2>3 DEF OwnedOnce
    <2> QED
      BY <1>4, <1>5, <2>1, <2>2, <2>3, <2>4, <2>5 DEF OwnedOnce
  <1> QED
    BY <1>5, <1>6 DEF HTBase

\* Taking a record out of the table of records disturbs no string.
LEMMA RemoveKeyInv == ASSUME HTInv, NEW c \in Clients, RemoveKey(c) PROVE HTBase'
  <1> DEFINE t == key_table_[cl[c].key]
             r == IF t = NULL
                  THEN [cl[c] EXCEPT !.pc = "idle", !.status = kErrorNoData,
                                     !.old = NULL, !.tab = NULL]
                  ELSE [cl[c] EXCEPT !.pc = "drop", !.tab = t]
  <1>1. cl[c] \in CallRecs /\ cl[c].old = NULL /\ cl[c].key \in Keys
        /\ cl[c].key \in KeysOf[c] /\ "Delete" \in Ops
    BY CallTyped DEF RemoveKey, CallRecs
  <1>2. t \in Tables \cup {NULL}
    BY <1>1 DEF HTInv, HTBase, HTTypeOK
  <1>3. r \in CallRecs /\ r.pc \in {"idle", "drop"} /\ r.old = NULL
        /\ (r.pc = "drop" => r.tab # NULL) /\ r.key \in KeysOf[c]
    <2> HIDE DEF t
    <2>1. CASE t = NULL
      BY <1>1, <2>1, ZenonT(30) DEF CallRecs, PCs
    <2>2. CASE t # NULL
      BY <1>1, <1>2, <2>2 DEF CallRecs, PCs
    <2> QED
      BY <2>1, <2>2
  <1>4. /\ cl' = [cl EXCEPT ![c] = r] /\ freed' = freed \cup {}
        /\ UNCHANGED <<tables, dead, nstr, calls, crashed>>
        /\ key_table_' \in [Keys -> Tables \cup {NULL}]
    BY <1>1 DEF RemoveKey, Done, HTInv, HTBase, HTTypeOK
  <1> HIDE DEF r
  <1>5. /\ HTTypeOK' /\ Located'
        /\ Tables' = Tables /\ Strings' = Strings /\ cl'[c] = r
        /\ \A d \in Clients \ {c} : cl'[d] = cl[d]
    <2>1. {} \in SUBSET Strings
      OBVIOUS
    <2> HIDE DEF t
    <2> QED
      BY <1>1, <1>3, <1>4, <2>1, FreeStep
  <1>6. ASSUME Exclusive PROVE OwnedOnce'
    <2>1. OwnedOnce
      BY <1>6 DEF HTInv, HTBase
    <2>2. Dropping' = Dropping /\ \A d \in Clients : Holds(d)' = Holds(d)
      BY <1>1, <1>3, <1>5 DEF Dropping, Holds, RemoveKey
    <2> QED
      BY <1>4, <1>5, <2>1, <2>2 DEF OwnedOnce
  <1> QED
    BY <1>5, <1>6 DEF HTBase

\* The strings of the table become the client's: no one else is deleting them.
LEMMA DropEntriesInv == ASSUME HTInv, NEW c \in Clients, DropEntries(c) PROVE HTBase'
  <1> DEFINE t == cl[c].tab
             P == {tables[t][f] : f \in Fields} \ {NULL}
             r == [cl[c] EXCEPT !.pc = "dropping", !.ptrs = P]
  <1>1. cl[c] \in CallRecs /\ cl[c].old = NULL /\ cl[c].key \in KeysOf[c] /\ "Delete" \in Ops
        /\ t \in Tables /\ t # NULL
    BY CallTyped DEF DropEntries, HTInv, HTBase, Located, Changing, CallRecs
  <1>2. P \subseteq Strings
    <2>1. tables[t] \in [Fields -> Strings \cup {NULL}]
      BY <1>1 DEF HTInv, HTBase, HTTypeOK, Tables
    <2> QED
      BY <2>1
  <1>3. /\ cl' = [cl EXCEPT ![c] = r] /\ freed' = freed \cup {}
        /\ UNCHANGED <<tables, dead, nstr, calls, crashed>>
        /\ key_table_' \in [Keys -> Tables \cup {NULL}]
    BY DEF DropEntries, HTInv, HTBase, HTTypeOK, Entries
  <1>4. /\ r \in CallRecs /\ r.pc = "dropping" /\ r.old = NULL /\ r.tab = t /\ r.ptrs = P
        /\ r.key \in KeysOf[c]
    <2> HIDE DEF P
    <2> QED
      BY <1>1, <1>2 DEF CallRecs, PCs
  <1> HIDE DEF r
  <1>5. /\ HTTypeOK' /\ Located'
        /\ Tables' = Tables /\ Strings' = Strings /\ cl'[c] = r
        /\ \A d \in Clients \ {c} : cl'[d] = cl[d]
    <2> HIDE DEF t, P
    <2>1. {} \in SUBSET Strings
      OBVIOUS
    <2> QED
      BY <1>1, <1>3, <1>4, <2>1, FreeStep
  <1>6. ASSUME Exclusive PROVE OwnedOnce'
    <2>1. OwnedOnce
      BY <1>6 DEF HTInv, HTBase
    <2>2. t \notin Dropping
      BY <1>6, NotDropping DEF DropEntries, Changing
    <2>3. Dropping' = Dropping \cup {t}
      <3>1. cl[c].pc = "drop"
        BY DEF DropEntries
      <3> HIDE DEF t, P
      <3> QED
        BY <1>4, <1>5, <3>1 DEF Dropping
    <2>4. Holds(c)' = P /\ \A d \in Clients \ {c} : Holds(d)' = Holds(d)
      BY <1>4, <1>5 DEF Holds
    <2>5. P \cap freed = {} /\ \A d \in Clients : P \cap Holds(d) = {}
      BY <1>1, <2>1, <2>2 DEF OwnedOnce
    <2>6. \A u \in Tables \ Dropping, f \in Fields : u # t => tables[u][f] \notin P
      BY <1>1, <2>1 DEF OwnedOnce
    <2> HIDE DEF P, t
    <2> QED
      BY <1>3, <1>5, <2>1, <2>3, <2>4, <2>5, <2>6 DEF OwnedOnce
  <1> QED
    BY <1>5, <1>6 DEF HTBase

LEMMA DropStringInv == ASSUME HTInv, NEW c \in Clients, DropString(c) PROVE HTBase'
  <1>1. PICK p \in cl[c].ptrs :
           freed' = freed \cup {p} /\ cl' = [cl EXCEPT ![c].ptrs = @ \ {p}]
    BY DEF DropString
  <1> DEFINE r == [cl[c] EXCEPT !.ptrs = @ \ {p}]
  <1>2. /\ cl[c] \in CallRecs /\ cl[c].old = NULL /\ cl[c].key \in KeysOf[c]
        /\ "Delete" \in Ops /\ cl[c].tab # NULL /\ cl[c].pc = "dropping"
    BY CallTyped DEF DropString, HTInv, HTBase, Located, Changing
  <1>3. {p} \in SUBSET Strings
    BY <1>2 DEF CallRecs
  <1>4. /\ r \in CallRecs /\ r.pc = "dropping" /\ r.old = NULL /\ r.tab = cl[c].tab
        /\ r.key \in KeysOf[c] /\ r.ptrs = cl[c].ptrs \ {p}
    BY <1>2 DEF CallRecs
  <1>5. /\ cl' = [cl EXCEPT ![c] = r] /\ UNCHANGED <<tables, dead, nstr, calls, crashed>>
        /\ key_table_' \in [Keys -> Tables \cup {NULL}]
    BY <1>1 DEF DropString, HTInv, HTBase, HTTypeOK
  <1> HIDE DEF r
  <1>6. /\ HTTypeOK' /\ Located'
        /\ Tables' = Tables /\ Strings' = Strings /\ cl'[c] = r
        /\ \A d \in Clients \ {c} : cl'[d] = cl[d]
    BY <1>1, <1>2, <1>3, <1>4, <1>5, FreeStep
  <1>7. ASSUME Exclusive PROVE OwnedOnce'
    <2>1. OwnedOnce
      BY <1>7 DEF HTInv, HTBase
    <2>2. Dropping' = Dropping
      BY <1>2, <1>4, <1>6 DEF Dropping
    <2>3. /\ p \in Holds(c) /\ Holds(c)' = Holds(c) \ {p}
          /\ \A d \in Clients \ {c} : Holds(d)' = Holds(d)
      BY <1>2, <1>4, <1>6 DEF Holds
    <2>4. \A t \in Tables \ Dropping, f \in Fields : tables[t][f] \notin freed'
      BY <1>1, <2>1, <2>3 DEF OwnedOnce
    <2>5. \A d \in Clients : Holds(d)' \cap freed' = {}
      BY <1>1, <2>1, <2>3 DEF OwnedOnce
    <2>6. \A d, e \in Clients : d # e => Holds(d)' \cap Holds(e)' = {}
      BY <2>1, <2>3 DEF OwnedOnce
    <2>7. \A d \in Clients, t \in Tables \ Dropping, f \in Fields : tables[t][f] \notin Holds(d)'
      BY <2>1, <2>3 DEF OwnedOnce
    <2> QED
      BY <1>5, <1>6, <2>1, <2>2, <2>4, <2>5, <2>6, <2>7 DEF OwnedOnce
  <1> QED
    BY <1>6, <1>7 DEF HTBase

\* The table goes when its strings are gone.
LEMMA DropTableInv == ASSUME HTInv, NEW c \in Clients, DropTable(c) PROVE HTBase'
  <1> DEFINE t == cl[c].tab
             r == [cl[c] EXCEPT !.pc = "idle", !.status = kOK, !.old = NULL, !.tab = NULL]
  <1>1. cl[c] \in CallRecs /\ cl \in [Clients -> CallRecs] /\ cl[c].old = NULL
    BY CallTyped DEF DropTable
  <1>2. t \in Tables /\ tables \in Seq([Fields -> Strings \cup {NULL}])
    BY <1>1 DEF DropTable, HTInv, HTBase, HTTypeOK, Located, Changing, CallRecs
  <1>3. r \in CallRecs /\ r.pc = "idle" /\ r.old = NULL
    BY <1>1, ZenonT(30) DEF CallRecs, PCs
  <1>4. cl' = [cl EXCEPT ![c] = r]
    BY DEF DropTable, Done
  <1> HIDE DEF r
  <1>5. cl' \in [Clients -> CallRecs] /\ cl'[c] = r /\ \A d \in Clients \ {c} : cl'[d] = cl[d]
    BY <1>1, <1>3, <1>4
  <1>6. /\ tables' = [tables EXCEPT ![t] = EmptyTable]
        /\ dead' = dead \cup {t} /\ UNCHANGED <<key_table_, nstr, freed, calls, crashed>>
    BY DEF DropTable
  <1>7. EmptyTable \in [Fields -> Strings \cup {NULL}] /\ \A f \in Fields : EmptyTable[f] = NULL
    BY DEF EmptyTable
  <1>8. /\ tables' \in Seq([Fields -> Strings \cup {NULL}]) /\ Len(tables') = Len(tables)
        /\ tables'[t] = EmptyTable /\ \A u \in Tables : u # t => tables'[u] = tables[u]
    BY <1>2, <1>6, <1>7 DEF Tables
  <1>9. Tables' = Tables /\ Strings' = Strings
    BY <1>6, <1>8 DEF Tables, Strings
  <1> HIDE DEF t
  <1>10. HTTypeOK'
    BY <1>2, <1>5, <1>6, <1>8, <1>9 DEF HTInv, HTBase, HTTypeOK, CallRecs, PCs
  <1>11. Located'
    BY <1>3, <1>5 DEF HTInv, HTBase, Located, Changing
  <1>12. ASSUME Exclusive PROVE OwnedOnce'
    <2>1. OwnedOnce
      BY <1>12 DEF HTInv, HTBase
    <2>2. NULL \notin freed /\ \A d \in Clients : NULL \notin Holds(d)
      BY DEF HTInv, HTBase, HTTypeOK, Strings, Holds, NULL
    <2>3. Dropping \subseteq Dropping' \cup {t}
      BY <1>5 DEF Dropping, t
    <2>4. \A d \in Clients : Holds(d)' \subseteq Holds(d)
      BY <1>3, <1>5 DEF Holds
    <2>5. \A u \in Tables, f \in Fields :
             tables'[u][f] = NULL \/ (u # t /\ tables'[u][f] = tables[u][f])
      <3>1. ASSUME NEW u \in Tables, NEW f \in Fields
            PROVE  tables'[u][f] = NULL \/ (u # t /\ tables'[u][f] = tables[u][f])
        <4>1. CASE u = t
          <5>1. tables'[u] = EmptyTable
            BY <1>8, <4>1
          <5> QED
            BY <1>7, <5>1
        <4>2. CASE u # t
          BY <1>8, <4>2
        <4> QED
          BY <4>1, <4>2
      <3> QED
        BY <3>1
    <2>6. \A u \in Tables \ Dropping', f \in Fields :
             tables'[u][f] = NULL \/ (u \notin Dropping /\ tables'[u][f] = tables[u][f])
      BY <2>3, <2>5
    <2>7. \A u \in Tables \ Dropping', f \in Fields : tables'[u][f] \notin freed
      BY <2>1, <2>2, <2>6 DEF OwnedOnce
    <2>8. ASSUME NEW u \in Tables, NEW v \in Tables, NEW g \in Fields, NEW h \in Fields,
                 tables'[u][g] = tables'[v][h], tables'[u][g] # NULL
          PROVE  u = v /\ g = h
      BY <2>1, <2>5, <2>8 DEF OwnedOnce
    <2>9. \A d \in Clients, u \in Tables \ Dropping', f \in Fields :
             tables'[u][f] \notin Holds(d)'
      BY <2>1, <2>2, <2>4, <2>6 DEF OwnedOnce
    <2> QED
      BY <1>6, <1>9, <2>1, <2>4, <2>7, <2>8, <2>9 DEF OwnedOnce
  <1> QED
    BY <1>10, <1>11, <1>12 DEF HTBase

LEMMA BaseStep == ASSUME HTInv, [HTNext]_htVars PROVE HTBase'
  <1>1. ASSUME UNCHANGED <<key_table_, tables, dead, nstr, freed, cl, calls>>,
               crashed' \in BOOLEAN
        PROVE  HTBase'
    <2>1. HTTypeOK' /\ Located'
      BY <1>1 DEF HTInv, HTBase, HTTypeOK, Located, Tables, Strings
    <2>2. Dropping' = Dropping /\ \A d \in Clients : Holds(d)' = Holds(d)
      BY <1>1 DEF Dropping, Holds
    <2>3. Tables' = Tables
      BY <1>1 DEF Tables
    <2>4. ASSUME Exclusive PROVE OwnedOnce'
      BY <1>1, <2>2, <2>3, <2>4 DEF HTInv, HTBase, OwnedOnce
    <2> QED
      BY <2>1, <2>4 DEF HTBase
  <1>2. ASSUME NEW c \in Clients, Step(c) PROVE HTBase'
    <2>1. CASE UseDead(c)
      BY <1>1, <2>1 DEF UseDead
    <2> QED
      BY <1>2, <2>1, CallInv, PlaceInv, PutInv, InsertFieldInv, FillFieldInv, UpdateFieldInv,
         FreeOldInv, RemoveKeyInv, DropEntriesInv, DropStringInv, DropTableInv DEF Step
  <1>3. CASE UNCHANGED htVars
    BY <1>1, <1>3 DEF htVars, HTInv, HTBase, HTTypeOK
  <1> QED
    BY <1>2, <1>3 DEF HTNext

-----------------------------------------------------------------------------
(***************************************************************************)
(* Clients that share no keys stay apart.                                  *)
(***************************************************************************)
\* A step of client c that leaves the table of records alone, after which c has
\* the table it had or none.
LEMMA ApartLocal ==
    ASSUME HTInv, NEW c \in Clients, UNCHANGED key_table_,
           \A d \in Clients \ {c} : cl'[d] = cl[d],
           cl'[c].pc \in Changing =>
               cl[c].pc \in Changing /\ cl'[c].tab = cl[c].tab /\ cl'[c].key = cl[c].key
    PROVE  Apart'
  <1> SUFFICES ASSUME "Delete" \in Ops, Exclusive PROVE Apart'
    BY DEF Apart
  <1>1. \A d \in Clients : cl'[d].pc \in Changing =>
           cl[d].pc \in Changing /\ cl'[d].tab = cl[d].tab /\ cl'[d].key = cl[d].key
    OBVIOUS
  <1> QED
    BY <1>1 DEF HTInv, Apart

\* A step of client c after which c has the table its key leads to.
LEMMA ApartFound ==
    ASSUME HTInv, NEW c \in Clients, cl[c].pc \notin Changing \cup {"idle"},
           \A d \in Clients \ {c} : cl'[d] = cl[d],
           cl'[c].key = cl[c].key,
           cl'[c].tab = key_table_[cl[c].key], key_table_[cl[c].key] # NULL,
           \A k \in Keys : key_table_'[k] \in {key_table_[k], NULL}
    PROVE  Apart'
  <1> SUFFICES ASSUME "Delete" \in Ops, Exclusive PROVE Apart'
    BY DEF Apart
  <1>1. cl[c].key \in Keys /\ cl[c].key \in KeysOf[c]
    BY CallTyped
  <1>2. \A d \in Clients : cl[d].pc \in Changing =>
           cl[d].tab # NULL /\ cl[d].key \in KeysOf[d]
    BY DEF HTInv, HTBase, Located, Changing
  <1>3. ASSUME NEW d \in Clients, d # c, cl[d].pc \in Changing
        PROVE  cl[d].tab # key_table_[cl[c].key]
    BY <1>1, <1>2, <1>3 DEF HTInv, Apart, Exclusive
  <1>4. \A j, k \in Keys : key_table_'[j] = key_table_'[k] /\ key_table_'[j] # NULL => j = k
    BY DEF HTInv, Apart
  <1>5. ASSUME NEW d \in Clients, NEW k \in Keys, cl'[d].pc \in Changing,
               key_table_'[k] = cl'[d].tab
        PROVE  k = cl'[d].key
    <2>1. CASE d = c
      BY <1>1, <1>5, <2>1 DEF HTInv, Apart
    <2>2. CASE d # c
      BY <1>2, <1>5, <2>2 DEF HTInv, Apart
    <2> QED
      BY <2>1, <2>2
  <1>6. ASSUME NEW d \in Clients, NEW e \in Clients, cl'[d].pc \in Changing,
               cl'[e].pc \in Changing, cl'[d].tab = cl'[e].tab
        PROVE  d = e
    <2>1. CASE d # c /\ e # c
      BY <1>6, <2>1 DEF HTInv, Apart
    <2>2. CASE d = c \/ e = c
      BY <1>3, <1>6, <2>2
    <2> QED
      BY <2>1, <2>2
  <1> QED
    BY <1>4, <1>5, <1>6 DEF Apart

\* The table a client makes is nobody else's.
LEMMA ApartPut == ASSUME HTInv, NEW c \in Clients, Put(c) PROVE Apart'
  <1> SUFFICES ASSUME "Delete" \in Ops, Exclusive PROVE Apart'
    BY DEF Apart
  <1> DEFINE t == Len(tables) + 1
  <1>1. cl[c].key \in Keys
    BY CallTyped DEF Put
  <1>2. /\ t # NULL /\ \A k \in Keys : key_table_[k] # t
        /\ \A d \in Clients : cl[d].tab # t
    <2>1. Len(tables) \in Nat
      BY DEF HTInv, HTBase, HTTypeOK
    <2>2. \A k \in Keys : key_table_[k] \in (1 .. Len(tables)) \cup {0}
      BY DEF HTInv, HTBase, HTTypeOK, Tables, NULL
    <2>3. \A d \in Clients : cl[d].tab \in (1 .. Len(tables)) \cup {0}
      BY DEF HTInv, HTBase, HTTypeOK, Tables, NULL
    <2> QED
      BY <2>1, <2>2, <2>3 DEF NULL
  <1>3. /\ cl'[c].tab = t /\ cl'[c].key = cl[c].key
        /\ \A d \in Clients \ {c} : cl'[d] = cl[d]
    <2>1. cl \in [Clients -> CallRecs] /\ cl[c] \in CallRecs
      BY CallTyped
    <2> QED
      BY <2>1 DEF Put, CallRecs
  <1>4. \A k \in Keys : key_table_'[k] = key_table_[k]
                        \/ (k = cl[c].key /\ key_table_[k] = NULL /\ key_table_'[k] = t)
    <2>1. key_table_ \in [Keys -> Tables \cup {NULL}]
      BY DEF HTInv, HTBase, HTTypeOK
    <2>2. key_table_' = IF key_table_[cl[c].key] = NULL
                        THEN [key_table_ EXCEPT ![cl[c].key] = t] ELSE key_table_
      BY DEF Put, TableInsert
    <2> HIDE DEF t
    <2>3. CASE key_table_[cl[c].key] = NULL
      BY <1>1, <2>1, <2>2, <2>3
    <2>4. CASE key_table_[cl[c].key] # NULL
      BY <2>2, <2>4
    <2> QED
      BY <2>3, <2>4
  <1>5. \A d \in Clients : cl[d].pc \in Changing => cl[d].tab # NULL
    BY DEF HTInv, HTBase, Located
  <1> HIDE DEF t
  <1>6. \A j, k \in Keys : key_table_'[j] = key_table_'[k] /\ key_table_'[j] # NULL => j = k
    BY <1>2, <1>4 DEF HTInv, Apart
  <1>7. ASSUME NEW d \in Clients, NEW k \in Keys, cl'[d].pc \in Changing,
               key_table_'[k] = cl'[d].tab
        PROVE  k = cl'[d].key
    <2>1. CASE d = c
      BY <1>2, <1>3, <1>4, <1>7, <2>1
    <2>2. CASE d # c
      BY <1>2, <1>3, <1>4, <1>7, <2>2 DEF HTInv, Apart
    <2> QED
      BY <2>1, <2>2
  <1>8. ASSUME NEW d \in Clients, NEW e \in Clients, cl'[d].pc \in Changing,
               cl'[e].pc \in Changing, cl'[d].tab = cl'[e].tab
        PROVE  d = e
    <2>1. CASE d # c /\ e # c
      BY <1>3, <1>8, <2>1 DEF HTInv, Apart
    <2>2. CASE d = c \/ e = c
      BY <1>2, <1>3, <1>8, <2>2
    <2> QED
      BY <2>1, <2>2
  <1> QED
    BY <1>6, <1>7, <1>8 DEF Apart

LEMMA ApartStep == ASSUME HTInv, [HTNext]_htVars PROVE Apart'
  <1>1. ASSUME NEW c \in Clients, Step(c) PROVE Apart'
    <2>1. cl \in [Clients -> CallRecs] /\ cl[c] \in CallRecs
          /\ (cl[c].pc # "idle" => cl[c].key \in Keys)
          /\ key_table_ \in [Keys -> Tables \cup {NULL}]
      BY CallTyped DEF HTInv, HTBase, HTTypeOK
    <2>2. CASE Put(c)
      BY <2>2, ApartPut
    <2>3. CASE RemoveKey(c)
      <3>1. CASE key_table_[cl[c].key] = NULL
        <4>1. key_table_' = key_table_
          BY <2>1, <2>3, <3>1 DEF RemoveKey
        <4>2. cl'[c].pc = "idle" /\ \A d \in Clients \ {c} : cl'[d] = cl[d]
          BY <2>1, <2>3, <3>1 DEF RemoveKey, Done, CallRecs
        <4> QED
          BY <4>1, <4>2, ApartLocal DEF Changing
      <3>2. CASE key_table_[cl[c].key] # NULL
        <4>1. \A k \in Keys : key_table_'[k] \in {key_table_[k], NULL}
          BY <2>1, <2>3 DEF RemoveKey
        <4>2. /\ cl'[c].key = cl[c].key /\ cl'[c].tab = key_table_[cl[c].key]
              /\ \A d \in Clients \ {c} : cl'[d] = cl[d]
          BY <2>1, <2>3, <3>2 DEF RemoveKey, CallRecs
        <4> QED
          BY <2>3, <3>2, <4>1, <4>2, ApartFound DEF RemoveKey, Changing
      <3> QED
        BY <3>1, <3>2
    <2>4. CASE Find(c) /\ cl'[c].pc \in Changing
      <3>1. /\ cl'[c].key = cl[c].key /\ cl'[c].tab = key_table_[cl[c].key]
            /\ \A d \in Clients \ {c} : cl'[d] = cl[d]
            /\ key_table_[cl[c].key] # NULL /\ key_table_' = key_table_
            /\ cl[c].pc = "find"
        BY <2>1, <2>4 DEF Find, Done, CallRecs, Changing
      <3> QED
        BY <3>1, ApartFound DEF Changing
    <2>5. CASE Find(c) /\ cl'[c].pc \notin Changing
      <3>1. key_table_' = key_table_ /\ \A d \in Clients \ {c} : cl'[d] = cl[d]
        BY <2>1, <2>5 DEF Find, Done
      <3> QED
        BY <2>5, <3>1, ApartLocal
    <2>6. CASE Call(c)
      <3>1. key_table_' = key_table_ /\ cl'[c].pc = "find"
            /\ \A d \in Clients \ {c} : cl'[d] = cl[d]
        <4>1. PICK op, key, fields : Begin(c, op, key, fields)
          BY <2>6 DEF Call
        <4> QED
          BY <2>1, <4>1 DEF Begin, Idle
      <3> QED
        BY <3>1, ApartLocal DEF Changing
    <2>7. CASE FindRows(c) \/ NextRow(c) \/ GetField(c) \/ CopyOut(c) \/ Filled(c) \/ DropTable(c)
      <3>1. key_table_' = key_table_ /\ cl'[c].pc \in {"idle", "rows", "get", "copy"}
            /\ \A d \in Clients \ {c} : cl'[d] = cl[d]
        <4>1. CASE FindRows(c)
          BY <2>1, <4>1 DEF FindRows, CallRecs
        <4>2. CASE NextRow(c)
          <5>1. key_table_' = key_table_
            BY <4>2 DEF NextRow
          <5>2. CASE Done(c, kOK)
            BY <2>1, <5>1, <5>2 DEF Done, CallRecs
          <5>3. ASSUME NEW t, NEW R,
                       cl' = [cl EXCEPT ![c].pc = "get", ![c].tab = t, ![c].rows = R]
                PROVE  cl'[c].pc = "get" /\ \A d \in Clients \ {c} : cl'[d] = cl[d]
            BY <2>1, <5>3 DEF CallRecs
          <5> QED
            BY <4>2, <5>1, <5>2, <5>3 DEF NextRow
        <4>3. CASE GetField(c)
          BY <2>1, <4>3 DEF GetField, CallRecs
        <4>4. CASE CopyOut(c)
          <5>1. key_table_' = key_table_ /\ cl[c].pc = "copy"
            BY <4>4 DEF CopyOut
          <5>2. CASE cl' = [cl EXCEPT ![c].pc = "rows"]
            BY <2>1, <5>1, <5>2 DEF CallRecs
          <5>3. ASSUME NEW P, NEW G, cl' = [cl EXCEPT ![c].ptrs = P, ![c].got = G]
                PROVE  cl'[c].pc = "copy" /\ \A d \in Clients \ {c} : cl'[d] = cl[d]
            BY <2>1, <5>1, <5>3 DEF CallRecs
          <5>4. \/ cl' = [cl EXCEPT ![c].pc = "rows"]
                \/ \E P, G : cl' = [cl EXCEPT ![c].ptrs = P, ![c].got = G]
            BY <4>4 DEF CopyOut
          <5> QED
            BY <5>1, <5>2, <5>3, <5>4
        <4>5. CASE Filled(c) \/ DropTable(c)
          BY <2>1, <4>5 DEF Filled, DropTable, Done, CallRecs
        <4> QED
          BY <2>7, <4>1, <4>2, <4>3, <4>4, <4>5
      <3> QED
        BY <3>1, ApartLocal DEF Changing
    <2>8. CASE InsertField(c) \/ FillField(c) \/ UpdateField(c) \/ FreeOld(c)
               \/ DropEntries(c) \/ DropString(c)
      <3>1. key_table_' = key_table_ /\ cl[c].pc \in Changing
            /\ (cl'[c].pc # "idle" => cl'[c].tab = cl[c].tab /\ cl'[c].key = cl[c].key)
            /\ \A d \in Clients \ {c} : cl'[d] = cl[d]
        <4>1. CASE InsertField(c)
          BY <2>1, <4>1 DEF InsertField, Done, CallRecs, Changing
        <4>2. CASE FillField(c)
          BY <2>1, <4>2 DEF FillField, CallRecs, Changing
        <4>3. CASE UpdateField(c)
          BY <2>1, <4>3 DEF UpdateField, CallRecs, Changing
        <4>4. CASE FreeOld(c) \/ DropEntries(c) \/ DropString(c)
          BY <2>1, <4>4 DEF FreeOld, DropEntries, DropString, CallRecs, Changing
        <4> QED
          BY <2>8, <4>1, <4>2, <4>3, <4>4
      <3> QED
        BY <3>1, ApartLocal DEF Changing
    <2>9. CASE UseDead(c)
      BY <2>9, ApartLocal DEF UseDead
    <2> QED
      BY <1>1, <2>2, <2>3, <2>4, <2>5, <2>6, <2>7, <2>8, <2>9 DEF Step
  <1>2. CASE UNCHANGED htVars
    BY <1>2 DEF htVars, HTInv, Apart
  <1> QED
    BY <1>1, <1>2 DEF HTNext

-----------------------------------------------------------------------------
\* The invariant is inductive.
THEOREM HTInductive == HTSpec => []HTInv
  <1>1. HTInv /\ [HTNext]_htVars => HTInv'
    BY BaseStep, ApartStep DEF HTInv
  <1> QED
    BY <1>1, HTInitInv, PTL DEF HTSpec

\* The database's variables keep their types.
THEOREM HTTypeCorrect == HTSpec => []HTTypeOK
  <1>1. HTInv => HTTypeOK
    BY DEF HTInv, HTBase
  <1> QED
    BY <1>1, HTInductive, PTL

\* No interleaving of clients deletes a string twice or while a field has it, when
\* nobody calls Delete or no two clients share keys.
THEOREM StringsOwnedOnce == HTSpec => [](Exclusive => OwnedOnce)
  <1>1. HTInv => (Exclusive => OwnedOnce)
    BY DEF HTInv, HTBase
  <1> QED
    BY <1>1, HTInductive, PTL

LEMMA KeptStep ==
    ASSUME HTInv, [HTNext]_htVars
    PROVE  [\A k \in Keys : key_table_[k] # NULL =>
                key_table_'[k] \in {key_table_[k], NULL}]_htVars
  <1>1. ASSUME NEW c \in Clients, Step(c), NEW k \in Keys, key_table_[k] # NULL
        PROVE  key_table_'[k] \in {key_table_[k], NULL}
    <2>1. key_table_ \in [Keys -> Tables \cup {NULL}]
      BY DEF HTInv, HTBase, HTTypeOK
    <2>2. CASE Put(c)
      BY <1>1, <2>1, <2>2 DEF Put, TableInsert
    <2>3. CASE RemoveKey(c)
      BY <1>1, <2>1, <2>3 DEF RemoveKey
    <2>4. CASE Call(c)
      BY <2>4 DEF Call, Begin
    <2> QED
      BY <1>1, <2>2, <2>3, <2>4
      DEF Step, Find, FindRows, NextRow, GetField, CopyOut, Filled, InsertField, FillField,
          UpdateField, FreeOld, DropEntries, DropString, DropTable, UseDead
  <1> QED
    BY <1>1 DEF HTNext

\* No record is replaced by another: it keeps its table until it is deleted.
THEOREM RecordsKept == HTSpec => RecordKept
  BY HTInductive, KeptStep, PTL DEF HTSpec, RecordKept

-----------------------------------------------------------------------------
(***************************************************************************)
(* Every write reaches its record, but for the loser of a race to enter    *)
(* it; and no string of clients with keys of their own is lost.            *)
(***************************************************************************)

\* No two clients ask for the same key.
Own == \A c, d \in Clients : c # d => KeysOf[c] \cap KeysOf[d] = {}

\* Each record has a table of its own; a client that writes has the table its
\* key leads to, and where it found no record, or has removed it, there is none.
Reached ==
    /\ \A j, k \in Keys : key_table_[j] = key_table_[k] /\ key_table_[j] # NULL => j = k
    /\ \A c \in Clients :
          /\ cl[c].pc \in {"ins", "fill", "upd", "updins", "free"} =>
                key_table_[cl[c].key] = cl[c].tab
          /\ cl[c].pc \in {"put", "drop", "dropping"} => key_table_[cl[c].key] = NULL

\* The state every other client finds is changed at the client's own key only.
LEMMA OthersKept ==
    ASSUME HTInv, NEW c \in Clients, Step(c)
    PROVE  /\ \A d \in Clients \ {c} : cl'[d] = cl[d]
           /\ \A k \in Keys : k # cl[c].key => key_table_'[k] = key_table_[k]
           /\ cl[c].pc \notin {"find", "put"} => key_table_' = key_table_
           /\ cl[c].pc = "idle" => key_table_' = key_table_
  <1>1. cl \in [Clients -> CallRecs] /\ key_table_ \in [Keys -> Tables \cup {NULL}]
        /\ (cl[c].pc # "idle" => cl[c].key \in Keys)
    BY CallTyped DEF HTInv, HTBase, HTTypeOK
  <1>2. CASE Call(c) \/ Find(c) \/ FindRows(c) \/ NextRow(c) \/ GetField(c) \/ CopyOut(c)
    BY <1>1, <1>2 DEF Call, Begin, Find, FindRows, NextRow, GetField, CopyOut, Done
  <1>3. CASE Put(c)
    BY <1>1, <1>3 DEF Put, TableInsert
  <1>4. CASE Filled(c) \/ InsertField(c) \/ FillField(c) \/ UpdateField(c) \/ FreeOld(c)
    BY <1>1, <1>4 DEF Filled, InsertField, FillField, UpdateField, FreeOld, Done
  <1>5. CASE RemoveKey(c)
    BY <1>1, <1>5 DEF RemoveKey, Done
  <1>6. CASE DropEntries(c) \/ DropString(c) \/ DropTable(c) \/ UseDead(c)
    BY <1>1, <1>6 DEF DropEntries, DropString, DropTable, UseDead, Done
  <1> QED
    BY <1>2, <1>3, <1>4, <1>5, <1>6 DEF Step

\* The steps of Read and Scan change nothing but their own call.
LEMMA ReadStep ==
    ASSUME HTInv, NEW c \in Clients, FindRows(c) \/ NextRow(c) \/ GetField(c) \/ CopyOut(c)
    PROVE  /\ UNCHANGED <<key_table_, tables, dead, nstr, freed>>
           /\ cl[c].pc \in {"find", "rows", "get", "copy"}
           /\ cl'[c].pc \in {"idle", "rows", "get", "copy"}
  <1>1. cl \in [Clients -> CallRecs] /\ cl[c] \in CallRecs
    BY CallTyped
  <1>2. /\ UNCHANGED <<key_table_, tables, dead, nstr, freed>>
        /\ cl[c].pc \in {"find", "rows", "get", "copy"}
    BY DEF FindRows, NextRow, GetField, CopyOut
  <1>3. CASE FindRows(c) \/ GetField(c)
    BY <1>1, <1>2, <1>3 DEF FindRows, GetField, CallRecs
  <1>4. CASE NextRow(c)
    <2>1. CASE Done(c, kOK)
      BY <1>1, <1>2, <2>1 DEF Done, CallRecs
    <2>2. ASSUME NEW t, NEW R, cl' = [cl EXCEPT ![c].pc = "get", ![c].tab = t, ![c].rows = R]
          PROVE  cl'[c].pc = "get"
      BY <1>1, <2>2 DEF CallRecs
    <2>3. \/ Done(c, kOK)
          \/ \E t, R : cl' = [cl EXCEPT ![c].pc = "get", ![c].tab = t, ![c].rows = R]
      BY <1>4 DEF NextRow
    <2> QED
      BY <1>2, <2>1, <2>2, <2>3
  <1>5. CASE CopyOut(c)
    <2>1. CASE cl' = [cl EXCEPT ![c].pc = "rows"]
      BY <1>1, <1>2, <2>1 DEF CallRecs
    <2>2. ASSUME NEW P, NEW G, cl' = [cl EXCEPT ![c].ptrs = P, ![c].got = G]
          PROVE  cl'[c].pc = cl[c].pc
      BY <1>1, <2>2 DEF CallRecs
    <2>3. /\ cl[c].pc = "copy"
          /\ \/ cl' = [cl EXCEPT ![c].pc = "rows"]
             \/ \E P, G : cl' = [cl EXCEPT ![c].ptrs = P, ![c].got = G]
      BY <1>5 DEF CopyOut
    <2> QED
      BY <1>2, <2>1, <2>2, <2>3
  <1> QED
    BY <1>3, <1>4, <1>5

\* Where a step that leaves the table of records alone takes its client.
LEMMA PlaceStep ==
    ASSUME HTInv, NEW c \in Clients, Step(c), ~Put(c), ~RemoveKey(c)
    PROVE  /\ key_table_' = key_table_
           /\ \/ cl'[c].pc \in {"idle", "find", "rows", "get", "copy"}
              \/ /\ cl'[c].pc = "put" /\ cl'[c].key = cl[c].key
                 /\ key_table_[cl[c].key] = NULL
              \/ /\ cl'[c].pc \in {"ins", "upd"} /\ cl'[c].key = cl[c].key
                 /\ cl'[c].tab = key_table_[cl[c].key]
              \/ /\ cl[c].pc \in {"ins", "fill", "upd", "updins", "free"}
                 /\ cl'[c].pc \in {"ins", "fill", "upd", "updins", "free"}
                 /\ cl'[c].key = cl[c].key /\ cl'[c].tab = cl[c].tab
              \/ /\ cl[c].pc \in {"drop", "dropping"} /\ cl'[c].pc = "dropping"
                 /\ cl'[c].key = cl[c].key /\ cl'[c].tab = cl[c].tab
              \/ cl'[c] = cl[c]
  <1>1. cl \in [Clients -> CallRecs] /\ cl[c] \in CallRecs
    BY CallTyped
  <1>2. CASE Call(c)
    <2>1. PICK op, key, fields : Begin(c, op, key, fields)
      BY <1>2 DEF Call
    <2> QED
      BY <1>1, <2>1 DEF Begin, Idle
  <1>3. CASE Find(c)
    BY <1>1, <1>3 DEF Find, Done, CallRecs
  <1>4. CASE FindRows(c) \/ NextRow(c) \/ GetField(c) \/ CopyOut(c)
    BY <1>4, ReadStep
  <1>5. CASE Filled(c) \/ DropTable(c) \/ UseDead(c)
    BY <1>1, <1>5 DEF Filled, DropTable, UseDead, Done, CallRecs
  <1>6. CASE InsertField(c)
    BY <1>1, <1>6 DEF InsertField, Done, CallRecs
  <1>7. CASE FillField(c)
    BY <1>1, <1>7 DEF FillField, CallRecs
  <1>8. CASE UpdateField(c)
    BY <1>1, <1>8 DEF UpdateField, CallRecs
  <1>9. CASE FreeOld(c) \/ DropEntries(c) \/ DropString(c)
    BY <1>1, <1>9 DEF FreeOld, DropEntries, DropString, CallRecs
  <1> QED
    BY <1>2, <1>3, <1>4, <1>5, <1>6, <1>7, <1>8, <1>9 DEF Step

LEMMA ReachedStep ==
    ASSUME HTInv, Reached, Own, NEW c \in Clients, Step(c)
    PROVE  Reached'
  <1>1. cl \in [Clients -> CallRecs] /\ cl[c] \in CallRecs
        /\ key_table_ \in [Keys -> Tables \cup {NULL}]
        /\ \A d \in Clients : cl[d].pc # "idle" => cl[d].key \in KeysOf[d] /\ cl[d].key \in Keys
    BY CallTyped DEF HTInv, HTBase, HTTypeOK
  <1>2. /\ \A j, k \in Keys : key_table_'[j] = key_table_'[k] /\ key_table_'[j] # NULL => j = k
        /\ cl'[c].pc \in {"ins", "fill", "upd", "updins", "free"} =>
              key_table_'[cl'[c].key] = cl'[c].tab
        /\ cl'[c].pc \in {"put", "drop", "dropping"} => key_table_'[cl'[c].key] = NULL
    <2>0. /\ \A j, k \in Keys : key_table_[j] = key_table_[k] /\ key_table_[j] # NULL => j = k
          /\ cl[c].pc \in {"ins", "fill", "upd", "updins", "free"} =>
                key_table_[cl[c].key] = cl[c].tab
          /\ cl[c].pc \in {"put", "drop", "dropping"} => key_table_[cl[c].key] = NULL
      BY DEF Reached
    <2>1. CASE Put(c)
      <3>1. \A k \in Keys : key_table_[k] # Len(tables) + 1
        BY <1>1 DEF Tables, NULL, HTInv, HTBase, HTTypeOK
      <3>2. key_table_' = [key_table_ EXCEPT ![cl[c].key] = Len(tables) + 1]
        BY <2>0, <2>1 DEF Put, TableInsert
      <3>3. cl'[c].pc \in {"ins", "fill"} /\ cl'[c].key = cl[c].key /\ cl'[c].tab = Len(tables) + 1
        BY <1>1, <2>1 DEF Put, CallRecs
      <3>4. cl[c].key \in Keys
        BY <1>1, <2>1 DEF Put
      <3> QED
        BY <1>1, <2>0, <3>1, <3>2, <3>3, <3>4
    <2>2. CASE RemoveKey(c)
      <3>1. key_table_' = [key_table_ EXCEPT ![cl[c].key] = NULL] /\ cl[c].key \in Keys
        BY <1>1, <2>2 DEF RemoveKey
      <3>2. cl'[c].pc \in {"idle", "drop"} /\ cl'[c].key = cl[c].key
        BY <1>1, <2>2 DEF RemoveKey, Done, CallRecs
      <3> QED
        BY <1>1, <2>0, <3>1, <3>2
    <2>3. CASE ~Put(c) /\ ~RemoveKey(c)
      BY <2>0, <2>3, PlaceStep
    <2> QED
      BY <2>1, <2>2, <2>3
  <1>3. ASSUME NEW d \in Clients, d # c
        PROVE  /\ cl'[d].pc \in {"ins", "fill", "upd", "updins", "free"} =>
                     key_table_'[cl'[d].key] = cl'[d].tab
               /\ cl'[d].pc \in {"put", "drop", "dropping"} => key_table_'[cl'[d].key] = NULL
    <2>1. cl'[d] = cl[d]
      BY <1>3, OthersKept
    <2>2. cl[d].pc # "idle" => key_table_'[cl[d].key] = key_table_[cl[d].key]
      <3>1. CASE cl[c].pc = "idle"
        BY <3>1, OthersKept
      <3>2. CASE cl[c].pc # "idle" /\ cl[d].pc # "idle"
        <4>1. cl[d].key # cl[c].key /\ cl[d].key \in Keys
          BY <1>1, <1>3, <3>2 DEF Own
        <4> QED
          BY <4>1, OthersKept
      <3> QED
        BY <3>1, <3>2
    <2> QED
      BY <2>1, <2>2 DEF Reached
  <1> QED
    BY <1>2, <1>3 DEF Reached

\* Where nobody calls Delete, and clients share keys: a client that writes has the
\* table its key leads to, or one that came second and is its own alone.
Placed ==
    \A c \in Clients :
        /\ cl[c].pc \in {"upd", "updins", "free"} => key_table_[cl[c].key] = cl[c].tab
        /\ cl[c].pc \in {"ins", "fill"} =>
              key_table_[cl[c].key] = cl[c].tab \/ LostRace(c)

\* The tables a client has come from the table of records, or from its Put.
LEMMA TabsStep ==
    ASSUME HTInv, NEW c \in Clients, Step(c), ~Put(c), ~RemoveKey(c)
    PROVE  /\ \/ cl'[c].tab \in {NULL, cl[c].tab} \cup cl[c].rows
              \/ \E k \in Keys : cl'[c].tab = key_table_[k]
           /\ \A t \in cl'[c].rows : t \in cl[c].rows \/ \E k \in Keys : t = key_table_[k]
  <1>1. cl \in [Clients -> CallRecs] /\ cl[c] \in CallRecs
        /\ (cl[c].pc # "idle" => cl[c].key \in Keys)
    BY CallTyped
  <1>2. CASE Call(c)
    <2>1. PICK op, key, fields : Begin(c, op, key, fields)
      BY <1>2 DEF Call
    <2>2. cl'[c].tab = NULL /\ cl'[c].rows = {}
      BY <1>1, <2>1 DEF Begin, Idle
    <2> QED
      BY <2>2
  <1>3. CASE Find(c)
    <2>1. \/ cl'[c].tab \in {NULL, cl[c].tab, key_table_[cl[c].key]}
             /\ cl'[c].rows \in {cl[c].rows, {key_table_[cl[c].key]}}
      BY <1>1, <1>3 DEF Find, Done, CallRecs
    <2> QED
      BY <1>1, <1>3, <2>1 DEF Find
  <1>4. CASE FindRows(c)
    <2>1. PICK rows \in SUBSET ({key_table_[k] : k \in Keys} \ {NULL}) :
             cl' = [cl EXCEPT ![c].pc = "rows", ![c].rows = rows]
      BY <1>4 DEF FindRows, Entries
    <2>2. cl'[c].tab = cl[c].tab /\ cl'[c].rows = rows
      BY <1>1, <2>1 DEF CallRecs
    <2> QED
      BY <2>1, <2>2
  <1>5. CASE NextRow(c)
    <2>1. Done(c, kOK) => cl'[c].tab = NULL /\ cl'[c].rows = cl[c].rows
      BY <1>1 DEF Done, CallRecs
    <2> DEFINE Take(t, R) == cl' = [cl EXCEPT ![c].pc = "get", ![c].tab = t, ![c].rows = R]
    <2>2. ASSUME NEW t, NEW R, Take(t, R)
          PROVE  cl'[c].tab = t /\ cl'[c].rows = R
      BY <1>1, <2>2 DEF CallRecs
    <2>3. Done(c, kOK) \/ \E t \in cl[c].rows : \E R : R = cl[c].rows \ {t} /\ Take(t, R)
      BY <1>5, Zenon DEF NextRow
    <2> HIDE DEF Take
    <2>4. CASE \E t \in cl[c].rows : \E R : R = cl[c].rows \ {t} /\ Take(t, R)
      <3>1. PICK t \in cl[c].rows : \E R : R = cl[c].rows \ {t} /\ Take(t, R)
        BY <2>4
      <3>2. cl'[c].tab = t /\ cl'[c].rows = cl[c].rows \ {t}
        BY <2>2, <3>1
      <3> QED
        BY <3>2
    <2> QED
      BY <2>1, <2>3, <2>4
  <1>6. CASE GetField(c)
    BY <1>1, <1>6 DEF GetField, CallRecs
  <1>7. CASE CopyOut(c)
    <2>1. cl' = [cl EXCEPT ![c].pc = "rows"] => cl'[c].tab = cl[c].tab /\ cl'[c].rows = cl[c].rows
      BY <1>1 DEF CallRecs
    <2> DEFINE Copy(P, G) == cl' = [cl EXCEPT ![c].ptrs = P, ![c].got = G]
    <2>2. ASSUME NEW P, NEW G, Copy(P, G)
          PROVE  cl'[c].tab = cl[c].tab /\ cl'[c].rows = cl[c].rows
      BY <1>1, <2>2 DEF CallRecs
    <2>3. cl' = [cl EXCEPT ![c].pc = "rows"] \/ \E P, G : Copy(P, G)
      BY <1>7 DEF CopyOut
    <2> HIDE DEF Copy
    <2>4. cl'[c].tab = cl[c].tab /\ cl'[c].rows = cl[c].rows
      BY <2>1, <2>2, <2>3
    <2> QED
      BY <2>4
  <1>8. CASE Filled(c) \/ DropTable(c) \/ UseDead(c)
    <2>1. UNCHANGED cl \/ Done(c, kOK)
      BY <1>8 DEF Filled, DropTable, UseDead
    <2>2. Done(c, kOK) => cl'[c].tab = NULL /\ cl'[c].rows = cl[c].rows
      BY <1>1 DEF Done, CallRecs
    <2>3. cl'[c].tab \in {NULL, cl[c].tab} /\ cl'[c].rows = cl[c].rows
      BY <2>1, <2>2
    <2> QED
      BY <2>3
  <1>9. CASE InsertField(c)
    BY <1>1, <1>9 DEF InsertField, Done, CallRecs
  <1>10. CASE FillField(c)
    BY <1>1, <1>10 DEF FillField, CallRecs
  <1>11. CASE UpdateField(c)
    BY <1>1, <1>11 DEF UpdateField, CallRecs
  <1>12. CASE FreeOld(c) \/ DropEntries(c) \/ DropString(c)
    <2>1. CASE FreeOld(c)
      BY <1>1, <2>1 DEF FreeOld, CallRecs
    <2>2. CASE DropEntries(c)
      BY <1>1, <2>2 DEF DropEntries, CallRecs
    <2>3. CASE DropString(c)
      BY <1>1, <2>3 DEF DropString, CallRecs
    <2> QED
      BY <1>12, <2>1, <2>2, <2>3
  <1> QED
    BY <1>2, <1>3, <1>4, <1>5, <1>6, <1>7, <1>8, <1>9, <1>10, <1>11, <1>12 DEF Step

\* A client that inserts fields goes on doing so, and one that updates them too.
LEMMA WriteStep ==
    ASSUME HTInv, NEW c \in Clients, Step(c)
    PROVE  /\ cl[c].pc \in {"ins", "fill"} => cl'[c].pc \in {"idle", cl[c].pc}
           /\ cl[c].pc \in {"upd", "updins", "free"} => cl'[c].pc \notin {"ins", "fill"}
  <1>1. cl \in [Clients -> CallRecs] /\ cl[c] \in CallRecs
    BY CallTyped
  <1>2. CASE Call(c)
    <2>1. PICK op, key, fields : Begin(c, op, key, fields)
      BY <1>2 DEF Call
    <2> QED
      BY <2>1 DEF Begin
  <1>3. CASE FindRows(c) \/ NextRow(c) \/ GetField(c) \/ CopyOut(c)
    BY <1>3, ReadStep
  <1>9. CASE Find(c) \/ Put(c) \/ RemoveKey(c) \/ DropEntries(c) \/ DropString(c) \/ DropTable(c)
    <2>1. cl[c].pc \in {"find", "put", "drop", "dropping"}
      <3>1. Find(c) => cl[c].pc = "find"
        BY DEF Find
      <3>2. Put(c) => cl[c].pc = "put"
        BY DEF Put
      <3>3. RemoveKey(c) => cl[c].pc = "find"
        BY DEF RemoveKey
      <3>4. DropEntries(c) => cl[c].pc = "drop"
        BY DEF DropEntries
      <3>5. DropString(c) \/ DropTable(c) => cl[c].pc = "dropping"
        BY DEF DropString, DropTable
      <3> QED
        BY <1>9, <3>1, <3>2, <3>3, <3>4, <3>5
    <2> QED
      BY <2>1
  <1>4. CASE Filled(c) \/ UseDead(c)
    BY <1>1, <1>4 DEF Filled, UseDead, Done, CallRecs
  <1>5. CASE InsertField(c)
    BY <1>1, <1>5 DEF InsertField, Done, CallRecs
  <1>6. CASE FillField(c)
    BY <1>1, <1>6 DEF FillField, CallRecs
  <1>7. CASE UpdateField(c)
    BY <1>1, <1>7 DEF UpdateField, CallRecs
  <1>8. CASE FreeOld(c)
    BY <1>1, <1>8 DEF FreeOld, CallRecs
  <1> QED
    BY <1>2, <1>3, <1>4, <1>5, <1>6, <1>7, <1>8, <1>9 DEF Step

LEMMA PlacedStep ==
    ASSUME HTInv, Placed, "Delete" \notin Ops, NEW c \in Clients, Step(c)
    PROVE  Placed'
  <1>1. /\ cl \in [Clients -> CallRecs] /\ cl[c] \in CallRecs
        /\ key_table_ \in [Keys -> Tables \cup {NULL}]
        /\ (cl[c].pc # "idle" => cl[c].key \in Keys)
    BY CallTyped DEF HTInv, HTBase, HTTypeOK
  <1>2. ~RemoveKey(c)
    BY <1>1 DEF RemoveKey, CallRecs
  <1>3. \A d \in Clients \ {c} : cl'[d] = cl[d]
    BY OthersKept
  <1>4. Len(tables) \in Nat
    BY DEF HTInv, HTBase, HTTypeOK
  <1>5. CASE Put(c)
    <2> DEFINE t == Len(tables) + 1
    <2>1. \A k \in Keys : key_table_[k] \in (1 .. Len(tables)) \cup {0}
      BY <1>1 DEF Tables, NULL
    <2>2. \A d \in Clients : cl[d].tab \in (1 .. Len(tables)) \cup {0}
                             /\ cl[d].rows \subseteq 1 .. Len(tables)
      BY <1>1 DEF CallRecs, Tables, NULL
    <2>3. cl'[c].pc \in {"ins", "fill"} /\ cl'[c].key = cl[c].key /\ cl'[c].tab = t
          /\ cl'[c].rows = cl[c].rows /\ cl[c].key \in Keys
      BY <1>1, <1>5 DEF Put, CallRecs
    <2>4. key_table_' = IF key_table_[cl[c].key] = NULL
                        THEN [key_table_ EXCEPT ![cl[c].key] = t] ELSE key_table_
      BY <1>5 DEF Put, TableInsert
    <2> HIDE DEF t
    <2>5. key_table_[cl[c].key] = NULL =>
             key_table_'[cl[c].key] = t /\ \A k \in Keys \ {cl[c].key} : key_table_'[k] = key_table_[k]
      BY <1>1, <2>3, <2>4
    <2>6. key_table_[cl[c].key] # NULL => key_table_' = key_table_
      BY <2>4
    <2>7. t = Len(tables) + 1
      BY DEF t
    <2>8. key_table_'[cl'[c].key] = cl'[c].tab \/ LostRace(c)'
      <3>1. CASE key_table_[cl[c].key] = NULL
        BY <2>3, <2>5, <3>1
      <3>2. CASE key_table_[cl[c].key] # NULL
        <4>1. key_table_[cl[c].key] \in 1 .. t - 1
          BY <1>4, <2>1, <2>3, <2>7, <3>2 DEF NULL
        <4>2. \A k \in Keys : key_table_[k] # t
          BY <1>4, <2>1, <2>7
        <4>3. \A d \in Clients \ {c} : t # cl[d].tab /\ t \notin cl[d].rows
          BY <1>4, <2>2, <2>7
        <4> QED
          BY <1>3, <2>3, <2>6, <3>2, <4>1, <4>2, <4>3 DEF LostRace
      <3> QED
        BY <3>1, <3>2
    <2>9. ASSUME NEW d \in Clients, d # c
          PROVE  /\ cl'[d].pc \in {"upd", "updins", "free"} => key_table_'[cl'[d].key] = cl'[d].tab
                 /\ cl'[d].pc \in {"ins", "fill"} =>
                       key_table_'[cl'[d].key] = cl'[d].tab \/ LostRace(d)'
      <3>1. cl'[d] = cl[d]
        BY <1>3, <2>9
      <3>2. cl[d].pc \in Changing => cl[d].key \in Keys /\ cl[d].tab # NULL
        BY CallTyped DEF HTInv, HTBase, Located, Changing
      <3>3. ASSUME cl[d].pc \in Changing, key_table_[cl[d].key] = cl[d].tab
            PROVE  key_table_'[cl[d].key] = cl[d].tab
        BY <2>5, <2>6, <3>2, <3>3
      <3>4. ASSUME cl[d].pc \in Changing, LostRace(d) PROVE LostRace(d)'
        <4>1. key_table_[cl[d].key] # NULL
          BY <1>1, <2>2, <3>4 DEF LostRace, NULL
        <4>2. key_table_'[cl[d].key] = key_table_[cl[d].key]
          BY <2>5, <2>6, <3>2, <3>4, <4>1
        <4>3. cl[d].tab # t
          BY <1>4, <2>2, <2>7
        <4>4. \A k \in Keys : key_table_'[k] # cl[d].tab
          BY <2>5, <2>6, <3>4, <4>3 DEF LostRace
        <4>5. cl[d].tab \notin cl'[c].rows /\ cl[d].tab # cl'[c].tab
          BY <2>3, <2>9, <3>4, <4>3 DEF LostRace
        <4>6. \A e \in Clients \ {d} : cl[d].tab # cl'[e].tab /\ cl[d].tab \notin cl'[e].rows
          BY <1>3, <3>4, <4>5 DEF LostRace
        <4> QED
          BY <3>1, <3>4, <4>2, <4>4, <4>6 DEF LostRace
      <3> QED
        BY <3>1, <3>3, <3>4 DEF Placed, Changing
    <2> QED
      BY <2>3, <2>8, <2>9 DEF Placed
  <1>6. CASE ~Put(c)
    <2>1. key_table_' = key_table_
      BY <1>2, <1>6, PlaceStep
    <2>2. /\ \/ cl'[c].tab \in {NULL, cl[c].tab} \cup cl[c].rows
             \/ \E k \in Keys : cl'[c].tab = key_table_[k]
          /\ \A t \in cl'[c].rows : t \in cl[c].rows \/ \E k \in Keys : t = key_table_[k]
      BY <1>2, <1>6, TabsStep
    <2>3. ASSUME NEW d \in Clients, d # c, cl[d].pc \in {"ins", "fill"}, LostRace(d)
          PROVE  LostRace(d)'
      <3>1. cl[d].tab # NULL
        BY <2>3 DEF HTInv, HTBase, Located, Changing
      <3>2. cl[d].tab # cl'[c].tab /\ cl[d].tab \notin cl'[c].rows
        BY <2>2, <2>3, <3>1 DEF LostRace
      <3>3. \A e \in Clients \ {d} : cl[d].tab # cl'[e].tab /\ cl[d].tab \notin cl'[e].rows
        BY <1>3, <2>3, <3>2 DEF LostRace
      <3> QED
        BY <1>3, <2>1, <2>3, <3>3 DEF LostRace
    <2>4. ASSUME LostRace(c), cl'[c].pc \in {"ins", "fill"}, cl[c].pc \in {"ins", "fill"},
                 cl'[c].key = cl[c].key, cl'[c].tab = cl[c].tab
          PROVE  LostRace(c)'
      BY <1>3, <2>1, <2>4 DEF LostRace
    <2>5. /\ cl'[c].pc \in {"upd", "updins", "free"} => key_table_[cl'[c].key] = cl'[c].tab
          /\ cl'[c].pc \in {"ins", "fill"} =>
                key_table_[cl'[c].key] = cl'[c].tab \/ LostRace(c)'
      <3>1. /\ cl[c].pc \in {"ins", "fill"} /\ cl'[c].pc \in {"upd", "updins", "free"} => FALSE
            /\ cl'[c].pc \in {"ins", "fill"} /\ cl[c].pc \in {"upd", "updins", "free"} => FALSE
        BY <1>1, <1>2, <1>6, WriteStep
      <3>2. CASE cl[c].pc \in {"ins", "fill", "upd", "updins", "free"}
                 /\ cl'[c].pc \in {"ins", "fill", "upd", "updins", "free"}
        <4>1. cl'[c].key = cl[c].key
              /\ (cl'[c].tab = cl[c].tab \/ cl'[c].tab = key_table_[cl[c].key])
          BY <1>2, <1>6, <3>2, PlaceStep
        <4> QED
          BY <2>4, <3>1, <3>2, <4>1 DEF Placed
      <3>3. CASE cl[c].pc \notin {"ins", "fill", "upd", "updins", "free"}
                 /\ cl'[c].pc \in {"ins", "fill", "upd", "updins", "free"}
        <4>1. cl'[c].key = cl[c].key /\ cl'[c].tab = key_table_[cl[c].key]
          BY <1>2, <1>6, <3>3, PlaceStep
        <4> QED
          BY <4>1
      <3> QED
        BY <3>2, <3>3
    <2> QED
      BY <1>3, <2>1, <2>3, <2>5 DEF Placed, LostRace
  <1> QED
    BY <1>5, <1>6

\* A write reaches the record of its key, however many clients look up, enter and
\* write one record at once: the only table written to that no key leads to is the
\* one of a client that lost the race to enter it, and nobody else has that. With
\* Delete, this asks that no two clients share keys.
THEOREM WritesReachTheirRecord ==
    ASSUME Exclusive
    PROVE  HTSpec => []WritesReachRecord
  <1> DEFINE WInv == IF "Delete" \in Ops THEN Reached ELSE Placed
  <1>1. HTInit => WInv
    BY DEF HTInit, Reached, Placed, Idle
  <1>2. HTInv /\ WInv /\ [HTNext]_htVars => WInv'
    <2>1. ASSUME HTInv, WInv, UNCHANGED htVars PROVE WInv'
      BY <2>1 DEF Reached, Placed, LostRace, htVars
    <2>2. ASSUME HTInv, WInv, NEW c \in Clients, Step(c) PROVE WInv'
      <3>1. CASE "Delete" \in Ops
        <4>1. Own
          BY <3>1 DEF Own, Exclusive
        <4> QED
          BY <2>2, <3>1, <4>1, ReachedStep
      <3>2. CASE "Delete" \notin Ops
        BY <2>2, <3>2, PlacedStep
      <3> QED
        BY <3>1, <3>2
    <2> QED
      BY <2>1, <2>2 DEF HTNext
  <1>3. WInv => WritesReachRecord
    BY DEF Reached, Placed, WritesReachRecord
  <1> HIDE DEF WInv
  <1> QED
    BY <1>1, <1>2, <1>3, HTInductive, PTL DEF HTSpec

\* A table that a client changes is no other client's, and one it deletes is no
\* record's.
LEMMA Alone ==
    ASSUME HTInv, Reached, Own
    PROVE  /\ \A c, d \in Clients :
                 c # d /\ cl[c].pc \in Changing /\ cl[d].pc \in Changing => cl[c].tab # cl[d].tab
           /\ \A c \in Clients, k \in Keys :
                 cl[c].pc \in {"drop", "dropping"} => key_table_[k] # cl[c].tab
  <1>1. Exclusive
    BY DEF Own, Exclusive
  <1>2. \A c \in Clients : cl[c].pc \in Changing =>
            cl[c].key \in KeysOf[c] /\ cl[c].key \in Keys /\ cl[c].tab # NULL
    BY CallTyped DEF HTInv, HTBase, Located, Changing
  <1>3. CASE "Delete" \in Ops
    <2>1. ASSUME NEW c \in Clients, NEW k \in Keys, cl[c].pc \in {"drop", "dropping"},
                 key_table_[k] = cl[c].tab
          PROVE  FALSE
      <3>1. cl[c].pc \in Changing
        BY <2>1 DEF Changing
      <3>2. k = cl[c].key
        BY <1>1, <1>3, <2>1, <3>1 DEF HTInv, Apart
      <3>3. key_table_[k] = NULL
        BY <2>1, <3>2 DEF Reached
      <3> QED
        BY <1>2, <2>1, <3>1, <3>3
    <2>2. \A c, d \in Clients :
             c # d /\ cl[c].pc \in Changing /\ cl[d].pc \in Changing => cl[c].tab # cl[d].tab
      BY <1>1, <1>3 DEF HTInv, Apart
    <2> QED
      BY <2>1, <2>2
  <1>4. CASE "Delete" \notin Ops
    <2>1. \A c \in Clients : cl[c].pc \notin {"drop", "dropping"}
      BY <1>4 DEF HTInv, HTBase, Located
    <2>2. ASSUME NEW c \in Clients, NEW d \in Clients, c # d,
                 cl[c].pc \in Changing, cl[d].pc \in Changing, cl[c].tab = cl[d].tab
          PROVE  FALSE
      <3>1. key_table_[cl[c].key] = cl[c].tab /\ key_table_[cl[d].key] = cl[d].tab
        BY <2>1, <2>2 DEF Reached, Changing
      <3>2. cl[c].key = cl[d].key
        BY <1>2, <2>2, <3>1 DEF Reached
      <3> QED
        BY <1>2, <2>2, <3>2 DEF Own
    <2> QED
      BY <2>1, <2>2
  <1> QED
    BY <1>3, <1>4

\* The fields of a record have different names (BuildValues numbers them).
Distinct(s) == \A i, j \in DOMAIN s : s[i] = s[j] => i = j

\* A field that Update is going to insert without looking at the result is not
\* there yet.
Unfilled ==
    \A c \in Clients :
        /\ cl[c].pc \in {"find", "put", "fill"} => Distinct(cl[c].todo)
        /\ cl[c].pc = "updins" => cl[c].todo # <<>> /\ tables[cl[c].tab][Head(cl[c].todo)] = NULL
        /\ cl[c].pc = "fill" => \A i \in DOMAIN cl[c].todo : tables[cl[c].tab][cl[c].todo[i]] = NULL

\* What a step of c does to the fields of the tables there are.
LEMMA FieldsStep ==
    ASSUME HTInv, NEW c \in Clients, Step(c)
    PROVE  \A t \in Tables, f \in Fields :
              \/ tables'[t][f] = tables[t][f]
              \/ DropTable(c) /\ t = cl[c].tab /\ tables'[t][f] = NULL
              \/ /\ cl[c].pc \in {"ins", "fill", "upd", "updins"} /\ cl[c].todo # <<>>
                 /\ t = cl[c].tab /\ f = Head(cl[c].todo)
  <1> DEFINE u == cl[c].tab
             g == Head(cl[c].todo)
             Fits == \A t \in Tables, f \in Fields :
                        \/ tables'[t][f] = tables[t][f]
                        \/ DropTable(c) /\ t = cl[c].tab /\ tables'[t][f] = NULL
                        \/ /\ cl[c].pc \in {"ins", "fill", "upd", "updins"} /\ cl[c].todo # <<>>
                           /\ t = u /\ f = g
  <1>0. tables \in Seq([Fields -> Strings \cup {NULL}]) /\ cl[c] \in CallRecs
    BY CallTyped DEF HTInv, HTBase, HTTypeOK
  <1>1. ASSUME cl[c].pc \in {"ins", "fill", "upd", "updins"}, cl[c].todo # <<>>,
               nstr' = nstr + 1, tables' = [tables EXCEPT ![u][g] = nstr + 1]
        PROVE  Fits
    <2>1. u \in Tables /\ g \in Fields
      BY <1>1, Writing
    <2>2. \A t \in Tables, f \in Fields : <<t, f>> # <<u, g>> => tables'[t][f] = tables[t][f]
      BY <1>1, <2>1, SetField
    <2> QED
      BY <1>1, <2>2
  <1>2. CASE UNCHANGED tables
    BY <1>2
  <1>3. CASE Put(c)
    BY <1>0, <1>3 DEF Put, Tables
  <1>4. CASE DropTable(c)
    <2>1. u \in Tables
      BY <1>0, <1>4 DEF DropTable, HTInv, HTBase, Located, Changing, CallRecs
    <2>2. \A f \in Fields : EmptyTable[f] = NULL
      BY DEF EmptyTable
    <2>3. tables' = [tables EXCEPT ![u] = EmptyTable]
      BY <1>4 DEF DropTable
    <2> QED
      BY <1>0, <1>4, <2>1, <2>2, <2>3 DEF Tables
  <1>5. CASE InsertField(c)
    BY <1>1, <1>2, <1>5 DEF InsertField
  <1>6. CASE UpdateField(c)
    BY <1>1, <1>2, <1>6 DEF UpdateField
  <1>7. CASE FillField(c)
    <2>1. tables' = [tables EXCEPT ![u] = TableInsert(tables[u], g, nstr + 1)] /\ nstr' = nstr + 1
          /\ cl[c].pc \in {"fill", "updins"} /\ cl[c].todo # <<>>
      BY <1>7 DEF FillField
    <2>2. \/ tables' = [tables EXCEPT ![u][g] = nstr + 1]
          \/ tables' = [tables EXCEPT ![u] = tables[u]]
      BY <2>1 DEF TableInsert
    <2>3. tables' = [tables EXCEPT ![u] = tables[u]] => tables' = tables
      BY <1>0
    <2> QED
      BY <1>1, <1>2, <2>1, <2>2, <2>3
  <1>8. CASE ~(Put(c) \/ InsertField(c) \/ FillField(c) \/ UpdateField(c) \/ DropTable(c))
    <2>1. UNCHANGED tables
      BY <1>8 DEF Step, Call, Begin, Find, FindRows, NextRow, GetField, CopyOut, Filled, FreeOld,
                  RemoveKey, DropEntries, DropString, UseDead
    <2> QED
      BY <1>2, <2>1
  <1> QED
    BY <1>3, <1>4, <1>5, <1>6, <1>7, <1>8

\* What the steps of c keep of c's own call.
LEMMA UnfilledOwn ==
    ASSUME HTInv, Unfilled, Distinct(FieldSeq), NEW c \in Clients, Step(c)
    PROVE  /\ cl'[c].pc \in {"find", "put", "fill"} => Distinct(cl'[c].todo)
           /\ cl'[c].pc = "updins" =>
                 cl'[c].todo # <<>> /\ tables'[cl'[c].tab][Head(cl'[c].todo)] = NULL
           /\ cl'[c].pc = "fill" =>
                 \A i \in DOMAIN cl'[c].todo : tables'[cl'[c].tab][cl'[c].todo[i]] = NULL
  <1>0. cl \in [Clients -> CallRecs] /\ cl[c] \in CallRecs /\ cl[c].todo \in Seq(Fields)
    BY CallTyped DEF CallRecs
  <1>1. /\ cl[c].pc \in {"find", "put", "fill"} => Distinct(cl[c].todo)
        /\ cl[c].pc = "fill" => \A i \in DOMAIN cl[c].todo : tables[cl[c].tab][cl[c].todo[i]] = NULL
    BY DEF Unfilled
  <1>2. CASE Call(c)
    <2>1. PICK op, key, fields : /\ Begin(c, op, key, fields)
                                 /\ fields = FieldSeq \/ fields = <<>> \/ \E f \in Fields : fields = <<f>>
      BY <1>2 DEF Call
    <2>2. Distinct(fields)
      BY <2>1 DEF Distinct
    <2>3. cl'[c].pc = "find" /\ cl'[c].todo = fields
      BY <1>0, <2>1 DEF Begin, Idle
    <2> QED
      BY <2>2, <2>3
  <1>3. CASE Find(c)
    <2>1. cl'[c].pc \in {"idle", "rows", "put", "ins", "upd"} /\ cl'[c].todo = cl[c].todo
          /\ cl[c].pc = "find"
      BY <1>0, <1>3 DEF Find, Done, CallRecs
    <2> QED
      BY <1>1, <2>1
  <1>4. CASE Put(c)
    <2> DEFINE n == Len(tables) + 1
    <2>1. /\ cl'[c].todo = cl[c].todo /\ cl'[c].tab = n /\ cl'[c].pc \in {"ins", "fill"}
          /\ cl[c].pc = "put" /\ tables' = Append(tables, EmptyTable)
      BY <1>0, <1>4 DEF Put, CallRecs
    <2>2. tables'[n] = EmptyTable /\ \A f \in Fields : EmptyTable[f] = NULL
      BY <2>1 DEF HTInv, HTBase, HTTypeOK, EmptyTable
    <2>3. \A i \in DOMAIN cl[c].todo : cl[c].todo[i] \in Fields
      BY <1>0
    <2> HIDE DEF n
    <2> QED
      BY <1>1, <2>1, <2>2, <2>3
  <1>5. CASE FillField(c)
    <2> DEFINE t == cl[c].tab
               todo == cl[c].todo
               rest == Tail(todo)
    <2>1. /\ cl'[c].todo = rest /\ cl'[c].tab = t /\ todo # <<>>
          /\ \/ cl[c].pc = "updins" /\ cl'[c].pc = "upd"
             \/ cl[c].pc = "fill" /\ cl'[c].pc = "fill"
      BY <1>0, <1>5 DEF FillField, CallRecs
    <2>2. t \in Tables
      BY <2>1, Writing
    <2>3. /\ DOMAIN rest = 1 .. Len(todo) - 1 /\ \A i \in DOMAIN rest : rest[i] = todo[i + 1]
          /\ DOMAIN todo = 1 .. Len(todo) /\ Head(todo) = todo[1] /\ Len(todo) \in Nat \ {0}
          /\ \A i \in DOMAIN todo : todo[i] \in Fields
      BY <1>0, <2>1
    <2>4. ASSUME cl[c].pc = "fill"
          PROVE  /\ Distinct(rest)
                 /\ \A i \in DOMAIN rest : tables'[t][rest[i]] = NULL
      <3>1. Distinct(todo) /\ \A i \in DOMAIN todo : tables[t][todo[i]] = NULL
        BY <1>1, <2>4
      <3> HIDE DEF rest, todo
      <3>2. \A i, j \in DOMAIN rest : rest[i] = rest[j] => i = j
        BY <2>3, <3>1 DEF Distinct
      <3>3. ASSUME NEW i \in DOMAIN rest PROVE tables'[t][rest[i]] = NULL
        <4>1. i + 1 \in DOMAIN todo /\ rest[i] = todo[i + 1] /\ rest[i] # Head(todo)
              /\ rest[i] \in Fields
          BY <2>3, <3>1 DEF Distinct
        <4>2. tables'[t][rest[i]] \in {tables[t][rest[i]], NULL}
          BY <2>2, <4>1, FieldsStep DEF todo
        <4> QED
          BY <3>1, <4>1, <4>2
      <3> QED
        BY <3>2, <3>3 DEF Distinct
    <2> QED
      BY <2>1, <2>4
  <1>6. CASE UpdateField(c)
    <2>1. \/ cl'[c].pc = "free"
          \/ /\ cl'[c].pc = "updins" /\ cl'[c].todo = cl[c].todo /\ cl'[c].tab = cl[c].tab
             /\ tables' = tables /\ cl[c].todo # <<>>
             /\ tables[cl[c].tab][Head(cl[c].todo)] = NULL
      BY <1>0, <1>6 DEF UpdateField, CallRecs
    <2> QED
      BY <2>1
  <1>7. CASE InsertField(c) \/ Filled(c) \/ FreeOld(c)
    <2>1. cl'[c].pc \in {"idle", "ins", "upd"}
      BY <1>0, <1>7 DEF InsertField, Filled, FreeOld, Done, CallRecs
    <2> QED
      BY <2>1
  <1>8. CASE RemoveKey(c) \/ DropEntries(c) \/ DropString(c) \/ DropTable(c)
    <2>1. cl'[c].pc \in {"idle", "drop", "dropping"}
      BY <1>0, <1>8 DEF RemoveKey, DropEntries, DropString, DropTable, Done, CallRecs
    <2> QED
      BY <2>1
  <1>9. CASE UseDead(c)
    BY <1>9 DEF UseDead, Unfilled
  <1>10. CASE FindRows(c) \/ NextRow(c) \/ GetField(c) \/ CopyOut(c)
    BY <1>10, ReadStep
  <1> QED
    BY <1>2, <1>3, <1>4, <1>5, <1>6, <1>7, <1>8, <1>9, <1>10 DEF Step

LEMMA UnfilledStep ==
    ASSUME HTInv, Reached, Unfilled, Own, Distinct(FieldSeq), NEW c \in Clients, Step(c)
    PROVE  Unfilled'
  <1>1. ASSUME NEW d \in Clients, d # c, cl[d].pc \in {"fill", "updins"},
               NEW f \in Fields, tables[cl[d].tab][f] = NULL
        PROVE  tables'[cl[d].tab][f] = NULL
    <2>1. cl[d].tab \in Tables
      BY <1>1, CallTyped DEF HTInv, HTBase, Located, Changing, CallRecs
    <2>2. cl[c].pc \in {"ins", "fill", "upd", "updins"} => cl[c].tab # cl[d].tab
      BY <1>1, Alone DEF Changing
    <2> QED
      BY <1>1, <2>1, <2>2, FieldsStep
  <1>2. ASSUME NEW d \in Clients, d # c
        PROVE  /\ cl'[d].pc \in {"find", "put", "fill"} => Distinct(cl'[d].todo)
               /\ cl'[d].pc = "updins" =>
                     cl'[d].todo # <<>> /\ tables'[cl'[d].tab][Head(cl'[d].todo)] = NULL
               /\ cl'[d].pc = "fill" =>
                     \A i \in DOMAIN cl'[d].todo : tables'[cl'[d].tab][cl'[d].todo[i]] = NULL
    <2>1. cl'[d] = cl[d]
      BY <1>2, OthersKept
    <2>2. cl[d].todo \in Seq(Fields)
      BY CallTyped DEF CallRecs
    <2>3. (cl[d].todo # <<>> => Head(cl[d].todo) \in Fields)
          /\ \A i \in DOMAIN cl[d].todo : cl[d].todo[i] \in Fields
      BY <2>2
    <2> QED
      BY <1>1, <1>2, <2>1, <2>3 DEF Unfilled
  <1> QED
    BY <1>2, UnfilledOwn DEF Unfilled

\* Where a string that is not deleted is.
Reachable(p) ==
    \/ \E k \in Keys, f \in Fields : key_table_[k] # NULL /\ tables[key_table_[k]][f] = p
    \/ \E c \in Clients : p \in Holds(c)
    \/ \E c \in Clients, f \in Fields : cl[c].pc = "drop" /\ tables[cl[c].tab][f] = p

\* A string stays where it is, unless the step of c moves or deletes it.
LEMMA StaysReachable ==
    ASSUME HTInv, Reached, Own, NEW c \in Clients, Step(c), NEW p \in Strings, Reachable(p),
           \A k \in Keys, f \in Fields :
               key_table_[k] # NULL /\ tables[key_table_[k]][f] = p =>
                   \/ key_table_'[k] = key_table_[k] /\ tables'[key_table_[k]][f] = p
                   \/ Reachable(p)',
           p \in Holds(c) => Reachable(p)',
           \A f \in Fields : cl[c].pc = "drop" /\ tables[cl[c].tab][f] = p => Reachable(p)'
    PROVE  Reachable(p)'
  <1>1. p # NULL
    BY DEF Strings, NULL
  <1>2. ASSUME NEW k \in Keys, NEW f \in Fields,
               key_table_[k] # NULL, tables[key_table_[k]][f] = p
        PROVE  Reachable(p)'
    BY <1>2 DEF Reachable
  <1>3. ASSUME NEW d \in Clients, p \in Holds(d) PROVE Reachable(p)'
    <2>1. CASE d # c
      <3>1. Holds(d)' = Holds(d)
        BY <2>1, OthersKept DEF Holds
      <3> QED
        BY <1>3, <3>1 DEF Reachable
    <2> QED
      BY <1>3, <2>1
  <1>4. ASSUME NEW d \in Clients, NEW f \in Fields, cl[d].pc = "drop", tables[cl[d].tab][f] = p
        PROVE  Reachable(p)'
    <2>1. CASE d # c
      <3>1. cl'[d] = cl[d] /\ cl[d].tab \in Tables
        BY <1>4, <2>1, OthersKept, CallTyped DEF HTInv, HTBase, Located, Changing, CallRecs
      <3>2. cl[c].pc \in Changing => cl[c].tab # cl[d].tab
        BY <1>4, <2>1, Alone DEF Changing
      <3>3. tables'[cl[d].tab][f] = p
        <4>1. DropTable(c) \/ cl[c].pc \in {"ins", "fill", "upd", "updins"} =>
                 cl[c].tab # cl[d].tab
          BY <3>2 DEF DropTable, Changing
        <4> QED
          BY <1>4, <3>1, <4>1, FieldsStep
      <3> QED
        BY <1>4, <3>1, <3>3 DEF Reachable
    <2> QED
      BY <1>4, <2>1
  <1> QED
    BY <1>2, <1>3, <1>4 DEF Reachable

LEMMA NoLeakStep ==
    ASSUME HTInv, Reached, Unfilled, Own, NoLeak, NEW c \in Clients, Step(c),
           NEW p \in Strings' \ freed'
    PROVE  Reachable(p)'
  <1> DEFINE u == cl[c].tab
             g == Head(cl[c].todo)
  <1>0. /\ cl \in [Clients -> CallRecs] /\ cl[c] \in CallRecs /\ nstr \in Nat
        /\ tables \in Seq([Fields -> Strings \cup {NULL}])
        /\ key_table_ \in [Keys -> Tables \cup {NULL}]
        /\ (cl[c].pc # "idle" => cl[c].key \in Keys)
        /\ (cl[c].pc \in Changing => u \in Tables /\ u # NULL)
    BY CallTyped DEF HTInv, HTBase, HTTypeOK, Located, CallRecs, Changing
  <1>1. \A q \in Strings \ freed : Reachable(q)
    BY DEF NoLeak, Reachable
  <1>2. cl[c].pc \notin {"free", "dropping"} => Holds(c) = {}
    BY CallTyped DEF Holds
  <1>3. ASSUME p \in Strings \ freed, key_table_' = key_table_, tables' = tables,
               cl[c].pc \notin {"free", "drop", "dropping"}
        PROVE  Reachable(p)'
    BY <1>1, <1>2, <1>3, StaysReachable
  <1>4. ASSUME nstr' = nstr, freed' = freed PROVE p \in Strings \ freed
    BY <1>4 DEF Strings
  <1>5. CASE Call(c) \/ Find(c) \/ Filled(c) \/ UseDead(c)
    <2>1. UNCHANGED <<key_table_, tables, nstr, freed>>
          /\ cl[c].pc \notin {"free", "drop", "dropping"}
      BY <1>5 DEF Call, Begin, Find, Filled, UseDead
    <2> QED
      BY <1>3, <1>4, <2>1
  <1>6. CASE FindRows(c) \/ NextRow(c) \/ GetField(c) \/ CopyOut(c)
    BY <1>3, <1>4, <1>6, ReadStep
  <1>7. CASE Put(c)
    <2>1. nstr' = nstr /\ freed' = freed /\ cl[c].pc = "put"
          /\ tables' = Append(tables, EmptyTable)
          /\ key_table_' = [key_table_ EXCEPT ![cl[c].key] = Len(tables) + 1]
          /\ key_table_[cl[c].key] = NULL
      BY <1>7 DEF Put, TableInsert, Reached
    <2>2. \A t \in Tables : tables'[t] = tables[t]
      BY <1>0, <2>1 DEF Tables
    <2>3. \A k \in Keys : key_table_[k] # NULL => key_table_'[k] = key_table_[k] /\ key_table_[k] \in Tables
      BY <1>0, <2>1
    <2> QED
      BY <1>1, <1>2, <1>4, <2>1, <2>2, <2>3, StaysReachable
  <1>8. ASSUME cl[c].pc \in {"ins", "fill", "upd", "updins"}, cl[c].todo # <<>>,
               nstr' = nstr + 1, freed' = freed, key_table_' = key_table_,
               tables' = [tables EXCEPT ![u][g] = nstr + 1],
               tables[u][g] = NULL \/ (cl'[c].pc = "free" /\ cl'[c].old = tables[u][g])
        PROVE  Reachable(p)'
    <2>1. u \in Tables /\ g \in Fields
      BY <1>8, Writing
    <2>2. /\ tables'[u][g] = nstr + 1
          /\ \A t \in Tables, f \in Fields : <<t, f>> # <<u, g>> => tables'[t][f] = tables[t][f]
      BY <1>8, <2>1, SetField
    <2>3. key_table_[cl[c].key] = u /\ u # NULL /\ cl[c].key \in Keys
      BY <1>0, <1>8 DEF Reached, Changing
    <2>4. CASE p = nstr + 1
      <3>1. key_table_'[cl[c].key] = u
        BY <1>8, <2>3
      <3>2. key_table_'[cl[c].key] # NULL /\ tables'[key_table_'[cl[c].key]][g] = p
        BY <2>2, <2>3, <2>4, <3>1
      <3> QED
        BY <2>1, <2>3, <3>2 DEF Reachable
    <2>5. CASE p # nstr + 1
      <3>1. p \in Strings \ freed /\ p # NULL
        BY <1>0, <1>8, <2>5 DEF Strings, NULL
      <3>2. ASSUME NEW k \in Keys, NEW f \in Fields,
                   key_table_[k] # NULL, tables[key_table_[k]][f] = p
            PROVE  tables'[key_table_[k]][f] = p \/ Reachable(p)'
        <4>1. key_table_[k] \in Tables
          BY <1>0, <3>2
        <4>2. CASE <<key_table_[k], f>> # <<u, g>>
          BY <2>2, <3>2, <4>1, <4>2
        <4>3. CASE <<key_table_[k], f>> = <<u, g>>
          <5>1. tables[u][g] = p
            BY <3>2, <4>3
          <5>2. cl'[c].pc = "free" /\ cl'[c].old = p
            BY <1>8, <3>1, <5>1
          <5>3. p \in Holds(c)'
            BY <3>1, <5>2 DEF Holds
          <5> QED
            BY <5>3 DEF Reachable
        <4> QED
          BY <4>2, <4>3
      <3> QED
        BY <1>1, <1>2, <1>8, <3>1, <3>2, StaysReachable
    <2> QED
      BY <2>4, <2>5
  <1>9. CASE InsertField(c)
    <2>1. CASE tables[u][g] = NULL
      BY <1>8, <1>9, <2>1 DEF InsertField
    <2>2. CASE tables[u][g] # NULL
      <3>1. /\ nstr' = nstr + 1 /\ freed' = freed \cup {nstr + 1} /\ tables' = tables
            /\ key_table_' = key_table_ /\ cl[c].pc = "ins"
        BY <1>9, <2>2 DEF InsertField
      <3>2. p \in Strings \ freed
        BY <1>0, <3>1 DEF Strings
      <3> QED
        BY <1>3, <3>1, <3>2
    <2> QED
      BY <2>1, <2>2
  <1>10. CASE FillField(c)
    <2>1. /\ cl[c].pc \in {"fill", "updins"} /\ cl[c].todo # <<>>
          /\ nstr' = nstr + 1 /\ freed' = freed /\ key_table_' = key_table_
          /\ tables' = [tables EXCEPT ![u] = TableInsert(tables[u], g, nstr + 1)]
      BY <1>10 DEF FillField
    <2>2. tables[u][g] = NULL
      <3>1. cl[c].todo \in Seq(Fields)
        BY <1>0 DEF CallRecs
      <3>2. 1 \in DOMAIN cl[c].todo /\ g = cl[c].todo[1]
        BY <2>1, <3>1
      <3> QED
        BY <2>1, <3>2 DEF Unfilled
    <2>3. tables' = [tables EXCEPT ![u][g] = nstr + 1]
      BY <2>1, <2>2 DEF TableInsert
    <2> QED
      BY <1>8, <2>1, <2>2, <2>3
  <1>11. CASE UpdateField(c)
    <2>1. CASE tables[u][g] = NULL
      <3>1. UNCHANGED <<key_table_, tables, nstr, freed>> /\ cl[c].pc = "upd"
        BY <1>11, <2>1 DEF UpdateField
      <3> QED
        BY <1>3, <1>4, <3>1
    <2>2. CASE tables[u][g] # NULL
      <3>1. /\ cl[c].pc = "upd" /\ cl[c].todo # <<>> /\ nstr' = nstr + 1 /\ freed' = freed
            /\ key_table_' = key_table_ /\ tables' = [tables EXCEPT ![u][g] = nstr + 1]
        BY <1>11, <2>2 DEF UpdateField
      <3>2. cl'[c].pc = "free" /\ cl'[c].old = tables[u][g]
        BY <1>0, <1>11, <2>2 DEF UpdateField, CallRecs
      <3> QED
        BY <1>8, <3>1, <3>2
    <2> QED
      BY <2>1, <2>2
  <1>12. CASE FreeOld(c)
    <2>1. /\ nstr' = nstr /\ freed' = freed \cup {cl[c].old} /\ tables' = tables
          /\ key_table_' = key_table_ /\ cl[c].pc = "free"
      BY <1>12 DEF FreeOld
    <2>2. p \in Strings \ freed /\ p # cl[c].old
      BY <2>1 DEF Strings
    <2>3. p \notin Holds(c)
      BY <2>1, <2>2 DEF Holds
    <2> QED
      BY <1>1, <2>1, <2>2, <2>3, StaysReachable
  <1>13. CASE RemoveKey(c)
    <2>1. /\ nstr' = nstr /\ freed' = freed /\ tables' = tables /\ cl[c].pc = "find"
          /\ key_table_' = [key_table_ EXCEPT ![cl[c].key] = NULL] /\ cl[c].key \in Keys
      BY <1>0, <1>13 DEF RemoveKey
    <2>2. key_table_[cl[c].key] # NULL =>
             cl'[c].pc = "drop" /\ cl'[c].tab = key_table_[cl[c].key]
      BY <1>0, <1>13 DEF RemoveKey, CallRecs
    <2>3. p \in Strings \ freed
      BY <1>4, <2>1
    <2>4. ASSUME NEW k \in Keys, NEW f \in Fields,
                 key_table_[k] # NULL, tables[key_table_[k]][f] = p
          PROVE  key_table_'[k] = key_table_[k] \/ Reachable(p)'
      <3>1. CASE k = cl[c].key
        BY <2>1, <2>2, <2>4, <3>1 DEF Reachable
      <3>2. CASE k # cl[c].key
        BY <1>0, <2>1, <3>2
      <3> QED
        BY <3>1, <3>2
    <2> QED
      BY <1>1, <1>2, <2>1, <2>3, <2>4, StaysReachable
  <1>14. CASE DropEntries(c)
    <2>1. /\ nstr' = nstr /\ freed' = freed /\ tables' = tables /\ key_table_' = key_table_
          /\ cl[c].pc = "drop"
      BY <1>14 DEF DropEntries
    <2>2. cl'[c].pc = "dropping" /\ cl'[c].ptrs = Entries(tables[u], Fields)
      BY <1>0, <1>14 DEF DropEntries, CallRecs
    <2>3. p \in Strings \ freed /\ p # NULL
      BY <1>4, <2>1 DEF Strings, NULL
    <2>4. ASSUME NEW f \in Fields, tables[u][f] = p PROVE Reachable(p)'
      <3>1. p \in Holds(c)'
        BY <2>2, <2>3, <2>4 DEF Holds, Entries
      <3> QED
        BY <3>1 DEF Reachable
    <2> QED
      BY <1>1, <1>2, <2>1, <2>3, <2>4, StaysReachable
  <1>15. CASE DropString(c)
    <2>1. /\ nstr' = nstr /\ tables' = tables /\ key_table_' = key_table_
          /\ cl[c].pc = "dropping"
      BY <1>15 DEF DropString
    <2>2. PICK q \in cl[c].ptrs :
             freed' = freed \cup {q} /\ cl' = [cl EXCEPT ![c].ptrs = @ \ {q}]
      BY <1>15 DEF DropString
    <2>3. cl'[c].pc = "dropping" /\ cl'[c].ptrs = cl[c].ptrs \ {q}
      BY <1>0, <2>1, <2>2 DEF CallRecs
    <2>4. p \in Strings \ freed /\ p # q
      BY <2>1, <2>2 DEF Strings
    <2>5. ASSUME p \in Holds(c) PROVE Reachable(p)'
      <3>1. p \in Holds(c)'
        BY <2>1, <2>3, <2>4, <2>5 DEF Holds
      <3> QED
        BY <3>1 DEF Reachable
    <2> QED
      BY <1>1, <2>1, <2>4, <2>5, StaysReachable
  <1>16. CASE DropTable(c)
    <2>1. /\ nstr' = nstr /\ freed' = freed /\ key_table_' = key_table_
          /\ cl[c].pc = "dropping" /\ cl[c].ptrs = {}
          /\ tables' = [tables EXCEPT ![u] = EmptyTable]
      BY <1>16 DEF DropTable
    <2>2. p \in Strings \ freed /\ p \notin Holds(c)
      BY <1>4, <2>1 DEF Holds
    <2>3. \A k \in Keys : key_table_[k] # u
      BY <2>1, Alone
    <2>4. \A k \in Keys : key_table_[k] # NULL => tables'[key_table_[k]] = tables[key_table_[k]]
      BY <1>0, <2>1, <2>3 DEF Tables
    <2> QED
      BY <1>1, <2>1, <2>2, <2>4, StaysReachable
  <1> QED
    BY <1>5, <1>6, <1>7, <1>9, <1>10, <1>11, <1>12, <1>13, <1>14, <1>15, <1>16 DEF Step

\* No string is lost, whatever order the steps of inserts, updates and deletes
\* come in, when no two clients share keys and the fields have different names.
THEOREM NoStringLost ==
    ASSUME Own, Distinct(FieldSeq)
    PROVE  HTSpec => []NoLeak
  <1> DEFINE LInv == Reached /\ Unfilled /\ NoLeak
  <1>1. HTInit => LInv
    BY DEF HTInit, Reached, Unfilled, NoLeak, Idle, Strings
  <1>2. HTInv /\ LInv /\ [HTNext]_htVars => LInv'
    <2>1. ASSUME HTInv, LInv, UNCHANGED htVars PROVE LInv'
      BY <2>1 DEF Reached, Unfilled, NoLeak, Strings, Holds, htVars
    <2>2. ASSUME HTInv, LInv, NEW c \in Clients, Step(c) PROVE LInv'
      <3>1. \A p \in Strings' \ freed' : Reachable(p)'
        BY <2>2, NoLeakStep
      <3>2. NoLeak'
        BY <3>1 DEF Reachable, NoLeak
      <3> QED
        BY <2>2, <3>2, ReachedStep, UnfilledStep
    <2> QED
      BY <2>1, <2>2 DEF HTNext
  <1>3. LInv => NoLeak
    OBVIOUS
  <1> HIDE DEF LInv
  <1> QED
    BY <1>1, <1>2, <1>3, HTInductive, PTL DEF HTSpec
=============================================================================
