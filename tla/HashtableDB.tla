---------------------------- MODULE HashtableDB ----------------------------
(***************************************************************************)
(* The in-memory databases lock_stl, tbb_rand and tbb_scan                 *)
(* (db/hashtable_db.cc over lib/): a table of records, each a table of     *)
(* fields, each a pointer to a string.  Each call of a table is atomic (a  *)
(* mutex or a reader-writer lock in the table; in tbb_scan Entries only    *)
(* shares its lock with Insert, and may see part of what is inserted       *)
(* meanwhile); a call of the database is several of them, with nothing to  *)
(* keep other clients out in between.                                      *)
(*                                                                         *)
(* A string is its address: addresses are never used twice, so that a      *)
(* string stands for the value written with it.                            *)
(***************************************************************************)
EXTENDS Integers, Sequences, FiniteSets

CONSTANTS Clients,
          Keys,
          FieldSeq,    \* the fields of a record, in the order BuildValues gives
          KeysOf,      \* the keys each client asks for
          Ops,         \* the operations clients call
          MaxCalls     \* bound: calls of the database in a behaviour

Fields == {FieldSeq[n] : n \in DOMAIN FieldSeq}

ASSUME HashtableAssumption ==
    /\ FieldSeq \in Seq(Fields)
    /\ KeysOf \in [Clients -> SUBSET Keys]
    /\ Ops \subseteq {"Read", "Scan", "Update", "Insert", "Delete"}
    /\ MaxCalls \in Nat

NULL == 0
Garbage == -1   \* what is read from a freed string

kOK            == 0
kErrorNoData   == 1
kErrorConflict == 2

VARIABLES key_table_,  \* the table of each key's record, or NULL
          tables,      \* the field tables allocated, in order
          dead,        \* those deleted
          nstr,        \* strings are 1 .. nstr; those of freed are deallocated
          freed,
          cl,          \* the call each client is in, and its locals
          calls,       \* calls begun
          crashed      \* a deleted field table was used

htVars == <<key_table_, tables, dead, nstr, freed, cl, calls, crashed>>

Idle == [pc |-> "idle", op |-> "none", key |-> NULL, todo |-> <<>>, tab |-> NULL,
         rows |-> {}, ptrs |-> {}, old |-> NULL, got |-> {}, status |-> kOK]

EmptyTable == [f \in Fields |-> NULL]

\* Insert of a table leaves an entry that is there; Get and Entries yield what
\* the entries ks of it hold.
TableInsert(t, k, v) == IF t[k] = NULL THEN [t EXCEPT ![k] = v] ELSE t
Entries(t, ks) == {t[k] : k \in ks} \ {NULL}

HTInit == /\ key_table_ = [k \in Keys |-> NULL]
          /\ tables = <<>>
          /\ dead = {}
          /\ nstr = 0
          /\ freed = {}
          /\ cl = [c \in Clients |-> Idle]
          /\ calls = 0
          /\ crashed = FALSE

-----------------------------------------------------------------------------
\* Client c calls op for key; values (or fields) names the fields in order.
Begin(c, op, key, fields) ==
    /\ cl[c].pc = "idle"
    /\ calls < MaxCalls
    /\ calls' = calls + 1
    /\ cl' = [cl EXCEPT ![c] = [Idle EXCEPT !.pc = "find", !.op = op, !.key = key,
                                            !.todo = fields]]
    /\ UNCHANGED <<key_table_, tables, dead, nstr, freed, crashed>>

\* The calls client.h makes: all fields, or one.  Fields to read are <<>> for
\* NULL, all of them.  (client.h misspells the one field it asks for, so that it
\* finds none; any field is allowed here.)
Call(c) == \E op \in Ops, key \in KeysOf[c] :
    \/ op \in {"Insert", "Update"} /\ Begin(c, op, key, FieldSeq)
    \/ op \in {"Update", "Read", "Scan"} /\ \E f \in Fields : Begin(c, op, key, <<f>>)
    \/ op \in {"Read", "Scan", "Delete"} /\ Begin(c, op, key, <<>>)

\* The call of client c is over.
Done(c, status) == cl' = [cl EXCEPT ![c].pc = "idle", ![c].status = status,
                                    ![c].old = NULL, ![c].tab = NULL]

\* key_table_->Get(key_index), which Read, Update and Insert start with.
Find(c) ==
    LET t == key_table_[cl[c].key] IN
    /\ cl[c].pc = "find"
    /\ \/ /\ cl[c].op = "Read" /\ t = NULL
          /\ Done(c, kErrorNoData)
       \/ /\ cl[c].op = "Read" /\ t # NULL
          /\ cl' = [cl EXCEPT ![c].pc = "rows", ![c].rows = {t}]
       \/ /\ cl[c].op \in {"Update", "Insert"} /\ t = NULL
          /\ cl' = [cl EXCEPT ![c].pc = "put"]
       \/ /\ cl[c].op \in {"Update", "Insert"} /\ t # NULL
          /\ cl' = [cl EXCEPT ![c].pc = IF cl[c].op = "Insert" THEN "ins" ELSE "upd",
                              ![c].tab = t]
    /\ UNCHANGED <<key_table_, tables, dead, nstr, freed, calls, crashed>>

\* Scan: key_table_->Entries(key_index, len), the records from key on in the
\* order of the hash table; none when key is not there.
FindRows(c) ==
    /\ cl[c].pc = "find"
    /\ cl[c].op = "Scan"
    /\ \E rows \in SUBSET Entries(key_table_, Keys) :
          /\ key_table_[cl[c].key] = NULL => rows = {}
          /\ key_table_[cl[c].key] # NULL => key_table_[cl[c].key] \in rows
          /\ cl' = [cl EXCEPT ![c].pc = "rows", ![c].rows = rows]
    /\ UNCHANGED <<key_table_, tables, dead, nstr, freed, calls, crashed>>

-----------------------------------------------------------------------------
\* Read and Scan.

\* The next record; after the last one the call returns kOK.
NextRow(c) ==
    /\ cl[c].pc = "rows"
    /\ \/ /\ cl[c].rows = {}
          /\ Done(c, kOK)
       \/ \E t \in cl[c].rows :
             cl' = [cl EXCEPT ![c].pc = "get", ![c].tab = t, ![c].rows = @ \ {t}]
    /\ UNCHANGED <<key_table_, tables, dead, nstr, freed, calls, crashed>>

\* field_table->Get(field) or, for all fields, field_table->Entries().
GetField(c) ==
    LET t  == tables[cl[c].tab]
        fs == IF cl[c].todo = <<>> THEN Fields ELSE {Head(cl[c].todo)}
    IN
    /\ cl[c].pc = "get"
    /\ cl[c].tab \notin dead
    /\ cl' = [cl EXCEPT ![c].pc = "copy", ![c].ptrs = Entries(t, fs)]
    /\ UNCHANGED <<key_table_, tables, dead, nstr, freed, calls, crashed>>

\* result.push_back makes a std::string of the pointer, if it is still there.
CopyOut(c) ==
    /\ cl[c].pc = "copy"
    /\ \/ /\ cl[c].ptrs = {}
          /\ cl' = [cl EXCEPT ![c].pc = "rows"]
       \/ \E p \in cl[c].ptrs :
             cl' = [cl EXCEPT ![c].ptrs = @ \ {p},
                              ![c].got = @ \cup {IF p \in freed THEN Garbage ELSE p}]
    /\ UNCHANGED <<key_table_, tables, dead, nstr, freed, calls, crashed>>

-----------------------------------------------------------------------------
\* Insert and Update.

\* Mutant of Put: the table replaces one that is there.
PutReplace(c) ==
    LET t == Len(tables) + 1 IN
    /\ cl[c].pc = "put"
    /\ tables' = Append(tables, EmptyTable)
    /\ key_table_' = [key_table_ EXCEPT ![cl[c].key] = t]
    /\ cl' = [cl EXCEPT ![c].pc = IF cl[c].op = "Insert" THEN "ins" ELSE "fill", ![c].tab = t]
    /\ UNCHANGED <<dead, nstr, freed, calls, crashed>>

\* Mutant of Put: Update does not enter its table.
PutInsertOnly(c) ==
    LET t == Len(tables) + 1 IN
    /\ cl[c].pc = "put"
    /\ tables' = Append(tables, EmptyTable)
    /\ key_table_' = IF cl[c].op = "Insert" /\ key_table_[cl[c].key] = NULL
                     THEN [key_table_ EXCEPT ![cl[c].key] = t] ELSE key_table_
    /\ cl' = [cl EXCEPT ![c].pc = IF cl[c].op = "Insert" THEN "ins" ELSE "fill", ![c].tab = t]
    /\ UNCHANGED <<dead, nstr, freed, calls, crashed>>

\* NewFieldHashtable and key_table_->Insert, which leaves an entry that is there
\* and whose result nobody looks at.
Put(c) ==
    LET t == Len(tables) + 1 IN
    /\ cl[c].pc = "put"
    /\ tables' = Append(tables, EmptyTable)
    /\ key_table_' = TableInsert(key_table_, cl[c].key, t)
    /\ cl' = [cl EXCEPT ![c].pc = IF cl[c].op = "Insert" THEN "ins" ELSE "fill", ![c].tab = t]
    /\ UNCHANGED <<dead, nstr, freed, calls, crashed>>

\* The loop over values has ended.
Filled(c) == /\ cl[c].pc \in {"ins", "fill", "upd"}
             /\ cl[c].todo = <<>>
             /\ Done(c, kOK)
             /\ UNCHANGED <<key_table_, tables, dead, nstr, freed, calls, crashed>>

\* Mutant of InsertField: the string of a conflict is not deleted.
InsertFieldLeaks(c) ==
    LET t == cl[c].tab
        f == Head(cl[c].todo)
    IN
    /\ cl[c].pc = "ins"
    /\ cl[c].todo # <<>>
    /\ t \notin dead
    /\ nstr' = nstr + 1
    /\ \/ /\ tables[t][f] = NULL
          /\ tables' = [tables EXCEPT ![t][f] = nstr + 1]
          /\ cl' = [cl EXCEPT ![c].todo = Tail(@)]
       \/ /\ tables[t][f] # NULL
          /\ Done(c, kErrorConflict)
          /\ UNCHANGED tables
    /\ UNCHANGED <<key_table_, dead, freed, calls, crashed>>

\* Insert: CopyString and field_table->Insert; a field that is there ends the
\* call, and the string is deleted.
InsertField(c) ==
    LET t == cl[c].tab
        f == Head(cl[c].todo)
    IN
    /\ cl[c].pc = "ins"
    /\ cl[c].todo # <<>>
    /\ t \notin dead
    /\ nstr' = nstr + 1
    /\ \/ /\ tables[t][f] = NULL
          /\ tables' = [tables EXCEPT ![t][f] = nstr + 1]
          /\ cl' = [cl EXCEPT ![c].todo = Tail(@)]
          /\ UNCHANGED freed
       \/ /\ tables[t][f] # NULL
          /\ freed' = freed \cup {nstr + 1}
          /\ Done(c, kErrorConflict)
          /\ UNCHANGED tables
    /\ UNCHANGED <<key_table_, dead, calls, crashed>>

\* Update, into the table it made or after an Update of the field that found
\* nothing: CopyString and field_table->Insert, whose result nobody looks at.
FillField(c) ==
    LET t == cl[c].tab
        f == Head(cl[c].todo)
    IN
    /\ cl[c].pc \in {"fill", "updins"}
    /\ cl[c].todo # <<>>
    /\ t \notin dead
    /\ nstr' = nstr + 1
    /\ tables' = [tables EXCEPT ![t] = TableInsert(@, f, nstr + 1)]
    /\ cl' = [cl EXCEPT ![c].todo = Tail(@),
                        ![c].pc = IF @ = "updins" THEN "upd" ELSE @]
    /\ UNCHANGED <<key_table_, dead, freed, calls, crashed>>

\* Update of a record that is there: CopyString and field_table->Update, which
\* yields the pointer replaced.  (When it yields NULL the string is the one
\* Insert gets, so that it is allocated there.)
UpdateField(c) ==
    LET t == cl[c].tab
        f == Head(cl[c].todo)
    IN
    /\ cl[c].pc = "upd"
    /\ cl[c].todo # <<>>
    /\ t \notin dead
    /\ \/ /\ tables[t][f] # NULL
          /\ nstr' = nstr + 1
          /\ tables' = [tables EXCEPT ![t][f] = nstr + 1]
          /\ cl' = [cl EXCEPT ![c].pc = "free", ![c].old = tables[t][f], ![c].todo = Tail(@)]
       \/ /\ tables[t][f] = NULL
          /\ cl' = [cl EXCEPT ![c].pc = "updins"]
          /\ UNCHANGED <<tables, nstr>>
    /\ UNCHANGED <<key_table_, dead, freed, calls, crashed>>

\* Mutant of FreeOld: the new string is deleted, not the old one.
FreeNew(c) ==
    /\ cl[c].pc = "free"
    /\ freed' = freed \cup {nstr}
    /\ cl' = [cl EXCEPT ![c].pc = "upd", ![c].old = NULL]
    /\ UNCHANGED <<key_table_, tables, dead, nstr, calls, crashed>>

\* DeleteString(old).
FreeOld(c) ==
    /\ cl[c].pc = "free"
    /\ freed' = freed \cup {cl[c].old}
    /\ cl' = [cl EXCEPT ![c].pc = "upd", ![c].old = NULL]
    /\ UNCHANGED <<key_table_, tables, dead, nstr, calls, crashed>>

-----------------------------------------------------------------------------
\* Delete.

\* key_table_->Remove(key_index).
RemoveKey(c) ==
    LET t == key_table_[cl[c].key] IN
    /\ cl[c].pc = "find"
    /\ cl[c].op = "Delete"
    /\ key_table_' = [key_table_ EXCEPT ![cl[c].key] = NULL]
    /\ IF t = NULL THEN Done(c, kErrorNoData)
                   ELSE cl' = [cl EXCEPT ![c].pc = "drop", ![c].tab = t]
    /\ UNCHANGED <<tables, dead, nstr, freed, calls, crashed>>

\* DeleteFieldHashtable: the strings that table->Entries() yields, one at a time,
\* and then the table.  A client that has the table can use it meanwhile.
DropEntries(c) ==
    /\ cl[c].pc = "drop"
    /\ cl' = [cl EXCEPT ![c].pc = "dropping",
                        ![c].ptrs = Entries(tables[cl[c].tab], Fields)]
    /\ UNCHANGED <<key_table_, tables, dead, nstr, freed, calls, crashed>>

DropString(c) ==
    /\ cl[c].pc = "dropping"
    /\ \E p \in cl[c].ptrs :
          /\ freed' = freed \cup {p}
          /\ cl' = [cl EXCEPT ![c].ptrs = @ \ {p}]
    /\ UNCHANGED <<key_table_, tables, dead, nstr, calls, crashed>>

DropTable(c) ==
    /\ cl[c].pc = "dropping"
    /\ cl[c].ptrs = {}
    /\ tables' = [tables EXCEPT ![cl[c].tab] = EmptyTable]
    /\ dead' = dead \cup {cl[c].tab}
    /\ Done(c, kOK)
    /\ UNCHANGED <<key_table_, nstr, freed, calls, crashed>>

\* A client uses a field table that Delete has deleted: undefined, here the end.
UseDead(c) == /\ cl[c].pc \in {"get", "ins", "fill", "upd", "updins"}
              /\ cl[c].pc = "get" \/ cl[c].todo # <<>>
              /\ cl[c].tab \in dead
              /\ crashed' = TRUE
              /\ UNCHANGED <<key_table_, tables, dead, nstr, freed, cl, calls>>

-----------------------------------------------------------------------------
Step(c) == \/ Call(c) \/ Find(c) \/ FindRows(c)
           \/ NextRow(c) \/ GetField(c) \/ CopyOut(c)
           \/ Put(c) \/ Filled(c) \/ InsertField(c) \/ FillField(c)
           \/ UpdateField(c) \/ FreeOld(c)
           \/ RemoveKey(c) \/ DropEntries(c) \/ DropString(c) \/ DropTable(c)
           \/ UseDead(c)

HTNext == \E c \in Clients : ~crashed /\ Step(c)

HTSpec == HTInit /\ [][HTNext]_htVars

-----------------------------------------------------------------------------
Strings == 1 .. nstr
Tables  == 1 .. Len(tables)

\* Every variable of the database keeps its type.
HTTypeOK ==
    /\ key_table_ \in [Keys -> Tables \cup {NULL}]
    /\ tables \in Seq([Fields -> Strings \cup {NULL}])
    /\ dead \subseteq Tables
    /\ nstr \in Nat
    /\ freed \subseteq Strings
    /\ cl \in [Clients ->
                [pc : {"idle", "find", "rows", "get", "copy", "put", "ins", "fill", "upd",
                       "updins", "free", "drop", "dropping"},
                 op : Ops \cup {"none"}, key : Keys \cup {NULL}, todo : Seq(Fields),
                 tab : Tables \cup {NULL}, rows : SUBSET Tables, ptrs : SUBSET Strings,
                 old : Strings \cup {NULL}, got : SUBSET (Strings \cup {Garbage}),
                 status : {kOK, kErrorNoData, kErrorConflict}]]
    /\ calls \in Nat
    /\ crashed \in BOOLEAN

\* The strings client c is about to delete, and the tables being deleted.
Holds(c) == IF cl[c].pc = "dropping" THEN cl[c].ptrs ELSE {cl[c].old} \ {NULL}
Dropping == {cl[c].tab : c \in {d \in Clients : cl[d].pc = "dropping"}}

\* The owner of a string is the field that points to it, or the client about to
\* delete it.  Owned strings are allocated, and no string has two owners:
\* however the inserts and updates of several clients on one record interleave,
\* no field dangles and no string is deleted twice.
OwnedOnce ==
    /\ \A t \in Tables \ Dropping, f \in Fields : tables[t][f] \notin freed
    /\ \A c \in Clients : Holds(c) \cap freed = {}
    /\ \A t, u \in Tables, f, g \in Fields :
          tables[t][f] = tables[u][g] /\ tables[t][f] # NULL => t = u /\ f = g
    /\ \A c \in Clients, t \in Tables \ Dropping, f \in Fields : tables[t][f] \notin Holds(c)
    /\ \A c, d \in Clients : c # d => Holds(c) \cap Holds(d) = {}

\* What Delete asks of its callers for OwnedOnce: Delete does not keep out a client
\* that has found the record already, so that no two clients may share keys.
\* (The driver never calls Delete, and its clients share all keys.)
Exclusive == "Delete" \in Ops =>
                 \A c, d \in Clients : c # d => KeysOf[c] \cap KeysOf[d] = {}

\* A record keeps its field table until it is deleted: a second client that
\* found no record never replaces the first one's.
RecordKept ==
    [][\A k \in Keys : key_table_[k] # NULL => key_table_'[k] \in {key_table_[k], NULL}]_htVars

\* Client c made its table for a key that another client had entered one for
\* since c looked: no key leads to c's table, and no other client has it.
LostRace(c) ==
    /\ cl[c].pc \in {"ins", "fill"}
    /\ key_table_[cl[c].key] \in 1 .. cl[c].tab - 1
    /\ \A k \in Keys : key_table_[k] # cl[c].tab
    /\ \A d \in Clients \ {c} : cl[c].tab # cl[d].tab /\ cl[c].tab \notin cl[d].rows

\* A write goes "into the record" (db.h, Insert), the table its key leads to, also
\* while other clients look the key up and enter it; but for the client whose own
\* table came second, which loses all it writes and disturbs nobody.
WritesReachRecord ==
    \A c \in Clients : cl[c].pc \in {"ins", "fill", "upd", "updins"} =>
        key_table_[cl[c].key] = cl[c].tab \/ LostRace(c)

\* Every value a client reads is one that was written: "field/value pairs from
\* the result are stored in a vector" (db.h, Read), never what a freed string holds.
ReadIntact == \A c \in Clients : Garbage \notin cl[c].got

\* Every string allocated and not deleted can be reached from the table of
\* records, or by the client about to delete it or its table.
NoLeak ==
    \A p \in Strings \ freed :
        \/ \E k \in Keys, f \in Fields : key_table_[k] # NULL /\ tables[key_table_[k]][f] = p
        \/ \E c \in Clients : p \in Holds(c)
        \/ \E c \in Clients, f \in Fields : cl[c].pc = "drop" /\ tables[cl[c].tab][f] = p
=============================================================================
