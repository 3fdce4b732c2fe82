# A TLA+ development for YCSB-C

This directory models the parts of this YCSB-C copy that have state which several
threads, callbacks, messages or crashes act on, checks the models with TLC on small
instances, and proves the main properties with TLAPS for every value of the constants.
`PROJECT.json` ties every definition to the lines it models, and lists runs, mutants,
hazards, findings and theorems.

## 1. The system

`ycsbc` is a benchmark. `main` (ycsbc.cc) parses the command line into `Properties`,
initialises a `CoreWorkload`, obtains a database from `DBFactory::CreateDB`, starts one
asynchronous `DelegateClient` per thread to load records, joins them, starts as many for
the transactions, joins them, calls `Close` and `HandleAllData`, and prints throughput.

| Component | State | Operations | How it interacts | What is hard |
|---|---|---|---|---|
| driver: `main`, `DelegateClient` | futures, totals | spawn, join, report | creates clients; shares `db` and `wl` with all of them | phase separation, the share of each thread, termination |
| `Client` (core/client.h) | none of its own | `DoInsert`, five transactions | calls the workload for keys and values, the database once or twice | failed calls; two calls of a read-modify-write |
| `CoreWorkload` and generators (core/) | key counter, insert sequence, random engines | `NextSequenceKey`, `NextTransactionKey`, `BuildValues`... | shared by all clients without a lock of its own | atomicity of the counters; keys that were never loaded |
| `RealCephDB` (db/real_ceph_db.h) | `phase`, `ops`, time vectors, `mutex_`, `async_op_count`, a condition variable, the image | `Init`, `Read`, `Update`, `Insert`, `Scan`, `Close`, two completion callbacks | callbacks run on librbd's threads | a callback outrunning its submitter, lost wakeups, closing under I/O |
| `CephDB` (db/ceph_db.h) | a mapped file, `phase`, `ops`, times, `mutex_` | the same, synchronous, and `FinalFlushDisk` | memory is written back by the system at any time | crash between memset and msync, failed msync, torn blocks |
| `XihuDB`, `XihuClient` (db/xihu_*.h) | `Mission`, pool of message buffers, requests in the network | `read`, `write`, `cont_func` | eRPC event loop, continuations | pipelining, reordered responses, buffer reuse |
| `HashtableDB` over `LockStlHashtable`, `TbbRandHashtable`, `TbbScanHashtable` (db/, lib/) | a table of tables of string pointers | `Read`, `Scan`, `Update`, `Insert`, `Delete` | clients share it; each table call is atomic, no database call is | check-then-act races, ownership of strings, use after free |
| `BasicDB` | none | prints | | |
| `RedisDB`, `RedisClient` (db/redis_db.*, redis/redis_client.h) | one hiredis context | `Read`, `Update`, `Insert`, `Delete`; `Scan` throws | blocking calls of hiredis, a second command `WAIT` per write | one context shared by all clients, errors that end the process |
| hiredis, synchronous (hiredis.c, net.c, read.c) | descriptor, output buffer, reader with its stack of tasks, error | connect, append, get reply, reconnect, free | reads and writes a stream that is cut anywhere | partial input, failed allocations, descriptors, errors that must stick |
| hiredis, asynchronous (async.c, dict.c) | callbacks waiting, two tables of subscriptions, flags | commands, disconnect, free, the handlers of the event loop | calls the application back, which calls the library | re-entrance, orderly ends, whose reply it is |
| hiredis, strings (sds.c) and commands (hiredis.c) | length, free space and bytes | append, cut, trim, quote, split, format | used by all of the above | hand-kept lengths, zero bytes, quoting |
| `Properties`, `ParseCommandLine`, `DBFactory` | a map of strings | parse, look up | used once, before threads start | malformed input |
| `Timer`, utils, `String`, allocation | | | | |

What makes each correct: the driver runs every phase's operations once and the phases
apart; the workload gives out each key number once; a database's answer means what db.h
says, its counters agree with its samples, and it neither loses writes nor waits for ever;
a client of Redis gets the whole answer to its own command, an error stays an error, a
callback is called once with what it was registered for, and nothing leaks.

## 2. Modules

| Module | Models | State ↔ code |
|---|---|---|
| `BlockTransfer` | abstract: one read or write call moves its blocks one at a time, in any order, and returns when all are moved | the caller's memory, the server's blocks, the blocks still to move |
| `XihuClient` | `XihuClient::read`, `write`, `cont_func`, with eRPC and the server external | `ms` = `Mission`, `avail` = the FIFO of buffers, `msgs`/`net` = each buffer pair and where its request is, `pc`/`i` = the calling thread |
| `Ycsbc` | `main`, `DelegateClient`, `Client`, and the workload's keys, over a database that answers any status | `main`/`cursor`/`sum` = main's place and loop variables, `th` = each `DelegateClient`, `call` = the database call it is in, `counter` = `key_generator_`; `loaded` is a history |
| `RealCephDB` | the database over librbd: submission, counting, callbacks, `Close` | the fields of the class; `io` = the I/Os submitted and where each is; `waiter` = where `Close` is in `async_op_cv.wait` |
| `Benchmark` | abstract: a run of the benchmark against an asynchronous database, without threads, locks and calls | the stage, the operations to do, the number of I/Os under way, the sum of a finished phase |
| `YcsbcRealCeph` | the driver composed with `RealCephDB`; `exit` in a callback ends everything (`killed`) | the union; `Run` maps it to `Benchmark` (the stage from `main`, what remains from each client's `i`, the I/Os from `io`, the sum from `sum`) |
| `HashtableDB` | the in-memory databases, one step per call of a table, per string copied out and per string deleted | `key_table_`, `tables` = the field tables, strings as addresses with the set `freed`, `cl` = each client's call and locals |
| `CephDB` | the mapped-file database, killed, unplugged and restarted | `mem` = the mapping, `disk` = what power loss leaves, `allowed` = what clients were told (a history) |
| `Sds` | sds.c: the strings of hiredis as operators | `len`, `free` and the bytes of a `struct sdshdr` |
| `RedisFormat` | the formatting of commands (hiredis.c), the commands `RedisDB` sends, and how async.c reads one back | operators over sequences of characters |
| `RedisStrings` | one string that a program keeps and changes by any function of sds.c, beside the text it should hold | `str`, and `text` (a history) |
| `Dict` | dict.c as async.c uses it | buckets, `size`, `used` |
| `RedisReader` | read.c: the parser of replies, and the reply objects of hiredis.c | `buf`, `pos`, the stack of tasks, `reply` = the objects built so far, by their path from the root; `live` counts objects allocated and not freed |
| `RedisContext` | hiredis.c, net.c, redis_client.h, redis_db.*: connecting, commands, replies, reconnecting, freeing, by `RedisDB`'s clients or by a program that uses the API | `c` = the context with its reader, `nc` = where a connect is in its loop over addresses, `th` = each thread's call, `net` = the two directions of the stream, `left` = what is left of the bounds |
| `RedisAsync` | async.c on the ae adapter: commands with callbacks, subscriptions, monitors, disconnecting and freeing | `ac` = the context, `ev` = the adapter's registrations, `pc`, `cb`, `after`, `it` = where the one thread is; `got`, `subs`, `asked`, `close` are histories |

`MC*` modules give constants their values. `*Proofs` modules hold the theorems; `SeqFacts` has
the lemmas on numbers and sequences that the proofs about hiredis share.
`YcsbcRealCeph` EXTENDS `Ycsbc` and `RealCephDB` and joins their steps: a client's
database call is a `Begin…`/`End…` pair of `RealCephDB` steps inside a driver step's
call and return. `XihuClient` and `HashtableDB` and `CephDB` stand alone: their callers
are any clients that make one call at a time. `RedisContext` EXTENDS `RedisReader` and
`RedisAsync` EXTENDS `Dict`; `MCRedis` puts `RedisContext` beside `RedisStrings`. `RedisAsync`
has replies arrive whole, since `RedisContext` has the parser; `RedisContext` has commands
be numbers, since `RedisStrings` has their bytes.

Abstractions. Key strings are numbers, and the FNV hash a constant function. Values are
model values, or the address they were copied to. Random choices are any value of the
range. Times are counted, not measured. A lock held over a region in which no other
step could see the difference makes the region one step; the regions others can see
into (between submission and count in `RealCephDB`, between memset and msync in
`CephDB`, between two calls of a table in `HashtableDB`) are several.

External, modelled from how the code uses them: librbd (completes each I/O once, at any
time, successfully or not), `std::condition_variable` (may wake spuriously), eRPC and the
Xihu server (answer each request once, in any order), the page cache (writes any block
back at any time), kill and power loss, the Redis server (answers what it was sent, in order,
possibly with an error; may close the connection, also after bytes that are no reply, too deep a
nesting, or an array whose count an int cannot hold), the
event loop (delivers an event that is registered and due), and the system calls of net.c
(each may fail in the ways the code tells apart: `Outcomes`).

## 3. Runs

| Run | Instance | Shows |
|---|---|---|
| `xihu_pipeline` | 3 blocks, pipeline 2, 3 buffers, 2 values | `BuffersConserved`, `PoolSuffices`, `NoLateCompletion`, `ResultComplete`; implements `BlockTransfer` (`TransferSpec`); every call returns (`EveryCallReturns`) |
| `driver_phases` | 2 threads, 4 records, 4 operations, all transactions, any status | `PhasesSeparate`, `LoadExact`, `TransactionKeyLoaded` (when no load failed), `AllTasksDone`, `Terminates`. The hash gives the numbers 0 to 3 two keys, so that four numbers loaded are two records |
| `driver_unloaded_key` | 3 records, 2 threads | violation of `TransactionKeyLoaded` |
| `realceph_system` | 2 threads, 2 records, 2 operations | `SysTypeOK`, `CountExact`, `CloseSafe`, `PhaseCoherent`; implements `Benchmark` (`BenchmarkSpec`); `ClientsFinish` |
| `realceph_lost_wakeup` | 1 thread, 1 update | violation of `ReportReached` |
| `hashtable_driver` | 3 clients, one shared record of 2 fields, 3 calls | `OwnedOnce`, `WritesReachRecord`, `RecordKept` |
| `hashtable_own` | 2 clients with a key each, all operations, 4 calls | `NoLeak` |
| `hashtable_stale_read` | 2 clients, shared record, Read and Update | violation of `ReadIntact` |
| `ceph_file_durable` | 2 clients, 2 blocks and a key outside, 3 calls, a kill and a power loss | `Durable`, `ReadWhole`, `Visible` |
| `redis_client` | one thread, `RedisDB` or a program of the API over TCP or a Unix socket, 2 commands, any of which may fail to be appended, 2 addresses, a reconnection that may fail to resolve or find no socket; strings of up to 3 of 7 bytes | `OwnReply`, `ReaderExact`, `DescriptorsOwned`, `ConnectOutcome`, `ErrorSticks`, `CallReturns`; `StringExact`, `TextReadBack`, `CommandSent` |
| `redis_shared_context` | the same, two clients of `RedisDB`, no faults | violation of `OwnReply` |
| `redis_async` | 2 commands of any kind, 2 channels in one bucket and a pattern, a published message, every fault | `NoCrash`, `RightCallback`, `CallbacksOnce`, `DisconnectStatus`, `TeardownStable`, `DisconnectHappens`, `EveryCommandAnswered` |

Bounds, and why they are enough. In `xihu_pipeline` the call is longer than the pipeline
and as long as the pool, so buffers are reused within a call, responses overtake each
other, and calls of 0, 1, fewer and more blocks than the pipeline occur; `U32 = 5` is the
smallest width at which `seq` does not wrap (the assumption `WidthAssumption` is what the
code relies on: block numbers plus the depth are below 2^32). Two threads give every
interleaving of two key draws and of a spawn with a running client; the counts are small
multiples of the threads, or not a multiple where that is the question. Two operations of two clients
let a callback outrun its submitter while another I/O is under way. Three clients on one
field table are enough for two updates to swap around a third. The reader sees nested
arrays, a nesting one deeper than it allows (`MaxDepth` stands for the code's 8), every cut of
the stream, and the failure of the third allocation or of none; `IntRange` = 4 and `LongRange` = 64 stand for
2^31 and 2^63, so that the count 8 is a long and is 0 as an int (twice `IntRange` is to be a single
digit, for the server of the model to write it); `Discard` stands for the
1024 bytes after which the parsed part of the buffer is dropped, and `SDS_MAX_PREALLOC` for
the megabyte at which strings stop doubling, both small enough to be passed. The seven bytes are one for
each way that quoting, splitting and formatting treat a byte; three of them make every
escape and every pair of separators. Two commands are enough for a subscription and its
end, or two callbacks waiting; the initial size of the table is 1, so that the second
subscription makes it grow; the invariants also hold with three commands (7.2 million states,
without the temporal properties), where an unsubscribe is followed by another command. `MaxCalls`, `MaxKills` and
`MaxLosses` cap counters that are otherwise unbounded; the theorems have no such cap
(they hold for every value of the bound). No symmetry is declared: the state spaces
do not need it (the largest, of `hashtable_own`, has 1.5 million states).

Deadlock is checked for `XihuClient`. The others may stop: the benchmark ends, or the
bound on calls is used up.

Fairness. `XihuClient`: the calling thread takes its steps (it spins in the event loop)
and the server answers each request; the code has no timeout, so an unanswered request
would leave it spinning, and the assumption is needed. `Ycsbc`: main and each client
thread are scheduled, and the database answers. `YcsbcRealCeph`: the same, and librbd
completes each I/O; a spurious wakeup is possible but never promised. All are weak
fairness on whole threads, which is what a fair scheduler gives; fairness of a client's
step is not stronger than that although the mutex is contended, because each client
makes finitely many calls. `RedisContext`: a thread in a call goes on when it can (`CanGoOn` is
when, `GoesOn` that it did; together they are weak fairness of its step), and the server
answers. `RedisAsync`: callbacks return, the event loop delivers events, a read of a
connection that has something takes something, and the server answers. No step that is a
fault is fair.

Mutants. Every property of a passing run has a mutant of the code's model that breaks it:
each is an operator with a comment beginning "Mutant of", next to what it mutates.

## 4. Findings

1. `driver_unloaded_key`: the division of records among threads drops the remainder,
   `insert_key_sequence_` does not know, and transactions ask for records that nobody
   loaded (core_workload.cc:137, comment at 146).
2. `realceph_lost_wakeup`: the callbacks decrement and notify without `async_op_mutex`;
   between `Close`'s test and its blocking the notification is lost and `Close` hangs with
   nothing under way (real_ceph_db.h:57-58, 70-71, 77).
3. `hashtable_stale_read`: `Read` (and `Scan`) use a string pointer after the table's lock
   is released; an `Update` of another client deletes the string in between
   (hashtable_db.cc:31, 37, 91).
4. `redis_shared_context`: `RedisDB` is one instance for all threads and has one context
   without a lock; a client is handed the reply to another client's command
   (redis_db.cc:28, redis_db.h:53, db.h:28).

What the checks are bounded by. These follow from the same models with other constants,
and are why the constants of a passing run are as they are:

- `hashtable_own` has clients that share no keys. With shared keys (`KeysOf <- MCShared`)
  `NoLeak` fails: of two clients that insert a new record at once, the second fills a table no
  key leads to and returns `kOK` (hashtable_db.cc:79, 104); `WritesReachRecord`, checked with
  shared keys, says that nothing else goes astray. With shared keys and `Delete` (which the
  driver never calls) `OwnedOnce` and `WritesReachRecord` fail too (hashtable_db.cc:124).
- `ceph_file_durable` has `SyncFails = FALSE`. With TRUE, `Durable` fails: the result of `msync`
  is ignored and the write reported as done (ceph_db.h:398, 422).
- `UpdateSent`, a part of `CommandSent`, excludes values with `%`: the line of an update is passed
  to hiredis as a format (redis_client.h:54), and `%%` arrives as `%`.
- `DescriptorsOwned` allows one double close, since the code has it: `redisReconnect` keeps the
  number of the descriptor it closed (hiredis.c:647), and when the reconnection finds no address or no
  socket, `redisFree` or the next `redisReconnect` closes that number again. `c.misses` counts such
  closes, and the property says when they happen. (That they never do would be violated.)
- `ReaderExact` allows one write outside an array, for the same reason: an element count is read
  as a `long` and stored as an `int` (read.c:333, 345; hiredis.c:134), so that a count beyond int may
  make an array without an element vector and tasks below it; the first object of such a task is
  written through a null pointer (`NoVector`). In the model that ends the process (`"segv"`, `Exit`).
  With `LongRange` the numbers of `readLongLong` wrap, which is what builds make of the overflow at
  read.c:164. A reply that is delivered may have a negative count; what its user makes of that
  is not followed.
- `redis_client` has no `"notavail"` and `"noreuse"`, which only `redisConnectBindNonBlockWithReuse` can
  meet: a retry leaks the socket before (net.c:374), and a failed `SO_REUSEADDR` returns
  without an error set (net.c:346).
- `redis_async` has `CloseInConnect = FALSE`. With TRUE `NoCrash` fails: the connect callback
  runs without REDIS_IN_CALLBACK, so that a free in it is immediate and the handler goes on
  with the freed context (async.c:509).
- It has `Careful = TRUE`: the application waits for the answer to an unsubscribe before it
  sends something else. With FALSE `RightCallback` fails, and with three commands `NoCrash`: the
  callback of a plain command sent after the last unsubscribe waits in the list of invalid
  commands, and its reply meets the assertion (async.c:463).

## 5. Theorems

All for any number of clients, threads, keys, blocks and calls, from the named
assumptions of the modules (non-negative counts, a pool no smaller than the pipeline, the hash
a natural number, 0 not the name of a client) and the hypotheses named below, each of which
the run of the same property satisfies unless it says otherwise.

- `XihuClientProofs`. `IInv` adds to the checked invariants what relates the Mission to
  the network: `MissionOK` (how far `nxt` and the first loop's `i` are), `FlightCount` (each
  continuation that ran ended one request), `MessagesOK` (each message in flight is of
  this call and carries the right data), and `RequestedDone` (a block requested is pending
  or the same in memory and on the server). From it
  follow `TypeCorrect`, `PoolConserved`, `PoolNeverEmpty`, `NoneLeftBehind`,
  `CallComplete`, `NoDuplicateRequest`, and `ImplementsTransfer`: initial states map to
  initial states, and a step to a `BlockTransfer` step or a stutter.
  `ResultComplete` alone is not inductive: it says nothing until a call returns.
- `YcsbcProofs`. `DriverInv` adds `ClientsPlaced`: which clients exist, and in which phase,
  given where main is. `LoadThenTransactions` follows. `Progress` relates what each client has
  done to its share and to main's place; `AllOperationsDone` follows when the threads divide
  `operationcount` (otherwise the remainder is dropped, finding 1). `LoadIsExact` needs to know who
  drew which key number: `LoadCounted` says that there is a function `giver` from the numbers drawn
  to the threads under which each thread's count is the number of its numbers, and its successes are
  the number of those that are loaded (`Ledger`); the sum main prints is then a cardinality, of key
  numbers and not of keys (`BuildKeyName` takes the hash modulo `recordcount`). With
  `insertstart` 0 and divisible counts `TransactionKeysLoaded` follows.
  The same module proves the composition: `SysInv` adds to the driver's invariant `HolderInCall` (`mutex_` is
  held between steps only by a client that has submitted an I/O and not counted it),
  `CloseWaits` (past the wait the count is zero, and the image is open until then) and
  `OpsCounted`. `CountIsExact`, `ImageOutlivesIO`, `PhaseIsOwn`, `SamplesMatch`;
  `DriverKeepsItsWord` (the composition is written so that its steps are the driver's or leave it
  alone, and what is proved of the driver holds here); `SysTypeCorrect`, for a hash that yields
  numbers; and `BenchmarkImplemented`, the refinement. It needs `PhaseIsOwn` (a loading client's
  insert starts no I/O only because the phase it finds is its own), `Progress` and the joins (nothing
  remains when the stage changes), the exact count behind `CloseWaits` (no I/O at `Close`), and
  `BenchInv`: as every status is 0, `oks` is `i` and main's sums are whole shares (`CountedOnce`), and
  I/Os exist only between the first transaction and `Close` (`IOInTransactions`).
- `HashtableDBProofs`. `HTInv` = `HTBase` (types, `Located`: what each place of a call
  implies for its locals, and `OwnedOnce` where `Exclusive`) and `Apart`: where `Delete` may be
  called and clients share no keys, no two that write or delete have the same field table. `StringsOwnedOnce` needs `Exclusive`: nobody calls `Delete` (the
  driver does not), or no two clients share keys. `RecordsKept` needs nothing.
  `WritesReachTheirRecord` needs `Exclusive` only. Where nobody calls `Delete` it rests on `Placed`:
  a client that updates has the table its key leads to for good, and one that found no record has
  that table or one made later than it, which is in no record and in no other client's hands
  (`LostRace`); that this stays so needs what every step may put in a client's hands (`TabsStep`).
  With `Delete` it rests on `Reached`: the table a client writes is the one its key leads to, no two keys lead to the same
  table, and a client about to enter a table under its key finds none there. `NoStringLost` needs
  `Own` (no two clients share keys; section 4 has why) and that
  the fields of a record differ, and adds `Unfilled`: what an insert has still to fill is empty,
  so that it overwrites no string.
- `CephDBProofs`. `CInv` adds `WriterInv` (a writing client holds `mutex_`, its block is
  filled before `msync` and on the disk after it if `msync` does not fail), `DownInv`,
  `MemInv`/`DiskInv` (what memory and disk may hold; `Durable` is not inductive without
  `MemInv`, since the system writes memory back at will), `TornInv` (a torn block is being
  filled) and `CountInv`. `WritesDurable` (if `msync` does not fail), `ReadsWhole`,
  `WritesVisible` (even if it does), `OpsAreTimed`, `CTypeCorrect`.

- `RedisAsyncProofs`. `Moves` says what a step may do to the two lists of callbacks. `EndInv`
  (what marks an end, and that it is clean) gives `StatusIsTrue` and `TeardownIsStable`, for every
  use of the API and every server; `EndIsSafe` needs that the connect callback does not close
  (section 4). `Kept` (a callback is on a list or was called) gives `NoCallbackForgotten`. For an
  application that neither subscribes nor monitors, `Pipeline` says that one number `k` explains
  everything: the callbacks on the list are those of the commands from `k` + 1 on; the replies
  read, those under way, the commands sent and those still to send continue the same count (the
  latter two as long as the server is there); and a callback beyond `k` has not been called.
  `AnswersMatchCommands`, `EachCallbackOnce` and `PipelineNeverCrashes` follow for any number of
  commands.
- `RedisContextProofs`. `CtxInv` (where a connect is in its loop, and what it left in the
  context) gives `ConnectTellsOutcome`, and with `Descriptors` `DescriptorsAreOwned`: what is open is the
  context's own (`Owned`), or nothing is open, the context has an error and its number is the one
  that a failed reconnection closed (`Lost`), which only then can be closed again (`Misses`). Both assume
  `NoReuse` (no outcome of `SO_REUSEADDR`; section 4 has what happens otherwise). `ReaderIsExact` and
  `ErrorsStick` assume
  nothing. The argument for the parser: `ReaderOK` says that the position is inside the buffer and
  each task but the last is an array, of which the following task is an element if its count is
  positive as an int; `Ahead` orders the
  paths of a reply, and what is built so far is behind the path of the current task, so that
  planting an object there never hides another (`Loose`, the objects allocated and not in the
  reply, stays the same through every turn); and every turn of the loop but the last consumes
  bytes (`LoopThen`), so that a loop bounded by the length of the buffer is the code's `while`.
  `MemInv` adds where the objects are that are not the reader's (`Accounts`): each thread holds
  the reply it was given, and freeing it once is all it does.
- `RedisStringsProofs`. `StringsAreExact`: whatever functions of sds.c are called in whatever
  order, the string holds the text its caller expects, behind a header that tells the truth.
  `StrInv` says the bytes before the terminator are the text, element by element (`Body`), and
  the terminator follows (`Sound`); `StringExact` says the first part by `SubSeq` and leaves out that
  the bytes are bytes. Each function has a lemma: `Written` (a text written at a place, with
  its terminator, replaces what was behind it) is the one under appending, copying and growing,
  `RoomMade` under all that may reallocate, `WrittenTwice` (text and terminator written apart) under
  `sdsIncrLen`, `sdstrim` and `sdsrange`, `FirstZero` under what measures a C string. `sdscatfmt`, which
  writes no terminator until the end, keeps `Body` from piece to piece; `DigitsBuilt` and `NumberWritten`
  are the induction its numbers need. Nothing is assumed of the alphabet, the length or the
  preallocation.
  `TextsReadBack`: what is written of the string is read back. The recursive functions exist
  (`QuotedBuilt`, `LineRead`, `SplitBuilt`, `JoinBuilt`, each by induction over its length), and each
  is followed place by place. Quoting: `ReprWritten` and `QuotedPlaces` say where in the line each
  byte of the text was written, `QuotedByte` that the reader makes of those one to four bytes the
  byte again in one step, and `ReadSteps` counts the steps to the end of the line, of which
  `sdssplitargs` has enough. Splitting: `Upto` says that the parts cut so far are `Slot`s of the
  text, each followed by a separator and without one inside, and that no separator begins
  between the last cut and the place looked at (so that an occurrence that overlaps one
  already taken is passed over); `Joins` puts the slots together again.
- `SeqFacts`. Induction over the natural numbers is stated there for sets (`NatSetInduction`, from
  the well-foundedness of `<`), since the library's theorems with an operator parameter cannot be
  instantiated; it is what the recursive functions of `RedisReader` need (`readLongLong`, and the
  turns of the loop). `Fits` says that a sequence is in step with a count.

The type invariants, `RequestsDistinct`, `OpsMatchSamples`, `OpsTimed`, `DriverProgress`,
`LoadAccounted` and `EndIsSafe` state what is not, or only in part, among the properties of a run.

Only model-checked:

- liveness (`EveryCallReturns`, `Terminates`, `ClientsFinish`, `CallReturns`, `DisconnectHappens`,
  `EveryCommandAnswered`), which TLAPS does not reach, as it has no ENABLED;
- `RightCallback`, `CallbacksOnce` and `NoCrash` with subscriptions and monitors: they need that the
  tables of `Dict` are a map through every expansion (folds, and powers of two, which the
  SMT backend does not have), and that the application is careful;
- `OwnReply`, which compares replies with the texts of numbers;
- `CommandSent`, whose operators are folds over the characters of a format and over
  powers of ten: what they compute needs an induction for each.

## 6. Not modelled

- `XihuDB`: its mutex around `XihuClient`, with the writes commented out. It counts and times
  a call as `RealCephDB` does, and every call is one client's, so that it adds nothing that
  `XihuClient` (calls one after the other) and `YcsbcRealCeph` do not have.
- The distributions of the generators (real arithmetic), the race on the engine of
  `RandomDouble`, floating-point remainders in `DiscreteGenerator`.
- The contents of blocks in `RealCephDB` (whether librbd copies a stack buffer is not
  visible here), and submissions that librbd refuses.
- Destructors, and the memory of keys inside the hash tables (`Insert` leaks its copy of
  a key that is there).
- `BasicDB`, `Timer`, `String`, allocation: no state that properties are about.
- The branches of ceph_db.h under macros that are not defined.
- In hiredis: comparison of strings, the adapters other than ae (they keep the same two
  registrations), win32.h, tests and examples; allocation failures outside the reader and the
  appending of commands.
- `Properties`, `ParseCommandLine`, `DBFactory`: run once before any thread starts; what they
  yield are the constants of the models.
- The use of an uninitialised pointer in `HandleError` (redis_client.h:73) is recorded in
  `c.bad`, and ends the process as its `exit` does; what a free of it does to the heap is not.
- `mywork`, `mylearning`, scripts, workload files: no part of the program.

## 7. Open

1. `Dict` as a map: `dictReplace` and `dictDelete` keep `IsMap`; then `RightCallback` with subscriptions.
2. `CoreWorkload`: `Init` and its error paths, the choosers' ranges (scan lengths, the loop of
   `NextTransactionKey`).
3. Linearizability of `HashtableDB`'s single-field operations against an abstract map where
   clients do not share keys.

## 8. Use

    tlc -workers 2 -config CephDB.cfg MCCephDB     # one run; PROJECT.json lists them all
    tlapm CephDBProofs.tla                          # one module of proofs
