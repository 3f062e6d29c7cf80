# A verification of test-Onion-PIR

TLA+ modules, TLC configurations and TLAPS proofs for the client-server
application around Onion-PIR in `src/`. A client asks for the record of an id;
the server computes on all records of the id's *group* and returns one
ciphertext, without learning which id was meant. The cryptography is in SEAL
and NFLlib; what this repository adds is the part that can go wrong in ways no
single-threaded test shows: a server with a thread per connection, a cache of
preprocessed groups that all threads share, global scratch memory, a message
protocol without types, and files that both sides must read the same way.

## The system

| Component | State | Operations | Hard about it |
|---|---|---|---|
| `DbCenter` (db_center.cpp) | per group: pointers, bytes, hit number; total, counter, mutex | `get_db`, `ensure_valid_hit_seq`, `ensure_valid_memory_size`, `release_db` | two critical sections with a load between them; pointers handed out and freed later; numbers that restart |
| Query session (server.cpp, pir_server.cpp) | `ConnData`, `pir_params_`, `split_db` | `handle_one_query`, `read_split_db_from_*`, `clear_split_db`, `generate_reply_combined` | the skip for a repeated group; whose blocks `split_db` points at; a connection lost halfway |
| Scratch of external_prod.cpp | `resa`, `resb`, `resc`, global | transforms, products, sums of polynomials | one scratch, many threads, no lock |
| Connection (NetServer, NetClient, server.cpp, client.cpp) | socket, `send_ready`, the place in the script; `sync_ids`, global | `one_time_send`, `one_time_receive`, `sync_id_index`, `send_public_params`, the query loop | messages without types, acknowledgements, peers that go, a flag shared by all connections |
| Id files (server.cpp, client.cpp) | `data_map/`, `id_map/`, `split_db/` | `process_datas`, `process_split_dbs`, `load_data`, `sync_id_*`, `find_index` | both sides must number the ids alike; files left by a run that was stopped; ids read as numbers |
| PIR layout (pir.cpp, pir_client.cpp, pir_server.cpp) | dimensions, packed plaintexts | `get_dimensions`, `compute_indices`, `set_database`, `generate_reply_combined` | small and uneven databases; client and server compute the layout from their own counts |
| Batch queries (client.cpp, server.cpp) | id sets, placement of ids in plaintexts, `batch_query_proprocess.data` | `batch_id_index_process`, `get_batch_query_buffer`, `handle_batch_query`, `handle_one_batch_query` | random places in a set, a scan that ends only on success, a file of an earlier run |
| Lattice arithmetic, Waksman network, configuration, `main.cpp` | none that lasts | | numeric or start-up code |

They interact like this. `main` of the server starts a detached thread for every
connection it accepts. The thread does the handshake (flag, ids if asked for,
Galois keys, fourteen ciphertexts), then answers queries until its client goes.
For a query about another group than the last it takes `split_db` from `DbCenter`
(`use_memory_db`) or from disk, computes the reply through the scratch
polynomials, and sends it. The threads share the singleton `DbCenter`, the
scratch, and the global settings, `sync_ids` among them. Only `DbCenter` has a
lock.

## Modules

| Module | What it is |
|---|---|
| `DbCenter` | the cache, one action per critical section, load, eviction and return |
| `DbCenterRecency` | `DbCenter` with a history variable: which group was used later than which |
| `QueryServer` | sessions over `DbCenter`: the query loop, in cache and in disk mode |
| `QueryService` | what a client is promised: an answer from the group it named |
| `NflScratch` | polynomial primitives over the shared scratch |
| `Connection` | client, server thread and the messages between them |
| `Stream` | `one_time_send` and `one_time_receive` of both ends over a stream of bytes |
| `Channel` | what the code above takes them for: messages, whole and in order |
| `IdFiles` | the files of both sides, their preparation, synchronisation and use |
| `Batch` | a batch from the ids to the result file, with server and client |
| `PirParams` | plaintexts, dimensions, coordinates |
| `Retrieval` | one query from the index to the record: packing, expansion, the walk through the matrix |
| `DbCenter_proofs`, `QueryServer_proofs`, `NflScratch_proofs`, `Connection_proofs`, `Stream_proofs`, `IdFiles_proofs`, `Batch_proofs`, `Retrieval_proofs` | theorems |
| `MC*` | constants for TLC |

**DbCenter.** A `Db_t` is a vector of vectors of pointers. It is modelled by a
*handle*, the identity of the whole allocation; `heap[h]` is the group whose data
its blocks hold, or `Unused`. Copying a `Db_t` copies the handle; freeing through
one copy frees under all others; a later allocation may get the same handle.
`get_db` is `GetDb`, `Lookup` (first critical section, with
`ensure_valid_hit_seq`), `LoadFromDisk` (no lock held), `Store` (second critical
section, up to the loop), `Evict` (one iteration of
`ensure_valid_memory_size` with `release_db`), `FinishStore`. The mutex is held
from `Store` to `FinishStore`. Memory is counted in blocks, not bytes.

**QueryServer.** A thread is a connection. `ReceiveIdMod` and `ReceiveQuery` are
`handle_one_query` up to the load, in the order in which it changes
`last_id_mod`, `number_of_items` and `pir_params_`; `CallGetDb`, `RunGetDb`,
`AssignSplitDb` are the cache path and embed `DbCenter`'s actions, `ClearSplitDb`
and `ReadSplitDb` the disk path; `ReadBlock` is one product of the first dimension
of `generate_reply_combined`, which is where the blocks are read; `SendReply` is
the rest; `ConnectionLost` is every `return false`. A reply is the set of groups
(or freed memory, or memory past the end) the blocks held when they were read.

**NflScratch.** A primitive loads one or two operands, computes, and stores.
What it computes is a parameter; TLC uses real arithmetic on polynomials of
degree below 2 over Z_5, where an `ASSUME` checks that the transforms are
inverse to each other and turn products into negacyclic products.

**Connection.** Both sides walk through the stages flag, counts, ids, galois,
enc_sk, id_mod, ct, reply. `SendMessage` and `AwaitAck` are `one_time_send`,
`SendNotReady` its path for a sender without an acknowledgement, which ends in
the `while(!send_ready)` loop (`"spin"`); `ReceiveFlag` and `Receive` are
`one_time_receive`. A receiver takes any message for the one it expects; a
sender takes the next eight bytes for its acknowledgement. `ReceiveFlag` and
`Branch` are two steps because `sync_ids` is global. Clients are stopped between
two messages (`Leave`); what the server's reads and writes then return is
`ReceiveClosed`, `AwaitAckClosed`, `SendToGone`.

**Retrieval.** A ciphertext of the query is the polynomial inside it, over Z_T
modulo X^N + 1; the constant factor that the rows of a GSW ciphertext share and
the moduli of ciphertexts are left out. `Ask` is `generate_query_combined`, `ExpandStep` an iteration of
`poc_rlwe_expand` with its automorphism and its shift, done for real,
`FirstDimension` and `FoldDimension` the products of `generate_reply_combined`,
`MuxBits` is `gsw_server_expand_combined`, `Decode` the end of `one_time_query`.
A product with a gadget ciphertext is abstracted: if its rows are the multiples
of a bit, it is that bit times the other factor, otherwise noise; a ciphertext of
the reply is the set of plaintexts added up in it. Client and server compute the
dimensions from counts of their own, `known` and `items`. With one dimension the
client reads a ciphertext it does not have, and the server takes a logarithm of
zero, which a build turns into some number: `"crashed"`, or no expansion.

**Stream.** `wire[e]` is what has arrived at end `e` and was not taken. A byte
says what it is a byte of, so a receiver that takes the wrong bytes for a length
or for content shows. `recv` returns any prefix up to the buffer (`Chunks`),
`send` takes any part (`SendContent`). `ReceiveFirst` is the first `recv` of
`one_time_receive`, which has the length and whatever comes with it;
`ReceiveTooShort` is the same with less than a length, where
`recv_bytes - sizeof(size)` wraps and the string constructor throws;
`ReceiveChunk` an iteration of the loop; `size` is a `uint32_t` and wraps.
`AwaitAck`, `SendNotReady` and the spin loop are those of `Connection`, here with
acknowledgements that come in pieces. An end that stops (`Leave`) makes the
other's `recv` return 0 or -1: `ReceiveClosed` before a message,
`ReceiveChunkClosed` inside one, where 0 bytes are added for ever (`"loop"`) or
-1 is a length no string has. What four bytes are read as that begin inside a
"finished" is the constant `JunkLength`, by the letter they begin at and the
length they may end in. Both ends follow one dialogue, since which message
comes when is the subject of `Connection`.

**IdFiles.** A file is the sequence of its lines, and every line is a step,
because every line is flushed (`endl`) and either program may be stopped at it
(`Stop`, `StopClient`) and started again with other settings (`Start`,
`StartClient`). `OpenDataMap`, `WriteLine`, `OpenCountData`, `WriteCount` are
`process_datas`; `OpenSplitDb`, `WriteSplitDb` an iteration of
`process_split_dbs`, whose `LoadData` reads as many lines as the counts say, the
last one again behind the end of a file. `SentIds` and `BufferRoom` are
`sync_id_index`, the client's actions `sync_id_from_server`. An id is 18
characters, of which its `Kind` says what reading and printing it as a number
makes of it. `FindIndex`, `NumberOfItems` and `Reply` are a query, which changes
no file; `Reply` uses what `Retrieval` shows, that a query with one layout on
both sides returns the record at its index. `processed`, `split_from`,
`synced_from` are history: the data file something was written from in full.
`GroupRecords`, a recursive function along the data file, is what
`process_datas` should leave for a group; only properties use it.

**Batch.** `PickRandom`, `DrawIndex`, `PlaceBatchId`, `PlaceRandomId` are
`random_pick` and `batch_id_index_process`, with every outcome of `rd()`;
`ReadPreprocess` is `get_batch_query_buffer`, which reads the file of this run or
of an earlier one, whole or not. The server's `ScanLine` is an iteration of the
search in `handle_batch_query`, `ScanPastEnd` its end in an exception. A last
line without an end is found again and again, since `getline` then leaves the
string alone. `Query` is one `handle_one_batch_query` of each side; the client
joins each of its threads, so there is one at a time. `KeysAsQuery` is a client
that comes to a server which has its batch, `QueryAsKeys` one whose server was
started again. An element of a buffer nobody wrote, or of an array behind its
end, is `Garbage`.

## Runs

| Run | Question | Result |
|---|---|---|
| `db_cache` | Is the cache right in every interleaving of two threads? | 8 properties hold |
| `query_isolated` | Are replies right when sessions cannot disturb each other: no cache, or one connection? | 5 properties hold, with liveness |
| `query_cache_shared` | And when the limit just holds all groups? | no: blocks are freed under a reply |
| `nfl_scratch` | Is a primitive right when it is alone? | holds |
| `nfl_scratch_shared` | And when it is not? | no |
| `connection` | Does the dialogue keep in step and come to its end? | 7 properties hold |
| `connection_mixed` | Also with clients that differ in `sync_ids`? | no: the flag is a global |
| `connection_keys` | Does the server survive a client stopped among its keys? | no: an exception nobody catches |
| `retrieval` | Does every index lead to its record? | 7 properties hold |
| `stream` | Do the two functions make messages of a byte stream? | yes, unless a length or an acknowledgement is cut, or an end stops |
| `id_files` | Do runs that are stopped anywhere leave files that mislead? | 6 properties hold |
| `batch` | Does a batch get its records, whatever is drawn and found? | 4 properties hold |

The four runs that fail do so on a property that the sample configuration or the
README of the repository states; `PROJECT.json` quotes it
under `findings`.

What the properties say, by component:

- *Cache.* A slot never points at freed blocks or another group's
  (`CacheHandlesLive`). `total_size` is exactly the blocks stored and still
  allocated (`AccountsForHeap`), so the unsigned subtraction in `release_db` never
  wraps. That includes what is leaked: two threads that miss on one group both
  load it, the copy stored first stays allocated and counted for good, and the
  cache may from then on hold less than its limit, against the comment at
  db_center.cpp:30. Over the limit means one group left
  (`OverLimitMeansOneGroup`), and the loop that sees to it ends: a call of
  `get_db` returns, whatever other connections load and evict meanwhile, unless
  one of them overtakes it for ever, since a `std::mutex` promises no turn
  (`GetDbReturns`). Hit numbers order the groups as they were really used, also
  across a restart (`HitSeqOrdersUse`), and the group released is the least
  recently used (`EvictsLeastRecentlyUsed`), except among groups whose numbers a
  restart erased: the property names that exception. What `get_db` returns is
  allocated and the group asked for (`GetDbReturnsRequestedGroup`).
- *Sessions.* While it computes, a session has the parameters of the group asked
  for (`ParamsMatchRequest`) and blocks of that group (`ReadsRequestedGroup`); no
  two sessions own the same blocks in disk mode (`PrivateBlocks`); the server
  implements `QueryService`, liveness included (`ServesRequests`). That is said
  of sessions that cannot disturb each other. Where they share the cache a reply
  may be computed from freed memory; that it is computed at all is a matter of
  `get_db`, the only place where a session waits for another (`GetDbReturns`).
- *Scratch.* A primitive under which nobody wrote is right, whatever was left in
  the scratch (`UndisturbedIsRight`): a lock around each primitive would be
  enough.
- *Connection.* Nothing is ever behind a message, so the `recv` that takes "all
  there is" never takes too much (`NothingBehindAMessage`). Clients that agree
  about `sync_ids` and stop only at the prompt keep in step with the server
  (`InStep`), finish their handshake (`HandshakeCompletes`) and never end the
  server (`ServerStaysUp`). With any clients, a connection out of step never
  reaches a query (`QueriesInStep`), and a query that was begun returns
  (`QueryReturns`).

- *Stream.* The functions implement `Channel` (`ImplementsChannel`): nothing a
  `one_time_receive` returns is ever anything but the next message, whole, and
  the dialogue comes to its end, however `send` and `recv` cut it, but for three
  things. A length that comes in pieces ends the receiver; an acknowledgement
  that does is read as a length by the sender's next `one_time_receive`, or
  leaves it in the spin loop; and an end that stops leaves the other in a loop,
  in an exception, or with a `false` nobody looks at. `trouble` of `Channel` is
  raised by the first cut and the first stop, and by nothing else.
- *Id files.* A preparation that runs to its end repairs whatever stopped ones
  left (`PreparationRepairs`). A client stopped while it synchronises keeps files
  in which what it finds is at the server's place under the server's count, if
  the group was reached (`IndexesFollowServer`): that depends on the order of
  counts, opening all files, and filling them. The buffer of `sync_id_index`
  overruns only between a preparation that was stopped and the next that was not
  (`SyncFitsBuffer`). Synchronisation loses ids with leading zeros, ids in X and
  ids that only ever come behind one in X in their group, and no others
  (`SyncLosesOnlyOddIds`): an id that occurs before an X and again behind it is
  still found. If
  client, `data_map` and `split_db` come from one data file, every id that is
  found leads to its own record (`RepliesAreRecords`).
- *Batch.* If all ids sent are in the data file once, the scan ends, with the
  record of each in its place (`ScanFindsAll`). A client with the file of its own
  batch never labels another id's record with an id of the batch, however many
  indexes were equal (`ResultsAreRecords`); records may be missing, and the
  property says when. One corner remains: ids read behind an X are 0, and a last
  line without an end is read again with what the stream was left in, so that
  the record stored for 0 may be that of the last line. If the whole batch was placed and found and nobody stops a
  program, it is answered in its order (`BatchCompletes`), but for the last
  plaintext when the batch fills it: `i==10000%ele_per_ptxt` is then true at its
  first record. The shipped settings make 10000 % 1024 = 784. The client
  announces that its random ids "include batch query ids" (client.cpp:529); when
  two indexes are equal some are dropped, which `Placed` excludes.
- *Layout.* The matrix has room for every plaintext and no row too many
  (`DimensionsHold`), the query fits its polynomials without collisions
  (`QueryFits`), expansion leaves slot j alone in the j-th polynomial
  (`ExpansionSplits`), and after each dimension every sum is one plaintext, the
  right one (`SumsArePlaintexts`). So a client whose counts give the server's
  layout gets its record (`RetrievesElement`), even if the counts differ. If the
  layouts differ it may get another record of the group without noticing: no
  property says otherwise, since the code cannot tell. Queries break a side only
  over groups of one dimension (`BreaksOnlyWhenSmall`), below `FIRST_DIM * DIM`
  plaintexts: 1,047,553 records, a little above the "million and more" the
  sample configuration asks for.

### Bounds

- `db_cache`: 2 threads, 3 groups of 1, 1 and 2 blocks, limit 2, 3 handles, hit
  numbers restart at 4. Two threads are all an eviction or a double load takes;
  three groups are needed for a choice of victim; the restart comes every few
  hits. `HeapRoom` lets a call start only while a handle is left for it.
- `query_*`: 2 groups of 1 and 2 blocks; a group of two blocks is read in two
  steps with a release between them. `QueryRoom` is the same bound for queries.
  `Deployments` are the settings of a behaviour: `query_isolated` has two
  connections without the cache and one with it, under a limit of 1, below the
  size of a group; `query_cache_shared` two with a limit that holds all groups.
- `nfl_scratch`: 2 threads, 2 operands.
- `connection`: 2 clients, 2 groups, 2 ciphertexts of `enc_sk` for 14; the first
  and the last of a series differ. At least two groups: the counts of one group
  are four bytes, and the model says that eight bytes come before the end of
  every message a sender may mistake for an acknowledgement. `Confs` are the
  settings of the clients, `Partings` where they may be stopped.

- `retrieval`: `FIRST_DIM` 4, `DIM` 2, 2 records to a plaintext, degree 32, 2 rows
  for 5 of the gadget, arithmetic modulo 97. `MCSizes` are counts on both sides of
  every change of the layout from one to three dimensions; pairs of counts are
  equal, next to each other, or far apart. Degree 32 leaves a gap of more than
  one between slots and makes room for groups of one dimension.

- `stream`: lengths of 2 bytes for 4 and acknowledgements of 4 for 8, so that
  each can be cut; buffers of 3 at the client and 4 at the server for 500,000 and
  5,000,000, which a message and its length exceed, modulo 64 for 2^32. Six messages, of 0 to 4 bytes, follow each other and turn the
  dialogue around at either end. `MCJunkLength` is as small as `JunkAssumption`
  allows, one more than what can still come.
- `id_files`: 5 ids of every kind spread over 2 groups, and two data files, of
  two records and of five: in one group an id comes before and behind an X, and
  another only behind it. `Layout` puts two neighbouring counts into one.
- `batch`: 3 ids of a batch among 5 for 10000 among 1100000; 2, 3 and 4 records
  to a plaintext: the batch fills one and a half, exactly one, or less than one. `ScanLimit` is
  6 lines for 100000000. Two data files have a last line without an end, one of
  them behind an X. `Runs` lets the client run twice; a second run adds only
  the file the first one left.

No other counter is bounded.

### Fairness and deadlock

Threads that have something to do do it: weak fairness of `Step` in `DbCenter`
and in `Stream`, `Work` in `QueryServer`, `ServerStep` and `ClientStep` in
`Connection`, `ClientStep` and `Scan` in `Batch`, which is the operating system's
scheduling of threads and its delivery of what a socket has. `IdFiles` states no
fairness: its properties are about what files hold. A mutex that is free again and
again would need strong fairness for its waiters, which nothing grants:
`GetDbReturns` excepts the call that others overtake for ever, which TLC finds
when the exception is left out, and the sessions of `ServesRequests` do not meet
at the mutex. Clients are not obliged to ask, to answer
the prompt or to go. `Connection` is checked without TLC's deadlock check: two
sides may wait for each other for good (that is `connection_mixed`), and the
server process may end. So are `Stream`, where an end may hang and the dialogue
has an end, `Batch`, where the runs of the client do, and `Retrieval`, where a
side that broke is the end. The other runs check it.

## Proofs

All for any number of threads, groups, handles, clients and ids, any sizes and
limits, any files; and for `Retrieval` any `FIRST_DIM`, `DIM`, degree, modulus
and gadget within the assumptions named below.

- `DbCenter_proofs`. `IInv` is types, `CacheHandlesLive`, the mutex
  (`MutexInv`), and two facts the invariant needs to be inductive: what a thread
  has loaded and not stored is its own, allocated, of its group and in nobody's
  slot (`InFlightInv`), and the thread in the loop has its own group cached and
  untouched, being the one the loop spares (`EvictInv`). From it `TypeCorrect`,
  `CacheIsLive`, `GetDbIsRight`, and with the loop's exit condition
  `OverLimitIsOneGroup`. `TotalIsExact` and `TotalNeverWraps` come from
  `HeapInv`, the total as a cardinality of a finite set of blocks, by a lemma
  that adds and removes one allocation. Of `DbCenterRecency` the invariant
  speaks of groups without a number too (`RankInv`): a group that has one was
  used after every group with a smaller one, and after the cached groups whose
  number a restart erased. With numbers that are handed out once (`NumbersInv`)
  and a history in which no two groups are each after the other (`LaterInv`) it
  gives `NumbersOrderUse`, and with what `Evict` chooses
  `EvictionIsLeastRecentlyUsed`.
- `QueryServer_proofs`. `ParamsFollowRequest` holds in every deployment, for
  `pir_params_` is never shared. The other theorems assume `Isolated`, every
  deployment without the cache or with at most one connection (the two cases
  the run shows to be right); the run `query_cache_shared` shows that they are
  false without it. `ServerInv`: the session's blocks are live and the group's
  for as long as `last_id_mod` says so. From it `ServerTypeCorrect`,
  `IsolatedSessionsReadTheirGroup`, `IsolatedBlocksArePrivate`,
  `IsolatedRepliesAreRight`, the very property the shared cache breaks, and
  `IsolatedServerServes`, that every step is a step of `QueryService` or a
  stutter.
- `NflScratch_proofs`. The invariant says what a thread finds in the scratch at
  each of its steps as long as nobody disturbed it; `UndisturbedPrimitives`
  follows for any operations closed over `Poly`.
- `Connection_proofs`. What is on its way is not enough to say what a side may
  take for what: the invariant (`InductiveInvariant`) lists for each connection
  how its two ends may stand to each other. In step, they are even, or a message
  was sent, or taken and acknowledged, or answered. A client with another
  `sync_ids` than the global branches off in one of two ways: each end waits for
  the other (`Deaf`), or each has sent and takes the other's message for its
  acknowledgement or its counts (`Clash`). Or the client has gone (`Alone`).
  Every step keeps a connection in these and every other connection where it is.
  From it `NothingFollows`, `QueriesStayInStep`, and for clients that agree and
  part at the prompt (`OrderlyInv`) `StaysInStep` and `ServerSurvives`.
- `Stream_proofs`. What an end is sent between two messages of its own is a
  *script*: an acknowledgement, then the length and the content of its peer's
  next message, if there is one. The invariant (`IInv`) says that what is on its
  way to an end is always a stretch of one script, from where the reader is to
  where the writer is, and lists where the two may be: at the same message
  (`Even`), the reader one behind, with an acknowledgement and what follows it
  to take (`Behind`), or, once a `recv` cut an acknowledgement, the reader at
  its rest, as a length (`CutReceiver`) or in the spin loop (`CutSender`). An end
  whose peer has gone has such a stretch, or nothing (`Alone`). That a rest read
  as a length is never all that comes (`Junk`) is what keeps a wrong message
  from being returned. From it `TypeCorrect`, and `ChannelSafety`: every step is
  one of `Channel` or a stutter, the safety part of `ImplementsChannel`, where
  the returns are counted as the cardinality of a set of messages.
- `IdFiles_proofs`. The inductive invariant says of each loop how far its files
  are by the group or line it is at, and of files written in full which data
  file they are those of. None of the properties is inductive without it. From
  it `PreparationIsWhole`, `BufferIsLargeEnough`, `IndexesAreTheServers`,
  `OnlyOddIdsAreLost`, `RepliesAreRight`. `GroupRecords` is recursive, and its
  facts need induction over data files; the library states induction with an
  operator as a parameter, so a lemma here states it of a set of numbers, which
  follows from the least element of the set's complement.
- `Batch_proofs`. Of the placement, that the element at each place of a plaintext
  to be asked for has the id of the batch which is due there; due is counted in
  plaintexts passed (`Rank`, `SlotsBefore`), with a little arithmetic of
  quotients. Of what is sent and asked for, that it is what is in the file. Of
  the scan, that a line stored for an id is one read as it, and if each id is in
  one line, that what is stored is exactly what was passed: so a line is still
  to come, `count` is the number of ids found, and the loop ends with all of
  them (`ScanIsComplete`). `ResultsAreRight` joins the three. A batch with no
  place for its end is one whose file has garbage in it (`FileInv`): fewer random
  ids were drawn than places left, which is why `EachOnce` excludes it.
- `Retrieval_proofs`, in four parts.
  *Numbers.* The recursive functions of `PirParams` are followed by induction
  over numbers. The dimensions have room for every plaintext and, where the
  loop has grown the last, no row too many; the sum of each dimension's part of
  an index is the index, and every coordinate is within its dimension
  (`DimensionsAre`, `IndicesAre`).
  *The query.* Every bit and row has a coefficient of its own, inside the
  polynomial (`MarksFit`), and the packed polynomial has the factor of the row
  there, divided by the number of slots (`PackedAt`).
  *The expansion.* `apply_galois` moves a coefficient at an even multiple of the
  gap back to its place and negates one at an odd multiple, so that sum and
  difference with the polynomial itself keep one half each, doubled
  (`GaloisSplits`, `ExpandedSplits`). At the end a slot has its factor times the
  number of slots divided by it: the row of a gadget, or zero (`BitsAre`).
  *The walk.* Of the bits of a dimension one is on, so that each sum keeps one
  of its plaintexts.
  The properties are not inductive: the server does not know what the client
  packed, and what a product yields depends on how many polynomials and sums
  there are. `IInv` adds that the query under way is `QueryFor` the client's
  coordinates (`QueryInv`), the domains of `temp`, `cts` and `mux` and when
  each is in use (`ShapeInv`), and that `mux` is on exactly at the coordinates
  (`MuxInv`); TLC checked it before it was proved. From it `Types`,
  `QueryHasRoom`, `ExpansionIsRight`, `SumsAreRight`, `OnlySmallGroupsBreak`,
  with the first part alone `LayoutHolds`, and with the last sum
  `ElementRetrieved`, the promise of README.md:23 at every step that ends a
  query.

The assumptions are the named `ASSUME`s of the modules, which TLC evaluates in
every run. Those that are not sizes say that the marks for nothing and for
garbage are no ids, indexes or sequences of them; and `JunkAssumption` of
`Stream`, that letters of "finished" read as a length are more than what still
comes. It is true of every message below 64 KiB. It fails for a few lengths of
longer ones: 'e' and 'd' before the low bytes of a length l are 25701 plus 65536
times what l leaves by 65536, which is too small if that is 0 and l is 65536 or
more. At 5 MB about one length in 800 is such. A receiver that meets one returns a
wrong message, after an acknowledgement was cut just there; the theorems and the
run are about dialogues without such lengths, which is noted at the hazard.

Those of `Retrieval` say what the arithmetic needs: the degree is a power of two
(`DegreeAssumption`; it is 4096), numbers below the modulus have inverses and
the modulus is above the degree (`ModulusAssumption`; the plain modulus is a
prime of 60 bits), the query fits its polynomials (`FitAssumption`;
`poc_rlwe_expand` throws otherwise), and `FIRST_DIM` is a power of two
(`FirstDimAssumption`; it is 256).

The proofs changed two properties. The run of `IdFiles` had no data file with an
id on both sides of an X, and its property called such an id lost; the proof
could not show that `find_index` misses it, because it does not. That of `Batch`
had no last line without an end behind an X, and `ResultsAreRecords` left out the
record that is then stored for 0. Both runs now have such files.

They changed assumptions too. `Stream` had one number for whatever letters are
read as, above any message, which the code does not justify for long ones.
`Retrieval` did not say that `FIRST_DIM` is a power of two. But the client divides
the first polynomial by twice `FIRST_DIM` itself, the second by the next power of
two, while the expansion multiplies both by the next power of two: with a
`FIRST_DIM` of 200 every query would end in noise. Nothing in the code checks it.

Not proved, only checked: all liveness, which needs ENABLED, that of
`ImplementsChannel`, `GetDbReturns`, `ServesRequests` and `BatchCompletes` included. The four runs
that expect a violation have no theorem, for what they ask is false. Every
invariant and every action property of the other runs is stated by a theorem.

## Taken from outside

`Ciphertext::load` of SEAL throws on an empty stream. The process does not
change what SIGPIPE does, so a write to a closed connection may end it, be
accepted and lost, or fail. `read` of a preprocessed file succeeds. `assert` does nothing:
the documented build is a release build. A `std::string` of a length near 2^64
throws. `substr` behind the end of a string throws. `get_id_mod` is some function
of the id with values below `number_of_groups`, which both programs are given
alike: the server does not check the number it receives
(`GetDbOutOfRange` is what `get_db` itself does with another). A group that is
asked about has at least one record: `get_dimensions` of none (pir.cpp:69) is not
followed. What memory holds that was not written is `Garbage`, a value equal to
no other.

## Not modelled

Decomposition and encryption of GSW and RLWE ciphertexts, and their noise
(numeric, no control of its own); the Waksman network (called by nothing);
configuration and helpers (constants of the modules); `main.cpp` (a demonstration
no target builds); `process_ids`, whose call in the client is commented out.
`Batch` takes a batch of at most 10000 ids: more are written past
`batch_query_ids`. `IdFiles` and `Batch` send messages whole; what becomes of a
message in pieces is in `Stream`.

## Plan

Done: all components with control of their own, and a theorem for every
invariant and action property. What is left needs other tools: liveness for any
constants, and the noise of gadget products, which `Retrieval` abstracts.
