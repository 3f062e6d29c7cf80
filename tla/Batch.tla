-------------------------------- MODULE Batch --------------------------------
(***************************************************************************)
(* Client and server started with "batch": the client hides the ids of its   *)
(* batch among random ones (batch_id_index_process of src/client.cpp), sends *)
(* all of them, and asks for the plaintexts the batch is in; the server      *)
(* (handle_batch_query of src/server.cpp) looks all of them up in its data   *)
(* file and serves the plaintexts.  The client may take the placement of an  *)
(* earlier run.  A query returns the plaintext it names (see Retrieval).     *)
(***************************************************************************)
EXTENDS Integers, Sequences, SequencesExt, FiniteSets

CONSTANTS
    BatchSize,      \* 10000
    BatchIdNumber,  \* batch_id_number, of which BatchSize are the batch
    PtxtSizes,      \* values of ele_per_ptxt, the records in a plaintext
    ScanLimit,      \* 100000000, the lines the server reads at most
    Id,             \* ids, as numbers
    Lettered,       \* those followed by an X
    DataFiles,      \* data files of the server, sequences of ids
    Unterminated,   \* those whose last line has no end
    BatchFiles,     \* query_id.csv, sequences of ids
    IdMaps,         \* id files of the client: per group the ids and a count
    Garbage,        \* what nobody has written, in a file or in memory
    Runs            \* bound: the runs of the client, and for each the values of
                    \* batch_id_preprocess it may have

ASSUME BatchAssumption ==
    /\ BatchSize \in Nat \ {0} /\ BatchIdNumber \in Nat
    /\ BatchSize < BatchIdNumber
    /\ PtxtSizes \subseteq Nat \ {0} /\ ScanLimit \in Nat
    /\ Id \subseteq Nat \ {0} /\ Lettered \subseteq Id
    /\ Garbage \notin Nat /\ Garbage \notin Seq(Id \cup {0, Garbage})
    /\ DataFiles \subseteq Seq(Id) \ {<<>>} /\ Unterminated \subseteq DataFiles
    \* A batch of more ids is written past batch_query_ids.
    /\ \A b \in BatchFiles : b \in Seq(Id) /\ Len(b) <= BatchSize
    /\ \A m \in IdMaps : m \in Seq([ids : Seq(Id), count : Nat])
    /\ Runs \in Seq(SUBSET BOOLEAN)

VARIABLES
    data, id_map, ele_per_ptxt,     \* do not change
    cpc,
    runs,               \* of the client
    batch_query_ids,
    random_ids,         \* random_id_array
    indexes, ids,       \* batch_query_proprocess.data: its two parts
    batch_id_idx,       \* ids of the batch placed so far
    batch_query_index,  \* the plaintexts to ask for
    buffer,             \* the ids to send
    asked,              \* how many have been asked for
    results,            \* the lines this run added to batch_query_result.data
    spc,
    batch_ids,          \* what the server was sent
    line, count,        \* of the data file read, and ids found
    db,                 \* batch_id_data_map: the line found for an index
    \* History variables.
    placed_for,         \* the batch the file was written for in full
    stopped             \* either program was stopped since the client's start

settings == <<data, id_map, ele_per_ptxt>>
file == <<indexes, ids, placed_for>>
memory == <<batch_query_ids, random_ids, batch_id_idx, batch_query_index,
            buffer, asked, results>>
client == <<cpc, runs, file, memory>>
found == <<batch_ids, line, count, db>>
server == <<spc, found>>
vars == <<settings, client, server, stopped>>

RandomIdSize == BatchIdNumber - BatchSize
Ceil(a, b) == (a + b - 1) \div b
QueryNumber == Ceil(BatchSize, ele_per_ptxt)
PtxtNumber == Ceil(BatchIdNumber, ele_per_ptxt)
Index == 0 .. BatchIdNumber - 1

At(s, i) == IF i \in DOMAIN s THEN s[i] ELSE Garbage

\* Ids read as numbers through one stringstream, which is cleared of its state
\* but not of an X: the numbers behind it cannot be read and are 0.
Numbers(s) ==
    [i \in DOMAIN s |-> IF \E j \in 1 .. i - 1 : s[j] \in Lettered THEN 0
                        ELSE s[i]]

\* Ids read from a file with their indexes: behind an X, or the end of the
\* file, nothing is read and id stays as it is.
GroupIds(g) ==
    LET group == id_map[g]
        letters == {i \in DOMAIN group.ids : group.ids[i] \in Lettered}
        last == Min(letters \cup {Len(group.ids)})
    IN  [j \in 1 .. group.count |-> At(group.ids, Min({j, last}))]

Init ==
    /\ data \in DataFiles /\ id_map \in IdMaps /\ ele_per_ptxt \in PtxtSizes
    /\ cpc = "off" /\ runs = 0
    /\ batch_query_ids = <<>> /\ random_ids = <<>>
    /\ indexes = <<>> /\ ids = <<>> /\ placed_for = Garbage
    /\ batch_id_idx = 0 /\ batch_query_index = {}
    /\ buffer = <<>> /\ asked = 0 /\ results = <<>> /\ stopped = FALSE
    /\ spc = "listen"
    /\ batch_ids = <<>> /\ line = 0 /\ count = 0
    /\ db = [i \in Index |-> Garbage]

\* The end of a program, and of what it had in memory.
ClientEnds(how) ==
    /\ cpc' = how
    /\ batch_query_ids' = <<>> /\ random_ids' = <<>> /\ batch_id_idx' = 0
    /\ batch_query_index' = {} /\ buffer' = <<>> /\ asked' = 0
    /\ results' = <<>>
    /\ UNCHANGED <<runs, file>>

ServerEnds(how) ==
    /\ spc' = how
    /\ batch_ids' = <<>> /\ line' = 0 /\ count' = 0
    /\ db' = [i \in Index |-> Garbage]

-----------------------------------------------------------------------------
(***************************************************************************)
(* The client, offline                                                      *)
(***************************************************************************)

\* process_batch_ids.  What it does not fill was allocated and never written.
StartClient(batch, batch_id_preprocess) ==
    /\ cpc \in {"off", "done", "lost"}
    /\ runs < Len(Runs) /\ batch_id_preprocess \in Runs[runs + 1]
    /\ runs' = runs + 1
    /\ batch_query_ids' = [i \in 1 .. BatchSize |-> At(Numbers(batch), i)]
    /\ cpc' = IF batch_id_preprocess THEN "pick" ELSE "read"
    /\ random_ids' = <<>> /\ batch_id_idx' = 0 /\ batch_query_index' = {}
    /\ buffer' = <<>> /\ asked' = 0 /\ results' = <<>>
    /\ stopped' = FALSE
    /\ UNCHANGED <<settings, file, server>>

\* random_pick tries again until it finds an id it does not have.
Candidates(g) ==
    Range(GroupIds(g))
        \ ((Range(batch_query_ids) \ {Garbage}) \cup Range(random_ids))

PickRandom ==
    /\ cpc = "pick" /\ Len(random_ids) < RandomIdSize
    /\ \E g \in DOMAIN id_map : \E id \in Candidates(g) :
        random_ids' = Append(random_ids, id)
    /\ UNCHANGED <<settings, cpc, runs, file, batch_query_ids, batch_id_idx,
                   batch_query_index, buffer, asked, results, server, stopped>>

\* rd() % id_count[random_group]
PickFromEmpty ==
    /\ cpc = "pick" /\ Len(random_ids) < RandomIdSize
    /\ \E g \in DOMAIN id_map : id_map[g].count = 0
    /\ ClientEnds("lost")
    /\ UNCHANGED <<settings, server, stopped>>

OpenPreprocess ==
    /\ cpc = "pick" /\ Len(random_ids) = RandomIdSize
    /\ indexes' = <<>> /\ ids' = <<>> /\ placed_for' = Garbage
    /\ cpc' = "index"
    /\ UNCHANGED <<settings, runs, memory, server, stopped>>

DrawIndex ==
    /\ cpc = "index"
    /\ \E query_index \in 0 .. PtxtNumber - 1 :
        indexes' = Append(indexes, query_index)
    /\ cpc' = IF Len(indexes') = QueryNumber THEN "place" ELSE "index"
    /\ UNCHANGED <<settings, runs, ids, placed_for, memory, server, stopped>>

Place(id, batch_id_idx_) ==
    /\ ids' = Append(ids, id)
    /\ batch_id_idx' = batch_id_idx_
    /\ IF Len(ids') < BatchIdNumber
       THEN UNCHANGED <<cpc, placed_for, random_ids>>
       ELSE cpc' = "read" /\ placed_for' = batch_query_ids /\ random_ids' = <<>>
    /\ UNCHANGED <<settings, runs, indexes, batch_query_ids, batch_query_index,
                   buffer, asked, results, server, stopped>>

\* The next line: an id of the batch in a plaintext that will be asked for, or
\* else a random one.  If fewer indexes were drawn than asked for, being equal,
\* or the last plaintext is one of them and small, the random ids do not do.
InQueried == Len(ids) \div ele_per_ptxt \in Range(indexes)

\* Mutant of PlaceBatchId: the batch is not known to have an end.
PlaceBatchIdOnAndOn ==
    /\ cpc = "place" /\ InQueried
    /\ Place(At(batch_query_ids, batch_id_idx + 1), batch_id_idx + 1)

PlaceBatchId ==
    /\ cpc = "place" /\ InQueried /\ batch_id_idx < BatchSize
    /\ Place(batch_query_ids[batch_id_idx + 1], batch_id_idx + 1)

PlaceRandomId ==
    /\ cpc = "place" /\ ~(InQueried /\ batch_id_idx < BatchSize)
    /\ Place(At(random_ids, Len(ids) - batch_id_idx + 1), batch_id_idx)

\* get_batch_query_buffer: behind the end of the file the last number stays,
\* and what was never read may be anything.
ReadPreprocess ==
    /\ cpc = "read"
    /\ IF indexes # <<>> THEN batch_query_index' = Range(indexes)
       ELSE \E query_index \in 0 .. PtxtNumber : batch_query_index' = {query_index}
    /\ buffer' = [i \in 1 .. BatchIdNumber |-> At(ids, Min({i, Len(ids)}))]
    /\ cpc' = "connect"
    /\ UNCHANGED <<settings, runs, file, batch_query_ids, random_ids,
                   batch_id_idx, asked, results, server, stopped>>

-----------------------------------------------------------------------------
(***************************************************************************)
(* Keys and ids                                                             *)
(***************************************************************************)

Connect ==
    /\ cpc = "connect" /\ spc = "listen"
    /\ cpc' = "send" /\ spc' = "receive"
    /\ UNCHANGED <<settings, runs, file, memory, found, stopped>>

SendIds ==
    /\ cpc = "send" /\ spc = "receive"
    /\ batch_ids' = buffer /\ buffer' = <<>>
    /\ cpc' = "query" /\ spc' = "scan"
    /\ UNCHANGED <<settings, runs, file, batch_query_ids, random_ids,
                   batch_id_idx, batch_query_index, asked, results, line, count,
                   db, stopped>>

\* A server that has its batch takes the keys of another client for a query;
\* a ciphertext cannot be loaded from them, and the exception ends it.
KeysAsQuery ==
    /\ cpc = "connect" /\ spc = "serve"
    /\ ClientEnds("lost") /\ ServerEnds("down")
    /\ UNCHANGED <<settings, stopped>>

ServerGone ==
    /\ cpc \in {"connect", "send", "query"} /\ spc = "down"
    /\ ClientEnds("lost")
    /\ UNCHANGED <<settings, server, stopped>>

-----------------------------------------------------------------------------
(***************************************************************************)
(* The server looks the ids up                                              *)
(***************************************************************************)

\* batch_ids_map: of equal ids the last one counts.
IndexOf(id) == Max({i \in DOMAIN batch_ids : batch_ids[i] = id}) - 1

\* getline leaves a last line without an end in place when it is called again.
HasLine == line < Len(data) \/ data \in Unterminated

\* The line read, and what its id is read as.
LineRead == Min({line + 1, Len(data)})
CurrentId ==
    IF line < Len(data) THEN Numbers(data)[LineRead]
    ELSE IF Range(data) \cap Lettered # {} THEN 0 ELSE Last(data)

\* Mutant of ScanLine: the loop ends one id early.
ScanLineOneShort ==
    /\ spc = "scan" /\ HasLine /\ line < ScanLimit
    /\ IF CurrentId \in Range(batch_ids)
       THEN /\ db' = [db EXCEPT ![IndexOf(CurrentId)] = LineRead]
            /\ count' = count + 1
       ELSE UNCHANGED <<db, count>>
    /\ line' = line + 1
    /\ spc' = IF count' = BatchIdNumber - 1 THEN "serve" ELSE "scan"
    /\ UNCHANGED <<settings, client, batch_ids, stopped>>

\* A line of the data file.  The loop ends with as many lines found as ids.
ScanLine ==
    /\ spc = "scan" /\ HasLine /\ line < ScanLimit
    /\ IF CurrentId \in Range(batch_ids)
       THEN /\ db' = [db EXCEPT ![IndexOf(CurrentId)] = LineRead]
            /\ count' = count + 1
       ELSE UNCHANGED <<db, count>>
    /\ line' = line + 1
    /\ spc' = IF count' = BatchIdNumber THEN "serve" ELSE "scan"
    /\ UNCHANGED <<settings, client, batch_ids, stopped>>

\* Behind the end of the file the line is empty, and substr(19) throws.
ScanPastEnd ==
    /\ spc = "scan" /\ ~HasLine /\ line < ScanLimit
    /\ ServerEnds("down")
    /\ UNCHANGED <<settings, client, stopped>>

ScanLimitReached ==
    /\ spc = "scan" /\ line = ScanLimit
    /\ spc' = "serve"
    /\ UNCHANGED <<settings, client, found, stopped>>

-----------------------------------------------------------------------------
(***************************************************************************)
(* The queries, one connection and thread after the other                   *)
(***************************************************************************)

Reply(query_index) ==
    [i \in 0 .. ele_per_ptxt - 1 |->
        LET j == query_index * ele_per_ptxt + i IN
        IF j \in Index THEN db[j] ELSE Garbage]

\* Mutant of Position: in the order drawn.
PositionDrawn(query_index) ==
    Cardinality({i \in DOMAIN indexes :
                    \A j \in 1 .. i : indexes[j] # query_index})

\* Where the plaintext is among those asked for.
Position(query_index) ==
    Cardinality({k \in batch_query_index : k < query_index})

\* Mutant of Lines: the last plaintext is not known to be the last.
LinesOfFull(position) == ele_per_ptxt

\* How many records of the plaintext handle_one_batch_query writes.
Lines(position) ==
    IF position = QueryNumber - 1 THEN BatchSize % ele_per_ptxt
    ELSE ele_per_ptxt

\* A query waits in the backlog until the server is through with the ids.
Query ==
    /\ cpc = "query" /\ spc = "serve"
    /\ \E query_index \in batch_query_index :
        LET position == Position(query_index) IN
        /\ Cardinality({k \in batch_query_index : k < query_index}) = asked
        /\ results' = results \o
             [i \in 1 .. Lines(position) |->
                 [id |-> At(batch_query_ids, position * ele_per_ptxt + i),
                  record |-> Reply(query_index)[i - 1]]]
    /\ asked' = asked + 1
    /\ cpc' = IF asked' = Cardinality(batch_query_index) THEN "done" ELSE "query"
    /\ UNCHANGED <<settings, runs, file, batch_query_ids, random_ids,
                   batch_id_idx, batch_query_index, buffer, server, stopped>>

\* A server started again takes the next query for the keys of a client.
QueryAsKeys ==
    /\ cpc = "query" /\ spc = "listen"
    /\ ClientEnds("lost") /\ ServerEnds("down")
    /\ UNCHANGED <<settings, stopped>>

-----------------------------------------------------------------------------

\* A server that was promised keys and ids ends when they do not come.
StopClient ==
    /\ cpc \notin {"off", "done", "lost"}
    /\ ClientEnds("off")
    /\ IF cpc = "send" THEN ServerEnds("down") ELSE UNCHANGED server
    /\ stopped' = TRUE
    /\ UNCHANGED settings

\* The server is stopped, if it did not end, and started again.
RestartServer ==
    /\ spc # "listen"
    /\ ServerEnds("listen")
    /\ \/ cpc # "send" /\ UNCHANGED client
       \/ cpc \in {"send", "query"} /\ ClientEnds("lost")
    /\ stopped' = TRUE
    /\ UNCHANGED settings

Preprocess ==
    PickRandom \/ PickFromEmpty \/ OpenPreprocess \/ DrawIndex
        \/ PlaceBatchId \/ PlaceRandomId
ClientStep ==
    Preprocess \/ ReadPreprocess \/ Connect \/ SendIds \/ KeysAsQuery
        \/ ServerGone \/ Query \/ QueryAsKeys
Scan == ScanLine \/ ScanPastEnd \/ ScanLimitReached

Next ==
    \/ \E batch \in BatchFiles, batch_id_preprocess \in BOOLEAN :
        StartClient(batch, batch_id_preprocess)
    \/ ClientStep
    \/ Scan
    \/ StopClient
    \/ RestartServer

Spec == Init /\ [][Next]_vars /\ WF_vars(ClientStep) /\ WF_vars(Scan)

-----------------------------------------------------------------------------
(***************************************************************************)
(* Properties                                                               *)
(***************************************************************************)

Number == Id \cup {0, Garbage}

BatchTypeOK ==
    /\ data \in DataFiles /\ id_map \in IdMaps /\ ele_per_ptxt \in PtxtSizes
    /\ cpc \in {"off", "pick", "index", "place", "read", "connect", "send",
                "query", "done", "lost"}
    /\ runs \in 0 .. Len(Runs)
    /\ batch_query_ids \in Seq(Number) /\ Len(batch_query_ids) \in {0, BatchSize}
    /\ random_ids \in Seq(Number) /\ Len(random_ids) <= RandomIdSize
    /\ indexes \in Seq(0 .. PtxtNumber - 1) /\ Len(indexes) <= QueryNumber
    /\ ids \in Seq(Number) /\ Len(ids) <= BatchIdNumber
    /\ batch_id_idx \in 0 .. BatchSize
    /\ batch_query_index \subseteq 0 .. PtxtNumber
    /\ buffer \in Seq(Number) /\ Len(buffer) \in {0, BatchIdNumber}
    /\ asked \in 0 .. QueryNumber
    /\ results \in Seq([id : Number, record : DOMAIN data \cup {Garbage}])
    /\ spc \in {"listen", "receive", "scan", "serve", "down"}
    /\ batch_ids \in Seq(Number)
    /\ line \in 0 .. ScanLimit /\ count \in 0 .. line
    /\ db \in [Index -> DOMAIN data \cup {Garbage}]
    /\ placed_for \in Seq(Number) \cup {Garbage}
    /\ stopped \in BOOLEAN

\* The lines of the data file that are read as this id.
Found(id) == {l \in DOMAIN data : l <= ScanLimit /\ Numbers(data)[l] = id}
EachOnce(sent) ==
    /\ IsInjective(sent)
    /\ \A id \in Range(sent) : Cardinality(Found(id)) = 1

\* If each id that was sent is in the data file once, the scan ends with the
\* record of each in its place; it neither reads past the end nor ends before.
ScanFindsAll ==
    [][spc = "scan" /\ spc' \in {"serve", "down"} /\ EachOnce(batch_ids) =>
        /\ spc' = "serve"
        /\ \A i \in Index : Found(batch_ids[i + 1]) = {db'[i]}]_vars

\* A client whose preprocess file is that of its batch, however many indexes
\* were equal, writes no line with another id's record.  A record may be missing
\* for an id that was not placed or is not in the data file, or if some id
\* occurs twice.  What an id behind an X is read as, 0, is also what the last
\* line is when it is read again.
ResultsAreRecords ==
    placed_for = batch_query_ids =>
        \A r \in Range(results) :
            IF r.record # Garbage
            THEN \/ r.record \in Found(r.id)
                 \/ r.id = 0 /\ data \in Unterminated /\ r.record = Len(data)
            ELSE \/ r.id \notin Range(batch_ids)
                 \/ ~EachOnce(batch_ids)

\* If all ids of the batch were placed, everything sent is in the data file
\* once, and nobody stops a program, the result has the record of every id, in
\* the order of the batch.  The plaintext asked for last is missing if it is
\* full.
Placed ==
    /\ placed_for = batch_query_ids
    /\ batch_id_idx = BatchSize
    /\ Cardinality(batch_query_index) = QueryNumber
Complete ==
    LET written == IF BatchSize % ele_per_ptxt # 0 THEN BatchSize
                   ELSE BatchSize - ele_per_ptxt
    IN  /\ Len(results) = written
        /\ \A i \in 1 .. written :
            /\ results[i].id = batch_query_ids[i]
            /\ Found(batch_query_ids[i]) = {results[i].record}
BatchCompletes ==
    (cpc = "connect" /\ spc = "listen" /\ Placed /\ EachOnce(buffer) /\ ~stopped)
        ~> (stopped \/ (cpc = "done" /\ Complete))

=============================================================================
