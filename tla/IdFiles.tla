------------------------------- MODULE IdFiles -------------------------------
(***************************************************************************)
(* The files a query depends on, on both sides, and how they come about.     *)
(*                                                                         *)
(* main of the server (src/server.cpp) turns the data file into one data_map *)
(* file for every group of ids with the number of records of each           *)
(* (process_datas), and those into the split_db files the replies are        *)
(* computed from (process_split_dbs), each only if the configuration says so *)
(* and each in place.  A client (src/client.cpp) has id_map files and counts *)
(* of its own, written in place as the server sends them                    *)
(* (sync_id_from_server) if its configuration says so.  A record is found by *)
(* its position in these files alone, so all of them have to go together.    *)
(*                                                                         *)
(* Either program may be stopped at any point and started again with other   *)
(* settings, and the data file may be replaced meanwhile.  Every line is     *)
(* flushed, so what a stopped run leaves behind is what it wrote so far.     *)
(***************************************************************************)
EXTENDS Integers, Sequences, SequencesExt

CONSTANTS
    NumGroups,  \* number_of_groups, the same on both sides
    Id,
    GroupOf,    \* get_id_mod: the group of an id
    Kind,       \* what reading an id as a number makes of it
    DataFiles,  \* the data files there may be: sequences of records
    Layout,     \* get_dimensions: the layout for a number of records
    Stripped,   \* an id without its leading zeros, which is no id
    Garbage,    \* what nobody has written, in a file or in memory
    Nothing,    \* of no data file
    NotFound    \* the index -1

Group == 0 .. NumGroups - 1
Record == UNION {Range(d) : d \in DataFiles}

\* An id is 18 characters.  "number": they are what printing the number gives.
\* "zeros": the number has fewer digits.  "letter": the last one is an X.
ASSUME IdAssumption ==
    /\ NumGroups \in Nat \ {0}
    /\ GroupOf \in [Id -> Group]
    /\ Kind \in [Id -> {"number", "zeros", "letter"}]
ASSUME DataAssumption ==
    /\ DataFiles \subseteq Seq([id : Id, value : STRING])
    /\ \A d \in DataFiles : Len(d) \in DOMAIN Layout
    /\ Stripped \notin Id /\ Nothing \notin DataFiles
ASSUME MarkAssumption ==
    /\ NotFound \notin Nat
    /\ Garbage \notin Nat /\ Garbage \notin Seq(Record \cup {Garbage})

VARIABLES
    data,           \* the data file
    data_map,       \* data_map/data_map_<g>.data
    count_data,     \* data_map/count_data.data, a line for each group
    split_db,       \* split_db/split_db_<g>.bin
    spc, next,      \* where main of the server is, and at which group or line
    split_wanted,   \* process_split_db of this run of the server
    overrun,        \* sync_id_index wrote past its buffer in this run
    id_map,         \* id_map/id_map_<g>.data
    count_id,       \* id_map/count_id.data, a line for each group
    cpc, cnext,     \* where main of the client is, and at which group
    \* History variables: the data file something was written from in full.
    processed,      \* data_map and count_data
    split_from,     \* split_db
    synced_from     \* id_map of a group, and the counts

server_files == <<data_map, count_data, split_db>>
client_files == <<id_map, count_id>>
server == <<data, server_files, spc, next, split_wanted, overrun,
            processed, split_from>>
client == <<client_files, cpc, cnext, synced_from>>
vars == <<server, client>>

Init ==
    /\ data \in DataFiles
    /\ data_map = [g \in Group |-> <<>>] /\ count_data = <<>>
    /\ split_db = [g \in Group |-> Garbage]
    /\ spc = "off" /\ next = 0
    /\ split_wanted = FALSE /\ overrun = FALSE
    /\ id_map = [g \in Group |-> <<>>] /\ count_id = <<>>
    /\ cpc = "off" /\ cnext = 0
    /\ processed = Nothing /\ split_from = Nothing
    /\ synced_from = [g \in Group |-> Nothing]

-----------------------------------------------------------------------------
(***************************************************************************)
(* The server                                                               *)
(***************************************************************************)

\* main: what the configuration asks for, and then the connections.
Start(process_data, process_split_db) ==
    /\ spc = "off"
    /\ spc' = IF process_data THEN "truncate"
              ELSE IF process_split_db THEN "split" ELSE "serve"
    /\ next' = 0
    /\ split_wanted' = process_split_db
    /\ overrun' = FALSE
    /\ processed' = IF process_data THEN Nothing ELSE processed
    /\ UNCHANGED <<data, server_files, split_from, client>>

\* Mutant of OpenDataMap: opened to append.
OpenDataMapToAppend ==
    /\ spc = "truncate"
    /\ next' = (next + 1) % NumGroups
    /\ spc' = IF next' = 0 THEN "lines" ELSE spc
    /\ UNCHANGED <<data, server_files, split_wanted, overrun, processed,
                   split_from, client>>

\* process_datas opens the files of all groups first.
OpenDataMap ==
    /\ spc = "truncate"
    /\ data_map' = [data_map EXCEPT ![next] = <<>>]
    /\ next' = (next + 1) % NumGroups
    /\ spc' = IF next' = 0 THEN "lines" ELSE spc
    /\ UNCHANGED <<data, count_data, split_db, split_wanted, overrun,
                   processed, split_from, client>>

\* A line of the data file goes to the end of its group; its index there is
\* the number of lines before it.
WriteLine ==
    /\ spc = "lines" /\ next < Len(data)
    /\ LET r == data[next + 1] IN
        data_map' = [data_map EXCEPT ![GroupOf[r.id]] = Append(@, r)]
    /\ next' = next + 1
    /\ UNCHANGED <<data, count_data, split_db, spc, split_wanted, overrun,
                   processed, split_from, client>>

OpenCountData ==
    /\ spc = "lines" /\ next = Len(data)
    /\ count_data' = <<>>
    /\ next' = 0
    /\ spc' = "counts"
    /\ UNCHANGED <<data, data_map, split_db, split_wanted, overrun, processed,
                   split_from, client>>

WriteCount ==
    /\ spc = "counts"
    /\ count_data' = Append(count_data, Len(data_map[next]))
    /\ next' = (next + 1) % NumGroups
    /\ \/ /\ next' # 0
          /\ UNCHANGED <<spc, processed>>
       \/ /\ next' = 0
          /\ spc' = IF split_wanted THEN "split" ELSE "serve"
          /\ processed' = data
    /\ UNCHANGED <<data, data_map, split_db, split_wanted, overrun, split_from,
                   client>>

\* The number of records load_data and update_item_number find for a group.
\* Without a line for it they return a variable nobody has set.
ItemNumber(g) ==
    IF g + 1 \in DOMAIN count_data THEN count_data[g + 1] ELSE Garbage

\* The records load_data reads for a group: as many as the counts say.  Behind
\* the end of the file every read fails and leaves the record before it.
LoadData(g) ==
    LET lines == data_map[g]
        Line(i) == IF lines = <<>> THEN Garbage
                   ELSE IF i <= Len(lines) THEN lines[i] ELSE Last(lines)
    IN  IF ItemNumber(g) = Garbage THEN Garbage
        ELSE [i \in 1 .. ItemNumber(g) |-> Line(i)]

\* write_split_db2disk opens the file, and has it whole some time later.
OpenSplitDb ==
    /\ spc = "split"
    /\ split_db' = [split_db EXCEPT ![next] = Garbage]
    /\ split_from' = Nothing
    /\ spc' = "write_split"
    /\ UNCHANGED <<data, data_map, count_data, next, split_wanted, overrun,
                   processed, client>>

WriteSplitDb ==
    /\ spc = "write_split"
    /\ split_db' = [split_db EXCEPT ![next] = LoadData(next)]
    /\ next' = (next + 1) % NumGroups
    /\ spc' = IF next' = 0 THEN "serve" ELSE "split"
    /\ split_from' = IF next' = 0 THEN processed ELSE Nothing
    /\ UNCHANGED <<data, data_map, count_data, split_wanted, overrun,
                   processed, client>>

\* The server is stopped.  What its client does from then on, waiting for
\* what never comes, touches no file.
Stop ==
    /\ spc # "off"
    /\ spc' = "off"
    /\ next' = 0
    /\ split_wanted' = FALSE /\ overrun' = FALSE
    /\ cpc' = "off"
    /\ cnext' = 0
    /\ UNCHANGED <<data, server_files, processed, split_from, client_files,
                   synced_from>>

\* Another data file is put in place between two runs.
ReplaceData ==
    /\ spc = "off"
    /\ \E d \in DataFiles \ {data} : data' = d
    /\ UNCHANGED <<server_files, spc, next, split_wanted, overrun, processed,
                   split_from, client>>

-----------------------------------------------------------------------------
(***************************************************************************)
(* Ids from the server to the client: sync_id_index, sync_id_from_server    *)
(***************************************************************************)

\* Mutant of SentIds: a file that failed to read fails all files after it.
SentIdsUncleared(g) ==
    LET Letters(h) == {i \in DOMAIN data_map[h] :
                          Kind[data_map[h][i].id] = "letter"}
        sent == Min(Letters(g) \cup {Len(data_map[g]) + 1}) - 1
    IN  IF \E h \in 0 .. g - 1 : Letters(h) # {} THEN <<>>
        ELSE [i \in 1 .. sent |-> data_map[g][i].id]

\* The ids of a group as the server reads and sends them.  An X stays behind
\* the number before it and ends the reading of its file.
SentIds(g) ==
    LET lines == data_map[g]
        letters == {i \in DOMAIN lines : Kind[lines[i].id] = "letter"}
    IN  [i \in 1 .. Min(letters \cup {Len(lines) + 1}) - 1 |-> lines[i].id]

\* Mutant of BufferRoom: the count read first.
BufferRoomOfFirst == IF count_data = <<>> THEN 0 ELSE Head(count_data)

\* The buffer has room for the ids of the largest group, by the counts.
BufferRoom == Max(Range(count_data) \cup {0})

\* How the client prints a number it was sent.
Printed(id) == IF Kind[id] = "zeros" THEN Stripped ELSE id

\* main of the client, which asks for the ids or does not.
StartClient(sync_ids) ==
    /\ spc = "serve"
    /\ cpc = "off"
    /\ cpc' = IF sync_ids THEN "sync" ELSE "ready"
    /\ UNCHANGED <<server, client_files, cnext, synced_from>>

\* Mutant of OpenCountId: opened to append.
OpenCountIdToAppend ==
    /\ cpc = "sync"
    /\ synced_from' = [g \in Group |-> Nothing]
    /\ cpc' = "counts"
    /\ UNCHANGED <<server, client_files, cnext>>

\* The counts are there; count_id is opened.
OpenCountId ==
    /\ cpc = "sync"
    /\ count_id' = <<>>
    /\ synced_from' = [g \in Group |-> Nothing]
    /\ cpc' = "counts"
    /\ UNCHANGED <<server, id_map, cnext>>

\* A count behind the end of the message is whatever follows it in memory.
WriteCountId ==
    /\ cpc = "counts"
    /\ count_id' = Append(count_id, ItemNumber(cnext))
    /\ cnext' = (cnext + 1) % NumGroups
    /\ cpc' = IF cnext' = 0 THEN "open" ELSE cpc
    /\ UNCHANGED <<server, id_map, synced_from>>

\* Mutant of OpenIdMap: a file is opened when its ids come.
OpenIdMapLater ==
    /\ cpc = "open"
    /\ synced_from' = [g \in Group |-> processed]
    /\ cpc' = "ids"
    /\ UNCHANGED <<server, client_files, cnext>>

\* All id_map files are opened before the first id is awaited.
OpenIdMap ==
    /\ cpc = "open"
    /\ id_map' = [id_map EXCEPT ![cnext] = <<>>]
    /\ synced_from' = [synced_from EXCEPT ![cnext] = processed]
    /\ cnext' = (cnext + 1) % NumGroups
    /\ cpc' = IF cnext' = 0 THEN "ids" ELSE cpc
    /\ UNCHANGED <<server, count_id>>

\* The server fills its buffer for a group and sends it.
SendIds ==
    /\ cpc = "ids"
    /\ overrun' = (overrun \/ Len(SentIds(cnext)) > BufferRoom)
    /\ cpc' = "lines"
    /\ UNCHANGED <<data, server_files, spc, next, split_wanted, processed,
                   split_from, client_files, cnext, synced_from>>

\* The client writes the ids of a group, one line for each.
WriteId ==
    /\ cpc = "lines" /\ Len(id_map[cnext]) < Len(SentIds(cnext))
    /\ LET i == Len(id_map[cnext]) + 1 IN
        id_map' = [id_map EXCEPT ![cnext] =
                      Append(@, Printed(SentIds(cnext)[i]))]
    /\ UNCHANGED <<server, count_id, cpc, cnext, synced_from>>

CloseIdMap ==
    /\ cpc = "lines" /\ Len(id_map[cnext]) = Len(SentIds(cnext))
    /\ cnext' = (cnext + 1) % NumGroups
    /\ cpc' = IF cnext' = 0 THEN "ready" ELSE "ids"
    /\ UNCHANGED <<server, client_files, synced_from>>

StopClient ==
    /\ cpc # "off"
    /\ cpc' = "off"
    /\ cnext' = 0
    /\ UNCHANGED <<server, client_files, synced_from>>

-----------------------------------------------------------------------------
(***************************************************************************)
(* A query, which changes no file: find_index and one_time_query of the     *)
(* client, handle_one_query of the server.                                  *)
(***************************************************************************)

\* Mutant of FindIndex: the position in the file, counted from one.
FindIndexFromOne(id) ==
    LET lines == id_map[GroupOf[id]]
        hits == {i \in DOMAIN lines : lines[i] = id}
    IN  IF hits = {} THEN NotFound ELSE Min(hits)

\* The index beside the first line with this id.
FindIndex(id) ==
    LET lines == id_map[GroupOf[id]]
        hits == {i \in DOMAIN lines : lines[i] = id}
    IN  IF hits = {} THEN NotFound ELSE Min(hits) - 1

\* The count beside the line of the group; without one, that of the last line.
NumberOfItems(g) ==
    IF count_id = <<>> THEN 0
    ELSE IF g + 1 \in DOMAIN count_id THEN count_id[g + 1] ELSE Last(count_id)

\* What the client may read in the reply to a query for an id: with one layout
\* on both sides and in the split_db file, the record at the index.
Reply(id) ==
    LET g == GroupOf[id]
        content == split_db[g]
        counts == {NumberOfItems(g), ItemNumber(g)}
        agree == \A n \in counts : n # Garbage /\ Layout[n] = Layout[Len(content)]
    IN  IF content # Garbage /\ agree /\ FindIndex(id) < Len(content)
        THEN content[FindIndex(id) + 1] ELSE Garbage

-----------------------------------------------------------------------------

Prepare ==
    \/ \E pd, ps \in BOOLEAN : Start(pd, ps)
    \/ OpenDataMap
    \/ WriteLine
    \/ OpenCountData
    \/ WriteCount
    \/ OpenSplitDb
    \/ WriteSplitDb
    \/ Stop
    \/ ReplaceData

Sync ==
    \/ \E sync_ids \in BOOLEAN : StartClient(sync_ids)
    \/ OpenCountId
    \/ WriteCountId
    \/ OpenIdMap
    \/ SendIds
    \/ WriteId
    \/ CloseIdMap
    \/ StopClient

Next == Prepare \/ Sync

Spec == Init /\ [][Next]_vars

-----------------------------------------------------------------------------
(***************************************************************************)
(* Properties                                                               *)
(***************************************************************************)

\* The records of a group among the first n of a data file, for every n, and
\* among all of them.
RecordsUpTo(d, g) ==
    LET f[n \in 0 .. Len(d)] ==
            IF n = 0 THEN <<>>
            ELSE IF GroupOf[d[n].id] = g THEN Append(f[n - 1], d[n])
            ELSE f[n - 1]
    IN  f
GroupRecords(d, g) == RecordsUpTo(d, g)[Len(d)]

IdFilesTypeOK ==
    /\ data \in DataFiles
    /\ data_map \in [Group -> Seq(Record)]
    /\ count_data \in Seq(Nat) /\ Len(count_data) <= NumGroups
    /\ split_db \in [Group -> Seq(Record \cup {Garbage}) \cup {Garbage}]
    /\ spc \in {"off", "truncate", "lines", "counts", "split", "write_split",
                "serve"}
    /\ cpc \in {"off", "sync", "counts", "open", "ids", "lines", "ready"}
    /\ next \in Nat /\ cnext \in Group
    /\ spc \in {"truncate", "counts", "split", "write_split"} => next \in Group
    /\ split_wanted \in BOOLEAN /\ overrun \in BOOLEAN
    /\ id_map \in [Group -> Seq(Id \cup {Stripped})]
    /\ count_id \in Seq(Nat \cup {Garbage}) /\ Len(count_id) <= NumGroups
    /\ processed \in DataFiles \cup {Nothing}
    /\ split_from \in DataFiles \cup {Nothing}
    /\ synced_from \in [Group -> DataFiles \cup {Nothing}]

\* process_datas that runs to its end leaves the lines and the counts of its
\* data file, and process_split_dbs after it that file's records, whatever a
\* run that was stopped had left behind.
PreparationRepairs ==
    /\ processed # Nothing =>
        \A g \in Group : /\ data_map[g] = GroupRecords(processed, g)
                         /\ count_data[g + 1] = Len(data_map[g])
    /\ split_from # Nothing =>
        \A g \in Group : split_db[g] = GroupRecords(split_from, g)

\* The buffer sync_id_index allocates by the counts is too small only between
\* a process_datas that was stopped and the next one that is not.
SyncFitsBuffer == overrun => processed = Nothing

\* A client stopped while it synchronises and started again without: from the
\* moment it has opened the file of a group, what it finds in that group is
\* where the server had it, under the server's count.  It may not find it.
IndexesFollowServer ==
    \A id \in Id :
        LET g == GroupOf[id]
            records == GroupRecords(synced_from[g], g)
        IN  synced_from[g] # Nothing =>
              /\ NumberOfItems(g) = Len(records)
              /\ FindIndex(id) # NotFound =>
                    /\ FindIndex(id) < Len(records)
                    /\ records[FindIndex(id) + 1].id = id

\* A synchronisation from whole files that runs to its end loses the ids with
\* zeros in front, those that end in X and those that come behind one only,
\* and no other.
Behind(d, id) ==
    \A j \in DOMAIN d : d[j].id = id =>
        \E i \in 1 .. j - 1 : /\ Kind[d[i].id] = "letter"
                              /\ GroupOf[d[i].id] = GroupOf[id]
SyncLosesOnlyOddIds ==
    [][cpc = "lines" /\ cpc' = "ready" /\ processed # Nothing =>
        \A r \in Range(processed) :
            FindIndex(r.id)' # NotFound
                <=> Kind[r.id] = "number" /\ ~Behind(processed, r.id)]_vars

\* The composition: the client's ids come from the data file the server's
\* files were prepared from, both perhaps after runs that were stopped.  Then
\* every id that is found leads to its own record.
RepliesAreRecords ==
    processed # Nothing /\ split_from = processed =>
        \A id \in Id :
            synced_from[GroupOf[id]] = processed /\ FindIndex(id) # NotFound =>
                Reply(id) \in {r \in Range(processed) : r.id = id}

=============================================================================
