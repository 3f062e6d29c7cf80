----------------------------- MODULE QueryServer -----------------------------
(***************************************************************************)
(* The query loop of the server: one thread per connection runs             *)
(* handle_connection / handle_one_query (src/server.cpp) over a pir_server  *)
(* of its own (src/pir_server.cpp), and takes the split_db it computes on    *)
(* from the shared cache of DbCenter (use_memory_db) or from the disk.      *)
(*                                                                         *)
(* A reply is modelled by what it was computed from: the data found in the  *)
(* blocks at the moment each of them was read.                              *)
(***************************************************************************)
EXTENDS DbCenter

CONSTANTS
    Deployments,  \* settings of server.conf, and the connections there will be
    NoGroup,      \* last_id_mod = -1, params of no group
    OutOfRange    \* what a read past the end of split_db finds

ASSUME DeploymentAssumption ==
    Deployments \subseteq [use_memory_db : BOOLEAN, connections : SUBSET Thread]
ASSUME NoGroupAssumption ==
    NoGroup \notin Group /\ OutOfRange \notin Group /\ Unused # OutOfRange

VARIABLES
    deployment,       \* the one of this behaviour; read at the start of main
    spc,              \* where the thread of a connection is
    last_id_mod,      \* conn_data->last_id_mod
    is_preprocessed,  \* the local of handle_one_query
    request,          \* the local id_mod of handle_one_query
    params,           \* the group pir_params_ was generated for
    split_db,         \* the blocks the session's pir_server points at
    next_block,       \* position of generate_reply_combined in split_db
    read_from,        \* what the blocks read so far held
    answer            \* what the last reply sent was computed from

session_vars == <<spc, last_id_mod, is_preprocessed, request, params,
                  split_db, next_block, read_from, answer>>
server_vars == <<vars, session_vars, deployment>>

UseMemoryDb == deployment.use_memory_db

-----------------------------------------------------------------------------

ServerInit ==
    /\ Init
    /\ deployment \in Deployments
    /\ spc = [s \in Thread |-> "off"]
    /\ last_id_mod = [s \in Thread |-> NoGroup]
    /\ is_preprocessed = [s \in Thread |-> FALSE]
    /\ request = [s \in Thread |-> NoGroup]
    /\ params = [s \in Thread |-> NoGroup]
    /\ split_db = [s \in Thread |-> NoDb]
    /\ next_block = [s \in Thread |-> 0]
    /\ read_from = [s \in Thread |-> {}]
    /\ answer = [s \in Thread |-> {}]

\* Sessions whose current query may still allocate.
MayAllocate(s) ==
    \/ spc[s] \in {"query", "load", "cleared"} /\ ~is_preprocessed[s]
    \/ spc[s] = "fetch" /\ s \in Loading

\* Bound of the model: a query starts only while a handle is left for it.
QueryRoom ==
    Cardinality({h \in Handle : ~Allocated(h)})
        > Cardinality({s \in Thread : MayAllocate(s)})

\* accept, and a thread with a new ConnData and a new pir_server.
Connect(s) ==
    /\ spc[s] = "off"
    /\ s \in deployment.connections
    /\ spc' = [spc EXCEPT ![s] = "wait"]
    /\ UNCHANGED <<vars, last_id_mod, is_preprocessed, request, params,
                   split_db, next_block, read_from, answer>>

\* Mutant of ReceiveIdMod: last_id_mod moves before it is compared.
ReceiveIdModFirst(s, g) ==
    /\ spc[s] = "wait"
    /\ QueryRoom
    /\ spc' = [spc EXCEPT ![s] = "query"]
    /\ request' = [request EXCEPT ![s] = g]
    /\ is_preprocessed' = [is_preprocessed EXCEPT ![s] = TRUE]
    /\ last_id_mod' = [last_id_mod EXCEPT ![s] = g]
    /\ UNCHANGED <<vars, params, split_db, next_block, read_from, answer>>

\* The id_mod of a query.  last_id_mod moves before anything is loaded.
ReceiveIdMod(s, g) ==
    /\ spc[s] = "wait"
    /\ QueryRoom
    /\ spc' = [spc EXCEPT ![s] = "query"]
    /\ request' = [request EXCEPT ![s] = g]
    /\ is_preprocessed' = [is_preprocessed EXCEPT ![s] = last_id_mod[s] = g]
    /\ last_id_mod' = [last_id_mod EXCEPT ![s] = g]
    /\ UNCHANGED <<vars, params, split_db, next_block, read_from, answer>>

\* Mutant of ReceiveQuery: a session that has a split_db does not load another.
ReceiveQueryLoadOnce(s) ==
    /\ spc[s] = "query"
    /\ next_block' = [next_block EXCEPT ![s] = 0]
    /\ read_from' = [read_from EXCEPT ![s] = {}]
    /\ spc' = [spc EXCEPT ![s] = IF split_db[s] = NoDb THEN "load" ELSE "reply"]
    /\ params' = [params EXCEPT ![s] = request[s]]
    /\ UNCHANGED <<vars, last_id_mod, is_preprocessed, request, split_db,
                   answer>>

\* The two ciphertexts, and for a group other than the last one the
\* parameters of its item count.
ReceiveQuery(s) ==
    /\ spc[s] = "query"
    /\ next_block' = [next_block EXCEPT ![s] = 0]
    /\ read_from' = [read_from EXCEPT ![s] = {}]
    /\ \/ /\ is_preprocessed[s]
          /\ spc' = [spc EXCEPT ![s] = "reply"]
          /\ UNCHANGED params
       \/ /\ ~is_preprocessed[s]
          /\ spc' = [spc EXCEPT ![s] = "load"]
          /\ params' = [params EXCEPT ![s] = request[s]]
    /\ UNCHANGED <<vars, last_id_mod, is_preprocessed, request, split_db,
                   answer>>

\* A receive that returns -1 ends the thread.  The pir_server goes and with
\* it the pointers of split_db, which nobody frees.
ConnectionLost(s) ==
    /\ spc[s] \in {"wait", "query"}
    /\ spc' = [spc EXCEPT ![s] = "off"]
    /\ last_id_mod' = [last_id_mod EXCEPT ![s] = NoGroup]
    /\ is_preprocessed' = [is_preprocessed EXCEPT ![s] = FALSE]
    /\ request' = [request EXCEPT ![s] = NoGroup]
    /\ params' = [params EXCEPT ![s] = NoGroup]
    /\ split_db' = [split_db EXCEPT ![s] = NoDb]
    /\ next_block' = [next_block EXCEPT ![s] = 0]
    /\ read_from' = [read_from EXCEPT ![s] = {}]
    /\ answer' = [answer EXCEPT ![s] = {}]
    /\ UNCHANGED vars

-----------------------------------------------------------------------------
(***************************************************************************)
(* split_db from the cache: read_split_db_from_cache                        *)
(***************************************************************************)

CallGetDb(s) ==
    /\ UseMemoryDb
    /\ spc[s] = "load"
    /\ GetDb(s, request[s])
    /\ spc' = [spc EXCEPT ![s] = "fetch"]
    /\ UNCHANGED <<last_id_mod, is_preprocessed, request, params, split_db,
                   next_block, read_from, answer>>

RunGetDb(s) ==
    /\ spc[s] = "fetch"
    /\ Step(s)
    /\ UNCHANGED session_vars

\* get_db has returned; the pointers replace the session's old ones, which
\* are not freed: they belong to the cache.
AssignSplitDb(s) ==
    /\ spc[s] = "fetch"
    /\ pc[s] = "idle"
    /\ split_db' = [split_db EXCEPT ![s] = ret[s]]
    /\ spc' = [spc EXCEPT ![s] = "reply"]
    /\ UNCHANGED <<vars, last_id_mod, is_preprocessed, request, params,
                   next_block, read_from, answer>>

-----------------------------------------------------------------------------
(***************************************************************************)
(* split_db from the disk: pir_server::read_split_db_from_disk, which works *)
(* on memory no other thread knows of.                                      *)
(***************************************************************************)

ClearSplitDb(s) ==
    /\ ~UseMemoryDb
    /\ spc[s] = "load"
    /\ heap' = [h \in Handle |-> IF h = split_db[s] THEN Unused ELSE heap[h]]
    /\ split_db' = [split_db EXCEPT ![s] = NoDb]
    /\ spc' = [spc EXCEPT ![s] = "cleared"]
    /\ UNCHANGED <<db, size, group_hit_seq, hit_seq, total_size, db_mutex,
                   pc, id_mod, ret, last_id_mod, is_preprocessed, request,
                   params, next_block, read_from, answer>>

\* Mutant of ReadSplitDb: blocks some session has already loaded are reused.
ReadSplitDbShared(s) ==
    /\ spc[s] = "cleared"
    /\ \E h \in Handle :
        /\ heap[h] \in {Unused, request[s]}
        /\ heap' = [heap EXCEPT ![h] = request[s]]
        /\ split_db' = [split_db EXCEPT ![s] = h]
    /\ spc' = [spc EXCEPT ![s] = "reply"]
    /\ UNCHANGED <<db, size, group_hit_seq, hit_seq, total_size, db_mutex,
                   pc, id_mod, ret, last_id_mod, is_preprocessed, request,
                   params, next_block, read_from, answer>>

ReadSplitDb(s) ==
    /\ spc[s] = "cleared"
    /\ \E h \in Handle :
        /\ ~Allocated(h)
        /\ heap' = [heap EXCEPT ![h] = request[s]]
        /\ split_db' = [split_db EXCEPT ![s] = h]
    /\ spc' = [spc EXCEPT ![s] = "reply"]
    /\ UNCHANGED <<db, size, group_hit_seq, hit_seq, total_size, db_mutex,
                   pc, id_mod, ret, last_id_mod, is_preprocessed, request,
                   params, next_block, read_from, answer>>

-----------------------------------------------------------------------------

\* What is found at position b of the vector a session points at.  Freed
\* blocks hold whatever the heap put there: Unused, or another group's data
\* when their memory was allocated again.
BlockAt(s, b) ==
    IF split_db[s] = NoDb THEN OutOfRange
    ELSE IF ~Allocated(split_db[s]) THEN Unused
    ELSE IF b <= SizeOf[heap[split_db[s]]] THEN heap[split_db[s]]
    ELSE OutOfRange

\* Mutant of ReadBlock: positions are off by one.
ReadNextBlock(s) ==
    /\ spc[s] = "reply"
    /\ next_block[s] < SizeOf[params[s]]
    /\ next_block' = [next_block EXCEPT ![s] = @ + 1]
    /\ read_from' = [read_from EXCEPT ![s] = @ \cup
                        {BlockAt(s, next_block[s] + 2)}]
    /\ UNCHANGED <<vars, spc, last_id_mod, is_preprocessed, request, params,
                   split_db, answer>>

\* The first dimension of generate_reply_combined multiplies the query with
\* one plaintext of split_db after the other, as many as pir_params_ says.
ReadBlock(s) ==
    /\ spc[s] = "reply"
    /\ next_block[s] < SizeOf[params[s]]
    /\ next_block' = [next_block EXCEPT ![s] = @ + 1]
    /\ read_from' = [read_from EXCEPT ![s] = @ \cup
                        {BlockAt(s, next_block[s] + 1)}]
    /\ UNCHANGED <<vars, spc, last_id_mod, is_preprocessed, request, params,
                   split_db, answer>>

\* The remaining dimensions work on the result of the first; the reply goes
\* out and the thread waits for the next query.
SendReply(s) ==
    /\ spc[s] = "reply"
    /\ next_block[s] = SizeOf[params[s]]
    /\ answer' = [answer EXCEPT ![s] = read_from[s]]
    /\ spc' = [spc EXCEPT ![s] = "wait"]
    /\ UNCHANGED <<vars, last_id_mod, is_preprocessed, request, params,
                   split_db, next_block, read_from>>

-----------------------------------------------------------------------------

\* What the thread does by itself once a query has been received.
Work(s) ==
    /\ \/ CallGetDb(s)
       \/ RunGetDb(s)
       \/ AssignSplitDb(s)
       \/ ClearSplitDb(s)
       \/ ReadSplitDb(s)
       \/ ReadBlock(s)
       \/ SendReply(s)
    /\ UNCHANGED deployment

\* What the thread does as its client lets it.
Listen(s) ==
    /\ \/ Connect(s)
       \/ \E g \in Group : ReceiveIdMod(s, g)
       \/ ReceiveQuery(s)
       \/ ConnectionLost(s)
    /\ UNCHANGED deployment

ServerNext ==
    \E s \in Thread : Listen(s) \/ Work(s)

ServerSpec == ServerInit /\ [][ServerNext]_server_vars

\* Threads are scheduled; clients may stop at any message.
FairServerSpec == ServerSpec /\ \A s \in Thread : WF_server_vars(Work(s))

-----------------------------------------------------------------------------
(***************************************************************************)
(* Properties                                                               *)
(***************************************************************************)

ServerTypeOK ==
    /\ TypeOK
    /\ deployment \in Deployments
    /\ spc \in [Thread -> {"off", "wait", "query", "load", "fetch", "cleared",
                           "reply"}]
    /\ last_id_mod \in [Thread -> Group \cup {NoGroup}]
    /\ is_preprocessed \in [Thread -> BOOLEAN]
    /\ request \in [Thread -> Group \cup {NoGroup}]
    /\ params \in [Thread -> Group \cup {NoGroup}]
    /\ split_db \in [Thread -> Handle \cup {NoDb}]
    /\ next_block \in [Thread -> Nat]
    /\ read_from \in [Thread -> SUBSET (Group \cup {Unused, OutOfRange})]
    /\ answer \in [Thread -> SUBSET (Group \cup {Unused, OutOfRange})]

\* A session computing a reply uses the parameters of the group it was
\* asked for, whether the load was done now or skipped because last_id_mod
\* says the group is the one of the query before.
ParamsMatchRequest ==
    \A s \in Thread :
        spc[s] = "reply" => params[s] = request[s] /\ last_id_mod[s] = request[s]

\* The blocks a session computes on are allocated and hold the group asked
\* for, for as long as it reads them: no release by another session's
\* get_db, and no skipped load, takes them away under it.
ReadsRequestedGroup ==
    \A s \in Thread :
        spc[s] = "reply" => /\ split_db[s] # NoDb
                            /\ heap[split_db[s]] = request[s]

\* The README says of a query: "the server will return its data"
\* (README.md:23).  Every reply sent was computed from the requested group.
RepliesFromRequestedGroup ==
    \A s \in Thread : spc[s] = "wait" /\ answer[s] # {} =>
                        answer[s] = {request[s]}

\* In disk mode no two sessions share blocks, so clearing one's own frees
\* nobody else's.
PrivateBlocks ==
    \A s, t \in Thread :
        s # t /\ split_db[s] # NoDb => split_db[s] # split_db[t]

\* The server keeps the promise of QueryService.
Service == INSTANCE QueryService WITH
    Session <- Thread,
    status <- [s \in Thread |->
                 IF spc[s] = "off" THEN "off"
                 ELSE IF spc[s] \in {"wait", "query"} THEN "ready"
                 ELSE "asked"],
    asked_for <- [s \in Thread |->
                    IF spc[s] \in {"off", "wait", "query"} THEN NoGroup
                    ELSE request[s]]

ServesRequests == Service!FairSpec

=============================================================================
