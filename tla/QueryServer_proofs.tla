-------------------------- MODULE QueryServer_proofs --------------------------
(***************************************************************************)
(* When the sessions cannot disturb each other, because every session reads  *)
(* blocks of its own from the disk or because there is only one session,     *)
(* the server keeps the safety part of what QueryService promises, for any   *)
(* number of groups of any sizes and under any memory limit.                 *)
(***************************************************************************)
EXTENDS QueryServer, DbCenter_proofs

Isolated ==
    \A d \in Deployments :
        d.use_memory_db => \A s, t \in d.connections : s = t

\* The session holds blocks of the group last_id_mod names, and in cache mode
\* they are the cached ones.
Loaded(s) ==
    /\ last_id_mod[s] \in Group
    /\ params[s] = last_id_mod[s]
    /\ split_db[s] # NoDb
    /\ heap[split_db[s]] = last_id_mod[s]
    /\ UseMemoryDb => db[last_id_mod[s]] = split_db[s]

\* What a session knows at each place of its loop.
SessionInv(s) ==
    /\ spc[s] # "off" => s \in deployment.connections
    /\ spc[s] = "wait" => last_id_mod[s] = NoGroup \/ Loaded(s)
    /\ spc[s] \notin {"off", "wait"} =>
        request[s] \in Group /\ last_id_mod[s] = request[s]
    /\ spc[s] = "query" /\ is_preprocessed[s] => Loaded(s)
    /\ spc[s] \in {"load", "fetch", "cleared"} =>
        params[s] = request[s] /\ next_block[s] = 0 /\ read_from[s] = {}
    /\ spc[s] = "cleared" => split_db[s] = NoDb
    /\ spc[s] = "reply" =>
        /\ Loaded(s)
        /\ next_block[s] <= SizeOf[request[s]]
        /\ read_from[s] = IF next_block[s] = 0 THEN {} ELSE {request[s]}
    /\ spc[s] = "off" =>
        last_id_mod[s] = NoGroup /\ split_db[s] = NoDb /\ answer[s] = {}
    /\ spc[s] = "wait" => answer[s] = {} \/ answer[s] = {request[s]}

\* How a session and its call of get_db go together.
CallInv(s) ==
    /\ UseMemoryDb => spc[s] # "cleared"
    /\ ~UseMemoryDb => spc[s] # "fetch"
    /\ pc[s] # "idle" => spc[s] = "fetch" /\ id_mod[s] = request[s]
    /\ spc[s] = "fetch" /\ pc[s] = "idle" =>
        ret[s] # NoDb /\ heap[ret[s]] = request[s] /\ db[request[s]] = ret[s]

\* Blocks a session read from the disk are allocated and its own.
DiskInv ==
    ~UseMemoryDb =>
        /\ PrivateBlocks
        /\ \A s \in Thread : split_db[s] # NoDb => Allocated(split_db[s])

ServerInv ==
    /\ ServerTypeOK
    /\ UseMemoryDb => IInv
    /\ DiskInv
    /\ \A s \in Thread : SessionInv(s) /\ CallInv(s)

-----------------------------------------------------------------------------

\* The server starts with nothing loaded and no connection.
LEMMA ServerInitInv == ServerInit => ServerInv
<1> SUFFICES ASSUME ServerInit
             PROVE  ServerInv
  OBVIOUS
<1>1. IInv
  BY InitIInv DEF ServerInit
<1>2. ServerTypeOK
  BY <1>1 DEF ServerInit, ServerTypeOK, IInv
<1>3. DiskInv
  BY DEF ServerInit, DiskInv, PrivateBlocks
<1>4. ASSUME NEW s \in Thread
      PROVE  SessionInv(s) /\ CallInv(s)
  BY <1>2 DEF ServerInit, Init, SessionInv, CallInv
<1>5. QED
  BY <1>1, <1>2, <1>3, <1>4 DEF ServerInv

\* In cache mode every step of the server is a step of the cache, or leaves
\* the cache alone.
LEMMA CacheStep ==
    ASSUME UseMemoryDb, ServerInv, [ServerNext]_server_vars
    PROVE  [Next]_vars
<1>1. ASSUME NEW s \in Thread, Work(s)
      PROVE  [Next]_vars
  <2>1. CASE CallGetDb(s)
    BY <2>1 DEF CallGetDb, ServerInv, SessionInv, Next
  <2>2. CASE RunGetDb(s)
    BY <2>2 DEF RunGetDb, Next
  <2>3. CASE AssignSplitDb(s) \/ ReadBlock(s) \/ SendReply(s)
    BY <2>3 DEF AssignSplitDb, ReadBlock, SendReply
  <2>4. CASE ClearSplitDb(s) \/ ReadSplitDb(s)
    BY <2>4 DEF ClearSplitDb, ReadSplitDb, ServerInv, CallInv
  <2>5. QED
    BY <1>1, <2>1, <2>2, <2>3, <2>4 DEF Work
<1>2. ASSUME NEW s \in Thread, Listen(s)
      PROVE  [Next]_vars
  BY <1>2 DEF Listen, Connect, ReceiveIdMod, ReceiveQuery, ConnectionLost
<1>3. CASE UNCHANGED server_vars
  BY <1>3 DEF server_vars
<1>4. QED
  BY <1>1, <1>2, <1>3 DEF ServerNext

\* Steps of the session alone.
LEMMA SessionStep ==
    ASSUME ServerInv, NEW s \in Thread, UNCHANGED deployment,
           \/ Connect(s)
           \/ \E g \in Group : ReceiveIdMod(s, g)
           \/ ReceiveQuery(s)
           \/ ConnectionLost(s)
           \/ AssignSplitDb(s)
           \/ ReadBlock(s)
           \/ SendReply(s)
    PROVE  ServerInv'
<1> USE NoGroupAssumption, HandleAssumption, SizeAssumption
    DEF UseMemoryDb
<1>1. vars' = vars
  BY DEF Connect, ReceiveIdMod, ReceiveQuery, ConnectionLost, AssignSplitDb,
         ReadBlock, SendReply
<1>2. TypeOK' /\ (UseMemoryDb => IInv')
  BY <1>1, NextIInv DEF ServerInv, ServerTypeOK, IInv, TypeOK, vars
<1> USE DEF vars, ServerInv, ServerTypeOK, TypeOK
<1>3. CASE Connect(s)
  <2>1. ServerTypeOK' /\ DiskInv'
    BY <1>2, <1>3 DEF Connect, DiskInv, PrivateBlocks, Allocated
  <2>2. \A t \in Thread : SessionInv(t)' /\ CallInv(t)'
    BY <1>3 DEF Connect, SessionInv, CallInv, Loaded
  <2>3. QED
    BY <1>2, <2>1, <2>2
<1>4. ASSUME NEW g \in Group, ReceiveIdMod(s, g)
      PROVE  ServerInv'
  <2>1. ServerTypeOK' /\ DiskInv'
    BY <1>2, <1>4 DEF ReceiveIdMod, DiskInv, PrivateBlocks, Allocated
  <2>2. ASSUME NEW t \in Thread
        PROVE  SessionInv(t)' /\ CallInv(t)'
    <3>1. CASE t # s
      BY <1>4, <3>1 DEF ReceiveIdMod, SessionInv, CallInv, Loaded
    <3>2. CASE t = s
      <4>1. is_preprocessed'[s] <=> last_id_mod[s] = g
        BY <1>4 DEF ReceiveIdMod
      <4>2. /\ spc[s] = "wait" /\ spc'[s] = "query"
            /\ request'[s] = g /\ last_id_mod'[s] = g
            /\ params' = params /\ split_db' = split_db
        BY <1>4 DEF ReceiveIdMod
      <4>3. last_id_mod[s] = g => Loaded(s)'
        BY <1>1, <4>2 DEF SessionInv, Loaded
      <4>4. SessionInv(s)'
        BY <4>1, <4>2, <4>3 DEF SessionInv
      <4>5. CallInv(s)'
        BY <1>1, <4>2 DEF CallInv
      <4>6. QED
        BY <3>2, <4>4, <4>5
    <3>3. QED
      BY <3>1, <3>2
  <2>3. QED
    BY <1>2, <2>1, <2>2
<1>5. CASE ReceiveQuery(s)
  <2>1. ServerTypeOK'
    BY <1>2, <1>5 DEF ReceiveQuery, SessionInv
  <2>4. DiskInv'
    BY <1>5 DEF ReceiveQuery, DiskInv, PrivateBlocks, Allocated
  <2>2. ASSUME NEW t \in Thread
        PROVE  SessionInv(t)' /\ CallInv(t)'
    <3>1. CASE t # s
      BY <1>5, <3>1 DEF ReceiveQuery, SessionInv, CallInv, Loaded
    <3>2. CASE t = s
      BY <1>5, <3>2 DEF ReceiveQuery, SessionInv, CallInv, Loaded
    <3>3. QED
      BY <3>1, <3>2
  <2>3. QED
    BY <1>2, <2>1, <2>2, <2>4
<1>6. CASE ConnectionLost(s)
  <2>1. ServerTypeOK' /\ DiskInv'
    BY <1>2, <1>6 DEF ConnectionLost, DiskInv, PrivateBlocks, Allocated
  <2>2. \A t \in Thread : SessionInv(t)' /\ CallInv(t)'
    BY <1>6 DEF ConnectionLost, SessionInv, CallInv, Loaded
  <2>3. QED
    BY <1>2, <2>1, <2>2
<1>7. CASE AssignSplitDb(s)
  <2>1. ServerTypeOK' /\ DiskInv'
    BY <1>2, <1>7 DEF AssignSplitDb, DiskInv, CallInv
  <2>2. \A t \in Thread : SessionInv(t)' /\ CallInv(t)'
    BY <1>7 DEF AssignSplitDb, SessionInv, CallInv, Loaded
  <2>3. QED
    BY <1>2, <2>1, <2>2
<1>8. CASE ReadBlock(s)
  <2>1. BlockAt(s, next_block[s] + 1) = request[s]
    BY <1>8 DEF ReadBlock, BlockAt, Allocated, SessionInv, Loaded
  <2>2. ServerTypeOK' /\ DiskInv'
    BY <1>2, <1>8, <2>1
       DEF ReadBlock, DiskInv, PrivateBlocks, Allocated, SessionInv
  <2>3. ASSUME NEW t \in Thread
        PROVE  SessionInv(t)' /\ CallInv(t)'
    <3>1. CASE t # s
      BY <1>8, <3>1 DEF ReadBlock, SessionInv, CallInv, Loaded
    <3>2. CASE t = s
      <4>1. SizeOf[request[s]] \in Nat /\ params[s] = request[s]
        BY <1>8 DEF ReadBlock, SessionInv, Loaded
      <4>2. next_block'[s] = next_block[s] + 1
            /\ read_from'[s] = read_from[s] \cup {request[s]}
        BY <1>8, <2>1 DEF ReadBlock
      <4>3. read_from'[s] = {request[s]}
        BY <1>8, <4>2 DEF ReadBlock, SessionInv
      <4>4. QED
        BY <1>8, <3>2, <4>1, <4>2, <4>3
           DEF ReadBlock, SessionInv, CallInv, Loaded
    <3>3. QED
      BY <3>1, <3>2
  <2>4. QED
    BY <1>2, <2>2, <2>3
<1>9. CASE SendReply(s)
  <2>1. ServerTypeOK' /\ DiskInv'
    BY <1>2, <1>9 DEF SendReply, DiskInv, PrivateBlocks, Allocated
  <2>2. \A t \in Thread : SessionInv(t)' /\ CallInv(t)'
    BY <1>9 DEF SendReply, SessionInv, CallInv, Loaded
  <2>3. QED
    BY <1>2, <2>1, <2>2
<1>10. QED
  BY <1>3, <1>4, <1>5, <1>6, <1>7, <1>8, <1>9

\* Steps that load from the disk: they touch blocks of one session only.
LEMMA DiskStep ==
    ASSUME ServerInv, NEW s \in Thread, UNCHANGED deployment,
           ClearSplitDb(s) \/ ReadSplitDb(s)
    PROVE  ServerInv'
<1> USE HandleAssumption, NoGroupAssumption
    DEF UseMemoryDb, ServerInv, ServerTypeOK, TypeOK, PrivateBlocks, Allocated
<1>1. CASE ClearSplitDb(s)
  <2>1. ~UseMemoryDb /\ spc[s] = "load"
    BY <1>1 DEF ClearSplitDb
  <2>2. \A t \in Thread : t # s /\ split_db[t] # NoDb =>
                              heap'[split_db[t]] = heap[split_db[t]]
    BY <1>1, <2>1 DEF ClearSplitDb, DiskInv
  <2>3. ServerTypeOK'
    BY <1>1 DEF ClearSplitDb
  <2>4. DiskInv'
    BY <1>1, <2>1, <2>2 DEF ClearSplitDb, DiskInv
  <2>5. ASSUME NEW t \in Thread
        PROVE  SessionInv(t)' /\ CallInv(t)'
    <3>1. CASE t # s
      <4>1. split_db'[t] = split_db[t] /\ spc'[t] = spc[t]
        BY <1>1, <3>1 DEF ClearSplitDb
      <4>2. Loaded(t) => Loaded(t)'
        BY <1>1, <2>1, <2>2, <3>1, <4>1 DEF ClearSplitDb, Loaded
      <4>3. SessionInv(t)'
        BY <1>1, <4>1, <4>2 DEF ClearSplitDb, SessionInv
      <4>4. CallInv(t)'
        BY <1>1, <2>1, <4>1 DEF ClearSplitDb, CallInv
      <4>5. QED
        BY <4>3, <4>4
    <3>2. CASE t = s
      BY <1>1, <2>1, <3>2 DEF ClearSplitDb, SessionInv, CallInv, Loaded
    <3>3. QED
      BY <3>1, <3>2
  <2>6. QED
    BY <2>1, <2>3, <2>4, <2>5
<1>2. CASE ReadSplitDb(s)
  <2>1. ~UseMemoryDb /\ spc[s] = "cleared" /\ request[s] \in Group
    BY <1>2 DEF ReadSplitDb, CallInv, SessionInv
  <2>2. PICK h \in Handle : /\ ~Allocated(h)
                            /\ heap' = [heap EXCEPT ![h] = request[s]]
                            /\ split_db' = [split_db EXCEPT ![s] = h]
    BY <1>2 DEF ReadSplitDb
  <2>3. \A t \in Thread : split_db[t] # NoDb => split_db[t] # h
    BY <2>1, <2>2 DEF DiskInv
  <2>4. ServerTypeOK'
    BY <1>2, <2>1, <2>2 DEF ReadSplitDb
  <2>5. DiskInv'
    BY <1>2, <2>1, <2>2, <2>3 DEF ReadSplitDb, DiskInv
  <2>6. ASSUME NEW t \in Thread
        PROVE  SessionInv(t)' /\ CallInv(t)'
    BY <1>2, <2>1, <2>2, <2>3, SizeAssumption
       DEF ReadSplitDb, SessionInv, CallInv, Loaded
  <2>7. QED
    BY <2>1, <2>4, <2>5, <2>6
<1>3. QED
  BY <1>1, <1>2

\* Steps through the cache of the only session there is.
LEMMA OnlySessionStep ==
    ASSUME ServerInv, Isolated, NEW s \in Thread, UNCHANGED deployment,
           CallGetDb(s) \/ RunGetDb(s)
    PROVE  ServerInv'
<1> USE DEF ServerInv, ServerTypeOK, UseMemoryDb
<1>0. UseMemoryDb /\ s \in deployment.connections
  BY DEF CallGetDb, RunGetDb, CallInv, SessionInv
<1>1. UseMemoryDb /\ \A t \in Thread : t # s => spc[t] = "off"
  BY <1>0 DEF Isolated, SessionInv
<1>2. IInv'
  <2>1. ServerNext
    BY DEF ServerNext, Work
  <2>2. QED
    BY <1>1, <2>1, CacheStep, NextIInv
<1>3. TypeOK' /\ TypeOK
  BY <1>2 DEF IInv
<1>4. DiskInv'
  BY <1>1 DEF DiskInv
<1>8. ASSUME NEW t \in Thread, t # s,
             pc'[t] = pc[t], spc'[t] = spc[t], last_id_mod' = last_id_mod,
             split_db' = split_db, answer' = answer
      PROVE  SessionInv(t)' /\ CallInv(t)'
  BY <1>1, <1>8 DEF SessionInv, CallInv
<1>5. CASE CallGetDb(s)
  <2>1. /\ spc[s] = "load" /\ request[s] \in Group
        /\ spc' = [spc EXCEPT ![s] = "fetch"]
        /\ pc'[s] = "lookup" /\ id_mod'[s] = request[s]
    BY <1>3, <1>5 DEF CallGetDb, GetDb, SessionInv, TypeOK
  <2>2. ServerTypeOK'
    BY <1>3, <1>5 DEF CallGetDb
  <2>3. SessionInv(s)' /\ CallInv(s)'
    BY <1>1, <1>5, <2>1 DEF CallGetDb, SessionInv, CallInv
  <2>4. \A t \in Thread : t # s => SessionInv(t)' /\ CallInv(t)'
    BY <1>3, <1>5, <1>8 DEF CallGetDb, GetDb, TypeOK
  <2>5. QED
    BY <1>1, <1>2, <1>4, <2>2, <2>3, <2>4
<1>6. CASE RunGetDb(s)
  <2>1. spc[s] = "fetch" /\ Step(s) /\ session_vars' = session_vars
    BY <1>6 DEF RunGetDb
  <2>2. ServerTypeOK' /\ SessionInv(s)'
    BY <1>3, <2>1 DEF session_vars, SessionInv
  <2>3. pc[s] # "idle" /\ id_mod'[s] = id_mod[s]
    BY <2>1 DEF Step, Lookup, LoadFromDisk, Store, Evict, FinishStore
  <2>4. id_mod[s] = request[s] /\ request[s] \in Group
    BY <2>1, <2>3 DEF CallInv, SessionInv
  <2>5. pc'[s] = "idle" =>
            /\ ret'[s] # NoDb
            /\ heap'[ret'[s]] = request[s]
            /\ db'[request[s]] = ret'[s]
    <3>1. pc'[s] = "idle" =>
              (Lookup(s) /\ Cached(id_mod[s])) \/ FinishStore(s)
      BY <1>3, <2>1
         DEF Step, Lookup, LoadFromDisk, Store, Evict, FinishStore, TypeOK
    <3>2. CASE Lookup(s) /\ Cached(id_mod[s])
      BY <1>1, <1>3, <2>4, <3>2
         DEF Lookup, IInv, CacheHandlesLive, Cached, TypeOK
    <3>3. CASE FinishStore(s)
      BY <1>1, <1>3, <2>4, <3>3
         DEF FinishStore, IInv, CacheHandlesLive, Cached, EvictInv, TypeOK
    <3>4. QED
      BY <3>1, <3>2, <3>3
  <2>6. CallInv(s)'
    BY <1>1, <2>1, <2>3, <2>4, <2>5 DEF CallInv, session_vars
  <2>7. \A t \in Thread : t # s => SessionInv(t)' /\ CallInv(t)'
    BY <1>3, <1>8, <2>1 DEF session_vars, Step, Lookup, LoadFromDisk, Store,
                            Evict, FinishStore, TypeOK
  <2>8. QED
    BY <1>1, <1>2, <1>4, <2>2, <2>6, <2>7
<1>7. QED
  BY <1>5, <1>6

\* Every step of an isolated server preserves the invariant.
LEMMA ServerNextInv ==
    ASSUME Isolated
    PROVE  ServerInv /\ [ServerNext]_server_vars => ServerInv'
<1> SUFFICES ASSUME ServerInv, [ServerNext]_server_vars
             PROVE  ServerInv'
  OBVIOUS
<1>1. CASE ServerNext
  BY <1>1, SessionStep, DiskStep, OnlySessionStep
     DEF ServerNext, Work, Listen
<1>2. CASE UNCHANGED server_vars
  <2>1. /\ vars' = vars /\ session_vars' = session_vars
        /\ deployment' = deployment /\ UseMemoryDb' = UseMemoryDb
    BY <1>2 DEF server_vars, UseMemoryDb
  <2>2. UseMemoryDb => IInv'
    BY <2>1, NextIInv DEF ServerInv
  <2>3. ServerTypeOK' /\ DiskInv'
    BY <2>1 DEF ServerInv, ServerTypeOK, TypeOK, DiskInv, PrivateBlocks,
                Allocated, vars, session_vars
  <2>4. ASSUME NEW s \in Thread
        PROVE  SessionInv(s)' /\ CallInv(s)'
    <3>1. SessionInv(s) /\ CallInv(s)
      BY DEF ServerInv
    <3>2. SessionInv(s)'
      BY <2>1, <3>1 DEF SessionInv, Loaded, vars, session_vars
    <3>3. CallInv(s)'
      BY <2>1, <3>1 DEF CallInv, vars, session_vars
    <3>4. QED
      BY <3>2, <3>3
  <2>5. QED
    BY <2>1, <2>2, <2>3, <2>4 DEF ServerInv
<1>3. QED
  BY <1>1, <1>2

\* The invariant holds throughout.
LEMMA ServerInvariance == ASSUME Isolated PROVE ServerSpec => []ServerInv
BY ServerInitInv, ServerNextInv, PTL DEF ServerSpec

\* Types of the cache and of the sessions together.
THEOREM ServerTypeCorrect ==
    ASSUME Isolated PROVE ServerSpec => []ServerTypeOK
<1>1. ServerInv => ServerTypeOK
  BY DEF ServerInv
<1>2. QED
  BY <1>1, ServerInvariance, PTL

\* A session on its own never computes on freed blocks or on another
\* group's.
THEOREM IsolatedSessionsReadTheirGroup ==
    ASSUME Isolated PROVE ServerSpec => []ReadsRequestedGroup
<1>1. ServerInv => ReadsRequestedGroup
  BY DEF ServerInv, SessionInv, Loaded, ReadsRequestedGroup
<1>2. QED
  BY <1>1, ServerInvariance, PTL

\* And sends no reply computed from anything but the requested group: what
\* the README says of a query, which fails when sessions share the cache.
THEOREM IsolatedRepliesAreRight ==
    ASSUME Isolated PROVE ServerSpec => []RepliesFromRequestedGroup
<1>1. ServerInv => RepliesFromRequestedGroup
  BY DEF ServerInv, SessionInv, RepliesFromRequestedGroup
<1>2. QED
  BY <1>1, ServerInvariance, PTL

\* No two isolated sessions hold the same blocks.
THEOREM IsolatedBlocksArePrivate ==
    ASSUME Isolated PROVE ServerSpec => []PrivateBlocks
<1>1. ServerInv => PrivateBlocks
  <2> SUFFICES ASSUME ServerInv
               PROVE  PrivateBlocks
    OBVIOUS
  <2>1. CASE ~UseMemoryDb
    BY <2>1 DEF ServerInv, DiskInv
  <2>2. CASE UseMemoryDb
    <3>1. \A s, t \in Thread : spc[s] # "off" /\ spc[t] # "off" => s = t
      BY <2>2 DEF ServerInv, ServerTypeOK, SessionInv, Isolated, UseMemoryDb
    <3>2. QED
      BY <3>1 DEF ServerInv, SessionInv, PrivateBlocks
  <2>3. QED
    BY <2>1, <2>2
<1>2. QED
  BY <1>1, ServerInvariance, PTL

-----------------------------------------------------------------------------
(***************************************************************************)
(* The parameters of a session are its own, whatever the others do: this    *)
(* needs no isolation.                                                      *)
(***************************************************************************)

SessionTypes ==
    /\ spc \in [Thread -> {"off", "wait", "query", "load", "fetch", "cleared",
                           "reply"}]
    /\ last_id_mod \in [Thread -> Group \cup {NoGroup}]
    /\ is_preprocessed \in [Thread -> BOOLEAN]
    /\ request \in [Thread -> Group \cup {NoGroup}]
    /\ params \in [Thread -> Group \cup {NoGroup}]

\* last_id_mod names the group the parameters are for, but between the
\* arrival of another id and that of the ciphertexts.
ParamsInv ==
    /\ SessionTypes
    /\ \A s \in Thread :
        /\ spc[s] \in {"off", "wait"} => params[s] = last_id_mod[s]
        /\ spc[s] \notin {"off", "wait"} => last_id_mod[s] = request[s]
        /\ spc[s] = "query" /\ is_preprocessed[s] => params[s] = request[s]
        /\ spc[s] \in {"load", "fetch", "cleared", "reply"} =>
            params[s] = request[s]

LEMMA ParamsStep == ParamsInv /\ [ServerNext]_server_vars => ParamsInv'
<1> SUFFICES ASSUME ParamsInv, [ServerNext]_server_vars
             PROVE  ParamsInv'
  OBVIOUS
<1> USE DEF ParamsInv, SessionTypes
<1>1. ASSUME NEW s \in Thread, Connect(s) \/ ConnectionLost(s) \/ SendReply(s)
      PROVE  ParamsInv'
  <2>1. CASE Connect(s)
    BY <2>1 DEF Connect
  <2>2. CASE ConnectionLost(s)
    BY <2>2 DEF ConnectionLost
  <2>3. CASE SendReply(s)
    BY <2>3 DEF SendReply
  <2>4. QED
    BY <1>1, <2>1, <2>2, <2>3
<1>2. ASSUME NEW s \in Thread, NEW g \in Group, ReceiveIdMod(s, g)
      PROVE  ParamsInv'
  BY <1>2 DEF ReceiveIdMod
<1>3. ASSUME NEW s \in Thread, ReceiveQuery(s)
      PROVE  ParamsInv'
  BY <1>3 DEF ReceiveQuery
<1>4. ASSUME NEW s \in Thread,
             \/ CallGetDb(s) \/ AssignSplitDb(s)
             \/ ClearSplitDb(s) \/ ReadSplitDb(s)
      PROVE  ParamsInv'
  <2>1. /\ spc[s] \in {"load", "fetch", "cleared"}
        /\ \E to \in {"fetch", "cleared", "reply"} : spc' = [spc EXCEPT ![s] = to]
        /\ last_id_mod' = last_id_mod /\ request' = request
        /\ params' = params /\ is_preprocessed' = is_preprocessed
    BY <1>4 DEF CallGetDb, AssignSplitDb, ClearSplitDb, ReadSplitDb
  <2>2. QED
    BY <2>1
<1>5. ASSUME NEW s \in Thread, RunGetDb(s) \/ ReadBlock(s)
      PROVE  ParamsInv'
  BY <1>5 DEF RunGetDb, ReadBlock, session_vars
<1>6. CASE UNCHANGED server_vars
  BY <1>6 DEF server_vars, session_vars
<1>7. QED
  BY <1>1, <1>2, <1>3, <1>4, <1>5, <1>6 DEF ServerNext, Listen, Work

\* A reply is always computed with the parameters of the requested group,
\* in every deployment.
THEOREM ParamsFollowRequest == ServerSpec => []ParamsMatchRequest
<1>1. ServerInit => ParamsInv
  BY DEF ServerInit, ParamsInv, SessionTypes
<1>2. ParamsInv => ParamsMatchRequest
  BY DEF ParamsInv, ParamsMatchRequest
<1>3. QED
  BY <1>1, <1>2, ParamsStep, PTL DEF ServerSpec

-----------------------------------------------------------------------------

\* What QueryService sees of a session.
Status(s) == IF spc[s] = "off" THEN "off"
             ELSE IF spc[s] \in {"wait", "query"} THEN "ready"
             ELSE "asked"
AskedFor(s) == IF spc[s] \in {"off", "wait", "query"} THEN NoGroup
               ELSE request[s]

\* A step that moves no session between what the service tells apart is a
\* stutter of the service.
LEMMA ServiceStutter ==
    ASSUME \A s \in Thread : Status(s)' = Status(s) /\ AskedFor(s)' = AskedFor(s),
           answer' = answer
    PROVE  UNCHANGED Service!svars
BY DEF Service!svars, Status, AskedFor

\* Every step of the server is a step or a stutter of the service.
LEMMA ServiceStep ==
    ServerInv /\ [ServerNext]_server_vars => [Service!Next]_Service!svars
<1> SUFFICES ASSUME ServerInv, [ServerNext]_server_vars
             PROVE  [Service!Next]_Service!svars
  OBVIOUS
<1> USE DEF ServerInv, ServerTypeOK
<1>1. ASSUME NEW s \in Thread, Connect(s)
      PROVE  Service!Connect(s)
  BY <1>1 DEF Connect, Service!Connect
<1>2. ASSUME NEW s \in Thread, NEW g \in Group, ReceiveIdMod(s, g)
      PROVE  UNCHANGED Service!svars
  BY <1>2, ServiceStutter DEF ReceiveIdMod, Status, AskedFor
<1>3. ASSUME NEW s \in Thread, ReceiveQuery(s)
      PROVE  \E g \in Group : Service!Ask(s, g)
  <2>1. PICK g \in Group : g = request[s]
    BY <1>3 DEF ReceiveQuery, SessionInv
  <2>2. Service!Ask(s, g)
    BY <1>3, <2>1 DEF ReceiveQuery, Service!Ask
  <2>3. QED
    BY <2>2
<1>4. ASSUME NEW s \in Thread, ConnectionLost(s)
      PROVE  Service!Disconnect(s)
  BY <1>4 DEF ConnectionLost, Service!Disconnect
<1>5. ASSUME NEW s \in Thread, SendReply(s)
      PROVE  Service!Answer(s)
  <2>1. read_from[s] = {request[s]}
    BY <1>5, SizeAssumption DEF SendReply, SessionInv, Loaded
  <2>2. QED
    BY <1>5, <2>1 DEF SendReply, Service!Answer
<1>6. ASSUME NEW s \in Thread,
             \/ CallGetDb(s) \/ RunGetDb(s) \/ AssignSplitDb(s)
             \/ ClearSplitDb(s) \/ ReadSplitDb(s) \/ ReadBlock(s)
      PROVE  UNCHANGED Service!svars
  <2>1. answer' = answer /\ request' = request
    BY <1>6 DEF CallGetDb, RunGetDb, AssignSplitDb, ClearSplitDb, ReadSplitDb,
                ReadBlock, session_vars
  <2>2. /\ spc[s] \notin {"off", "wait", "query"}
        /\ spc'[s] \notin {"off", "wait", "query"}
        /\ \A t \in Thread : t # s => spc'[t] = spc[t]
    BY <1>6 DEF CallGetDb, RunGetDb, AssignSplitDb, ClearSplitDb, ReadSplitDb,
                ReadBlock, session_vars
  <2>3. QED
    BY <2>1, <2>2, ServiceStutter DEF Status, AskedFor
<1>7. CASE UNCHANGED server_vars
  BY <1>7, ServiceStutter DEF server_vars, session_vars, Status, AskedFor
<1>8. CASE ServerNext
  <2>1. PICK s \in Thread :
            \/ Connect(s)
            \/ \E g \in Group : ReceiveIdMod(s, g)
            \/ ReceiveQuery(s)
            \/ ConnectionLost(s)
            \/ Work(s)
    BY <1>8 DEF ServerNext, Listen
  <2>2. CASE Connect(s) \/ ReceiveQuery(s) \/ ConnectionLost(s) \/ SendReply(s)
    <3>1. CASE Connect(s)
      BY <1>1, <3>1 DEF Service!Next
    <3>2. CASE ReceiveQuery(s)
      BY <1>3, <3>2 DEF Service!Next
    <3>3. CASE ConnectionLost(s)
      BY <1>4, <3>3 DEF Service!Next
    <3>4. CASE SendReply(s)
      BY <1>5, <3>4 DEF Service!Next
    <3>5. QED
      BY <2>2, <3>1, <3>2, <3>3, <3>4
  <2>3. CASE \/ \E g \in Group : ReceiveIdMod(s, g)
             \/ CallGetDb(s) \/ RunGetDb(s) \/ AssignSplitDb(s)
             \/ ClearSplitDb(s) \/ ReadSplitDb(s) \/ ReadBlock(s)
    BY <1>2, <1>6, <2>3
  <2>4. QED
    BY <2>1, <2>2, <2>3 DEF Work
<1>9. QED
  BY <1>7, <1>8

\* The safety part of QueryService: every answer is computed from the group
\* asked for, and only questions are answered.
THEOREM IsolatedServerServes == ASSUME Isolated PROVE ServerSpec => Service!Spec
<1>1. ServerInit => Service!Init
  BY DEF ServerInit, Service!Init
<1>2. QED
  BY <1>1, ServerInvariance, ServiceStep, PTL DEF ServerSpec, Service!Spec

=============================================================================
