------------------------------ MODULE DbCenter ------------------------------
(***************************************************************************)
(* The split_db cache (src/db_center.cpp): one process-wide singleton that  *)
(* every connection thread calls through get_db when server.conf sets       *)
(* use_memory_db.                                                           *)
(*                                                                         *)
(* A split_db is a vector of vectors of pointers to callocated blocks, all  *)
(* of one size.  It is modelled by a handle, the identity of the whole     *)
(* allocation: copying a Db_t copies pointers, so it copies the handle, and *)
(* freeing the blocks through one copy frees them under all the others.     *)
(* heap[h] says which group's data the blocks of h hold, or that they are   *)
(* not allocated; an allocation may reuse a handle that was freed.  Memory  *)
(* is counted in blocks.                                                    *)
(***************************************************************************)
EXTENDS Integers, FiniteSets

CONSTANTS
    Thread,     \* the connection threads of the server
    NumGroups,  \* number_of_groups of server.conf
    Handle,     \* identities of allocations; bounds the live ones
    NoDb,       \* the empty Db_t
    Unused,     \* heap mark of a handle that is not allocated
    NoThread,   \* holder of db_mutex when it is free
    SizeOf,     \* SizeOf[g]: blocks in split_db/split_db_g.bin
    MaxBlocks,  \* max_memory_db_size, in blocks
    MaxHitSeq   \* MAX_HIT_SEQ

\* The ids a caller may pass that get_db accepts, and the others (any value
\* from number_of_groups on is treated alike).
Group == 0 .. NumGroups - 1
BadGroup == NumGroups

ASSUME GroupAssumption == NumGroups \in Nat \ {0}
ASSUME HandleAssumption ==
    IsFiniteSet(Handle) /\ NoDb \notin Handle /\ Unused \notin Group
ASSUME ThreadAssumption == NoThread \notin Thread
ASSUME SizeAssumption == SizeOf \in [Group -> Nat \ {0}] /\ MaxBlocks \in Nat
\* A freshly touched group must stay below the limit after a restart at 1.
ASSUME HitSeqAssumption == MaxHitSeq \in Nat /\ MaxHitSeq > 1

VARIABLES
    db,             \* db_groups[g].db
    size,           \* db_groups[g].size
    group_hit_seq,  \* db_groups[g].hit_seq
    hit_seq,        \* the singleton's hit_seq
    total_size,     \* the singleton's total_size
    db_mutex,       \* the thread inside the second critical section
    heap,           \* what the blocks of each handle hold
    pc,             \* where a thread is in get_db
    id_mod,         \* the argument of a thread's get_db
    ret             \* the Db_t its get_db returns (or returned last)

vars == <<db, size, group_hit_seq, hit_seq, total_size, db_mutex, heap,
          pc, id_mod, ret>>

-----------------------------------------------------------------------------

\* The cache holds a db for group g.
Cached(g) == db[g] # NoDb
Allocated(h) == heap[h] # Unused

\* Threads that may still allocate in their current call.
Loading == {t \in Thread : pc[t] \in {"lookup", "load"}}

\* Bound of the model: a call starts only while a handle is left for it.
HeapRoom ==
    Cardinality({h \in Handle : ~Allocated(h)}) > Cardinality(Loading)

Init ==
    /\ db = [g \in Group |-> NoDb]
    /\ size = [g \in Group |-> 0]
    /\ group_hit_seq = [g \in Group |-> 0]
    /\ hit_seq = 0
    /\ total_size = 0
    /\ db_mutex = NoThread
    /\ heap = [h \in Handle |-> Unused]
    /\ pc = [t \in Thread |-> "idle"]
    /\ id_mod = [t \in Thread |-> 0]
    /\ ret = [t \in Thread |-> NoDb]

\* Mutant of Touch: the limit is never looked at.
TouchWithoutLimit(g) ==
    /\ hit_seq' = hit_seq + 1
    /\ group_hit_seq' = [group_hit_seq EXCEPT ![g] = hit_seq + 1]

\* Mutant of Touch: hit_seq restarts and the other groups keep their numbers.
TouchKeepsOthers(g) ==
    LET n == IF hit_seq + 1 < MaxHitSeq THEN hit_seq + 1 ELSE 1 IN
    /\ hit_seq' = n
    /\ group_hit_seq' = [group_hit_seq EXCEPT ![g] = n]

\* db_groups[g].hit_seq = ++hit_seq followed by ensure_valid_hit_seq(g): at
\* the limit every other group forgets its number and g restarts at 1.
Touch(g) ==
    \/ /\ hit_seq + 1 < MaxHitSeq
       /\ hit_seq' = hit_seq + 1
       /\ group_hit_seq' = [group_hit_seq EXCEPT ![g] = hit_seq + 1]
    \/ /\ hit_seq + 1 >= MaxHitSeq
       /\ hit_seq' = 1
       /\ group_hit_seq' = [i \in Group |-> IF i = g THEN 1 ELSE 0]

-----------------------------------------------------------------------------
(***************************************************************************)
(* get_db                                                                   *)
(***************************************************************************)

\* A call for an id outside the groups returns an empty Db_t at once.
GetDbOutOfRange(t) ==
    /\ pc[t] = "idle"
    /\ id_mod' = [id_mod EXCEPT ![t] = BadGroup]
    /\ ret' = [ret EXCEPT ![t] = NoDb]
    /\ UNCHANGED <<db, size, group_hit_seq, hit_seq, total_size, db_mutex,
                   heap, pc>>

GetDb(t, g) ==
    /\ pc[t] = "idle"
    /\ HeapRoom
    /\ pc' = [pc EXCEPT ![t] = "lookup"]
    /\ id_mod' = [id_mod EXCEPT ![t] = g]
    /\ ret' = [ret EXCEPT ![t] = NoDb]
    /\ UNCHANGED <<db, size, group_hit_seq, hit_seq, total_size, db_mutex,
                   heap>>

\* The first critical section: copy the cached pointers, count the hit.  An
\* empty result sends the thread to the disk with the mutex released.
Lookup(t) ==
    LET g == id_mod[t] IN
    /\ pc[t] = "lookup"
    /\ db_mutex = NoThread
    /\ ret' = [ret EXCEPT ![t] = db[g]]
    /\ Touch(g)
    /\ pc' = [pc EXCEPT ![t] = IF Cached(g) THEN "idle" ELSE "load"]
    /\ UNCHANGED <<db, size, total_size, db_mutex, heap, id_mod>>

\* read_split_db_from_disk, called without the mutex: blocks that nobody
\* uses are allocated and filled with the group's file.
LoadFromDisk(t) ==
    /\ pc[t] = "load"
    /\ \E h \in Handle :
        /\ ~Allocated(h)
        /\ heap' = [heap EXCEPT ![h] = id_mod[t]]
        /\ ret' = [ret EXCEPT ![t] = h]
    /\ pc' = [pc EXCEPT ![t] = "store"]
    /\ UNCHANGED <<db, size, group_hit_seq, hit_seq, total_size, db_mutex,
                   id_mod>>

\* Mutant of Store: the new size replaces the old one in the total, as if
\* the overwritten blocks had been freed.
StoreReplacesSize(t) ==
    LET g == id_mod[t] IN
    /\ pc[t] = "store"
    /\ db_mutex = NoThread
    /\ db_mutex' = t
    /\ db' = [db EXCEPT ![g] = ret[t]]
    /\ size' = [size EXCEPT ![g] = SizeOf[g]]
    /\ total_size' = total_size - size[g] + SizeOf[g]
    /\ Touch(g)
    /\ pc' = [pc EXCEPT ![t] = "evict"]
    /\ UNCHANGED <<heap, id_mod, ret>>

\* The second critical section up to ensure_valid_memory_size.  The slot is
\* overwritten whatever it holds by now.
Store(t) ==
    LET g == id_mod[t] IN
    /\ pc[t] = "store"
    /\ db_mutex = NoThread
    /\ db_mutex' = t
    /\ db' = [db EXCEPT ![g] = ret[t]]
    /\ size' = [size EXCEPT ![g] = SizeOf[g]]
    /\ total_size' = total_size + SizeOf[g]
    /\ Touch(g)
    /\ pc' = [pc EXCEPT ![t] = "evict"]
    /\ UNCHANGED <<heap, id_mod, ret>>

\* Mutant of Evictable: the group just loaded may go as well.
EvictableWithOwn(g) ==
    {i \in Group : Cached(i) /\ size[i] # 0 /\ group_hit_seq[i] < MaxHitSeq}

\* Mutant of Evictable: empty groups are not skipped.
EvictableWithEmpty(g) == {i \in Group : i # g /\ group_hit_seq[i] < MaxHitSeq}

\* The groups ensure_valid_memory_size(g) may release.
Evictable(g) ==
    {i \in Group : /\ i # g
                   /\ Cached(i)
                   /\ size[i] # 0
                   /\ group_hit_seq[i] < MaxHitSeq}

\* Mutant of IsVictim: the comparison is the wrong way round.
IsMostRecent(v, g) ==
    /\ v \in Evictable(g)
    /\ \A i \in Evictable(g) : group_hit_seq[v] >= group_hit_seq[i]

\* The one it picks: the first index with the smallest hit_seq.
IsVictim(v, g) ==
    /\ v \in Evictable(g)
    /\ \A i \in Evictable(g) :
        \/ group_hit_seq[v] < group_hit_seq[i]
        \/ group_hit_seq[v] = group_hit_seq[i] /\ v <= i

OverLimit == total_size > MaxBlocks

\* Mutant of Release: the slot is not emptied.
ReleaseKeepsSlot(v) ==
    /\ heap' = [heap EXCEPT ![db[v]] = Unused]
    /\ total_size' = total_size - size[v]
    /\ size' = [size EXCEPT ![v] = 0]
    /\ group_hit_seq' = [group_hit_seq EXCEPT ![v] = 0]
    /\ UNCHANGED db

\* release_db: free the blocks, empty the slot, give the bytes back.
Release(v) ==
    /\ heap' = [heap EXCEPT ![db[v]] = Unused]
    /\ db' = [db EXCEPT ![v] = NoDb]
    /\ total_size' = total_size - size[v]
    /\ size' = [size EXCEPT ![v] = 0]
    /\ group_hit_seq' = [group_hit_seq EXCEPT ![v] = 0]

\* Mutant of Evict: an if in place of the while, one release and no more.
EvictOnce(t) ==
    /\ pc[t] = "evict"
    /\ OverLimit
    /\ \E v \in Group : IsVictim(v, id_mod[t]) /\ Release(v)
    /\ db_mutex' = NoThread
    /\ pc' = [pc EXCEPT ![t] = "idle"]
    /\ UNCHANGED <<hit_seq, id_mod, ret>>

\* One iteration of the while loop of ensure_valid_memory_size.
Evict(t) ==
    /\ pc[t] = "evict"
    /\ OverLimit
    /\ \E v \in Group : IsVictim(v, id_mod[t]) /\ Release(v)
    /\ UNCHANGED <<hit_seq, db_mutex, pc, id_mod, ret>>

\* Mutant of FinishStore: no break when nothing is left to release.
FinishBelowLimit(t) ==
    /\ pc[t] = "evict"
    /\ ~OverLimit
    /\ db_mutex' = NoThread
    /\ pc' = [pc EXCEPT ![t] = "idle"]
    /\ UNCHANGED <<db, size, group_hit_seq, hit_seq, total_size, heap,
                   id_mod, ret>>

\* The loop ends, below the limit or with nothing left to release; the
\* mutex is unlocked and get_db returns what this thread has loaded.
FinishStore(t) ==
    /\ pc[t] = "evict"
    /\ ~OverLimit \/ Evictable(id_mod[t]) = {}
    /\ db_mutex' = NoThread
    /\ pc' = [pc EXCEPT ![t] = "idle"]
    /\ UNCHANGED <<db, size, group_hit_seq, hit_seq, total_size, heap,
                   id_mod, ret>>

-----------------------------------------------------------------------------

\* The rest of a call, once it has started.
Step(t) ==
    \/ Lookup(t)
    \/ LoadFromDisk(t)
    \/ Store(t)
    \/ Evict(t)
    \/ FinishStore(t)

Next ==
    \E t \in Thread :
        \/ GetDbOutOfRange(t)
        \/ \E g \in Group : GetDb(t, g)
        \/ Step(t)

Spec == Init /\ [][Next]_vars

\* Once called, get_db runs on: the operating system schedules every thread.
\* Nothing obliges a client to ask.
FairSpec == Spec /\ \A t \in Thread : WF_vars(Step(t))

-----------------------------------------------------------------------------
(***************************************************************************)
(* Properties                                                               *)
(***************************************************************************)

\* Types; the ranges of hit_seq are what "保证hit_seq不溢出" (db_center.cpp:20)
\* asks of ensure_valid_hit_seq.
TypeOK ==
    /\ db \in [Group -> Handle \cup {NoDb}]
    /\ size \in [Group -> Nat]
    /\ group_hit_seq \in [Group -> 0 .. MaxHitSeq - 1]
    /\ hit_seq \in 0 .. MaxHitSeq - 1
    /\ total_size \in Int
    /\ db_mutex \in Thread \cup {NoThread}
    /\ heap \in [Handle -> Group \cup {Unused}]
    /\ pc \in [Thread -> {"idle", "lookup", "load", "store", "evict"}]
    /\ id_mod \in [Thread -> 0 .. BadGroup]
    /\ ret \in [Thread -> Handle \cup {NoDb}]

\* Whatever the interleaving of lookups, loads, stores and releases, a slot
\* of the cache points at allocated blocks filled with that group's data, and
\* its size is that of those blocks: no reader of the cache can be handed
\* freed memory or another group's.
CacheHandlesLive ==
    \A g \in Group :
        IF Cached(g) THEN heap[db[g]] = g /\ size[g] = SizeOf[g]
                     ELSE size[g] = 0

\* Handles a thread has loaded and not stored yet.
InFlight == {ret[t] : t \in {u \in Thread : pc[u] = "store"}}

\* The blocks of all handles that went through Store and are still allocated,
\* each block as a pair.
BlocksOf(h) == {h} \X (1 .. SizeOf[heap[h]])
StoredHandles == {h \in Handle : Allocated(h) /\ h \notin InFlight}
StoredBlocks == UNION {BlocksOf(h) : h \in StoredHandles}

\* total_size is exactly the memory behind everything ever stored and not
\* released, including the blocks a second load of the same group has
\* overwritten in the cache and nobody can release any more.  So the
\* unsigned total_size -= size of release_db never wraps, and a leak is paid
\* for by evictions ever after.
AccountsForHeap == total_size = Cardinality(StoredBlocks)

\* Outside the critical section the limit is exceeded only when the cache is
\* down to one group: ensure_valid_memory_size releases until it may stop.
OverLimitMeansOneGroup ==
    db_mutex = NoThread /\ OverLimit =>
        Cardinality({g \in Group : Cached(g)}) <= 1

\* get_db returns blocks that are allocated and hold the requested group at
\* that moment, hit or miss, whatever the other threads evicted meanwhile.
GetDbReturnsRequestedGroup ==
    [][\A t \in Thread :
        pc[t] # "idle" /\ pc'[t] = "idle" =>
            ret'[t] # NoDb /\ heap'[ret'[t]] = id_mod[t]]_vars

Calling(t) == pc[t] # "idle"

\* A call of get_db comes back, whatever the other threads load and evict
\* meanwhile: the eviction loop ends and the mutex is released -- or another
\* thread overtakes it for ever, with call after call, since a std::mutex
\* promises no turn.
GetDbReturns ==
    \A t \in Thread :
        \/ Calling(t) ~> ~Calling(t)
        \/ \E u \in Thread \ {t} : []<>Calling(u) /\ []<>~Calling(u)

=============================================================================
