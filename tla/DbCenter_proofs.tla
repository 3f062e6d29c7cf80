--------------------------- MODULE DbCenter_proofs ---------------------------
(***************************************************************************)
(* The invariants of DbCenter for any number of threads, groups and          *)
(* handles, any sizes and any limit.  What makes them inductive is that the  *)
(* handles in play are all different: those in the slots of the cache,       *)
(* because heap says which group each belongs to, and those loaded and not   *)
(* yet stored, because nobody else knows them.  The last part is about       *)
(* hit_seq, against the order of use that DbCenterRecency records.           *)
(***************************************************************************)
EXTENDS DbCenterRecency, FiniteSetTheorems, TLAPS

\* A thread inside get_db was called for a group.
CallsAreForGroups == \A t \in Thread : pc[t] # "idle" => id_mod[t] \in Group

\* db_mutex is held exactly by the thread inside the second section.
MutexInv == \A t \in Thread : pc[t] = "evict" <=> db_mutex = t

\* What a thread has loaded is allocated and known to no one else.
InFlightInv ==
    \A t \in Thread : pc[t] = "store" =>
        /\ ret[t] # NoDb
        /\ heap[ret[t]] = id_mod[t]
        /\ \A g \in Group : db[g] # ret[t]
        /\ \A u \in Thread : u # t /\ pc[u] = "store" => ret[u] # ret[t]

\* The group just stored stays in the cache until the mutex is released.
EvictInv ==
    \A t \in Thread : pc[t] = "evict" =>
        ret[t] # NoDb /\ db[id_mod[t]] = ret[t]

IInv ==
    /\ TypeOK
    /\ CallsAreForGroups
    /\ MutexInv
    /\ CacheHandlesLive
    /\ InFlightInv
    /\ EvictInv

-----------------------------------------------------------------------------

\* Counting a hit keeps every number below the limit.
LEMMA TouchType ==
    ASSUME TypeOK, NEW g \in Group, Touch(g)
    PROVE  /\ group_hit_seq' \in [Group -> 0 .. MaxHitSeq - 1]
           /\ hit_seq' \in 0 .. MaxHitSeq - 1
BY HitSeqAssumption DEF Touch, TypeOK

\* Arguments of get_db, in range or not.
LEMMA RequestTypes == BadGroup \in 0 .. BadGroup /\ Group \subseteq 0 .. BadGroup
BY GroupAssumption DEF BadGroup, Group

\* The cache starts empty, with the mutex free.
LEMMA InitIInv == Init => IInv
<1> SUFFICES ASSUME Init
             PROVE  IInv
  OBVIOUS
<1>1. TypeOK
  BY GroupAssumption, HitSeqAssumption DEF Init, TypeOK, Group, BadGroup
<1>2. CacheHandlesLive
  BY DEF Init, CacheHandlesLive, Cached
<1>3. CallsAreForGroups /\ MutexInv /\ InFlightInv /\ EvictInv
  BY ThreadAssumption
     DEF Init, CallsAreForGroups, MutexInv, InFlightInv, EvictInv
<1>4. QED
  BY <1>1, <1>2, <1>3 DEF IInv

\* Every step of every get_db preserves the invariant.
LEMMA NextIInv == IInv /\ [Next]_vars => IInv'
<1> SUFFICES ASSUME IInv, [Next]_vars
             PROVE  IInv'
  OBVIOUS
<1> USE HandleAssumption, ThreadAssumption, SizeAssumption
    DEF IInv, TypeOK, CallsAreForGroups, MutexInv, CacheHandlesLive, Cached,
        InFlightInv, EvictInv
<1>1. ASSUME NEW t \in Thread, GetDbOutOfRange(t)
      PROVE  IInv'
  BY <1>1, RequestTypes DEF GetDbOutOfRange
<1>2. ASSUME NEW t \in Thread, NEW g \in Group, GetDb(t, g)
      PROVE  IInv'
  BY <1>2, RequestTypes DEF GetDb
<1>3. ASSUME NEW t \in Thread, Lookup(t)
      PROVE  IInv'
  <2>1. id_mod[t] \in Group
    BY <1>3 DEF Lookup
  <2>2. /\ group_hit_seq' \in [Group -> 0 .. MaxHitSeq - 1]
        /\ hit_seq' \in 0 .. MaxHitSeq - 1
    BY <1>3, <2>1, TouchType DEF Lookup
  <2>3. QED
    BY <1>3, <2>1, <2>2 DEF Lookup
<1>4. ASSUME NEW t \in Thread, LoadFromDisk(t)
      PROVE  IInv'
  <2>1. PICK h \in Handle : /\ ~Allocated(h)
                            /\ heap' = [heap EXCEPT ![h] = id_mod[t]]
                            /\ ret' = [ret EXCEPT ![t] = h]
    BY <1>4 DEF LoadFromDisk
  <2>2. id_mod[t] \in Group
    BY <1>4 DEF LoadFromDisk
  <2>3. \A g \in Group : db[g] # h
    BY <2>1 DEF Allocated
  <2>4. \A u \in Thread : pc[u] = "store" => ret[u] # h
    BY <2>1 DEF Allocated
  <2>5. TypeOK' /\ CallsAreForGroups' /\ MutexInv' /\ EvictInv'
    BY <1>4, <2>1, <2>2 DEF LoadFromDisk
  <2>6. CacheHandlesLive'
    BY <1>4, <2>1, <2>3 DEF LoadFromDisk
  <2>7. InFlightInv'
    BY <1>4, <2>1, <2>2, <2>3, <2>4 DEF LoadFromDisk
  <2>8. QED
    BY <2>5, <2>6, <2>7
<1>5. ASSUME NEW t \in Thread, Store(t)
      PROVE  IInv'
  <2>1. id_mod[t] \in Group
    BY <1>5 DEF Store
  <2>2. /\ group_hit_seq' \in [Group -> 0 .. MaxHitSeq - 1]
        /\ hit_seq' \in 0 .. MaxHitSeq - 1
    BY <1>5, <2>1, TouchType DEF Store
  <2>3. TypeOK'
    <3>1. db' \in [Group -> Handle \cup {NoDb}]
      BY <1>5, <2>1 DEF Store
    <3>2. size' \in [Group -> Nat] /\ total_size' \in Int
      BY <1>5, <2>1 DEF Store
    <3>3. QED
      BY <1>5, <2>2, <3>1, <3>2 DEF Store
  <2>7. CallsAreForGroups' /\ MutexInv'
    BY <1>5, <2>1 DEF Store
  <2>4. CacheHandlesLive'
    BY <1>5, <2>1 DEF Store
  <2>5. InFlightInv' /\ EvictInv'
    BY <1>5, <2>1 DEF Store
  <2>6. QED
    BY <2>3, <2>4, <2>5, <2>7
<1>6. ASSUME NEW t \in Thread, Evict(t)
      PROVE  IInv'
  <2>1. PICK v \in Group : IsVictim(v, id_mod[t]) /\ Release(v)
    BY <1>6 DEF Evict
  <2>2. db[v] # NoDb /\ v # id_mod[t] /\ heap[db[v]] = v
    BY <2>1 DEF IsVictim, Evictable
  <2>3. TypeOK' /\ CallsAreForGroups' /\ MutexInv'
    BY <1>6, <2>1, <2>2, HitSeqAssumption DEF Evict, Release
  <2>4. CacheHandlesLive'
    BY <1>6, <2>1, <2>2 DEF Evict, Release
  <2>5. InFlightInv'
    BY <1>6, <2>1, <2>2 DEF Evict, Release
  <2>6. EvictInv'
    BY <1>6, <2>1, <2>2 DEF Evict, Release
  <2>7. QED
    BY <2>3, <2>4, <2>5, <2>6
<1>7. ASSUME NEW t \in Thread, FinishStore(t)
      PROVE  IInv'
  BY <1>7 DEF FinishStore
<1>8. CASE UNCHANGED vars
  BY <1>8 DEF vars
<1>9. QED
  BY <1>1, <1>2, <1>3, <1>4, <1>5, <1>6, <1>7, <1>8 DEF Next, Step

\* The inductive invariant holds throughout.
LEMMA Invariance == Spec => []IInv
BY InitIInv, NextIInv, PTL DEF Spec

\* Types, and with them the ranges ensure_valid_hit_seq is there for.
THEOREM TypeCorrect == Spec => []TypeOK
<1>1. IInv => TypeOK
  BY DEF IInv
<1>2. QED
  BY <1>1, Invariance, PTL

\* No slot of the cache ever points at freed blocks or at another group's.
THEOREM CacheIsLive == Spec => []CacheHandlesLive
<1>1. IInv => CacheHandlesLive
  BY DEF IInv
<1>2. QED
  BY <1>1, Invariance, PTL

-----------------------------------------------------------------------------

\* The memory limit, with the cardinality spelled out.
AtMostOneOverLimit ==
    db_mutex = NoThread /\ OverLimit =>
        \A g, i \in Group : Cached(g) /\ Cached(i) => g = i

\* ensure_valid_memory_size leaves the cache over its limit only when one
\* group is left in it.
THEOREM OverLimitIsOneGroup == Spec => []OverLimitMeansOneGroup
<1>1. Init => AtMostOneOverLimit
  BY DEF Init, AtMostOneOverLimit, Cached
<1>2. IInv /\ AtMostOneOverLimit /\ [Next]_vars => AtMostOneOverLimit'
  <2> SUFFICES ASSUME IInv, AtMostOneOverLimit, [Next]_vars
               PROVE  AtMostOneOverLimit'
    OBVIOUS
  <2> USE DEF AtMostOneOverLimit, OverLimit, Cached
  \* The steps of a call that leave the total and the groups cached alone.
  <2> DEFINE BeforeStore(t) ==
                 \/ GetDbOutOfRange(t)
                 \/ \E g \in Group : GetDb(t, g)
                 \/ Lookup(t)
                 \/ LoadFromDisk(t)
  <2>1. CASE (\E t \in Thread : BeforeStore(t)) \/ UNCHANGED vars
    BY <2>1 DEF GetDbOutOfRange, GetDb, Lookup, LoadFromDisk, vars
  <2>2. CASE \E t \in Thread : FinishStore(t)
    <3>1. PICK t \in Thread : FinishStore(t)
      BY <2>2
    <3>2. \A i \in Group : Cached(i) /\ i # id_mod[t] =>
                             i \in Evictable(id_mod[t])
      BY SizeAssumption, HitSeqAssumption
         DEF Evictable, IInv, TypeOK, CacheHandlesLive
    <3>3. QED
      BY <3>1, <3>2 DEF FinishStore
  <2>3. CASE \E t \in Thread : Store(t) \/ Evict(t)
    BY <2>3, ThreadAssumption DEF Store, Evict, IInv, MutexInv
  <2>4. \/ \E t \in Thread :
               BeforeStore(t) \/ FinishStore(t) \/ Store(t) \/ Evict(t)
        \/ UNCHANGED vars
    BY DEF Next, Step
  <2>5. QED
    BY <2>4, <2>3, <2>2, <2>1
<1>3. AtMostOneOverLimit => OverLimitMeansOneGroup
  <2> SUFFICES ASSUME AtMostOneOverLimit, db_mutex = NoThread, OverLimit
               PROVE  Cardinality({g \in Group : Cached(g)}) <= 1
    BY DEF OverLimitMeansOneGroup
  <2>1. CASE {g \in Group : Cached(g)} = {}
    BY <2>1, FS_EmptySet
  <2>2. CASE {g \in Group : Cached(g)} # {}
    <3>1. PICK g \in Group : Cached(g)
      BY <2>2
    <3>2. {i \in Group : Cached(i)} = {g}
      BY <3>1 DEF AtMostOneOverLimit
    <3>3. QED
      BY <3>2, FS_Singleton
  <2>3. QED
    BY <2>1, <2>2
<1>4. QED
  BY <1>1, <1>2, <1>3, Invariance, PTL DEF Spec

\* Every call that returns by a step of its own hands out blocks that are
\* allocated and hold the requested group at that moment.
THEOREM GetDbIsRight == Spec => GetDbReturnsRequestedGroup
<1> DEFINE Right ==
      \A t \in Thread :
        pc[t] # "idle" /\ pc'[t] = "idle" =>
            ret'[t] # NoDb /\ heap'[ret'[t]] = id_mod[t]
<1>1. IInv /\ [Next]_vars => [Right]_vars
  <2> SUFFICES ASSUME IInv, Next, NEW t \in Thread,
                      pc[t] # "idle", pc'[t] = "idle"
               PROVE  ret'[t] # NoDb /\ heap'[ret'[t]] = id_mod[t]
    OBVIOUS
  <2> USE DEF IInv, TypeOK
  <2>1. (Lookup(t) /\ Cached(id_mod[t])) \/ FinishStore(t)
    BY DEF Next, Step, GetDbOutOfRange, GetDb, Lookup, LoadFromDisk, Store,
           Evict, FinishStore
  <2>2. CASE Lookup(t) /\ Cached(id_mod[t])
    BY <2>2 DEF Lookup, CacheHandlesLive, Cached, CallsAreForGroups
  <2>3. CASE FinishStore(t)
    BY <2>3 DEF FinishStore, CacheHandlesLive, Cached, CallsAreForGroups,
                EvictInv
  <2>4. QED
    BY <2>1, <2>2, <2>3
<1>2. QED
  BY <1>1, Invariance, PTL DEF Spec, GetDbReturnsRequestedGroup

-----------------------------------------------------------------------------
(***************************************************************************)
(* total_size and the heap.  A step changes the set of stored blocks by the  *)
(* blocks of one handle at most, and these are disjoint from the others'.    *)
(***************************************************************************)

HeapInv == IsFiniteSet(StoredBlocks) /\ total_size = Cardinality(StoredBlocks)

\* Adding the n blocks of a new handle adds n.
LEMMA AddBlocks ==
    ASSUME NEW B, IsFiniteSet(B), NEW h, NEW n \in Nat,
           B \cap ({h} \X (1 .. n)) = {}
    PROVE  LET C == B \cup ({h} \X (1 .. n))
           IN IsFiniteSet(C) /\ Cardinality(C) = Cardinality(B) + n
<1> DEFINE D == {h} \X (1 .. n)
<1>1. IsFiniteSet(1 .. n) /\ Cardinality(1 .. n) = n
  <2>1. /\ IsFiniteSet(1 .. n)
        /\ Cardinality(1 .. n) = IF 1 > n THEN 0 ELSE n - 1 + 1
    <3>1. 1 \in Int /\ n \in Int
      OBVIOUS
    <3>2. QED
      BY <3>1, FS_Interval, Zenon
  <2>2. n = IF 1 > n THEN 0 ELSE n - 1 + 1
    OBVIOUS
  <2>3. QED
    BY <2>1, <2>2
<1>2. IsFiniteSet({h}) /\ Cardinality({h}) = 1
  BY FS_Singleton
<1>3. /\ IsFiniteSet(D)
      /\ Cardinality(D) = Cardinality({h}) * Cardinality(1 .. n)
  BY <1>1, <1>2, FS_Product
<1>4. Cardinality(B) \in Nat
  BY FS_CardinalityType
<1>5. Cardinality({}) = 0
  BY FS_EmptySet
<1> HIDE DEF D
<1>6. /\ IsFiniteSet(B \cup D)
      /\ Cardinality(B \cup D) = Cardinality(B) + Cardinality(D)
                                 - Cardinality(B \cap D)
  BY <1>3, FS_Union
<1>7. Cardinality(B \cap D) = 0
  <2>1. B \cap D = {}
    BY DEF D
  <2>2. QED
    BY <1>5, <2>1
<1>8. Cardinality(D) = n
  BY <1>1, <1>2, <1>3
<1>9. IsFiniteSet(B \cup D) /\ Cardinality(B \cup D) = Cardinality(B) + n
  BY <1>4, <1>6, <1>7, <1>8
<1>10. QED
  BY <1>9 DEF D

\* Membership in the stored blocks, handle by handle.
LEMMA StoredBlocksMember ==
    \A b : b \in StoredBlocks <=>
            \E h \in StoredHandles : b \in {h} \X (1 .. SizeOf[heap[h]])
BY DEF StoredBlocks, BlocksOf

\* When neither the stored handles nor what they hold changes, nor do the
\* blocks.
LEMMA SameBlocks ==
    ASSUME StoredHandles' = StoredHandles,
           \A h \in StoredHandles : heap'[h] = heap[h]
    PROVE  StoredBlocks' = StoredBlocks
BY DEF StoredBlocks, BlocksOf

\* Every step changes total_size by the blocks it stores or frees.
LEMMA HeapInvStep == IInv /\ HeapInv /\ [Next]_vars => HeapInv'
<1> SUFFICES ASSUME IInv, HeapInv, [Next]_vars
             PROVE  HeapInv'
  OBVIOUS
<1> USE DEF IInv, TypeOK
<1>1. ASSUME NEW t \in Thread,
             \/ GetDbOutOfRange(t)
             \/ \E g \in Group : GetDb(t, g)
             \/ Lookup(t)
             \/ FinishStore(t)
      PROVE  HeapInv'
  <2>1. heap' = heap /\ total_size' = total_size
    BY <1>1 DEF GetDbOutOfRange, GetDb, Lookup, FinishStore
  <2>2. {u \in Thread : pc'[u] = "store"} = {u \in Thread : pc[u] = "store"}
    BY <1>1 DEF GetDbOutOfRange, GetDb, Lookup, FinishStore
  <2>3. InFlight' = InFlight
    <3>1. \A u \in Thread : pc[u] = "store" => ret'[u] = ret[u]
      BY <1>1 DEF GetDbOutOfRange, GetDb, Lookup, FinishStore
    <3>2. QED
      BY <2>2, <3>1 DEF InFlight
  <2>4. StoredHandles' = StoredHandles
    BY <2>1, <2>3 DEF StoredHandles, Allocated
  <2>5. QED
    BY <2>1, <2>4, SameBlocks DEF HeapInv
<1>2. ASSUME NEW t \in Thread, LoadFromDisk(t)
      PROVE  HeapInv'
  <2>1. PICK h \in Handle : /\ ~Allocated(h)
                            /\ heap' = [heap EXCEPT ![h] = id_mod[t]]
                            /\ ret' = [ret EXCEPT ![t] = h]
    BY <1>2 DEF LoadFromDisk
  <2>2. InFlight' = InFlight \cup {h}
    BY <1>2, <2>1 DEF LoadFromDisk, InFlight
  <2>3. StoredHandles' = StoredHandles
    BY <2>1, <2>2 DEF StoredHandles, Allocated
  <2>4. \A k \in StoredHandles : heap'[k] = heap[k]
    BY <2>1 DEF StoredHandles, Allocated
  <2>5. total_size' = total_size
    BY <1>2 DEF LoadFromDisk
  <2>6. QED
    BY <2>3, <2>4, <2>5, SameBlocks DEF HeapInv
<1>3. ASSUME NEW t \in Thread, Store(t)
      PROVE  HeapInv'
  <2> DEFINE r == ret[t]
             n == SizeOf[id_mod[t]]
  <2>1. /\ id_mod[t] \in Group /\ n \in Nat
        /\ r \in Handle /\ heap[r] = id_mod[t] /\ r \in InFlight
    BY <1>3, SizeAssumption
       DEF Store, CallsAreForGroups, InFlightInv, InFlight
  <2>2. heap' = heap /\ ret' = ret /\ total_size' = total_size + n
    BY <1>3 DEF Store
  <2>3. InFlight' = InFlight \ {r}
    BY <1>3, <2>2 DEF Store, InFlight, InFlightInv
  <2>4. Allocated(r)
    BY <2>1, HandleAssumption DEF Allocated
  <2>5. StoredHandles' = StoredHandles \cup {r}
    BY <2>1, <2>2, <2>3, <2>4 DEF StoredHandles, Allocated
  <2>6. StoredBlocks' = StoredBlocks \cup ({r} \X (1 .. n))
    BY <2>1, <2>2, <2>5 DEF StoredBlocks, BlocksOf
  <2>7. StoredBlocks \cap ({r} \X (1 .. n)) = {}
    <3>1. r \notin StoredHandles
      BY <2>1 DEF StoredHandles
    <3>2. QED
      BY <3>1, StoredBlocksMember
  <2> HIDE DEF r, n
  <2>8. QED
    BY <2>1, <2>2, <2>6, <2>7, AddBlocks DEF HeapInv
<1>4. ASSUME NEW t \in Thread, Evict(t)
      PROVE  HeapInv'
  <2>1. PICK v \in Group : IsVictim(v, id_mod[t]) /\ Release(v)
    BY <1>4 DEF Evict
  <2> DEFINE d == db[v]
             n == SizeOf[v]
  <2>2. /\ d \in Handle /\ heap[d] = v /\ size[v] = n
        /\ n \in Nat
    BY <2>1, SizeAssumption
       DEF IsVictim, Evictable, CacheHandlesLive, Cached
  <2>3. /\ heap' = [heap EXCEPT ![d] = Unused]
        /\ total_size' = total_size - n
        /\ pc' = pc /\ ret' = ret
    BY <1>4, <2>1, <2>2 DEF Release, Evict
  <2>4. InFlight' = InFlight
    BY <2>3 DEF InFlight
  <2>5. d \notin InFlight
    BY <2>1 DEF InFlight, InFlightInv
  <2>6. d \in StoredHandles
    BY <2>2, <2>5, HandleAssumption DEF StoredHandles, Allocated
  <2>7. /\ StoredHandles' = StoredHandles \ {d}
        /\ \A h \in StoredHandles' : heap'[h] = heap[h]
    BY <2>2, <2>3, <2>4 DEF StoredHandles, Allocated
  <2>8. StoredBlocks = StoredBlocks' \cup ({d} \X (1 .. n))
    BY <2>2, <2>6, <2>7 DEF StoredBlocks, BlocksOf
  <2>9. StoredBlocks' \cap ({d} \X (1 .. n)) = {}
    BY <2>7 DEF StoredBlocks, BlocksOf
  <2>10. IsFiniteSet(StoredBlocks')
    BY <2>8, FS_Subset DEF HeapInv
  <2> HIDE DEF d, n
  <2>11. Cardinality(StoredBlocks) = Cardinality(StoredBlocks') + n
    BY <2>2, <2>8, <2>9, <2>10, AddBlocks
  <2>12. Cardinality(StoredBlocks') \in Nat
    BY <2>10, FS_CardinalityType
  <2>13. QED
    BY <2>2, <2>3, <2>10, <2>11, <2>12 DEF HeapInv
<1>5. CASE UNCHANGED vars
  <2>1. heap' = heap /\ ret' = ret /\ pc' = pc /\ total_size' = total_size
    BY <1>5 DEF vars
  <2>2. StoredHandles' = StoredHandles
    BY <2>1 DEF StoredHandles, Allocated, InFlight
  <2>3. QED
    BY <2>1, <2>2, SameBlocks DEF HeapInv
<1>6. QED
  BY <1>1, <1>2, <1>3, <1>4, <1>5 DEF Next, Step

\* Total and stored blocks agree throughout.
LEMMA HeapInvariance == Spec => []HeapInv
<1>1. Init => HeapInv
  <2> SUFFICES ASSUME Init
               PROVE  HeapInv
    OBVIOUS
  <2>1. StoredBlocks = {}
    BY DEF Init, StoredBlocks, StoredHandles, Allocated
  <2>2. QED
    BY <2>1, FS_EmptySet DEF Init, HeapInv
<1>2. QED
  BY <1>1, HeapInvStep, Invariance, PTL DEF Spec

\* total_size is the memory of everything stored and not released, leaks
\* included.
THEOREM TotalIsExact == Spec => []AccountsForHeap
<1>1. HeapInv => AccountsForHeap
  BY DEF HeapInv, AccountsForHeap
<1>2. QED
  BY <1>1, HeapInvariance, PTL

\* The subtraction of release_db never goes below zero, so total_size, a
\* size_t in the code, never wraps to a huge value.
THEOREM TotalNeverWraps == Spec => [](total_size \in Nat)
<1>1. HeapInv => total_size \in Nat
  BY FS_CardinalityType DEF HeapInv
<1>2. QED
  BY <1>1, HeapInvariance, PTL

-----------------------------------------------------------------------------
(***************************************************************************)
(* hit_seq against the real order of use, for any number of threads and     *)
(* groups and any limit MaxHitSeq.  The invariant that carries both         *)
(* properties speaks of the groups without a number too: a cached group     *)
(* that a restart of hit_seq left at 0 was used before every group that     *)
(* has a number since.                                                      *)
(***************************************************************************)

\* The history is an order in time: no two groups are each after the other.
LaterInv ==
    /\ later \subseteq Group \X Group
    /\ \A g, i \in Group : MoreRecent(g, i) => ~MoreRecent(i, g)

\* Numbers are handed out once each: no group is ahead of the counter, and
\* two groups that still have a number have different ones.
NumbersInv ==
    /\ \A g \in Group : group_hit_seq[g] <= hit_seq
    /\ \A g, i \in Group :
        g # i /\ group_hit_seq[g] = group_hit_seq[i] => group_hit_seq[g] = 0

\* A group that has a number was used after every group with a smaller one,
\* and after the cached groups whose number was erased.
RankInv ==
    \A g, i \in Group :
        /\ group_hit_seq[i] < group_hit_seq[g]
        /\ group_hit_seq[i] > 0 \/ Cached(i)
        => MoreRecent(g, i)

RInv == LaterInv /\ NumbersInv /\ RankInv

-----------------------------------------------------------------------------

\* Without hits and releases the history and the ranking stay as they are.
LEMMA NoHit ==
    ASSUME RInv, Touched = {}, later' = (later \ (Group \X Touched))
                                        \cup (Touched \X (Group \ Touched)),
           UNCHANGED <<db, group_hit_seq, hit_seq>>
    PROVE  RInv'
<1>1. later' = later
  OBVIOUS
<1>2. QED
  BY <1>1 DEF RInv, LaterInv, NumbersInv, RankInv, MoreRecent, Cached

\* Counting a hit for g makes g the latest of all and gives it the highest
\* number, whether or not hit_seq restarts.
LEMMA Hit ==
    ASSUME TypeOK, RInv, NEW g \in Group, Touched = {g},
           later' = (later \ (Group \X Touched))
                    \cup (Touched \X (Group \ Touched)),
           Touch(g),
           \A i \in Group : i # g => db'[i] = db[i]
    PROVE  RInv'
<1>1. \A i, j \in Group :
        MoreRecent(i, j)' <=> \/ MoreRecent(i, j) /\ j # g
                              \/ i = g /\ j # g
  BY DEF MoreRecent
<1>2. later' \subseteq Group \X Group
  BY DEF RInv, LaterInv
<1>3. LaterInv'
  BY <1>1, <1>2 DEF RInv, LaterInv
<1>4. \/ /\ hit_seq' = hit_seq + 1
         /\ \A i \in Group : group_hit_seq'[i] =
                IF i = g THEN hit_seq + 1 ELSE group_hit_seq[i]
      \/ /\ hit_seq' = 1
         /\ \A i \in Group : group_hit_seq'[i] = IF i = g THEN 1 ELSE 0
  BY DEF Touch, TypeOK
<1>5. /\ hit_seq \in Nat
      /\ \A i \in Group : group_hit_seq[i] \in Nat /\ group_hit_seq[i] <= hit_seq
  BY HitSeqAssumption DEF TypeOK, RInv, NumbersInv
<1>6. NumbersInv'
  BY <1>4, <1>5 DEF RInv, NumbersInv
<1>7. RankInv'
  <2> SUFFICES ASSUME NEW i \in Group, NEW j \in Group,
                      group_hit_seq'[j] < group_hit_seq'[i],
                      group_hit_seq'[j] > 0 \/ Cached(j)'
               PROVE  MoreRecent(i, j)'
    BY DEF RankInv
  <2>1. CASE i = g
    BY <1>1, <2>1, <1>4, <1>5
  <2>2. CASE i # g
    <3>1. j # g
      BY <1>4, <1>5, <2>2
    <3>2. /\ group_hit_seq[j] < group_hit_seq[i]
          /\ group_hit_seq[j] > 0 \/ Cached(j)
      BY <1>4, <1>5, <2>2, <3>1 DEF Cached
    <3>3. QED
      BY <1>1, <3>1, <3>2 DEF RInv, RankInv
  <2>3. QED
    BY <2>1, <2>2
<1>8. QED
  BY <1>3, <1>6, <1>7 DEF RInv

\* Releasing a group takes its number and its slot: it has nothing left to
\* be ranked by.
LEMMA NoHitRelease ==
    ASSUME TypeOK, RInv, NEW v \in Group, Release(v), Touched = {},
           later' = (later \ (Group \X Touched))
                    \cup (Touched \X (Group \ Touched)),
           hit_seq' = hit_seq
    PROVE  RInv'
<1>1. later' = later
  OBVIOUS
<1>2. \A i \in Group :
        /\ group_hit_seq'[i] = IF i = v THEN 0 ELSE group_hit_seq[i]
        /\ Cached(i)' <=> Cached(i) /\ i # v
  BY DEF Release, TypeOK, Cached
<1>3. hit_seq \in Nat /\ \A i \in Group : group_hit_seq[i] \in Nat
  BY HitSeqAssumption DEF TypeOK
<1>4. NumbersInv'
  BY <1>2, <1>3 DEF Release, RInv, NumbersInv
<1>5. LaterInv'
  BY <1>1 DEF RInv, LaterInv, MoreRecent
<1>6. RankInv'
  BY <1>1, <1>2, <1>3 DEF RInv, RankInv, MoreRecent
<1>7. QED
  BY <1>4, <1>5, <1>6 DEF RInv

\* Every step of every get_db, with the history it leaves, preserves the
\* ranking.
LEMMA RInvStep == IInv /\ RInv /\ [RNext]_rvars => RInv'
<1> SUFFICES ASSUME IInv, RInv, [RNext]_rvars
             PROVE  RInv'
  OBVIOUS
<1>1. TypeOK
  BY DEF IInv
<1>2. CASE RNext
  <2>1. later' = (later \ (Group \X Touched))
                 \cup (Touched \X (Group \ Touched))
    BY <1>2 DEF RNext
  <2>2. ASSUME NEW t \in Thread,
               \/ GetDbOutOfRange(t)
               \/ \E g \in Group : GetDb(t, g)
               \/ LoadFromDisk(t)
               \/ FinishStore(t)
        PROVE  RInv'
    <3>1. UNCHANGED <<db, group_hit_seq, hit_seq>>
      BY <2>2 DEF GetDbOutOfRange, GetDb, LoadFromDisk, FinishStore
    <3>2. Touched = {}
      BY <1>1, <2>2
         DEF GetDbOutOfRange, GetDb, LoadFromDisk, FinishStore, Touched, TypeOK
    <3>3. QED
      BY <2>1, <3>1, <3>2, NoHit
  <2>3. ASSUME NEW t \in Thread, Lookup(t)
        PROVE  RInv'
    <3>1. id_mod[t] \in Group
      BY <2>3 DEF Lookup, IInv, CallsAreForGroups
    <3>2. Touched = {id_mod[t]}
      BY <1>1, <2>3 DEF Lookup, Touched, TypeOK
    <3>3. Touch(id_mod[t]) /\ db' = db
      BY <2>3 DEF Lookup
    <3>4. QED
      BY <1>1, <2>1, <3>1, <3>2, <3>3, Hit
  <2>4. ASSUME NEW t \in Thread, Store(t)
        PROVE  RInv'
    <3>1. id_mod[t] \in Group
      BY <2>4 DEF Store, IInv, CallsAreForGroups
    <3>2. Touched = {id_mod[t]}
      BY <1>1, <2>4 DEF Store, Touched, TypeOK
    <3>3. /\ Touch(id_mod[t])
          /\ \A i \in Group : i # id_mod[t] => db'[i] = db[i]
      BY <1>1, <2>4 DEF Store, TypeOK
    <3>4. QED
      BY <1>1, <2>1, <3>1, <3>2, <3>3, Hit
  <2>5. ASSUME NEW t \in Thread, Evict(t)
        PROVE  RInv'
    <3>1. PICK v \in Group : Release(v)
      BY <2>5 DEF Evict
    <3>2. hit_seq' = hit_seq /\ Touched = {}
      BY <2>5 DEF Evict, Touched
    <3>3. QED
      BY <1>1, <2>1, <3>1, <3>2, NoHitRelease
  <2>6. QED
    BY <1>2, <2>2, <2>3, <2>4, <2>5 DEF RNext, Next, Step
<1>3. CASE UNCHANGED rvars
  BY <1>3 DEF rvars, vars, RInv, LaterInv, NumbersInv, RankInv, MoreRecent,
              Cached
<1>4. QED
  BY <1>2, <1>3

\* The history only watches: what holds of DbCenter holds here.
LEMMA RInvariance == RSpec => [](IInv /\ RInv)
<1>1. RInit => IInv /\ RInv
  <2> SUFFICES ASSUME RInit
               PROVE  IInv /\ RInv
    OBVIOUS
  <2>1. IInv
    BY InitIInv DEF RInit
  <2>2. RInv
    BY DEF RInit, Init, RInv, LaterInv, NumbersInv, RankInv, MoreRecent, Cached
  <2>3. QED
    BY <2>1, <2>2
<1>2. [RNext]_rvars => [Next]_vars
  BY DEF RNext, rvars
<1>3. IInv /\ RInv /\ [RNext]_rvars => (IInv /\ RInv)'
  BY <1>2, NextIInv, RInvStep
<1>4. QED
  BY <1>1, <1>3, PTL DEF RSpec

-----------------------------------------------------------------------------

\* ++hit_seq and ensure_valid_hit_seq order the groups that still have a
\* number exactly as they were used.
THEOREM NumbersOrderUse == RSpec => []HitSeqOrdersUse
<1>1. IInv /\ RInv => HitSeqOrdersUse
  BY HitSeqAssumption
     DEF IInv, TypeOK, RInv, LaterInv, RankInv, HitSeqOrdersUse
<1>2. QED
  BY <1>1, RInvariance, PTL

\* ensure_valid_memory_size never releases a group that was used after one
\* it could have released, unless a restart erased the numbers of both.
THEOREM EvictionIsLeastRecentlyUsed == RSpec => EvictsLeastRecentlyUsed
<1> DEFINE Least ==
      \A t \in Thread, v, i \in Group :
        /\ db_mutex = t /\ i # id_mod[t]
        /\ Cached(v) /\ db'[v] = NoDb
        /\ Cached(i) /\ MoreRecent(v, i)
        => group_hit_seq[v] = 0 /\ group_hit_seq[i] = 0
<1>1. IInv /\ RInv /\ [RNext]_rvars => [Least]_rvars
  <2> SUFFICES ASSUME IInv, RInv, RNext,
                      NEW t \in Thread, NEW v \in Group, NEW i \in Group,
                      db_mutex = t, i # id_mod[t],
                      Cached(v), db'[v] = NoDb,
                      Cached(i), MoreRecent(v, i)
               PROVE  group_hit_seq[v] = 0 /\ group_hit_seq[i] = 0
    OBVIOUS
  <2>1. TypeOK /\ MutexInv /\ InFlightInv /\ CacheHandlesLive
    BY DEF IInv
  <2>2. PICK u \in Thread : \/ GetDbOutOfRange(u)
                            \/ \E g \in Group : GetDb(u, g)
                            \/ Step(u)
    BY DEF RNext, Next
  <2>3. Evict(u)
    <3>1. ~Store(u)
      BY <2>1 DEF Store, InFlightInv, TypeOK, Cached
    <3>2. QED
      BY <2>2, <3>1 DEF Step, GetDbOutOfRange, GetDb, Lookup, LoadFromDisk,
                        FinishStore, Cached
  <2>4. u = t
    BY <2>1, <2>3 DEF Evict, MutexInv
  <2>5. PICK w \in Group : IsVictim(w, id_mod[t]) /\ Release(w)
    BY <2>3, <2>4 DEF Evict
  <2>6. w = v
    BY <2>1, <2>5 DEF Release, TypeOK, Cached
  <2>7. i \in Evictable(id_mod[t])
    BY <2>1, SizeAssumption, HitSeqAssumption
       DEF Evictable, CacheHandlesLive, TypeOK
  <2>8. group_hit_seq[v] <= group_hit_seq[i]
    BY <2>1, <2>5, <2>6, <2>7 DEF IsVictim, TypeOK
  <2>9. ~MoreRecent(i, v) /\ v # i
    BY DEF RInv, LaterInv
  <2>10. ~(group_hit_seq[v] < group_hit_seq[i])
    BY <2>9 DEF RInv, RankInv
  <2>11. group_hit_seq[v] = group_hit_seq[i]
    BY <2>1, <2>8, <2>10 DEF TypeOK
  <2>12. QED
    BY <2>9, <2>11 DEF RInv, NumbersInv
<1>2. QED
  BY <1>1, RInvariance, PTL DEF RSpec, EvictsLeastRecentlyUsed

=============================================================================
