-------------------------- MODULE DbCenterRecency --------------------------
(***************************************************************************)
(* DbCenter with a history variable: which group was last used after which  *)
(* other one, get_db counting a hit for it.  hit_seq is the code's stand-in *)
(* for that order, with restarts; this module compares the two.             *)
(***************************************************************************)
EXTENDS DbCenter

\* Pairs <<g, i>>: g has been used, and i not since then, if ever.
VARIABLE later

rvars == <<vars, later>>

\* The groups whose hit the step counts: the one a thread asked for, when
\* its lookup or its store is done.
Touched ==
    {id_mod[t] : t \in {u \in Thread : /\ pc[u] \in {"lookup", "store"}
                                       /\ pc'[u] # pc[u]}}

RInit == Init /\ later = {}

RNext ==
    /\ Next
    /\ later' = (later \ (Group \X Touched)) \cup (Touched \X (Group \ Touched))

\* g was used after i.
MoreRecent(g, i) == <<g, i>> \in later

RSpec == RInit /\ [][RNext]_rvars /\ \A t \in Thread : WF_vars(Step(t))

\* Numbers handed out by ++hit_seq order the groups as their real use does,
\* through wraps and releases: two groups that still have a number compare
\* as they were used.
HitSeqOrdersUse ==
    \A g, i \in Group :
        0 < group_hit_seq[i] /\ group_hit_seq[i] < group_hit_seq[g] =>
            MoreRecent(g, i) /\ ~MoreRecent(i, g)

\* The group that is released is the least recently used one of those the
\* loop may release.  The exception is what a restart of hit_seq costs: two
\* groups whose numbers it erased cannot be told apart any more.
EvictsLeastRecentlyUsed ==
    [][\A t \in Thread, v, i \in Group :
        /\ db_mutex = t /\ i # id_mod[t]
        /\ Cached(v) /\ db'[v] = NoDb
        /\ Cached(i) /\ MoreRecent(v, i)
        => group_hit_seq[v] = 0 /\ group_hit_seq[i] = 0]_rvars

=============================================================================
