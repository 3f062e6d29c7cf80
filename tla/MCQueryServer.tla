--------------------------- MODULE MCQueryServer ---------------------------
(* Sessions over two groups of 1 and 2 blocks.  Handles and threads are      *)
(* interchangeable; the run without liveness uses that.                      *)
EXTENDS QueryServer, TLC

MCSizeOf == [g \in Group |-> g + 1]

\* Sessions that cannot disturb each other: any number without the cache, or
\* a single one with it.
Isolation ==
    {[use_memory_db |-> FALSE, connections |-> Thread]} \cup
    {[use_memory_db |-> TRUE, connections |-> {s}] : s \in Thread}

SharedCache == {[use_memory_db |-> TRUE, connections |-> Thread]}

Symmetry == Permutations(Handle) \cup Permutations(Thread)

=============================================================================
