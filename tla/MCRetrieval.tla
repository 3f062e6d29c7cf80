---------------------------- MODULE MCRetrieval ----------------------------
(* Groups around the sizes at which the number of dimensions changes or the  *)
(* last dimension grows, and clients whose count is the server's or another. *)
EXTENDS Retrieval

MCSizes == {5, 15, 16, 17, 23, 24, 25, 31, 32, 33, 34, 40}
MCCounts ==
    {<<s, c>> \in MCSizes \X MCSizes : s = c \/ s = 24 \/ c = 24}
        \cup {<<s, s - 1>> : s \in MCSizes} \cup {<<s, s + 1>> : s \in MCSizes}

=============================================================================
