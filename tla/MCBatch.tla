------------------------------ MODULE MCBatch ------------------------------
(* Three ids among five.  Plaintexts of two records (the batch fills one and a *)
(* half), three (it fills one) and four (the last plaintext cannot hold it).   *)
(* Id 6 has an X at its end.  Data files, batches and id files with ids in all *)
(* orders, twice, behind an X, or missing.                                   *)
EXTENDS Batch

MCUnterminated == {<<2, 4, 3, 5, 1>>, <<4, 2, 6>>}
MCDataFiles ==
    {<<5, 4, 3, 1, 2, 6>>, <<5, 4, 3, 2, 1>>, <<1, 2, 2, 3, 6, 5>>}
        \cup MCUnterminated
MCBatchFiles == {<<1, 2, 3>>, <<6, 5>>, <<2, 2, 4>>}
Group(s, n) == [ids |-> s, count |-> n]
MCIdMaps == {<<Group(<<1, 2, 3>>, 3), Group(<<4, 5, 6>>, 3)>>,
             <<Group(<<4, 3>>, 3), Group(<<>>, 0)>>}

\* A second run, after another or after one that was stopped, takes its file.
MCRuns == <<BOOLEAN, {FALSE}>>

=============================================================================
