----------------------------- MODULE MCDbCenter -----------------------------
(* Two threads over three groups of 1, 1 and 2 blocks, a limit of 2 blocks,  *)
(* and hit numbers that restart at 4.                                        *)
EXTENDS DbCenterRecency

MCSizeOf == [g \in Group |-> IF g = NumGroups - 1 THEN 2 ELSE 1]

=============================================================================
