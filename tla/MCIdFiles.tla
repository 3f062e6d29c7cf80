------------------------------ MODULE MCIdFiles ------------------------------
(* Two groups, ids of every kind, and data files that differ in which ids a   *)
(* group has, in their order and in number, and in which group is larger.     *)
(* One has an id twice, before and behind one with an X, and another behind.  *)
EXTENDS IdFiles

MCGroupOf == [i \in Id |-> IF i \in {"a", "z"} THEN 1 ELSE 0]
MCKind == [i \in Id |-> CASE i = "z" -> "zeros" [] i = "x" -> "letter"
                          [] OTHER -> "number"]

File(ids, value) == [i \in DOMAIN ids |-> [id |-> ids[i], value |-> value]]
MCDataFiles == {File(<<"z", "a">>, "old"),
                File(<<"b", "x", "b", "c", "a">>, "new")}

\* Two counts next to each other may have one layout.
MCLayout == [n \in 0 .. 5 |-> (n + 1) \div 2]

=============================================================================
