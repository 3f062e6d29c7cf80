--------------------------- MODULE IdFiles_proofs ---------------------------
(***************************************************************************)
(* The invariants of IdFiles for any groups, ids and data files, for any     *)
(* settings the two programs are started with and wherever they are stopped. *)
(*                                                                         *)
(* The inductive invariant says of each loop how far its files are by the    *)
(* group or line it is at, and of files written in full which data file they *)
(* are those of.  None of the properties is inductive without it: a          *)
(* preparation is whole because every iteration added what its line asks     *)
(* for, and an index is the server's because the lines of an id_map file are *)
(* at each moment the first ones of the server's.                            *)
(*                                                                         *)
(* GroupRecords is a recursive function, and its facts need induction.  The   *)
(* library's induction theorems take an operator; here the property is a set *)
(* of numbers instead, and Induction follows from the least element of its   *)
(* complement.                                                               *)
(***************************************************************************)
EXTENDS IdFiles, FiniteSetTheorems, SequenceTheorems, WellFoundedInduction,
        TLAPS

\* The files process_datas leaves for data file d.
PreparedFrom(d) ==
    /\ Len(count_data) = NumGroups
    /\ \A g \in Group : /\ data_map[g] = GroupRecords(d, g)
                        /\ count_data[g + 1] = Len(data_map[g])

\* process_datas under way: what is there up to the group or line it is at.
ProcessInv ==
    /\ spc = "truncate" =>
        /\ processed = Nothing
        /\ \A g \in 0 .. next - 1 : data_map[g] = <<>>
    /\ spc = "lines" =>
        /\ processed = Nothing
        /\ next \in 0 .. Len(data)
        /\ \A g \in Group : data_map[g] = RecordsUpTo(data, g)[next]
    /\ spc = "counts" =>
        /\ processed = Nothing
        /\ Len(count_data) = next
        /\ \A g \in Group : data_map[g] = GroupRecords(data, g)
        /\ \A g \in 0 .. next - 1 : count_data[g + 1] = Len(data_map[g])
    /\ processed # Nothing => PreparedFrom(processed)

\* process_split_dbs under way.
SplitInv ==
    /\ spc = "write_split" \/ (spc = "split" /\ next # 0) =>
        split_from = Nothing
    /\ spc \in {"split", "write_split"} /\ processed # Nothing =>
        \A g \in 0 .. next - 1 : split_db[g] = GroupRecords(processed, g)
    /\ split_from # Nothing =>
        \A g \in Group : split_db[g] = GroupRecords(split_from, g)

\* Clients and the buffer of ids exist while the server serves.
ServeInv ==
    /\ cpc # "off" => spc = "serve"
    /\ overrun => spc = "serve" /\ processed = Nothing
    /\ cpc \in {"off", "sync", "ready"} => cnext = 0

\* The lines of id_map[g] are the first ones of what the server sends.
FollowsSent(g) ==
    /\ Len(id_map[g]) <= Len(SentIds(g))
    /\ \A i \in 1 .. Len(id_map[g]) : id_map[g][i] = Printed(SentIds(g)[i])

\* sync_id_from_server under way.
SyncInv ==
    /\ cpc = "counts" =>
        /\ Len(count_id) = cnext
        /\ \A g \in 0 .. cnext - 1 : count_id[g + 1] = ItemNumber(g)
        /\ \A g \in Group : synced_from[g] = Nothing
    /\ cpc \in {"open", "ids", "lines"} =>
        /\ Len(count_id) = NumGroups
        /\ \A g \in Group : count_id[g + 1] = ItemNumber(g)
    /\ cpc = "open" =>
        \A g \in Group : IF g < cnext
                         THEN synced_from[g] = processed /\ id_map[g] = <<>>
                         ELSE synced_from[g] = Nothing
    /\ cpc \in {"ids", "lines"} =>
        /\ \A g \in Group : synced_from[g] = processed /\ FollowsSent(g)
        /\ \A g \in 0 .. cnext - 1 : Len(id_map[g]) = Len(SentIds(g))

\* The id_map file of a group opened for data file d.
SyncedFrom(g, d) ==
    /\ Len(count_id) = NumGroups
    /\ count_id[g + 1] = Len(GroupRecords(d, g))
    /\ Len(id_map[g]) <= Len(GroupRecords(d, g))
    /\ \A i \in 1 .. Len(id_map[g]) :
        id_map[g][i] = Printed(GroupRecords(d, g)[i].id)

\* What is known of a group whose file was opened, until it is opened again.
SyncedInv ==
    \A g \in Group : synced_from[g] # Nothing => SyncedFrom(g, synced_from[g])

\* The inductive invariant.
IInv ==
    /\ IdFilesTypeOK
    /\ ServeInv
    /\ ProcessInv
    /\ SplitInv
    /\ SyncInv
    /\ SyncedInv

-----------------------------------------------------------------------------
(***************************************************************************)
(* Natural numbers: a least element, and with it induction over a set.      *)
(***************************************************************************)

\* A set of naturals has a least element: among the intervals that end in an
\* element of the set one is contained in all others.
LEMMA Least ==
    ASSUME NEW S \in SUBSET Nat, S # {}
    PROVE  \E m \in S : \A n \in S : m <= n
<1> DEFINE F == {0 .. n : n \in S}
           R == StrictSubsetOrdering(Nat)
           U == FiniteSubsetsOf(Nat)
<1>1. IsWellFoundedOn(R, U)
  BY FS_StrictSubsetOrderingWellFounded
<1>2. F \subseteq U /\ F # {}
  <2>1. ASSUME NEW n \in S
        PROVE  0 .. n \in U
    <3>1. 0 .. n \subseteq Nat
      OBVIOUS
    <3>2. IsFiniteSet(0 .. n)
      BY FS_Interval
    <3>3. QED
      BY <3>1, <3>2 DEF FiniteSubsetsOf
  <2>2. QED
    BY <2>1
<1>3. PICK X \in F : \A Y \in F : ~(<<Y, X>> \in R)
  <2> HIDE DEF F, R, U
  <2>1. QED
    BY <1>1, <1>2, WFMin
<1>4. PICK m \in S : X = 0 .. m
  OBVIOUS
<1>5. ASSUME NEW n \in S, n < m
      PROVE  FALSE
  <2>1. 0 .. n \in SUBSET Nat /\ X \in SUBSET Nat
    BY <1>4
  <2>2. 0 .. n \subseteq X /\ 0 .. n # X
    BY <1>4, <1>5
  <2>3. <<0 .. n, X>> \in R
    BY <2>1, <2>2 DEF StrictSubsetOrdering
  <2>4. QED
    BY <2>3, <1>3
<1>6. QED
  BY <1>5

\* Induction, for a property given as the set of numbers that have it.
LEMMA Induction ==
    ASSUME NEW S, 0 \in S, \A n \in Nat : n \in S => n + 1 \in S
    PROVE  \A n \in Nat : n \in S
<1> DEFINE T == {n \in Nat : n \notin S}
<1> SUFFICES ASSUME T # {}
             PROVE  FALSE
  OBVIOUS
<1>1. PICK m \in T : \A n \in T : m <= n
  BY Least
<1>2. m - 1 \in Nat /\ m - 1 \in S
  BY <1>1
<1>3. QED
  BY <1>1, <1>2

\* What Min and Max of the community modules choose.
LEMMA MinIs ==
    ASSUME NEW S \in SUBSET Nat, S # {}
    PROVE  Min(S) \in S /\ \A n \in S : Min(S) <= n
BY Least DEF Min

\* The same of Max.
LEMMA MaxIs ==
    ASSUME NEW S \in SUBSET Nat, S # {}, NEW b \in Nat, \A n \in S : n <= b
    PROVE  Max(S) \in S /\ \A n \in S : n <= Max(S)
<1> DEFINE B == {k \in Nat : \A n \in S : n <= k}
<1>1. PICK m \in B : \A k \in B : m <= k
  <2>1. b \in B
    OBVIOUS
  <2>2. QED
    BY <2>1, Least
<1>2. m \in S
  <2>1. SUFFICES ASSUME m \notin S
                 PROVE  FALSE
    OBVIOUS
  <2>2. PICK n \in S : TRUE
    OBVIOUS
  <2>3. m > 0
    BY <2>1, <2>2
  <2>4. m - 1 \in B
    BY <2>1, <2>3
  <2>5. QED
    BY <1>1, <2>3, <2>4
<1>3. \A n \in S : n <= m
  OBVIOUS
<1>4. QED
  BY <1>2, <1>3 DEF Max

\* The numbers in a sequence are bounded.
LEMMA SeqIsBounded ==
    ASSUME NEW s \in Seq(Nat)
    PROVE  \E b \in Nat : \A i \in 1 .. Len(s) : s[i] <= b
<1> DEFINE Bounds(n) == {b \in Nat : \A i \in 1 .. n : s[i] <= b}
           S == {n \in Nat : n <= Len(s) => Bounds(n) # {}}
<1>1. 0 \in S
  OBVIOUS
<1>2. ASSUME NEW n \in Nat, n \in S
      PROVE  n + 1 \in S
  <2> SUFFICES ASSUME n + 1 <= Len(s)
               PROVE  Bounds(n + 1) # {}
    OBVIOUS
  <2>1. Len(s) \in Nat /\ n <= Len(s)
    BY LenProperties
  <2>2. PICK b \in Nat : \A i \in 1 .. n : s[i] <= b
    BY <1>2, <2>1
  <2>3. n + 1 \in 1 .. Len(s) /\ s[n + 1] \in Nat
    BY <2>1, ElementOfSeq
  <2>4. \A i \in 1 .. n : s[i] \in Nat
    BY <2>1, ElementOfSeq
  <2>5. b + s[n + 1] \in Bounds(n + 1)
    BY <2>2, <2>3, <2>4
  <2>6. QED
    BY <2>5
<1>3. \A n \in Nat : n \in S
  <2> HIDE DEF S
  <2>1. QED
    BY <1>1, <1>2, Induction
<1>4. Len(s) \in Nat /\ Len(s) \in S
  BY <1>3, LenProperties
<1>5. Bounds(Len(s)) # {}
  <2>1. ASSUME NEW n \in Nat, n \in S, n <= Len(s)
        PROVE  Bounds(n) # {}
    BY <2>1
  <2>2. QED
    BY <1>4, <2>1
<1>6. QED
  BY <1>5

-----------------------------------------------------------------------------
(***************************************************************************)
(* The records of a group.                                                  *)
(***************************************************************************)

\* h follows the definition of RecordsUpTo for the first n records.
Follows(h, d, g, n) ==
    h = [m \in 0 .. n |->
            IF m = 0 THEN <<>>
            ELSE IF GroupOf[d[m].id] = g THEN Append(h[m - 1], d[m])
            ELSE h[m - 1]]

\* The recursion defines a function.
LEMMA RecordsUpToFollows ==
    ASSUME NEW d, Len(d) \in Nat, NEW g
    PROVE  Follows(RecordsUpTo(d, g), d, g, Len(d))
<1> DEFINE S == {n \in Nat : \E h : Follows(h, d, g, n)}
<1>1. 0 \in S
  <2>1. Follows([m \in 0 .. 0 |-> <<>>], d, g, 0)
    BY DEF Follows
  <2>2. QED
    BY <2>1
<1>2. ASSUME NEW n \in Nat, n \in S
      PROVE  n + 1 \in S
  <2>1. PICK h : Follows(h, d, g, n)
    BY <1>2
  <2> DEFINE last == IF GroupOf[d[n + 1].id] = g THEN Append(h[n], d[n + 1])
                     ELSE h[n]
             k == [m \in 0 .. n + 1 |-> IF m = n + 1 THEN last ELSE h[m]]
  <2>2. \A m \in 0 .. n : k[m] = h[m]
    OBVIOUS
  <2>3. \A m \in 1 .. n :
          h[m] = IF GroupOf[d[m].id] = g THEN Append(h[m - 1], d[m])
                 ELSE h[m - 1]
    <3> SUFFICES ASSUME NEW m \in 1 .. n
                 PROVE  h[m] = IF GroupOf[d[m].id] = g
                               THEN Append(h[m - 1], d[m]) ELSE h[m - 1]
      OBVIOUS
    <3>1. m \in 0 .. n /\ m # 0
      OBVIOUS
    <3> HIDE DEF k, last
    <3>2. QED
      BY <2>1, <3>1 DEF Follows
  <2>4. h[0] = <<>>
    BY <2>1 DEF Follows
  <2>5. k[n + 1] = IF GroupOf[d[n + 1].id] = g THEN Append(k[n], d[n + 1])
                   ELSE k[n]
    BY <2>2
  <2>6. \A m \in 0 .. n + 1 :
          k[m] = IF m = 0 THEN <<>>
                 ELSE IF GroupOf[d[m].id] = g THEN Append(k[m - 1], d[m])
                 ELSE k[m - 1]
    <3> SUFFICES ASSUME NEW m \in 0 .. n + 1
                 PROVE  k[m] = IF m = 0 THEN <<>>
                               ELSE IF GroupOf[d[m].id] = g
                               THEN Append(k[m - 1], d[m])
                               ELSE k[m - 1]
      OBVIOUS
    <3> HIDE DEF k, last
    <3>1. CASE m = 0
      BY <2>2, <2>4, <3>1
    <3>2. CASE m = n + 1
      BY <2>5, <3>2
    <3>3. CASE m \in 1 .. n
      <4>1. m - 1 \in 0 .. n /\ m \in 0 .. n
        BY <3>3
      <4>2. QED
        BY <2>2, <2>3, <3>3, <4>1
    <3>4. QED
      BY <3>1, <3>2, <3>3
  <2>7. Follows(k, d, g, n + 1)
    <3>1. k = [m \in 0 .. n + 1 |-> k[m]]
      OBVIOUS
    <3> HIDE DEF k
    <3>2. QED
      BY <2>6, <3>1 DEF Follows
  <2>8. QED
    BY <2>7
<1>3. \E h : Follows(h, d, g, Len(d))
  <2> HIDE DEF S
  <2>1. Len(d) \in S
    BY <1>1, <1>2, Induction
  <2>2. QED
    BY <2>1 DEF S
<1>4. QED
  BY <1>3 DEF Follows, RecordsUpTo

\* What WriteLine does to the files of the groups.
LEMMA RecordsUpToStep ==
    ASSUME NEW d, Len(d) \in Nat, NEW g
    PROVE  /\ RecordsUpTo(d, g)[0] = <<>>
           /\ \A n \in 0 .. Len(d) - 1 :
                RecordsUpTo(d, g)[n + 1] =
                    IF GroupOf[d[n + 1].id] = g
                    THEN Append(RecordsUpTo(d, g)[n], d[n + 1])
                    ELSE RecordsUpTo(d, g)[n]
<1> DEFINE f == RecordsUpTo(d, g)
<1>1. Follows(f, d, g, Len(d))
  BY RecordsUpToFollows
<1> HIDE DEF f
<1>2. f[0] = <<>>
  BY <1>1 DEF Follows
<1>3. ASSUME NEW n \in 0 .. Len(d) - 1
      PROVE  f[n + 1] = IF GroupOf[d[n + 1].id] = g
                        THEN Append(f[n], d[n + 1]) ELSE f[n]
  <2>1. n + 1 \in 0 .. Len(d) /\ n + 1 # 0 /\ (n + 1) - 1 = n
    OBVIOUS
  <2>2. f[n + 1] = IF GroupOf[d[n + 1].id] = g
                   THEN Append(f[(n + 1) - 1], d[n + 1]) ELSE f[(n + 1) - 1]
    BY <1>1, <2>1 DEF Follows
  <2>3. QED
    BY <2>1, <2>2
<1>4. QED
  BY <1>2, <1>3 DEF f

\* Records and data files.
LEMMA DataFileTypes ==
    ASSUME NEW d \in DataFiles
    PROVE  /\ Len(d) \in Nat
           /\ \A k \in 1 .. Len(d) :
                d[k] \in Record /\ d[k].id \in Id /\ GroupOf[d[k].id] \in Group
<1>1. d \in Seq([id : Id, value : STRING])
  BY DataAssumption
<1>2. Len(d) \in Nat /\ DOMAIN d = 1 .. Len(d)
  BY <1>1, LenProperties
<1>3. ASSUME NEW k \in 1 .. Len(d)
      PROVE  d[k] \in Record /\ d[k].id \in Id /\ GroupOf[d[k].id] \in Group
  <2>1. d[k] \in [id : Id, value : STRING]
    BY <1>1, <1>3, ElementOfSeq
  <2>2. d[k] \in Record
    BY <1>2, <1>3 DEF Record, Range
  <2>3. QED
    BY <2>1, <2>2, IdAssumption
<1>4. QED
  BY <1>2, <1>3

\* A record has an id, and with it a group.
LEMMA RecordTypes == \A r \in Record : r.id \in Id /\ GroupOf[r.id] \in Group
<1> SUFFICES ASSUME NEW r \in Record
             PROVE  r.id \in Id /\ GroupOf[r.id] \in Group
  OBVIOUS
<1>1. PICK d \in DataFiles : r \in Range(d)
  BY DEF Record
<1>2. DOMAIN d = 1 .. Len(d)
  BY DataAssumption, LenProperties
<1>3. PICK k \in 1 .. Len(d) : r = d[k]
  BY <1>1, <1>2 DEF Range
<1>4. QED
  BY <1>3, DataFileTypes

\* s lists the records of g among the first n of d in their order: pos says
\* where in d the i-th one is.
Lists(s, d, g, n, pos) ==
    /\ pos \in [1 .. Len(s) -> 1 .. n]
    /\ \A i, j \in 1 .. Len(s) : i < j => pos[i] < pos[j]
    /\ \A i \in 1 .. Len(s) : s[i] = d[pos[i]] /\ GroupOf[d[pos[i]].id] = g
    /\ \A k \in 1 .. n : GroupOf[d[k].id] = g =>
        \E i \in 1 .. Len(s) : pos[i] = k

\* One record more.
LEMMA ListsStep ==
    ASSUME NEW d \in DataFiles, NEW g, NEW n \in 0 .. Len(d) - 1,
           NEW s \in Seq(Record), NEW pos, Lists(s, d, g, n, pos)
    PROVE  \E q : Lists(IF GroupOf[d[n + 1].id] = g THEN Append(s, d[n + 1])
                        ELSE s, d, g, n + 1, q)
<1> DEFINE r == d[n + 1]
<1>1. Len(d) \in Nat /\ n \in Nat /\ n + 1 \in 1 .. Len(d)
  BY DataFileTypes
<1>2. Len(s) \in Nat /\ r \in Record
  BY <1>1, DataFileTypes, LenProperties
<1>3. CASE GroupOf[r.id] = g
  <2> DEFINE t == Append(s, r)
             l == Len(s) + 1
             q == [i \in 1 .. l |-> IF i = l THEN n + 1 ELSE pos[i]]
  <2>1. Len(t) = l /\ t[l] = r /\ \A i \in 1 .. Len(s) : t[i] = s[i]
    BY <1>2, AppendProperties
  <2>2. /\ \A i \in 1 .. Len(s) : /\ pos[i] \in 1 .. n
                                  /\ s[i] = d[pos[i]]
                                  /\ GroupOf[d[pos[i]].id] = g
        /\ \A i, j \in 1 .. Len(s) : i < j => pos[i] < pos[j]
        /\ \A k \in 1 .. n : GroupOf[d[k].id] = g =>
                               \E i \in 1 .. Len(s) : pos[i] = k
    BY DEF Lists
  <2>3. q[l] = n + 1 /\ \A i \in 1 .. Len(s) : q[i] = pos[i]
    BY <1>2
  <2>4. \A i \in 1 .. l : i = l \/ i \in 1 .. Len(s)
    BY <1>2
  <2>5. q \in [1 .. l -> 1 .. n + 1]
    BY <1>1, <2>2, <2>4
  <2> HIDE DEF q, t, r
  <2>6. \A i, j \in 1 .. l : i < j => q[i] < q[j]
    BY <1>1, <1>2, <2>2, <2>3, <2>4
  <2>7. \A i \in 1 .. l : t[i] = d[q[i]] /\ GroupOf[d[q[i]].id] = g
    BY <1>3, <2>1, <2>2, <2>3, <2>4 DEF r
  <2>8. ASSUME NEW k \in 1 .. n + 1, GroupOf[d[k].id] = g
        PROVE  \E i \in 1 .. l : q[i] = k
    <3>1. CASE k = n + 1
      BY <1>2, <2>3, <3>1
    <3>2. CASE k \in 1 .. n
      <4>1. PICK i \in 1 .. Len(s) : pos[i] = k
        BY <2>2, <2>8, <3>2
      <4>2. i \in 1 .. l
        BY <1>2
      <4>3. QED
        BY <2>3, <4>1, <4>2
    <3>3. QED
      BY <1>1, <3>1, <3>2
  <2>9. Lists(t, d, g, n + 1, q)
    BY <2>1, <2>5, <2>6, <2>7, <2>8 DEF Lists
  <2>10. QED
    BY <1>3, <2>9 DEF t, r
<1>4. CASE GroupOf[r.id] # g
  <2>1. Lists(s, d, g, n + 1, pos)
    <3>1. pos \in [1 .. Len(s) -> 1 .. n + 1]
      BY <1>1 DEF Lists
    <3>2. \A k \in 1 .. n + 1 : k = n + 1 \/ k \in 1 .. n
      BY <1>1
    <3>3. QED
      BY <1>4, <3>1, <3>2 DEF Lists
  <2>2. QED
    BY <1>4, <2>1
<1>5. QED
  BY <1>3, <1>4

\* The recursion lists the records of the group, in their order.
LEMMA RecordsInOrder ==
    ASSUME NEW d \in DataFiles, NEW g
    PROVE  \A n \in 0 .. Len(d) :
            /\ RecordsUpTo(d, g)[n] \in Seq(Record)
            /\ \E pos : Lists(RecordsUpTo(d, g)[n], d, g, n, pos)
<1> DEFINE f == RecordsUpTo(d, g)
           Good(n) == f[n] \in Seq(Record) /\ \E pos : Lists(f[n], d, g, n, pos)
           S == {n \in Nat : n <= Len(d) => Good(n)}
<1>1. /\ f[0] = <<>>
      /\ \A n \in 0 .. Len(d) - 1 :
            f[n + 1] = IF GroupOf[d[n + 1].id] = g THEN Append(f[n], d[n + 1])
                       ELSE f[n]
  BY DataFileTypes, RecordsUpToStep
<1>2. Len(d) \in Nat
  BY DataFileTypes
<1> HIDE DEF f
<1>3. 0 \in S
  <2>1. f[0] \in Seq(Record) /\ Len(f[0]) = 0
    BY <1>1
  <2>2. Lists(f[0], d, g, 0, <<>>)
    BY <2>1 DEF Lists
  <2>3. QED
    BY <2>1, <2>2
<1>4. ASSUME NEW n \in Nat, n \in S
      PROVE  n + 1 \in S
  <2> SUFFICES ASSUME n + 1 <= Len(d)
               PROVE  Good(n + 1)
    OBVIOUS
  <2>1. n <= Len(d) /\ n \in 0 .. Len(d) - 1 /\ n + 1 \in 1 .. Len(d)
    BY <1>2
  <2>2. f[n] \in Seq(Record)
    BY <1>4, <2>1
  <2>3. PICK pos : Lists(f[n], d, g, n, pos)
    BY <1>4, <2>1
  <2>4. f[n + 1] = IF GroupOf[d[n + 1].id] = g THEN Append(f[n], d[n + 1])
                   ELSE f[n]
    BY <1>1, <2>1
  <2>5. \E q : Lists(f[n + 1], d, g, n + 1, q)
    BY <2>1, <2>2, <2>3, <2>4, ListsStep
  <2>6. d[n + 1] \in Record
    BY <2>1, DataFileTypes
  <2>7. f[n + 1] \in Seq(Record)
    BY <2>2, <2>4, <2>6, AppendProperties
  <2>8. QED
    BY <2>5, <2>7
<1>5. \A n \in Nat : n \in S
  <2> HIDE DEF S
  <2>1. QED
    BY <1>3, <1>4, Induction
<1>6. ASSUME NEW n \in 0 .. Len(d)
      PROVE  Good(n)
  BY <1>2, <1>5
<1>7. QED
  BY <1>6 DEF f

\* All records of a group: what the files of a whole preparation hold.
LEMMA GroupRecordsList ==
    ASSUME NEW d \in DataFiles, NEW g
    PROVE  /\ GroupRecords(d, g) \in Seq(Record)
           /\ \E pos : Lists(GroupRecords(d, g), d, g, Len(d), pos)
<1>1. Len(d) \in 0 .. Len(d)
  BY DataFileTypes
<1>2. QED
  BY <1>1, RecordsInOrder DEF GroupRecords

-----------------------------------------------------------------------------
(***************************************************************************)
(* What one step reads or writes.                                           *)
(***************************************************************************)

\* Counting through the groups ends at the first one.
LEMMA NextGroup ==
    \A n \in Group : /\ (n + 1) % NumGroups \in Group
                     /\ n + 1 # NumGroups => (n + 1) % NumGroups = n + 1
                     /\ n + 1 = NumGroups => (n + 1) % NumGroups = 0
BY IdAssumption DEF Group

\* The groups are numbers, 0 among them.
LEMMA GroupIs == Group \subseteq Nat /\ 0 \in Group /\ NumGroups \in Nat
                 /\ \A g \in Group : g + 1 \in 1 .. NumGroups
BY IdAssumption DEF Group

\* The ids sent are those of the lines before the first one with an X.
LEMMA SentIdsAre ==
    ASSUME NEW g \in Group, data_map[g] \in Seq(Record)
    PROVE  /\ SentIds(g) \in Seq(Id)
           /\ Len(SentIds(g)) <= Len(data_map[g])
           /\ \A i \in 1 .. Len(SentIds(g)) :
                /\ SentIds(g)[i] = data_map[g][i].id
                /\ Kind[data_map[g][i].id] # "letter"
           /\ Len(SentIds(g)) < Len(data_map[g]) =>
                Kind[data_map[g][Len(SentIds(g)) + 1].id] = "letter"
<1> DEFINE lines == data_map[g]
           letters == {i \in DOMAIN lines : Kind[lines[i].id] = "letter"}
           ends == letters \cup {Len(lines) + 1}
           m == Min(ends) - 1
<1>1. Len(lines) \in Nat /\ DOMAIN lines = 1 .. Len(lines)
  BY LenProperties
<1>2. ends \in SUBSET (Nat \ {0}) /\ Len(lines) + 1 \in ends
  BY <1>1
<1>3. Min(ends) \in ends /\ \A n \in ends : Min(ends) <= n
  <2>1. ends \in SUBSET Nat /\ ends # {}
    BY <1>2
  <2> HIDE DEF ends
  <2>2. QED
    BY <2>1, MinIs
<1> HIDE DEF m
<1>4. /\ m \in Nat /\ m <= Len(lines)
      /\ \A i \in 1 .. m : i \notin letters
      /\ m < Len(lines) => m + 1 \in letters
  <2>0. Min(ends) \in Nat \ {0}
    <3> HIDE DEF ends
    <3>1. QED
      BY <1>2, <1>3
  <2>1. m + 1 = Min(ends) /\ m \in Nat
    <3> HIDE DEF ends
    <3>1. QED
      BY <2>0 DEF m
  <2>2. m + 1 \in ends /\ \A n \in ends : m + 1 <= n
    <3> HIDE DEF ends
    <3>1. QED
      BY <1>3, <2>1
  <2>3. m <= Len(lines)
    BY <1>1, <1>2, <2>1, <2>2
  <2>4. ASSUME NEW i \in 1 .. m
        PROVE  i \notin letters
    <3>1. i \notin ends
      BY <1>2, <2>1, <2>2
    <3>2. QED
      BY <3>1
  <2>5. m < Len(lines) => m + 1 \in letters
    BY <1>1, <2>1, <2>2
  <2>6. QED
    BY <2>1, <2>3, <2>4, <2>5
<1>5. SentIds(g) = [i \in 1 .. m |-> lines[i].id]
  BY DEF SentIds, m
<1>6. \A i \in 1 .. Len(lines) : lines[i] \in Record /\ lines[i].id \in Id
  BY <1>1, ElementOfSeq, RecordTypes
<1>7. SentIds(g) \in Seq(Id) /\ Len(SentIds(g)) = m
  <2>1. \A i \in 1 .. m : lines[i].id \in Id
    BY <1>1, <1>4, <1>6
  <2>2. QED
    BY <1>4, <1>5, <2>1, IsASeq, LenProperties
<1>8. \A i \in 1 .. m : i \in 1 .. Len(lines)
  BY <1>1, <1>4
<1>9. QED
  BY <1>1, <1>4, <1>5, <1>7, <1>8

\* The buffer has room for every count in count_data.
LEMMA BufferHasRoom ==
    ASSUME count_data \in Seq(Nat)
    PROVE  /\ BufferRoom \in Nat
           /\ \A i \in 1 .. Len(count_data) : count_data[i] <= BufferRoom
<1> DEFINE S == Range(count_data) \cup {0}
<1>1. DOMAIN count_data = 1 .. Len(count_data)
  BY LenProperties
<1>2. PICK b \in Nat : \A i \in 1 .. Len(count_data) : count_data[i] <= b
  BY SeqIsBounded
<1>3. S \in SUBSET Nat /\ S # {} /\ \A n \in S : n <= b
  BY <1>1, <1>2, ElementOfSeq DEF Range
<1>4. \A i \in 1 .. Len(count_data) : count_data[i] \in S
  BY <1>1 DEF Range
<1>5. BufferRoom = Max(S)
  BY DEF BufferRoom
<1> HIDE DEF S
<1>6. Max(S) \in S /\ \A n \in S : n <= Max(S)
  BY <1>3, MaxIs
<1>7. QED
  BY <1>3, <1>4, <1>5, <1>6

\* The counts load_data goes by.
LEMMA ItemNumberType ==
    ASSUME count_data \in Seq(Nat), NEW g \in Group
    PROVE  ItemNumber(g) \in Nat \cup {Garbage}
BY LenProperties, ElementOfSeq DEF ItemNumber

\* What load_data reads by any counts is records and garbage.
LEMMA LoadDataType ==
    ASSUME count_data \in Seq(Nat), NEW g \in Group, data_map[g] \in Seq(Record)
    PROVE  LoadData(g) \in Seq(Record \cup {Garbage}) \cup {Garbage}
<1>1. CASE ItemNumber(g) = Garbage
  BY <1>1 DEF LoadData
<1>2. CASE ItemNumber(g) # Garbage
  <2> DEFINE lines == data_map[g]
             Line(i) == IF lines = <<>> THEN Garbage
                        ELSE IF i <= Len(lines) THEN lines[i] ELSE Last(lines)
  <2>1. ItemNumber(g) \in Nat
    BY <1>2, ItemNumberType
  <2>2. LoadData(g) = [i \in 1 .. ItemNumber(g) |-> Line(i)]
    BY <1>2 DEF LoadData
  <2>3. ASSUME NEW i \in 1 .. ItemNumber(g)
        PROVE  Line(i) \in Record \cup {Garbage}
    <3>1. CASE lines = <<>>
      BY <3>1
    <3>2. CASE lines # <<>>
      <4>1. Len(lines) \in Nat /\ Len(lines) # 0
        BY <3>2, LenProperties, EmptySeq
      <4>2. lines[Len(lines)] \in Record
        BY <4>1, ElementOfSeq
      <4>3. i <= Len(lines) => lines[i] \in Record
        BY <2>1, <4>1, ElementOfSeq
      <4>4. QED
        BY <3>2, <4>2, <4>3 DEF Last
    <3>3. QED
      BY <3>1, <3>2
  <2> HIDE DEF Line
  <2>4. QED
    BY <2>1, <2>2, <2>3, IsASeq
<1>3. QED
  BY <1>1, <1>2

\* By the count of the file itself it reads the file.
LEMMA LoadDataIsWhole ==
    ASSUME NEW g \in Group, data_map[g] \in Seq(Record),
           g + 1 \in DOMAIN count_data,
           count_data[g + 1] = Len(data_map[g])
    PROVE  LoadData(g) = data_map[g]
<1> DEFINE lines == data_map[g]
           Line(i) == IF lines = <<>> THEN Garbage
                      ELSE IF i <= Len(lines) THEN lines[i] ELSE Last(lines)
<1>1. Len(lines) \in Nat /\ lines = [i \in 1 .. Len(lines) |-> lines[i]]
  BY LenProperties
<1>2. ItemNumber(g) = Len(lines) /\ Len(lines) # Garbage
  BY <1>1, MarkAssumption DEF ItemNumber
<1>3. LoadData(g) = [i \in 1 .. Len(lines) |-> Line(i)]
  BY <1>2 DEF LoadData
<1>4. \A i \in 1 .. Len(lines) : Line(i) = lines[i]
  BY <1>1, EmptySeq
<1> HIDE DEF Line
<1>5. QED
  BY <1>1, <1>3, <1>4

\* How a client prints what it was sent.
LEMMA PrintedType == \A i \in Id : Printed(i) \in Id \cup {Stripped}
BY DEF Printed

-----------------------------------------------------------------------------
(***************************************************************************)
(* The steps, one part of the invariant after the other.                    *)
(***************************************************************************)

\* Types of what the server writes.
LEMMA ServerTypes ==
    ASSUME IdFilesTypeOK, ProcessInv, Prepare
    PROVE  IdFilesTypeOK'
<1> USE DEF IdFilesTypeOK
<1>1. ASSUME NEW pd \in BOOLEAN, NEW ps \in BOOLEAN, Start(pd, ps)
      PROVE  IdFilesTypeOK'
  BY <1>1, GroupIs DEF Start, client, client_files, server_files
<1>2. ASSUME OpenDataMap
      PROVE  IdFilesTypeOK'
  <2>1. next \in Group /\ next' \in Group
    BY <1>2, NextGroup DEF OpenDataMap
  <2>2. data_map' \in [Group -> Seq(Record)]
    BY <1>2, <2>1 DEF OpenDataMap
  <2>3. spc' \in {"truncate", "lines"} /\ next' \in Nat
    BY <1>2, <2>1, GroupIs DEF OpenDataMap
  <2>4. QED
    BY <1>2, <2>1, <2>2, <2>3 DEF OpenDataMap, client, client_files
<1>3. ASSUME WriteLine
      PROVE  IdFilesTypeOK'
  <2>1. next \in Nat /\ next + 1 \in 1 .. Len(data)
    BY <1>3, DataFileTypes DEF WriteLine, ProcessInv
  <2> DEFINE r == data[next + 1]
             g == GroupOf[r.id]
  <2>2. r \in Record /\ g \in Group
    BY <2>1, DataFileTypes
  <2>3. data_map' = [data_map EXCEPT ![g] = Append(@, r)]
    BY <1>3 DEF WriteLine
  <2> HIDE DEF r, g
  <2>4. Append(data_map[g], r) \in Seq(Record)
    BY <2>2, AppendProperties
  <2>5. data_map' \in [Group -> Seq(Record)]
    BY <2>2, <2>3, <2>4
  <2>6. QED
    BY <1>3, <2>1, <2>5 DEF WriteLine, client, client_files
<1>4. ASSUME OpenCountData
      PROVE  IdFilesTypeOK'
  <2>1. count_data' \in Seq(Nat) /\ Len(count_data') <= NumGroups
    BY <1>4, GroupIs DEF OpenCountData
  <2>2. QED
    BY <1>4, <2>1, GroupIs DEF OpenCountData, client, client_files
<1>5. ASSUME WriteCount
      PROVE  IdFilesTypeOK'
  <2>1. next \in Group /\ next' \in Group /\ Len(count_data) = next
    BY <1>5, NextGroup DEF WriteCount, ProcessInv
  <2>2. Len(data_map[next]) \in Nat
    BY <2>1, LenProperties
  <2>3. /\ count_data' \in Seq(Nat)
        /\ Len(count_data') = next + 1
    BY <1>5, <2>1, <2>2, AppendProperties DEF WriteCount
  <2>4. next + 1 <= NumGroups /\ next' \in Nat
    BY <2>1, GroupIs
  <2>5. spc' \in {"counts", "split", "serve"}
    BY <1>5 DEF WriteCount
  <2>6. processed' \in DataFiles \cup {Nothing}
    BY <1>5 DEF WriteCount
  <2>7. QED
    BY <1>5, <2>1, <2>3, <2>4, <2>5, <2>6 DEF WriteCount, client, client_files
<1>6. ASSUME OpenSplitDb
      PROVE  IdFilesTypeOK'
  BY <1>6 DEF OpenSplitDb, client, client_files
<1>7. ASSUME WriteSplitDb
      PROVE  IdFilesTypeOK'
  <2>1. next \in Group /\ next' \in Group /\ next' \in Nat
    BY <1>7, NextGroup, GroupIs DEF WriteSplitDb
  <2>2. LoadData(next) \in Seq(Record \cup {Garbage}) \cup {Garbage}
    BY <2>1, LoadDataType
  <2>3. split_db' \in [Group -> Seq(Record \cup {Garbage}) \cup {Garbage}]
    BY <1>7, <2>1, <2>2 DEF WriteSplitDb
  <2>4. /\ spc' \in {"serve", "split"}
        /\ split_from' \in DataFiles \cup {Nothing}
    BY <1>7 DEF WriteSplitDb
  <2>5. QED
    BY <1>7, <2>1, <2>3, <2>4 DEF WriteSplitDb, client, client_files
<1>8. ASSUME Stop
      PROVE  IdFilesTypeOK'
  BY <1>8, GroupIs DEF Stop, server_files, client_files
<1>9. ASSUME ReplaceData
      PROVE  IdFilesTypeOK'
  BY <1>9 DEF ReplaceData, server_files, client, client_files
<1>10. QED
  BY <1>1, <1>2, <1>3, <1>4, <1>5, <1>6, <1>7, <1>8, <1>9 DEF Prepare

\* Types of what the client writes.
LEMMA ClientTypes ==
    ASSUME IdFilesTypeOK, SyncInv, Sync
    PROVE  IdFilesTypeOK'
<1> USE DEF IdFilesTypeOK
<1>1. ASSUME NEW sync_ids \in BOOLEAN, StartClient(sync_ids)
      PROVE  IdFilesTypeOK'
  BY <1>1 DEF StartClient, server, server_files, client_files
<1>2. ASSUME OpenCountId
      PROVE  IdFilesTypeOK'
  <2>1. count_id' \in Seq(Nat \cup {Garbage}) /\ Len(count_id') <= NumGroups
    BY <1>2, GroupIs DEF OpenCountId
  <2>2. QED
    BY <1>2, <2>1 DEF OpenCountId, server, server_files
<1>3. ASSUME WriteCountId
      PROVE  IdFilesTypeOK'
  <2>1. cnext' \in Group /\ Len(count_id) = cnext
    BY <1>3, NextGroup DEF WriteCountId, SyncInv
  <2>2. ItemNumber(cnext) \in Nat \cup {Garbage}
    BY ItemNumberType
  <2>3. count_id' \in Seq(Nat \cup {Garbage}) /\ Len(count_id') = cnext + 1
    BY <1>3, <2>1, <2>2, AppendProperties DEF WriteCountId
  <2>4. cnext + 1 <= NumGroups
    BY GroupIs
  <2>5. cpc' \in {"open", "counts"}
    BY <1>3 DEF WriteCountId
  <2>6. QED
    BY <1>3, <2>1, <2>3, <2>4, <2>5 DEF WriteCountId, server, server_files
<1>4. ASSUME OpenIdMap
      PROVE  IdFilesTypeOK'
  <2>1. cnext' \in Group
    BY <1>4, NextGroup DEF OpenIdMap
  <2>2. id_map' \in [Group -> Seq(Id \cup {Stripped})]
    BY <1>4 DEF OpenIdMap
  <2>3. synced_from' \in [Group -> DataFiles \cup {Nothing}]
    BY <1>4 DEF OpenIdMap
  <2>4. cpc' \in {"ids", "open"}
    BY <1>4 DEF OpenIdMap
  <2>5. QED
    BY <1>4, <2>1, <2>2, <2>3, <2>4 DEF OpenIdMap, server, server_files
<1>5. ASSUME SendIds
      PROVE  IdFilesTypeOK'
  <2>1. overrun' \in BOOLEAN
    BY <1>5 DEF SendIds
  <2>2. QED
    BY <1>5, <2>1 DEF SendIds, server_files, client_files
<1>6. ASSUME WriteId
      PROVE  IdFilesTypeOK'
  <2> DEFINE i == Len(id_map[cnext]) + 1
             p == Printed(SentIds(cnext)[i])
  <2>1. i \in 1 .. Len(SentIds(cnext)) /\ SentIds(cnext) \in Seq(Id)
    BY <1>6, SentIdsAre, LenProperties DEF WriteId
  <2>2. p \in Id \cup {Stripped}
    BY <2>1, ElementOfSeq, PrintedType
  <2>3. id_map' = [id_map EXCEPT ![cnext] = Append(@, p)]
    BY <1>6 DEF WriteId
  <2> HIDE DEF p
  <2>4. Append(id_map[cnext], p) \in Seq(Id \cup {Stripped})
    BY <2>2, AppendProperties
  <2>5. id_map' \in [Group -> Seq(Id \cup {Stripped})]
    BY <2>3, <2>4
  <2>6. QED
    BY <1>6, <2>5 DEF WriteId, server, server_files
<1>7. ASSUME CloseIdMap
      PROVE  IdFilesTypeOK'
  <2>1. cnext' \in Group /\ cpc' \in {"ready", "ids"}
    BY <1>7, NextGroup DEF CloseIdMap
  <2>2. QED
    BY <1>7, <2>1 DEF CloseIdMap, server, server_files, client_files
<1>8. ASSUME StopClient
      PROVE  IdFilesTypeOK'
  BY <1>8, GroupIs DEF StopClient, server, server_files, client_files
<1>9. QED
  BY <1>1, <1>2, <1>3, <1>4, <1>5, <1>6, <1>7, <1>8 DEF Sync

\* A client goes on only while the server serves, and the buffer it fills is
\* too small only when the counts are not those of the files.
LEMMA ServeStep ==
    ASSUME IdFilesTypeOK, ServeInv, ProcessInv, Next
    PROVE  ServeInv'
<1> USE DEF ServeInv
<1>1. ASSUME NEW pd \in BOOLEAN, NEW ps \in BOOLEAN, Start(pd, ps)
      PROVE  ServeInv'
  BY <1>1 DEF Start, client
<1>2. CASE OpenDataMap \/ WriteLine \/ OpenCountData \/ WriteCount
           \/ OpenSplitDb \/ WriteSplitDb
  BY <1>2 DEF OpenDataMap, WriteLine, OpenCountData, WriteCount, OpenSplitDb,
              WriteSplitDb, client
<1>3. CASE Stop \/ ReplaceData
  BY <1>3 DEF Stop, ReplaceData, client
<1>4. ASSUME NEW sync_ids \in BOOLEAN, StartClient(sync_ids)
      PROVE  ServeInv'
  BY <1>4 DEF StartClient, server
<1>5. CASE OpenCountId \/ WriteCountId \/ OpenIdMap \/ WriteId \/ CloseIdMap
           \/ StopClient
  BY <1>5 DEF OpenCountId, WriteCountId, OpenIdMap, WriteId, CloseIdMap,
              StopClient, server
<1>6. CASE SendIds
  <2>1. processed # Nothing => Len(SentIds(cnext)) <= BufferRoom
    <3> SUFFICES ASSUME processed # Nothing
                 PROVE  Len(SentIds(cnext)) <= BufferRoom
      OBVIOUS
    <3>1. /\ cnext \in Group /\ count_data \in Seq(Nat)
          /\ data_map[cnext] \in Seq(Record)
      BY DEF IdFilesTypeOK
    <3>2. /\ cnext + 1 \in 1 .. Len(count_data)
          /\ count_data[cnext + 1] = Len(data_map[cnext])
      BY <3>1, GroupIs DEF ProcessInv, PreparedFrom
    <3>3. Len(SentIds(cnext)) <= Len(data_map[cnext])
      BY <3>1, SentIdsAre
    <3>4. /\ Len(data_map[cnext]) <= BufferRoom /\ BufferRoom \in Nat
          /\ Len(data_map[cnext]) \in Nat /\ Len(SentIds(cnext)) \in Nat
      BY <3>1, <3>2, BufferHasRoom, SentIdsAre, LenProperties
    <3>5. QED
      BY <3>3, <3>4
  <2>2. /\ overrun' <=> overrun \/ Len(SentIds(cnext)) > BufferRoom
        /\ spc' = spc /\ processed' = processed /\ cnext' = cnext
        /\ cpc = "ids" /\ cpc' = "lines"
    BY <1>6 DEF SendIds, IdFilesTypeOK
  <2>3. overrun' => processed = Nothing
    <3>1. \/ processed = Nothing
          \/ ~(Len(SentIds(cnext)) > BufferRoom)
      <4>1. /\ cnext \in Group /\ count_data \in Seq(Nat)
            /\ data_map[cnext] \in Seq(Record)
        BY DEF IdFilesTypeOK
      <4>2. Len(SentIds(cnext)) \in Nat /\ BufferRoom \in Nat
        BY <4>1, BufferHasRoom, SentIdsAre, LenProperties
      <4>3. QED
        BY <2>1, <4>2
    <3>2. QED
      BY <2>2, <3>1
  <2>4. QED
    BY <2>2, <2>3
<1>7. QED
  BY <1>1, <1>2, <1>3, <1>4, <1>5, <1>6 DEF Next, Prepare, Sync

\* process_datas writes the lines and counts of the data file, from the first
\* to the last, whatever was there.
LEMMA ProcessStep ==
    ASSUME IdFilesTypeOK, ProcessInv, Next
    PROVE  ProcessInv'
<1>1. ASSUME NEW pd \in BOOLEAN, NEW ps \in BOOLEAN, Start(pd, ps)
      PROVE  ProcessInv'
  <2>1. /\ UNCHANGED <<data, data_map, count_data>>
        /\ next' = 0 /\ spc' \in {"truncate", "split", "serve"}
        /\ spc' = "truncate" => processed' = Nothing
        /\ processed' # Nothing => processed' = processed
    BY <1>1 DEF Start, server_files
  <2>2. QED
    BY <2>1 DEF ProcessInv, PreparedFrom
<1>2. CASE OpenDataMap
  <2>1. /\ next \in Group /\ processed = Nothing /\ processed' = Nothing
        /\ spc = "truncate" /\ next' = (next + 1) % NumGroups
        /\ data_map' = [data_map EXCEPT ![next] = <<>>]
        /\ spc' = IF next' = 0 THEN "lines" ELSE spc
        /\ data' = data
    BY <1>2 DEF OpenDataMap, ProcessInv, IdFilesTypeOK
  <2>2. \A g \in 0 .. next : data_map'[g] = <<>>
    BY <1>2, <2>1, GroupIs DEF ProcessInv, IdFilesTypeOK, Group
  <2>3. CASE next + 1 # NumGroups
    <3>1. next' = next + 1 /\ next' # 0 /\ spc' = "truncate"
      BY <2>1, <2>3, NextGroup, GroupIs
    <3>2. QED
      BY <2>1, <2>2, <3>1, GroupIs DEF ProcessInv
  <2>4. CASE next + 1 = NumGroups
    <3>1. next' = 0 /\ spc' = "lines"
      BY <2>1, <2>4, NextGroup
    <3>2. \A g \in Group : data_map'[g] = <<>>
      BY <2>1, <2>2, <2>4, GroupIs DEF Group
    <3>3. data' \in DataFiles
      BY <2>1 DEF IdFilesTypeOK
    <3>4. \A g \in Group : RecordsUpTo(data', g)[0] = <<>> /\ Len(data') \in Nat
      BY <3>3, DataFileTypes, RecordsUpToStep
    <3>5. 0 \in 0 .. Len(data')
      BY <3>4, GroupIs
    <3>6. QED
      BY <2>1, <3>1, <3>2, <3>4, <3>5 DEF ProcessInv
  <2>5. QED
    BY <2>3, <2>4
<1>3. CASE WriteLine
  <2>1. /\ spc = "lines" /\ spc' = "lines" /\ next < Len(data)
        /\ next' = next + 1 /\ data' = data
        /\ processed = Nothing /\ processed' = Nothing
        /\ next \in 0 .. Len(data) /\ Len(data) \in Nat
        /\ \A g \in Group : data_map[g] = RecordsUpTo(data, g)[next]
    BY <1>3, DataFileTypes DEF WriteLine, ProcessInv, IdFilesTypeOK
  <2> DEFINE r == data[next + 1]
  <2>2. data_map' = [data_map EXCEPT ![GroupOf[r.id]] = Append(@, r)]
    BY <1>3 DEF WriteLine
  <2>3. next \in 0 .. Len(data) - 1 /\ next + 1 \in 0 .. Len(data)
    BY <2>1
  <2>4. ASSUME NEW g \in Group
        PROVE  data_map'[g] = RecordsUpTo(data, g)[next + 1]
    <3>1. RecordsUpTo(data, g)[next + 1] =
            IF GroupOf[r.id] = g THEN Append(RecordsUpTo(data, g)[next], r)
            ELSE RecordsUpTo(data, g)[next]
      BY <2>1, <2>3, RecordsUpToStep
    <3>2. data_map'[g] = IF GroupOf[r.id] = g THEN Append(data_map[g], r)
                         ELSE data_map[g]
      <4> HIDE DEF r
      <4>1. data_map \in [Group -> Seq(Record)]
        BY DEF IdFilesTypeOK
      <4>2. QED
        BY <2>2, <4>1
    <3>3. QED
      BY <2>1, <3>1, <3>2
  <2>5. QED
    BY <2>1, <2>3, <2>4 DEF ProcessInv
<1>4. CASE OpenCountData
  <2>1. /\ spc = "lines" /\ spc' = "counts" /\ next = Len(data)
        /\ next' = 0 /\ data' = data /\ data_map' = data_map
        /\ count_data' = <<>>
        /\ processed = Nothing /\ processed' = Nothing
        /\ \A g \in Group : data_map[g] = RecordsUpTo(data, g)[next]
    BY <1>4 DEF OpenCountData, ProcessInv
  <2>2. Len(count_data') = 0
    BY <2>1
  <2>3. QED
    BY <2>1, <2>2 DEF ProcessInv, GroupRecords
<1>5. CASE WriteCount
  <2> DEFINE n == Len(data_map[next])
  <2>1. /\ next \in Group /\ processed = Nothing
        /\ spc = "counts" /\ next' = (next + 1) % NumGroups
        /\ count_data' = Append(count_data, n)
        /\ data' = data /\ data_map' = data_map
        /\ count_data \in Seq(Nat) /\ Len(count_data) = next
        /\ \A g \in Group : data_map[g] = GroupRecords(data, g)
        /\ \A g \in 0 .. next - 1 : count_data[g + 1] = Len(data_map[g])
    BY <1>5 DEF WriteCount, ProcessInv, IdFilesTypeOK
  <2>2. \/ next' # 0 /\ UNCHANGED <<spc, processed>>
        \/ next' = 0 /\ spc' \in {"split", "serve"} /\ processed' = data
    BY <1>5 DEF WriteCount
  <2>3. n \in Nat
    BY <2>1, LenProperties DEF IdFilesTypeOK
  <2> HIDE DEF n
  <2>4. /\ Len(count_data') = next + 1 /\ count_data'[next + 1] = n
        /\ \A i \in 1 .. next : count_data'[i] = count_data[i]
    BY <2>1, <2>3, AppendProperties
  <2>5. \A g \in 0 .. next : count_data'[g + 1] = Len(data_map'[g])
    <3> SUFFICES ASSUME NEW g \in 0 .. next
                 PROVE  count_data'[g + 1] = Len(data_map'[g])
      OBVIOUS
    <3>1. CASE g = next
      BY <2>1, <2>4, <3>1 DEF n
    <3>2. CASE g # next
      <4>1. g \in 0 .. next - 1 /\ g + 1 \in 1 .. next
        BY <2>1, <3>2, GroupIs
      <4>2. QED
        BY <2>1, <2>4, <4>1
    <3>3. QED
      BY <3>1, <3>2
  <2>6. CASE next + 1 # NumGroups
    <3>1. next' = next + 1 /\ next' # 0
      BY <2>1, <2>6, NextGroup, GroupIs
    <3>2. QED
      BY <2>1, <2>2, <2>4, <2>5, <3>1, GroupIs DEF ProcessInv
  <2>7. CASE next + 1 = NumGroups
    <3>1. next' = 0
      BY <2>1, <2>7, NextGroup
    <3>2. \A g \in Group : count_data'[g + 1] = Len(data_map'[g])
      BY <2>1, <2>5, <2>7, GroupIs DEF Group
    <3>3. QED
      BY <2>1, <2>2, <2>4, <2>7, <3>1, <3>2 DEF ProcessInv, PreparedFrom
  <2>8. QED
    BY <2>6, <2>7
<1>6. CASE OpenSplitDb \/ WriteSplitDb \/ Stop \/ ReplaceData
  <2>1. /\ UNCHANGED <<data_map, count_data, processed>>
        /\ spc' \notin {"truncate", "lines", "counts"}
    BY <1>6 DEF OpenSplitDb, WriteSplitDb, Stop, ReplaceData, server_files
  <2>2. QED
    BY <2>1 DEF ProcessInv, PreparedFrom
<1>7. CASE Sync
  <2>1. UNCHANGED <<data, data_map, count_data, processed, spc, next>>
    BY <1>7 DEF Sync, StartClient, OpenCountId, WriteCountId, OpenIdMap,
                SendIds, WriteId, CloseIdMap, StopClient, server, server_files
  <2>2. QED
    BY <2>1 DEF ProcessInv, PreparedFrom
<1>8. QED
  BY <1>1, <1>2, <1>3, <1>4, <1>5, <1>6, <1>7 DEF Next, Prepare

\* process_split_dbs writes what load_data reads, which is all of a group.
LEMMA SplitStep ==
    ASSUME IdFilesTypeOK, ProcessInv, SplitInv, Next
    PROVE  SplitInv'
<1>1. ASSUME NEW pd \in BOOLEAN, NEW ps \in BOOLEAN, Start(pd, ps)
      PROVE  SplitInv'
  <2>1. UNCHANGED <<split_db, split_from>> /\ next' = 0
        /\ spc' \in {"truncate", "split", "serve"}
    BY <1>1 DEF Start, server_files
  <2>2. QED
    BY <2>1 DEF SplitInv
<1>2. CASE OpenDataMap \/ WriteLine \/ OpenCountData \/ Stop \/ ReplaceData
  <2>1. /\ UNCHANGED <<split_db, split_from>>
        /\ spc' \notin {"split", "write_split"}
    BY <1>2 DEF OpenDataMap, WriteLine, OpenCountData, Stop, ReplaceData,
                server_files
  <2>2. QED
    BY <2>1 DEF SplitInv
<1>3. CASE WriteCount
  <2>1. /\ UNCHANGED <<split_db, split_from>>
        /\ spc' \notin {"split", "write_split"} \/ (spc' = "split" /\ next' = 0)
    BY <1>3 DEF WriteCount
  <2>2. QED
    BY <2>1 DEF SplitInv
<1>4. CASE OpenSplitDb
  <2>1. /\ spc = "split" /\ spc' = "write_split" /\ split_from' = Nothing
        /\ next \in Group /\ next' = next /\ processed' = processed
        /\ split_db' = [split_db EXCEPT ![next] = Garbage]
        /\ DOMAIN split_db = Group
    BY <1>4 DEF OpenSplitDb, IdFilesTypeOK
  <2>2. \A g \in 0 .. next - 1 : split_db'[g] = split_db[g]
    BY <2>1, GroupIs DEF Group
  <2>3. QED
    BY <2>1, <2>2 DEF SplitInv
<1>5. CASE WriteSplitDb
  <2>1. /\ spc = "write_split" /\ next \in Group
        /\ next' = (next + 1) % NumGroups
        /\ spc' = IF next' = 0 THEN "serve" ELSE "split"
        /\ split_from' = IF next' = 0 THEN processed ELSE Nothing
        /\ processed' = processed
        /\ split_db' = [split_db EXCEPT ![next] = LoadData(next)]
        /\ DOMAIN split_db = Group
    BY <1>5 DEF WriteSplitDb, IdFilesTypeOK
  <2>2. processed # Nothing => LoadData(next) = GroupRecords(processed, next)
    <3> SUFFICES ASSUME processed # Nothing
                 PROVE  LoadData(next) = GroupRecords(processed, next)
      OBVIOUS
    <3>1. PreparedFrom(processed) /\ data_map[next] \in Seq(Record)
      BY <2>1 DEF ProcessInv, IdFilesTypeOK
    <3>2. next + 1 \in DOMAIN count_data
      BY <2>1, <3>1, GroupIs, LenProperties DEF PreparedFrom, IdFilesTypeOK
    <3>3. QED
      BY <2>1, <3>1, <3>2, LoadDataIsWhole DEF PreparedFrom
  <2>3. processed # Nothing =>
          \A g \in 0 .. next : split_db'[g] = GroupRecords(processed, g)
    BY <2>1, <2>2, GroupIs DEF SplitInv, Group
  <2>4. CASE next + 1 # NumGroups
    <3>1. next' = next + 1 /\ next' # 0
      BY <2>1, <2>4, NextGroup, GroupIs
    <3>2. QED
      BY <2>1, <2>3, <3>1, GroupIs DEF SplitInv
  <2>5. CASE next + 1 = NumGroups
    <3>1. next' = 0
      BY <2>1, <2>5, NextGroup
    <3>2. \A g \in Group : g \in 0 .. next
      BY <2>1, <2>5, GroupIs DEF Group
    <3>3. QED
      BY <2>1, <2>3, <3>1, <3>2 DEF SplitInv
  <2>6. QED
    BY <2>4, <2>5
<1>6. CASE Sync
  <2>1. UNCHANGED <<split_db, split_from, processed, spc, next>>
    BY <1>6 DEF Sync, StartClient, OpenCountId, WriteCountId, OpenIdMap,
                SendIds, WriteId, CloseIdMap, StopClient, server, server_files
  <2>2. QED
    BY <2>1 DEF SplitInv
<1>7. QED
  BY <1>1, <1>2, <1>3, <1>4, <1>5, <1>6 DEF Next, Prepare

\* The server prepares nothing while it has a client.
LEMMA NoClientWhilePreparing ==
    ASSUME ServeInv, Prepare
    PROVE  cpc' = "off" /\ UNCHANGED <<client_files, synced_from>>
BY DEF ServeInv, Prepare, Start, OpenDataMap, WriteLine, OpenCountData,
       WriteCount, OpenSplitDb, WriteSplitDb, Stop, ReplaceData, client,
       client_files

\* A client leaves the server's files as they are, and so what is sent.
LEMMA ClientOnlyReads ==
    ASSUME Sync
    PROVE  /\ UNCHANGED <<data, data_map, count_data, split_db, processed,
                          split_from>>
           /\ \A g \in Group : ItemNumber(g)' = ItemNumber(g)
           /\ \A g \in Group : SentIds(g)' = SentIds(g)
<1>1. UNCHANGED <<data, data_map, count_data, split_db, processed, split_from>>
  BY DEF Sync, StartClient, OpenCountId, WriteCountId, OpenIdMap, SendIds,
         WriteId, CloseIdMap, StopClient, server, server_files
<1>2. QED
  BY <1>1 DEF ItemNumber, SentIds

\* sync_id_from_server writes the counts of all groups, opens all files, and
\* fills one after the other.
LEMMA SyncStep ==
    ASSUME IdFilesTypeOK, ServeInv, SyncInv, Next
    PROVE  SyncInv'
<1>1. CASE Prepare
  BY <1>1, NoClientWhilePreparing DEF SyncInv
<1>2. ASSUME Sync, cpc' \in {"off", "sync", "ready"}
      PROVE  SyncInv'
  BY <1>2 DEF SyncInv
<1>3. CASE OpenCountId
  <2>1. /\ cpc' = "counts" /\ cnext = 0 /\ cnext' = 0 /\ count_id' = <<>>
        /\ \A g \in Group : synced_from'[g] = Nothing
    BY <1>3 DEF OpenCountId, ServeInv
  <2>2. Len(count_id') = 0
    BY <2>1
  <2>3. QED
    BY <2>1, <2>2 DEF SyncInv
<1>4. CASE WriteCountId
  <2> DEFINE n == ItemNumber(cnext)
  <2>1. /\ cpc = "counts" /\ cnext \in Group
        /\ cnext' = (cnext + 1) % NumGroups
        /\ cpc' = IF cnext' = 0 THEN "open" ELSE cpc
        /\ count_id' = Append(count_id, n)
        /\ count_id \in Seq(Nat \cup {Garbage}) /\ Len(count_id) = cnext
        /\ \A g \in 0 .. cnext - 1 : count_id[g + 1] = ItemNumber(g)
        /\ synced_from' = synced_from
        /\ \A g \in Group : synced_from[g] = Nothing
    BY <1>4 DEF WriteCountId, SyncInv, IdFilesTypeOK
  <2>2. n \in Nat \cup {Garbage}
    BY <2>1, ItemNumberType DEF IdFilesTypeOK
  <2>3. \A g \in Group : ItemNumber(g)' = ItemNumber(g)
    BY <1>4, ClientOnlyReads DEF Sync
  <2> HIDE DEF n
  <2>4. /\ Len(count_id') = cnext + 1 /\ count_id'[cnext + 1] = n
        /\ \A i \in 1 .. cnext : count_id'[i] = count_id[i]
    BY <2>1, <2>2, AppendProperties
  <2>5. \A g \in 0 .. cnext : count_id'[g + 1] = ItemNumber(g)'
    <3> SUFFICES ASSUME NEW g \in 0 .. cnext
                 PROVE  count_id'[g + 1] = ItemNumber(g)'
      OBVIOUS
    <3>1. g \in Group
      BY <2>1, GroupIs DEF Group
    <3>2. CASE g = cnext
      BY <2>3, <2>4, <3>1, <3>2 DEF n
    <3>3. CASE g # cnext
      <4>1. g \in 0 .. cnext - 1 /\ g + 1 \in 1 .. cnext
        BY <2>1, <3>3, GroupIs
      <4>2. QED
        BY <2>1, <2>3, <2>4, <3>1, <4>1
    <3>4. QED
      BY <3>2, <3>3
  <2>6. CASE cnext + 1 # NumGroups
    <3>1. cnext' = cnext + 1 /\ cnext' # 0 /\ cpc' = "counts"
      BY <2>1, <2>6, NextGroup, GroupIs
    <3>2. QED
      BY <2>1, <2>4, <2>5, <3>1, GroupIs DEF SyncInv
  <2>7. CASE cnext + 1 = NumGroups
    <3>1. cnext' = 0 /\ cpc' = "open"
      BY <2>1, <2>7, NextGroup
    <3>2. \A g \in Group : g \in 0 .. cnext /\ ~(g < 0)
      BY <2>1, <2>7, GroupIs DEF Group
    <3>3. QED
      BY <2>1, <2>4, <2>5, <2>7, <3>1, <3>2 DEF SyncInv
  <2>8. QED
    BY <2>6, <2>7
<1>5. CASE OpenIdMap
  <2>1. /\ cpc = "open" /\ cnext \in Group
        /\ cnext' = (cnext + 1) % NumGroups
        /\ cpc' = IF cnext' = 0 THEN "ids" ELSE cpc
        /\ id_map' = [id_map EXCEPT ![cnext] = <<>>]
        /\ synced_from' = [synced_from EXCEPT ![cnext] = processed]
        /\ DOMAIN id_map = Group /\ DOMAIN synced_from = Group
        /\ count_id' = count_id
    BY <1>5 DEF OpenIdMap, IdFilesTypeOK
  <2>2. /\ Len(count_id') = NumGroups
        /\ \A g \in Group : count_id'[g + 1] = ItemNumber(g)'
    BY <1>5, <2>1, ClientOnlyReads DEF SyncInv, Sync
  <2>3. \A g \in Group : IF g < cnext
                         THEN synced_from[g] = processed /\ id_map[g] = <<>>
                         ELSE synced_from[g] = Nothing
    BY <2>1 DEF SyncInv
  <2>4. processed' = processed
    BY <1>5, ClientOnlyReads DEF Sync
  <2>5. \A g \in Group : IF g < cnext + 1
                         THEN synced_from'[g] = processed' /\ id_map'[g] = <<>>
                         ELSE synced_from'[g] = Nothing
    <3> SUFFICES ASSUME NEW g \in Group
                 PROVE  IF g < cnext + 1
                        THEN synced_from'[g] = processed' /\ id_map'[g] = <<>>
                        ELSE synced_from'[g] = Nothing
      OBVIOUS
    <3>1. g < cnext + 1 <=> g < cnext \/ g = cnext
      BY <2>1, GroupIs
    <3>2. CASE g = cnext
      BY <2>1, <2>4, <3>1, <3>2
    <3>3. CASE g # cnext
      BY <2>1, <2>3, <2>4, <3>1, <3>3
    <3>4. QED
      BY <3>2, <3>3
  <2>6. CASE cnext + 1 # NumGroups
    <3>1. cnext' = cnext + 1 /\ cnext' # 0 /\ cpc' = "open"
      BY <2>1, <2>6, NextGroup, GroupIs
    <3>2. QED
      BY <2>2, <2>5, <3>1 DEF SyncInv
  <2>7. CASE cnext + 1 = NumGroups
    <3>1. cnext' = 0 /\ cpc' = "ids"
      BY <2>1, <2>7, NextGroup
    <3>2. \A g \in Group : synced_from'[g] = processed' /\ id_map'[g] = <<>>
      BY <2>5, <2>7, GroupIs DEF Group
    <3>3. ASSUME NEW g \in Group
          PROVE  FollowsSent(g)'
      <4>1. Len(id_map'[g]) = 0
        BY <3>2
      <4>2. Len(SentIds(g)') \in Nat
        <5>1. SentIds(g)' = SentIds(g)
          BY <1>5, ClientOnlyReads DEF Sync
        <5>2. SentIds(g) \in Seq(Id)
          BY SentIdsAre DEF IdFilesTypeOK
        <5>3. QED
          BY <5>1, <5>2, LenProperties
      <4>3. QED
        BY <4>1, <4>2 DEF FollowsSent
    <3>4. \A g \in 0 .. cnext' - 1 : FALSE
      BY <3>1
    <3>5. QED
      BY <2>2, <3>1, <3>2, <3>3, <3>4 DEF SyncInv
  <2>8. QED
    BY <2>6, <2>7
<1>6. CASE SendIds
  <2>1. /\ cpc = "ids" /\ cpc' = "lines"
        /\ UNCHANGED <<count_id, id_map, cnext, synced_from>>
    BY <1>6 DEF SendIds, client_files
  <2>2. /\ processed' = processed
        /\ \A g \in Group : ItemNumber(g)' = ItemNumber(g)
        /\ \A g \in Group : SentIds(g)' = SentIds(g)
    BY <1>6, ClientOnlyReads DEF Sync
  <2>3. \A g \in 0 .. cnext - 1 : g \in Group
    BY GroupIs DEF Group, IdFilesTypeOK
  <2>4. QED
    BY <2>1, <2>2, <2>3 DEF SyncInv, FollowsSent
<1>7. CASE WriteId
  <2> DEFINE s == SentIds(cnext)
             i == Len(id_map[cnext]) + 1
             p == Printed(s[i])
  <2>1. /\ cpc = "lines" /\ cpc' = "lines" /\ i - 1 < Len(s)
        /\ cnext \in Group
        /\ id_map' = [id_map EXCEPT ![cnext] = Append(@, p)]
        /\ id_map \in [Group -> Seq(Id \cup {Stripped})]
        /\ UNCHANGED <<count_id, cnext, synced_from>>
    BY <1>7 DEF WriteId, IdFilesTypeOK
  <2>2. /\ processed' = processed
        /\ \A g \in Group : ItemNumber(g)' = ItemNumber(g)
        /\ \A g \in Group : SentIds(g)' = SentIds(g)
    BY <1>7, ClientOnlyReads DEF Sync
  <2>3. \A g \in 0 .. cnext - 1 : g \in Group /\ g # cnext
    BY <2>1, GroupIs DEF Group
  <2>4. Len(id_map[cnext]) \in Nat /\ Len(s) \in Nat /\ s \in Seq(Id)
    BY <2>1, LenProperties, SentIdsAre DEF IdFilesTypeOK
  <2>5. p \in Id \cup {Stripped}
    BY <2>1, <2>4, ElementOfSeq, PrintedType
  <2> DEFINE m == id_map[cnext]
  <2>6. id_map'[cnext] = Append(m, p)
    <3> HIDE DEF p
    <3>1. QED
      BY <2>1
  <2>7. FollowsSent(cnext)'
    <3>1. m \in Seq(Id \cup {Stripped}) /\ Len(m) = i - 1
      BY <2>1, <2>4
    <3>2. /\ Len(Append(m, p)) = i /\ Append(m, p)[i] = p
          /\ \A k \in 1 .. i - 1 : Append(m, p)[k] = m[k]
      <4> HIDE DEF p, m
      <4>1. QED
        BY <2>4, <2>5, <3>1, AppendProperties
    <3>3. \A k \in 1 .. i - 1 : m[k] = Printed(s[k])
      BY <2>1, <2>4 DEF SyncInv, FollowsSent
    <3>4. SentIds(cnext)' = s
      BY <2>1, <2>2
    <3>5. i <= Len(s) /\ \A k \in 1 .. i : k = i \/ k \in 1 .. i - 1
      BY <2>1, <2>4
    <3>6. \A k \in 1 .. i : Append(m, p)[k] = Printed(s[k])
      BY <3>2, <3>3, <3>5
    <3>7. QED
      <4> HIDE DEF i, m, s, p
      <4>1. QED
        BY <2>1, <2>6, <3>2, <3>4, <3>5, <3>6 DEF FollowsSent
  <2>8. ASSUME NEW g \in Group, g # cnext
        PROVE  id_map'[g] = id_map[g] /\ FollowsSent(g)'
    <3>1. id_map'[g] = id_map[g]
      <4> HIDE DEF p
      <4>1. QED
        BY <2>1, <2>8
    <3>2. FollowsSent(g)
      BY <2>1 DEF SyncInv
    <3>3. QED
      BY <2>2, <3>1, <3>2 DEF FollowsSent
  <2>9. ASSUME NEW g \in Group
        PROVE  FollowsSent(g)'
    <3>1. CASE g = cnext
      <4> HIDE DEF p, i, s, m
      <4>1. cnext' = g
        BY <2>1, <3>1
      <4>2. QED
        BY <2>7, <4>1
    <3>2. CASE g # cnext
      BY <2>8, <3>2
    <3>3. QED
      BY <3>1, <3>2
  <2> HIDE DEF p, i, s, m
  <2>10. \A g \in 0 .. cnext - 1 : Len(id_map'[g]) = Len(SentIds(g)')
    BY <2>1, <2>2, <2>3, <2>8 DEF SyncInv
  <2>11. QED
    BY <2>1, <2>2, <2>9, <2>10 DEF SyncInv
<1>8. CASE CloseIdMap
  <2>1. /\ cpc = "lines" /\ cnext \in Group
        /\ Len(id_map[cnext]) = Len(SentIds(cnext))
        /\ cnext' = (cnext + 1) % NumGroups
        /\ cpc' = IF cnext' = 0 THEN "ready" ELSE "ids"
        /\ UNCHANGED <<count_id, id_map, synced_from>>
    BY <1>8 DEF CloseIdMap, client_files, IdFilesTypeOK
  <2>2. /\ processed' = processed
        /\ \A g \in Group : ItemNumber(g)' = ItemNumber(g)
        /\ \A g \in Group : SentIds(g)' = SentIds(g)
    BY <1>8, ClientOnlyReads DEF Sync
  <2>3. CASE cnext + 1 # NumGroups
    <3>1. cnext' = cnext + 1 /\ cpc' = "ids"
      BY <2>1, <2>3, NextGroup, GroupIs
    <3>2. \A g \in 0 .. cnext : g \in Group /\ (g = cnext \/ g \in 0 .. cnext - 1)
      BY <2>1, GroupIs DEF Group
    <3>3. \A g \in 0 .. cnext : Len(id_map'[g]) = Len(SentIds(g)')
      BY <2>1, <2>2, <3>2 DEF SyncInv
    <3>4. \A g \in Group : synced_from'[g] = processed' /\ FollowsSent(g)'
      BY <2>1, <2>2 DEF SyncInv, FollowsSent
    <3>5. cnext' - 1 = cnext
      BY <2>1, <3>1, GroupIs
    <3>6. QED
      BY <2>1, <2>2, <3>1, <3>3, <3>4, <3>5 DEF SyncInv
  <2>4. CASE cnext + 1 = NumGroups
    BY <2>1, <2>4, NextGroup DEF SyncInv
  <2>5. QED
    BY <2>3, <2>4
<1>9. CASE StopClient \/ \E sync_ids \in BOOLEAN : StartClient(sync_ids)
  <2>1. cpc' \in {"off", "sync", "ready"}
    BY <1>9 DEF StopClient, StartClient
  <2>2. QED
    BY <1>2, <1>9, <2>1 DEF Sync
<1>10. QED
  BY <1>1, <1>3, <1>4, <1>5, <1>6, <1>7, <1>8, <1>9 DEF Next, Sync

\* What was synchronised goes with the data file it came from, for good.
LEMMA SyncedStep ==
    ASSUME IdFilesTypeOK, ServeInv, ProcessInv, SyncInv, SyncedInv, Next
    PROVE  SyncedInv'
<1>1. ASSUME UNCHANGED <<client_files, synced_from>>
      PROVE  SyncedInv'
  BY <1>1 DEF client_files, SyncedInv, SyncedFrom
<1>2. CASE Prepare
  BY <1>1, <1>2, NoClientWhilePreparing
<1>3. CASE \/ \E sync_ids \in BOOLEAN : StartClient(sync_ids)
           \/ SendIds
           \/ CloseIdMap
           \/ StopClient
  BY <1>1, <1>3 DEF StartClient, SendIds, CloseIdMap, StopClient
<1>4. CASE OpenCountId
  BY <1>4 DEF OpenCountId, SyncedInv
<1>5. CASE WriteCountId
  BY <1>5 DEF WriteCountId, SyncInv, SyncedInv
<1>6. CASE OpenIdMap
  <2>1. /\ cpc = "open" /\ cnext \in Group
        /\ id_map' = [id_map EXCEPT ![cnext] = <<>>]
        /\ synced_from' = [synced_from EXCEPT ![cnext] = processed]
        /\ DOMAIN id_map = Group /\ DOMAIN synced_from = Group
        /\ count_id' = count_id
    BY <1>6 DEF OpenIdMap, IdFilesTypeOK
  <2>2. ASSUME NEW g \in Group, g = cnext, synced_from'[g] # Nothing
        PROVE  SyncedFrom(g, synced_from[g])'
    <3>1. synced_from'[g] = processed /\ processed # Nothing
      BY <2>1, <2>2
    <3>2. processed \in DataFiles /\ PreparedFrom(processed)
      BY <3>1 DEF ProcessInv, IdFilesTypeOK
    <3>3. ItemNumber(g) = count_data[g + 1]
      BY <3>2, GroupIs, LenProperties
         DEF PreparedFrom, ItemNumber, IdFilesTypeOK
    <3>4. count_id[g + 1] = Len(GroupRecords(processed, g))
          /\ Len(count_id) = NumGroups
      BY <2>1, <3>2, <3>3 DEF SyncInv, PreparedFrom
    <3>5. Len(id_map'[g]) = 0 /\ Len(GroupRecords(processed, g)) \in Nat
      BY <2>1, <2>2, <3>2, GroupRecordsList, LenProperties
    <3>6. QED
      BY <2>1, <3>1, <3>4, <3>5 DEF SyncedFrom
  <2>3. ASSUME NEW g \in Group, g # cnext, synced_from'[g] # Nothing
        PROVE  SyncedFrom(g, synced_from[g])'
    <3>1. synced_from'[g] = synced_from[g] /\ id_map'[g] = id_map[g]
      BY <2>1, <2>3
    <3>2. QED
      BY <2>1, <2>3, <3>1 DEF SyncedInv, SyncedFrom
  <2>4. QED
    BY <2>2, <2>3 DEF SyncedInv
<1>7. CASE WriteId
  <2> DEFINE m == id_map[cnext]
             s == SentIds(cnext)
             p == Printed(s[Len(m) + 1])
  <2>1. /\ cpc = "lines" /\ cnext \in Group
        /\ Len(m) < Len(s)
        /\ id_map' = [id_map EXCEPT ![cnext] = Append(@, p)]
        /\ id_map \in [Group -> Seq(Id \cup {Stripped})]
        /\ UNCHANGED <<count_id, synced_from>>
    BY <1>7 DEF WriteId, IdFilesTypeOK
  <2>2. ASSUME NEW g \in Group, g = cnext, synced_from'[g] # Nothing
        PROVE  SyncedFrom(g, synced_from[g])'
    <3> DEFINE L == GroupRecords(processed, g)
    <3>1. synced_from[g] = processed /\ processed # Nothing
      BY <2>1, <2>2 DEF SyncInv
    <3>2. /\ data_map[g] = L /\ L \in Seq(Record) /\ Len(L) \in Nat
          /\ SyncedFrom(g, processed)
      BY <3>1, LenProperties
         DEF ProcessInv, PreparedFrom, SyncedInv, IdFilesTypeOK
    <3>3. /\ s \in Seq(Id) /\ Len(s) \in Nat /\ Len(s) <= Len(L)
          /\ \A i \in 1 .. Len(s) : s[i] = L[i].id
      BY <2>2, <3>2, SentIdsAre, LenProperties
    <3>4. m \in Seq(Id \cup {Stripped}) /\ Len(m) \in Nat
      BY <2>1, LenProperties
    <3>5. Len(m) + 1 \in 1 .. Len(s)
      BY <2>1, <3>3, <3>4
    <3>6. p \in Id \cup {Stripped} /\ p = Printed(L[Len(m) + 1].id)
      BY <3>3, <3>5, ElementOfSeq, PrintedType
    <3>7. id_map'[g] = Append(m, p)
      <4> HIDE DEF p
      <4>1. QED
        BY <2>1, <2>2
    <3> HIDE DEF p, s
    <3>8. /\ Len(id_map'[g]) = Len(m) + 1 /\ id_map'[g][Len(m) + 1] = p
          /\ \A i \in 1 .. Len(m) : id_map'[g][i] = m[i]
      BY <3>4, <3>6, <3>7, AppendProperties
    <3>9. \A i \in 1 .. Len(m) : m[i] = Printed(L[i].id)
      BY <2>2, <3>2 DEF SyncedFrom
    <3>10. \A i \in 1 .. Len(m) + 1 : i = Len(m) + 1 \/ i \in 1 .. Len(m)
      BY <3>4
    <3>11. Len(m) + 1 <= Len(L)
      BY <3>2, <3>3, <3>5
    <3> HIDE DEF m, L
    <3>12. \A i \in 1 .. Len(id_map'[g]) : id_map'[g][i] = Printed(L[i].id)
      BY <3>6, <3>8, <3>9, <3>10
    <3>13. QED
      BY <2>1, <3>1, <3>2, <3>8, <3>11, <3>12 DEF SyncedFrom, L
  <2>3. ASSUME NEW g \in Group, g # cnext, synced_from'[g] # Nothing
        PROVE  SyncedFrom(g, synced_from[g])'
    <3> HIDE DEF p
    <3>1. synced_from'[g] = synced_from[g] /\ id_map'[g] = id_map[g]
      BY <2>1, <2>3
    <3>2. QED
      BY <2>1, <2>3, <3>1 DEF SyncedInv, SyncedFrom
  <2>4. QED
    BY <2>2, <2>3 DEF SyncedInv
<1>8. QED
  BY <1>2, <1>3, <1>4, <1>5, <1>6, <1>7 DEF Next, Sync

\* No file is there, and neither program runs.
LEMMA InitIInv == Init => IInv
<1> SUFFICES ASSUME Init
             PROVE  IInv
  OBVIOUS
<1>1. Len(count_data) = 0 /\ Len(count_id) = 0
  BY DEF Init
<1>2. IdFilesTypeOK
  BY <1>1, GroupIs DEF Init, IdFilesTypeOK
<1>3. ServeInv /\ ProcessInv /\ SplitInv /\ SyncInv /\ SyncedInv
  BY DEF Init, ServeInv, ProcessInv, SplitInv, SyncInv, SyncedInv
<1>4. QED
  BY <1>2, <1>3 DEF IInv

\* Every line either program writes, and every stop, preserves it.
LEMMA NextIInv == IInv /\ [Next]_vars => IInv'
<1> SUFFICES ASSUME IInv, [Next]_vars
             PROVE  IInv'
  OBVIOUS
<1> USE DEF IInv
<1>1. CASE Next
  <2>1. IdFilesTypeOK'
    BY <1>1, ServerTypes, ClientTypes DEF Next
  <2>2. QED
    BY <1>1, <2>1, ServeStep, ProcessStep, SplitStep, SyncStep, SyncedStep
<1>2. CASE UNCHANGED vars
  <2>1. UNCHANGED <<data, data_map, count_data, split_db, spc, next,
                    split_wanted, overrun, processed, split_from>>
    BY <1>2 DEF vars, server, server_files
  <2>2. UNCHANGED <<id_map, count_id, cpc, cnext, synced_from>>
    BY <1>2 DEF vars, client, client_files
  <2>3. IdFilesTypeOK'
    BY <2>1, <2>2 DEF IdFilesTypeOK
  <2>4. ServeInv' /\ ProcessInv' /\ SplitInv'
    BY <2>1, <2>2 DEF ServeInv, ProcessInv, PreparedFrom, SplitInv
  <2>5. SyncInv'
    <3>1. \A g : ItemNumber(g)' = ItemNumber(g)
      BY <2>1 DEF ItemNumber
    <3>2. \A g : SentIds(g)' = SentIds(g)
      BY <2>1 DEF SentIds
    <3>3. \A g \in Group : FollowsSent(g)' <=> FollowsSent(g)
      BY <2>2, <3>2 DEF FollowsSent
    <3>4. QED
      BY <2>1, <2>2, <3>1, <3>2, <3>3 DEF SyncInv
  <2>6. SyncedInv'
    BY <2>2 DEF SyncedInv, SyncedFrom
  <2>7. QED
    BY <2>3, <2>4, <2>5, <2>6
<1>3. QED
  BY <1>1, <1>2

\* The inductive invariant holds throughout.
LEMMA Invariance == Spec => []IInv
BY InitIInv, NextIInv, PTL DEF Spec

\* Types of everything on either side.
THEOREM TypeCorrect == Spec => []IdFilesTypeOK
<1>1. IInv => IdFilesTypeOK
  BY DEF IInv
<1>2. QED
  BY <1>1, Invariance, PTL

\* A process_datas, or process_split_dbs, that ran to its end leaves the
\* records of its data file and no others, whatever stopped runs before it
\* have left behind.
THEOREM PreparationIsWhole == Spec => []PreparationRepairs
<1>1. IInv => PreparationRepairs
  BY DEF IInv, ProcessInv, PreparedFrom, SplitInv, PreparationRepairs
<1>2. QED
  BY <1>1, Invariance, PTL

\* sync_id_index writes past its buffer only while the counts are not those
\* of the files.
THEOREM BufferIsLargeEnough == Spec => []SyncFitsBuffer
<1>1. IInv => SyncFitsBuffer
  BY DEF IInv, ServeInv, SyncFitsBuffer
<1>2. QED
  BY <1>1, Invariance, PTL

-----------------------------------------------------------------------------
(***************************************************************************)
(* Queries.                                                                 *)
(***************************************************************************)

\* find_index returns a line that has the id, if there is one.
LEMMA FindIndexIs ==
    ASSUME NEW id \in Id,
           id_map[GroupOf[id]] \in Seq(Id \cup {Stripped})
    PROVE  LET lines == id_map[GroupOf[id]] IN
           /\ FindIndex(id) # NotFound <=>
                \E i \in 1 .. Len(lines) : lines[i] = id
           /\ FindIndex(id) # NotFound =>
                /\ FindIndex(id) \in Nat
                /\ FindIndex(id) < Len(lines)
                /\ lines[FindIndex(id) + 1] = id
<1> DEFINE lines == id_map[GroupOf[id]]
           hits == {i \in DOMAIN lines : lines[i] = id}
<1>1. DOMAIN lines = 1 .. Len(lines) /\ Len(lines) \in Nat
  BY LenProperties
<1>2. FindIndex(id) = IF hits = {} THEN NotFound ELSE Min(hits) - 1
  BY DEF FindIndex
<1>3. CASE hits = {}
  BY <1>1, <1>2, <1>3
<1>4. CASE hits # {}
  <2>1. hits \in SUBSET Nat
    BY <1>1
  <2>2. Min(hits) \in hits
    <3> HIDE DEF hits
    <3>1. QED
      BY <1>4, <2>1, MinIs
  <2>3. Min(hits) \in 1 .. Len(lines) /\ lines[Min(hits)] = id
    <3> DEFINE k == Min(hits)
    <3>1. k \in hits
      BY <2>2
    <3> HIDE DEF k
    <3>2. k \in 1 .. Len(lines) /\ lines[k] = id
      BY <1>1, <3>1
    <3>3. QED
      BY <3>2 DEF k
  <2> DEFINE k == Min(hits)
  <2>4. FindIndex(id) = k - 1
    BY <1>2, <1>4
  <2>5. k \in 1 .. Len(lines) /\ lines[k] = id
    BY <2>3
  <2> HIDE DEF k, hits
  <2>6. k - 1 \in Nat /\ k - 1 # NotFound /\ k - 1 < Len(lines)
        /\ (k - 1) + 1 = k
    BY <1>1, <2>5, MarkAssumption
  <2>7. QED
    BY <2>4, <2>5, <2>6
<1>5. QED
  BY <1>3, <1>4

\* What is found in a synchronised group is where the server had it, under
\* the server's count.
LEMMA FoundIsTheServers ==
    ASSUME IInv, NEW id \in Id, synced_from[GroupOf[id]] # Nothing
    PROVE  LET g == GroupOf[id]
               records == GroupRecords(synced_from[g], g)
           IN  /\ g \in Group /\ records \in Seq(Record)
               /\ NumberOfItems(g) = Len(records)
               /\ FindIndex(id) # NotFound =>
                    /\ FindIndex(id) \in Nat /\ FindIndex(id) < Len(records)
                    /\ records[FindIndex(id) + 1].id = id
<1> DEFINE g == GroupOf[id]
           records == GroupRecords(synced_from[g], g)
           lines == id_map[g]
<1>1. /\ g \in Group /\ synced_from[g] \in DataFiles
      /\ lines \in Seq(Id \cup {Stripped})
      /\ count_id \in Seq(Nat \cup {Garbage})
  BY IdAssumption DEF IInv, IdFilesTypeOK
<1>2. records \in Seq(Record) /\ Len(records) \in Nat /\ Len(lines) \in Nat
  BY <1>1, GroupRecordsList, LenProperties
<1>3. SyncedFrom(g, synced_from[g])
  BY <1>1 DEF IInv, SyncedInv
<1>4. NumberOfItems(g) = Len(records)
  <2>1. Len(count_id) = NumGroups /\ count_id[g + 1] = Len(records)
    BY <1>3 DEF SyncedFrom
  <2>2. g + 1 \in DOMAIN count_id /\ count_id # <<>>
    <3>1. g + 1 \in 1 .. NumGroups
      BY <1>1, GroupIs
    <3>2. DOMAIN count_id = 1 .. NumGroups
      BY <1>1, <2>1, LenProperties
    <3>3. count_id # <<>>
      BY <2>1, IdAssumption, EmptySeq
    <3>4. QED
      BY <3>1, <3>2, <3>3
  <2>3. QED
    BY <2>1, <2>2 DEF NumberOfItems
<1>5. ASSUME FindIndex(id) # NotFound
      PROVE  /\ FindIndex(id) \in Nat /\ FindIndex(id) < Len(records)
             /\ records[FindIndex(id) + 1].id = id
  <2> DEFINE k == FindIndex(id)
  <2>1. k \in Nat /\ k < Len(lines) /\ lines[k + 1] = id
    BY <1>1, <1>5, FindIndexIs
  <2> HIDE DEF k
  <2>2. k + 1 \in 1 .. Len(lines) /\ Len(lines) <= Len(records)
    BY <1>2, <1>3, <2>1 DEF SyncedFrom
  <2>3. lines[k + 1] = Printed(records[k + 1].id)
    BY <1>3, <2>2 DEF SyncedFrom
  <2>4. records[k + 1].id = id
    BY <2>1, <2>3, DataAssumption DEF Printed
  <2>5. QED
    BY <1>2, <2>1, <2>2, <2>4 DEF k
<1>6. QED
  BY <1>1, <1>2, <1>4, <1>5

\* Whatever part of a synchronisation a client was stopped in, an index it
\* finds afterwards is the server's.
THEOREM IndexesAreTheServers == Spec => []IndexesFollowServer
<1>1. IInv => IndexesFollowServer
  BY FoundIsTheServers DEF IndexesFollowServer
<1>2. QED
  BY <1>1, Invariance, PTL

\* A synchronisation from whole files loses the ids with zeros in front,
\* those that end in X and those that come behind one only, and no other.
THEOREM OnlyOddIdsAreLost == Spec => SyncLosesOnlyOddIds
<1> DEFINE LosesOnlyOdd ==
      cpc = "lines" /\ cpc' = "ready" /\ processed # Nothing =>
        \A r \in Range(processed) :
            FindIndex(r.id)' # NotFound
                <=> Kind[r.id] = "number" /\ ~Behind(processed, r.id)
<1>1. IInv /\ [Next]_vars => [LosesOnlyOdd]_vars
  <2> SUFFICES ASSUME IInv, Next, cpc = "lines", cpc' = "ready",
                      processed # Nothing, NEW r \in Range(processed)
               PROVE  FindIndex(r.id)' # NotFound
                        <=> Kind[r.id] = "number" /\ ~Behind(processed, r.id)
    OBVIOUS
  <2> DEFINE d == processed
             id == r.id
             g == GroupOf[id]
             lines == id_map[g]
             L == data_map[g]
             s == SentIds(g)
  <2>1. d \in DataFiles /\ PreparedFrom(d) /\ cnext \in Group
    BY DEF IInv, IdFilesTypeOK, ProcessInv
  <2>2. Len(d) \in Nat /\ DOMAIN d = 1 .. Len(d)
    BY <2>1, DataFileTypes, DataAssumption, LenProperties
  <2>3. PICK k \in 1 .. Len(d) : r = d[k]
    BY <2>2 DEF Range
  <2>4. id \in Id /\ g \in Group
    BY <2>1, <2>3, DataFileTypes
  <2>5. CloseIdMap
    BY DEF Next, Prepare, Sync, Start, OpenDataMap, WriteLine, OpenCountData,
           WriteCount, OpenSplitDb, WriteSplitDb, Stop, ReplaceData,
           StartClient, OpenCountId, WriteCountId, OpenIdMap, SendIds, WriteId,
           StopClient, client, client_files
  <2>6. Len(lines) = Len(s) /\ FollowsSent(g)
    <3>1. cnext + 1 = NumGroups /\ Len(id_map[cnext]) = Len(SentIds(cnext))
      BY <2>1, <2>5, NextGroup, GroupIs DEF CloseIdMap
    <3>2. g \in 0 .. cnext - 1 \/ g = cnext
      BY <2>1, <2>4, <3>1, GroupIs DEF Group
    <3>3. QED
      BY <2>4, <3>1, <3>2 DEF IInv, SyncInv
  <2>7. lines \in Seq(Id \cup {Stripped}) /\ L \in Seq(Record)
    BY <2>4 DEF IInv, IdFilesTypeOK
  <2>8. FindIndex(id)' # NotFound <=> \E i \in 1 .. Len(lines) : lines[i] = id
    <3>1. FindIndex(id)' = FindIndex(id)
      BY <2>5 DEF CloseIdMap, client_files, FindIndex, server
    <3>2. QED
      BY <2>4, <2>7, <3>1, FindIndexIs
  <2>9. PICK pos : Lists(L, d, g, Len(d), pos)
    BY <2>1, <2>4, GroupRecordsList DEF PreparedFrom
  <2>10. /\ Len(s) \in Nat /\ Len(L) \in Nat /\ Len(s) <= Len(L)
         /\ \A i \in 1 .. Len(s) :
                s[i] = L[i].id /\ Kind[L[i].id] # "letter"
         /\ Len(s) < Len(L) => Kind[L[Len(s) + 1].id] = "letter"
    BY <2>4, <2>7, SentIdsAre, LenProperties
  <2>11. \A i \in 1 .. Len(L) :
           /\ pos[i] \in 1 .. Len(d)
           /\ L[i] = d[pos[i]] /\ L[i].id \in Id
           /\ GroupOf[d[pos[i]].id] = g
    BY <2>7, <2>9, ElementOfSeq, RecordTypes DEF Lists
  <2>12. \A i \in 1 .. Len(s) : lines[i] = Printed(L[i].id) /\ i \in 1 .. Len(L)
    BY <2>6, <2>10 DEF FollowsSent
  <2> HIDE DEF d, id, g, lines, L, s
  <2>13. ASSUME NEW i \in 1 .. Len(lines), lines[i] = id
         PROVE  Kind[id] = "number" /\ ~Behind(d, id)
    <3>1. i \in 1 .. Len(s) /\ i \in 1 .. Len(L) /\ Printed(L[i].id) = id
      BY <2>6, <2>12, <2>13
    <3>2. L[i].id = id /\ Kind[id] # "zeros"
      BY <2>4, <2>11, <3>1, DataAssumption DEF Printed
    <3>3. Kind[id] = "number"
      BY <2>4, <2>10, <3>1, <3>2, IdAssumption
    <3>4. d[pos[i]].id = id /\ pos[i] \in DOMAIN d
      BY <2>2, <2>11, <3>1, <3>2
    <3>5. ASSUME NEW j \in 1 .. pos[i] - 1, Kind[d[j].id] = "letter",
                 GroupOf[d[j].id] = GroupOf[id]
          PROVE  FALSE
      <4>1. j \in 1 .. Len(d)
        BY <2>2, <2>11, <3>1
      <4>2. PICK m \in 1 .. Len(L) : pos[m] = j
        BY <2>9, <3>5, <4>1 DEF Lists, g
      <4>3. ~(i < m) /\ i # m
        BY <2>9, <2>11, <3>1, <4>2 DEF Lists
      <4>4. m \in 1 .. Len(s)
        BY <2>10, <3>1, <4>2, <4>3
      <4>5. QED
        BY <2>10, <2>11, <3>5, <4>2, <4>4
    <3>6. QED
      BY <3>3, <3>4, <3>5 DEF Behind
  <2>14. ASSUME Kind[id] = "number", ~Behind(d, id)
         PROVE  \E i \in 1 .. Len(lines) : lines[i] = id
    <3>1. PICK j \in 1 .. Len(d) :
            /\ d[j].id = id
            /\ \A i \in 1 .. j - 1 : ~(/\ Kind[d[i].id] = "letter"
                                       /\ GroupOf[d[i].id] = GroupOf[id])
      BY <2>2, <2>14 DEF Behind
    <3>2. PICK i \in 1 .. Len(L) : pos[i] = j
      BY <2>9, <3>1 DEF Lists, g
    <3>3. L[i].id = id
      BY <2>11, <3>1, <3>2
    <3>4. i <= Len(s)
      <4> SUFFICES ASSUME Len(s) < i
                   PROVE  FALSE
        BY <2>10
      <4> DEFINE m == Len(s) + 1
      <4>1. m \in 1 .. Len(L) /\ m <= i /\ Kind[L[m].id] = "letter"
        BY <2>10
      <4>2. m # i
        BY <2>14, <3>3, <4>1
      <4> HIDE DEF m
      <4>3. m < i
        BY <4>1, <4>2
      <4>4. pos[m] < pos[i] /\ pos[m] \in 1 .. Len(d) /\ pos[i] \in 1 .. Len(d)
        BY <2>9, <2>11, <4>1, <4>3 DEF Lists
      <4>5. pos[m] \in 1 .. j - 1
        BY <2>2, <3>2, <4>4
      <4>6. QED
        BY <2>11, <3>1, <4>1, <4>5 DEF g
    <3>5. i \in 1 .. Len(lines) /\ lines[i] = Printed(id)
      BY <2>6, <2>10, <2>12, <3>3, <3>4
    <3>6. QED
      BY <2>14, <3>5 DEF Printed
  <2>15. QED
    BY <2>8, <2>13, <2>14 DEF d, id
<1>2. QED
  BY <1>1, Invariance, PTL DEF Spec, SyncLosesOnlyOddIds

\* Ids, counts and split_db files that come from one data file: every id that
\* is found leads to its own record.
THEOREM RepliesAreRight == Spec => []RepliesAreRecords
<1>1. IInv => RepliesAreRecords
  <2> SUFFICES ASSUME IInv, processed # Nothing, split_from = processed,
                      NEW id \in Id, synced_from[GroupOf[id]] = processed,
                      FindIndex(id) # NotFound
               PROVE  Reply(id) \in {r \in Range(processed) : r.id = id}
    BY DEF RepliesAreRecords
  <2> DEFINE g == GroupOf[id]
             records == GroupRecords(processed, g)
             k == FindIndex(id)
             content == split_db[g]
  <2>1. /\ g \in Group /\ records \in Seq(Record)
        /\ NumberOfItems(g) = Len(records)
        /\ k \in Nat /\ k < Len(records) /\ records[k + 1].id = id
    BY FoundIsTheServers
  <2>2. processed \in DataFiles /\ PreparedFrom(processed)
    BY DEF IInv, IdFilesTypeOK, ProcessInv
  <2>3. content = records
    BY <2>1 DEF IInv, SplitInv
  <2>4. ItemNumber(g) = Len(records)
    <3>1. /\ g + 1 \in 1 .. Len(count_data) /\ count_data \in Seq(Nat)
          /\ count_data[g + 1] = Len(records)
      BY <2>1, <2>2, GroupIs DEF PreparedFrom, IInv, IdFilesTypeOK
    <3>2. g + 1 \in DOMAIN count_data
      BY <3>1, LenProperties
    <3>3. QED
      BY <3>1, <3>2 DEF ItemNumber
  <2>5. content # Garbage
    <3>1. records \in Seq(Record \cup {Garbage})
      BY <2>1, SeqMonotonic
    <3>2. QED
      BY <2>3, <3>1, MarkAssumption
  <2>6. Len(records) \in Nat /\ Len(records) # Garbage
    BY <2>1, LenProperties, MarkAssumption
  <2> HIDE DEF k, content, records, g
  <2>7. Reply(id) = content[k + 1]
    BY <2>1, <2>3, <2>4, <2>5, <2>6 DEF Reply, k, content, g
  <2>8. records[k + 1] \in Range(processed)
    <3>1. PICK pos : Lists(records, processed, g, Len(processed), pos)
      BY <2>2, GroupRecordsList DEF records
    <3>2. k + 1 \in 1 .. Len(records)
      BY <2>1, <2>6
    <3>3. /\ pos[k + 1] \in 1 .. Len(processed)
          /\ records[k + 1] = processed[pos[k + 1]]
      BY <3>1, <3>2 DEF Lists
    <3>4. DOMAIN processed = 1 .. Len(processed)
      BY <2>2, DataAssumption, LenProperties
    <3>5. QED
      BY <3>3, <3>4 DEF Range
  <2>9. QED
    BY <2>1, <2>3, <2>7, <2>8
<1>2. QED
  BY <1>1, Invariance, PTL
=============================================================================
