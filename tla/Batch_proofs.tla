---------------------------- MODULE Batch_proofs ----------------------------
(***************************************************************************)
(* The invariants of Batch for a batch, a plaintext and a data file of any   *)
(* size, any id files, any number of runs, and programs stopped anywhere.    *)
(*                                                                         *)
(* Three things meet in ResultsAreRecords, each with a part of the inductive *)
(* invariant.  Where the client placed its ids: every element of a plaintext *)
(* to be asked for has the id of the batch that is due, where what is due is *)
(* counted in plaintexts passed (Rank, SlotsBefore).  What was sent and is   *)
(* asked for is what is in the file.  And what the server stored for an id   *)
(* is a line that is read as it; if each id is in one line only, what it     *)
(* stored is exactly what it passed, so that a line is still to come.        *)
(*                                                                         *)
(* Quotients are the only arithmetic that is not linear; DivMod, DivModIs    *)
(* and MulMono are what is needed of them.                                   *)
(***************************************************************************)
EXTENDS Batch, FiniteSetTheorems, SequenceTheorems, WellFoundedInduction,
        TLAPS

\* How many of the plaintexts R come before q, and how many slots of
\* plaintexts in R come before slot n.
Rank(R, q) == Cardinality({k \in R : k < q})
SlotsBefore(R, n) ==
    Rank(R, n \div ele_per_ptxt) * ele_per_ptxt
        + IF n \div ele_per_ptxt \in R THEN n % ele_per_ptxt ELSE 0

\* Element i of a plaintext asked for has the id of the batch whose turn it is.
Placement(batch) ==
    \A q \in Range(indexes), i \in 0 .. ele_per_ptxt - 1 :
        LET j == q * ele_per_ptxt + i
            k == Rank(Range(indexes), q) * ele_per_ptxt + i
        IN  j < Len(ids) /\ k < BatchSize => ids[j + 1] = batch[k + 1]

\* Every id of the batch has a place.
AllPlaced ==
    \A q \in Range(indexes), i \in 0 .. ele_per_ptxt - 1 :
        Rank(Range(indexes), q) * ele_per_ptxt + i < BatchSize =>
            q * ele_per_ptxt + i < BatchIdNumber

\* batch_id_index_process under way.
PlaceInv ==
    /\ cpc \in {"pick", "index"} => batch_id_idx = 0
    /\ cpc \in {"index", "place"} =>
        placed_for = Garbage /\ Len(random_ids) = RandomIdSize
    /\ cpc = "index" => ids = <<>> /\ Len(indexes) < QueryNumber
    /\ cpc = "place" =>
        /\ Len(indexes) = QueryNumber
        /\ Len(ids) < BatchIdNumber
        /\ batch_id_idx = IF SlotsBefore(Range(indexes), Len(ids)) < BatchSize
                          THEN SlotsBefore(Range(indexes), Len(ids)) ELSE BatchSize
        /\ Len(ids) - batch_id_idx > RandomIdSize => Garbage \in Range(ids)
        /\ Placement(batch_query_ids)

\* A file written in full.  If a part of the batch has no place in it, there
\* were not enough random ids either.
FileInv ==
    placed_for # Garbage =>
        /\ Len(placed_for) = BatchSize
        /\ Len(indexes) = QueryNumber
        /\ Len(ids) = BatchIdNumber
        /\ Placement(placed_for)
        /\ Garbage \in Range(ids) \/ AllPlaced

\* What the client has in memory where it is.
ClientInv ==
    /\ cpc \notin {"off", "lost"} => Len(batch_query_ids) = BatchSize
    /\ cpc \notin {"query", "done"} => results = <<>> /\ asked = 0
    /\ cpc \in {"connect", "send"} => Len(buffer) = BatchIdNumber
    /\ cpc \in {"connect", "send", "query"} =>
        /\ IsFiniteSet(batch_query_index)
        /\ Cardinality(batch_query_index) \in 1 .. QueryNumber
        /\ asked < Cardinality(batch_query_index)
    /\ cpc = "send" <=> spc = "receive"

\* A client with the file of its batch asks for what is in it, and the server
\* has been sent what is in it.
OwnFileInv ==
    placed_for = batch_query_ids =>
        /\ cpc \in {"connect", "send", "query"} =>
            batch_query_index = Range(indexes)
        /\ cpc \in {"connect", "send"} => buffer = ids
        /\ cpc = "query" /\ spc \in {"scan", "serve"} => batch_ids = ids

\* A line stored for an id is one that was read as it.
Stored(i) ==
    /\ spc \in {"scan", "serve"}
    /\ \/ db[i] \in Found(batch_ids[i + 1])
       \/ batch_ids[i + 1] = 0 /\ data \in Unterminated /\ db[i] = Len(data)

\* The scan.  If every id is there once, what is stored is what was passed,
\* and something is still to come.
ScanInv ==
    /\ spc \in {"scan", "serve"} => Len(batch_ids) = BatchIdNumber
    /\ spc \notin {"scan", "serve"} => batch_ids = <<>> /\ line = 0 /\ count = 0
    /\ \A i \in Index : db[i] # Garbage => Stored(i)
    /\ EachOnce(batch_ids) =>
        /\ spc = "scan" =>
            /\ count = Cardinality({i \in Index : db[i] # Garbage})
            /\ count < BatchIdNumber
            /\ \A i \in Index : \A l \in Found(batch_ids[i + 1]) :
                db[i] = IF l <= line THEN l ELSE Garbage
        /\ spc = "serve" =>
            \A i \in Index : Found(batch_ids[i + 1]) = {db[i]}

\* The inductive invariant.
IInv ==
    /\ BatchTypeOK
    /\ PlaceInv
    /\ FileInv
    /\ ClientInv
    /\ OwnFileInv
    /\ ScanInv
    /\ ResultsAreRecords
-----------------------------------------------------------------------------
(***************************************************************************)
(* Arithmetic.                                                              *)
(***************************************************************************)

\* Quotient and remainder.
LEMMA DivMod ==
    ASSUME NEW n \in Nat, NEW e \in Nat \ {0}
    PROVE  /\ n \div e \in Nat
           /\ n % e \in 0 .. e - 1
           /\ n = (n \div e) * e + (n % e)
  OBVIOUS

\* They are the only ones.
LEMMA DivModIs ==
    ASSUME NEW q \in Nat, NEW e \in Nat \ {0}, NEW i \in 0 .. e - 1
    PROVE  (q * e + i) \div e = q /\ (q * e + i) % e = i
  OBVIOUS

\* Multiplication and order.
LEMMA MulMono ==
    ASSUME NEW q \in Nat, NEW p \in Nat, NEW e \in Nat \ {0}
    PROVE  /\ q < p => q * e + e <= p * e
           /\ q <= p => q * e <= p * e
  OBVIOUS

\* The quotient rounded up.
LEMMA CeilIs ==
    ASSUME NEW a \in Nat \ {0}, NEW e \in Nat \ {0}
    PROVE  LET c == (a + e - 1) \div e
               r == a % e
           IN  /\ c \in Nat \ {0}
               /\ (c - 1) * e < a
               /\ a <= c * e
               /\ r = 0 => c * e = a
               /\ r # 0 => (c - 1) * e + r = a
<1> DEFINE q == a \div e
           r == a % e
           c == (a + e - 1) \div e
<1>1. q \in Nat /\ r \in 0 .. e - 1 /\ a = q * e + r
  BY DivMod
<1>2. CASE r = 0
  <2>1. a + e - 1 = q * e + (e - 1) /\ e - 1 \in 0 .. e - 1
    BY <1>1, <1>2
  <2>2. c = q
    <3> HIDE DEF q
    <3>1. (q * e + (e - 1)) \div e = q
      BY <1>1, <2>1, DivModIs
    <3>2. QED
      BY <2>1, <3>1
  <2>3. q # 0
    BY <1>1, <1>2
  <2>4. (q - 1) * e = q * e - e
    BY <1>1
  <2> HIDE DEF q, r, c
  <2>5. QED
    BY <1>1, <1>2, <2>2, <2>3, <2>4 DEF c, r
<1>3. CASE r # 0
  <2>1. a + e - 1 = (q + 1) * e + (r - 1) /\ r - 1 \in 0 .. e - 1
    BY <1>1, <1>3
  <2>2. c = q + 1
    <3> HIDE DEF q, r
    <3>1. q + 1 \in Nat
      BY <1>1
    <3>2. ((q + 1) * e + (r - 1)) \div e = q + 1
      BY <2>1, <3>1, DivModIs
    <3>3. QED
      BY <2>1, <3>2
  <2>3. (c - 1) * e = q * e /\ c * e = q * e + e
    BY <1>1, <2>2
  <2> HIDE DEF q, r, c
  <2>4. QED
    BY <1>1, <1>3, <2>2, <2>3 DEF c, r
<1>4. QED
  BY <1>2, <1>3

-----------------------------------------------------------------------------
(***************************************************************************)
(* Plaintexts and slots.                                                    *)
(***************************************************************************)

\* A sequence has at most as many elements as its length says.
LEMMA RangeIsFinite ==
    ASSUME NEW S, NEW s \in Seq(S)
    PROVE  /\ IsFiniteSet(Range(s)) /\ Cardinality(Range(s)) \in 0 .. Len(s)
           /\ Range(s) \subseteq S
           /\ \A x : x \in Range(s) <=> \E i \in 1 .. Len(s) : s[i] = x
<1>1. Len(s) \in Nat /\ s \in [1 .. Len(s) -> S] /\ DOMAIN s = 1 .. Len(s)
  BY LenProperties
<1>2. s \in Surjection(1 .. Len(s), Range(s))
  BY <1>1 DEF Surjection, Range, IsInjective
<1>3. IsFiniteSet(1 .. Len(s)) /\ Cardinality(1 .. Len(s)) = Len(s)
  BY <1>1, FS_Interval
<1>4. IsFiniteSet(Range(s)) /\ Cardinality(Range(s)) <= Len(s)
  BY <1>2, <1>3, FS_Surjection
<1>5. Cardinality(Range(s)) \in Nat
  BY <1>4, FS_CardinalityType
<1>6. /\ Range(s) \subseteq S
      /\ \A x : x \in Range(s) <=> \E i \in 1 .. Len(s) : s[i] = x
  BY <1>1 DEF Range
<1>7. QED
  BY <1>1, <1>4, <1>5, <1>6

\* Rank counts up by one behind each plaintext of R.
LEMMA RankStep ==
    ASSUME NEW R \in SUBSET Nat, IsFiniteSet(R), NEW q \in Nat
    PROVE  /\ Rank(R, 0) = 0
           /\ Rank(R, q) \in Nat
           /\ Rank(R, q + 1) = IF q \in R THEN Rank(R, q) + 1 ELSE Rank(R, q)
<1> DEFINE Below(p) == {k \in R : k < p}
<1>1. \A p : IsFiniteSet(Below(p)) /\ Cardinality(Below(p)) \in Nat
  BY FS_Subset, FS_CardinalityType
<1>0. \A k \in R : k \in Nat
  OBVIOUS
<1>2. Below(0) = {}
  <2>1. \A k \in R : ~(k < 0)
    BY <1>0
  <2>2. QED
    BY <2>1
<1>3. Below(q + 1) = IF q \in R THEN Below(q) \cup {q} ELSE Below(q)
  <2>1. \A k \in R : k < q + 1 <=> k < q \/ k = q
    BY <1>0
  <2>2. QED
    BY <2>1
<1>4. q \notin Below(q)
  OBVIOUS
<1> HIDE DEF Below
<1>5. q \in R => Cardinality(Below(q + 1)) = Cardinality(Below(q)) + 1
  BY <1>1, <1>3, <1>4, FS_AddElement
<1>6. \A p : Rank(R, p) = Cardinality(Below(p))
  BY DEF Rank, Below
<1>7. QED
  BY <1>1, <1>2, <1>3, <1>5, <1>6, FS_EmptySet

\* Rank orders the plaintexts of R, from 0 on.
LEMMA RankOrders ==
    ASSUME NEW R \in SUBSET Nat, IsFiniteSet(R), NEW q \in Nat, NEW p \in Nat
    PROVE  /\ q <= p => Rank(R, q) <= Rank(R, p)
           /\ q < p /\ q \in R => Rank(R, q) + 1 <= Rank(R, p)
           /\ q \in R => Rank(R, q) < Cardinality(R)
<1> DEFINE Below(n) == {k \in R : k < n}
<1>1. \A n : IsFiniteSet(Below(n)) /\ Cardinality(Below(n)) \in Nat
  BY FS_Subset, FS_CardinalityType
<1>2. \A n : Rank(R, n) = Cardinality(Below(n))
  BY DEF Rank
<1>0. \A k \in R : k \in Nat
  OBVIOUS
<1>3. ASSUME q <= p PROVE Rank(R, q) <= Rank(R, p)
  <2>1. \A k \in R : k < q => k < p
    BY <1>0, <1>3
  <2>2. Below(q) \subseteq Below(p)
    BY <2>1
  <2> HIDE DEF Below
  <2>3. QED
    BY <1>1, <1>2, <2>2, FS_Subset
<1>4. ASSUME q < p, q \in R PROVE Rank(R, q) + 1 <= Rank(R, p)
  <2>1. Below(q) \cup {q} \subseteq Below(p) /\ q \notin Below(q)
    <3>1. (\A k \in R : k < q => k < p) /\ ~(q < q)
      BY <1>0, <1>4
    <3>2. QED
      BY <1>4, <3>1
  <2> HIDE DEF Below
  <2>2. Cardinality(Below(q) \cup {q}) = Cardinality(Below(q)) + 1
    BY <1>1, <2>1, FS_AddElement
  <2>3. Cardinality(Below(q) \cup {q}) <= Cardinality(Below(p))
    BY <1>1, <2>1, FS_Subset
  <2>4. QED
    BY <1>2, <2>2, <2>3
<1>5. ASSUME q \in R PROVE Rank(R, q) < Cardinality(R)
  <2>1. Below(q) \subseteq R /\ Below(q) # R
    BY <1>5
  <2> HIDE DEF Below
  <2>2. Cardinality(Below(q)) <= Cardinality(R)
        /\ Cardinality(Below(q)) # Cardinality(R)
    BY <2>1, FS_Subset
  <2>3. Cardinality(R) \in Nat
    BY FS_CardinalityType
  <2>4. QED
    BY <1>1, <1>2, <2>2, <2>3
<1>6. QED
  BY <1>3, <1>4, <1>5

\* From one slot to the next.
LEMMA SlotsStep ==
    ASSUME NEW R \in SUBSET Nat, IsFiniteSet(R), NEW n \in Nat,
           ele_per_ptxt \in Nat \ {0}
    PROVE  /\ SlotsBefore(R, 0) = 0
           /\ SlotsBefore(R, n) \in Nat
           /\ SlotsBefore(R, n + 1) = IF n \div ele_per_ptxt \in R
                                      THEN SlotsBefore(R, n) + 1
                                      ELSE SlotsBefore(R, n)
<1> DEFINE e == ele_per_ptxt
           q == n \div e
           i == n % e
<1>1. q \in Nat /\ i \in 0 .. e - 1 /\ n = q * e + i
  BY DivMod
<1>2. Rank(R, 0) = 0 /\ Rank(R, q) \in Nat
      /\ Rank(R, q + 1) = IF q \in R THEN Rank(R, q) + 1 ELSE Rank(R, q)
  BY <1>1, RankStep
<1>3. SlotsBefore(R, n) = Rank(R, q) * e + IF q \in R THEN i ELSE 0
  BY DEF SlotsBefore
<1>4. SlotsBefore(R, 0) = 0
  <2>1. (0 * e + 0) \div e = 0 /\ (0 * e + 0) % e = 0
    BY DivModIs
  <2>2. 0 \div e = 0 /\ 0 % e = 0
    BY <2>1
  <2>3. QED
    BY <1>2, <2>2 DEF SlotsBefore
<1> HIDE DEF q, i
<1>5. CASE i + 1 < e
  <2>1. (q * e + (i + 1)) \div e = q /\ (q * e + (i + 1)) % e = i + 1
    BY <1>1, <1>5, DivModIs
  <2>2. n + 1 = q * e + (i + 1)
    BY <1>1
  <2>3. SlotsBefore(R, n + 1) = Rank(R, q) * e + IF q \in R THEN i + 1 ELSE 0
    BY <2>1, <2>2 DEF SlotsBefore
  <2>4. QED
    BY <1>1, <1>2, <1>3, <1>4, <2>3 DEF q
<1>6. CASE i + 1 = e
  <2>1. q + 1 \in Nat /\ 0 \in 0 .. e - 1
    BY <1>1
  <2>2. ((q + 1) * e + 0) \div e = q + 1 /\ ((q + 1) * e + 0) % e = 0
    BY <2>1, DivModIs
  <2>3. n + 1 = (q + 1) * e + 0
    BY <1>1, <1>6
  <2>4. SlotsBefore(R, n + 1) = Rank(R, q + 1) * e + 0
    BY <2>2, <2>3 DEF SlotsBefore
  <2>5. (Rank(R, q) + 1) * e = Rank(R, q) * e + e
    BY <1>2
  <2>6. QED
    BY <1>1, <1>2, <1>3, <1>4, <1>6, <2>4, <2>5 DEF q
<1>7. QED
  BY <1>1, <1>5, <1>6

\* Where an element of a plaintext of R is among all slots and among those of R.
LEMMA SlotOrder ==
    ASSUME NEW R \in SUBSET Nat, IsFiniteSet(R), NEW n \in Nat,
           ele_per_ptxt \in Nat \ {0},
           NEW q \in R, NEW i \in 0 .. ele_per_ptxt - 1
    PROVE  /\ q * ele_per_ptxt + i \in Nat
           /\ Rank(R, q) * ele_per_ptxt + i \in Nat
           /\ q * ele_per_ptxt + i = n =>
                SlotsBefore(R, n) = Rank(R, q) * ele_per_ptxt + i
           /\ q * ele_per_ptxt + i >= n =>
                Rank(R, q) * ele_per_ptxt + i >= SlotsBefore(R, n)
<1> DEFINE e == ele_per_ptxt
           Q == n \div e
           r == n % e
<1>1. Q \in Nat /\ r \in 0 .. e - 1 /\ n = Q * e + r
  BY DivMod
<1>2. q \in Nat /\ Rank(R, q) \in Nat /\ Rank(R, Q) \in Nat
  BY <1>1, RankStep
<1>3. SlotsBefore(R, n) = Rank(R, Q) * e + IF Q \in R THEN r ELSE 0
  BY DEF SlotsBefore
<1>4. q * e + i \in Nat /\ Rank(R, q) * e + i \in Nat
  <2> HIDE DEF Q, r
  <2>1. q * e \in Nat /\ Rank(R, q) * e \in Nat
    BY <1>2
  <2>2. QED
    BY <2>1
<1>5. ASSUME q * e + i = n PROVE SlotsBefore(R, n) = Rank(R, q) * e + i
  <2>1. n \div e = q /\ n % e = i
    BY <1>2, <1>5, DivModIs
  <2>2. QED
    BY <1>2, <2>1 DEF SlotsBefore
<1> HIDE DEF Q, r
<1>6. ASSUME q * e + i >= n
      PROVE  Rank(R, q) * e + i >= SlotsBefore(R, n)
  <2>1. q >= Q
    <3>1. q < Q => q * e + e <= Q * e
      BY <1>1, <1>2, MulMono
    <3>2. q * e \in Nat /\ Q * e \in Nat
      BY <1>1, <1>2
    <3>3. QED
      BY <1>1, <1>2, <1>6, <3>1, <3>2
  <2>2. CASE q = Q
    BY <1>1, <1>2, <1>3, <1>6, <2>2
  <2>3. CASE q > Q
    <3>1. Rank(R, Q) <= Rank(R, q) /\ (Q \in R => Rank(R, Q) + 1 <= Rank(R, q))
      BY <1>1, <1>2, <2>3, RankOrders
    <3>2. Rank(R, Q) * e <= Rank(R, q) * e
      BY <1>2, <3>1, MulMono
    <3>3. Q \in R => Rank(R, Q) * e + e <= Rank(R, q) * e
      BY <1>2, <3>1, MulMono
    <3>4. Rank(R, Q) * e \in Nat /\ Rank(R, q) * e \in Nat
      BY <1>2
    <3>5. QED
      BY <1>1, <1>3, <3>2, <3>3, <3>4
  <2>4. QED
    BY <1>1, <1>2, <2>1, <2>2, <2>3
<1>7. QED
  BY <1>4, <1>5, <1>6

-----------------------------------------------------------------------------
(***************************************************************************)
(* What the operators of the model yield.                                   *)
(***************************************************************************)

\* The sizes, and how many queries it takes to ask for a batch.
LEMMA Sizes ==
    ASSUME ele_per_ptxt \in PtxtSizes
    PROVE  /\ ele_per_ptxt \in Nat \ {0}
           /\ BatchSize \in Nat \ {0} /\ BatchIdNumber \in Nat \ {0}
           /\ RandomIdSize \in Nat \ {0}
           /\ RandomIdSize + BatchSize = BatchIdNumber
           /\ QueryNumber \in Nat \ {0} /\ PtxtNumber \in Nat \ {0}
<1>1. /\ ele_per_ptxt \in Nat \ {0} /\ BatchSize \in Nat \ {0}
      /\ BatchIdNumber \in Nat \ {0} /\ RandomIdSize \in Nat \ {0}
      /\ RandomIdSize + BatchSize = BatchIdNumber
  BY BatchAssumption DEF RandomIdSize
<1>2. QueryNumber \in Nat \ {0} /\ PtxtNumber \in Nat \ {0}
  BY <1>1, CeilIs DEF QueryNumber, PtxtNumber, Ceil
<1>3. QED
  BY <1>1, <1>2

\* What a query writes is of its plaintext and of the batch.
LEMMA LinesFit ==
    ASSUME ele_per_ptxt \in PtxtSizes, NEW p \in 0 .. QueryNumber - 1
    PROVE  /\ Lines(p) \in 0 .. ele_per_ptxt
           /\ \A i \in 1 .. Lines(p) :
                p * ele_per_ptxt + i \in 1 .. BatchSize
<1> DEFINE e == ele_per_ptxt
           c == QueryNumber
           r == BatchSize % e
<1>1. e \in Nat \ {0} /\ BatchSize \in Nat \ {0} /\ c \in Nat \ {0}
  BY Sizes
<1>2. /\ (c - 1) * e < BatchSize
      /\ r = 0 => c * e = BatchSize
      /\ r # 0 => (c - 1) * e + r = BatchSize
  BY <1>1, CeilIs DEF QueryNumber, Ceil
<1>3. r \in 0 .. e - 1
  BY <1>1, DivMod
<1>4. p \in Nat /\ c - 1 \in Nat /\ p * e \in Nat /\ (c - 1) * e \in Nat
  BY <1>1
<1>5. Lines(p) = IF p = c - 1 THEN r ELSE e
  BY DEF Lines
<1> HIDE DEF e, c, r
<1>6. CASE p = c - 1
  BY <1>1, <1>2, <1>3, <1>4, <1>5, <1>6 DEF e
<1>7. CASE p < c - 1
  <2>1. p * e + e <= (c - 1) * e
    BY <1>1, <1>4, <1>7, MulMono
  <2>2. QED
    BY <1>1, <1>2, <1>4, <1>5, <1>7, <2>1 DEF e
<1>8. QED
  BY <1>1, <1>6, <1>7 DEF c

\* An element or garbage.
LEMMA AtType ==
    ASSUME NEW S, NEW s \in Seq(S), NEW i
    PROVE  /\ At(s, i) \in S \cup {Garbage}
           /\ i \in 1 .. Len(s) => At(s, i) = s[i]
           /\ i \notin 1 .. Len(s) => At(s, i) = Garbage
<1>1. s \in [1 .. Len(s) -> S] /\ DOMAIN s = 1 .. Len(s)
  BY LenProperties
<1>2. QED
  BY <1>1 DEF At

\* Ids read as numbers are ids or 0, as many as there are.
LEMMA NumbersType ==
    ASSUME NEW s \in Seq(Id)
    PROVE  /\ Numbers(s) \in Seq(Id \cup {0}) /\ Len(Numbers(s)) = Len(s)
           /\ DOMAIN Numbers(s) = 1 .. Len(s)
<1>1. Len(s) \in Nat /\ s \in [1 .. Len(s) -> Id] /\ DOMAIN s = 1 .. Len(s)
  BY LenProperties
<1> DEFINE f == Numbers(s)
<1>2. f \in [1 .. Len(s) -> Id \cup {0}]
  BY <1>1 DEF Numbers
<1>3. DOMAIN f = 1 .. Len(s)
  BY <1>2
<1> HIDE DEF f
<1>4. f \in Seq(Id \cup {0}) /\ Len(f) = Len(s)
  BY <1>1, <1>2, <1>3
<1>5. QED
  BY <1>3, <1>4 DEF f

\* process_batch_ids fills batch_query_ids, with garbage behind the batch.
LEMMA BatchIdsType ==
    ASSUME NEW batch \in BatchFiles
    PROVE  LET b == [i \in 1 .. BatchSize |-> At(Numbers(batch), i)]
           IN  b \in Seq(Number) /\ Len(b) = BatchSize
<1> DEFINE b == [i \in 1 .. BatchSize |-> At(Numbers(batch), i)]
<1>1. BatchSize \in Nat /\ batch \in Seq(Id)
  BY BatchAssumption
<1>2. Numbers(batch) \in Seq(Id \cup {0})
  BY <1>1, NumbersType
<1>3. \A i \in 1 .. BatchSize : At(Numbers(batch), i) \in Number
  BY <1>2, AtType DEF Number
<1>4. b \in [1 .. BatchSize -> Number] /\ DOMAIN b = 1 .. BatchSize
  BY <1>3
<1> HIDE DEF b
<1>5. b \in Seq(Number) /\ Len(b) = BatchSize
  BY <1>1, <1>4
<1>6. QED
  BY <1>5 DEF b

\* random_pick yields what an id file can yield, which may be garbage.
LEMMA CandidatesType ==
    ASSUME id_map \in IdMaps, NEW g \in DOMAIN id_map
    PROVE  Candidates(g) \subseteq Number
<1>1. id_map \in Seq([ids : Seq(Id), count : Nat])
  BY BatchAssumption
<1>2. id_map[g] \in [ids : Seq(Id), count : Nat]
  BY <1>1, LenProperties
<1>3. \A i : At(id_map[g].ids, i) \in Number
  BY <1>2, AtType DEF Number
<1>4. Range(GroupIds(g)) \subseteq Number
  <2> DEFINE ind(j) == Min({j, Min({i \in DOMAIN id_map[g].ids :
                                id_map[g].ids[i] \in Lettered}
                                \cup {Len(id_map[g].ids)})})
  <2>1. GroupIds(g) =
            [j \in 1 .. id_map[g].count |-> At(id_map[g].ids, ind(j))]
    BY DEF GroupIds
  <2> HIDE DEF ind
  <2>2. QED
    BY <1>3, <2>1 DEF Range
<1>5. QED
  BY <1>4 DEF Candidates

\* The smaller of two numbers.
LEMMA MinOfTwo ==
    ASSUME NEW a \in Int, NEW b \in Int
    PROVE  (a <= b => Min({a, b}) = a) /\ (b <= a => Min({a, b}) = b)
<1>1. ASSUME NEW m \in {a, b}, \A y \in {a, b} : m <= y
      PROVE  Min({a, b}) = m
  <2>1. ASSUME NEW x \in {a, b}, \A y \in {a, b} : x <= y PROVE x = m
    BY <1>1, <2>1
  <2>2. QED
    BY <1>1, <2>1 DEF Min
<1>2. a <= b => \A y \in {a, b} : a <= y
  OBVIOUS
<1>3. b <= a => \A y \in {a, b} : b <= y
  OBVIOUS
<1>4. QED
  BY <1>1, <1>2, <1>3

\* A line of the data file.
LEMMA LineReadIs ==
    ASSUME data \in DataFiles, line \in Nat
    PROVE  /\ data \in Seq(Id) /\ Len(data) \in Nat \ {0}
           /\ DOMAIN data = 1 .. Len(data)
           /\ LineRead \in DOMAIN data
           /\ line < Len(data) => LineRead = line + 1
           /\ line >= Len(data) => LineRead = Len(data)
<1>1. data \in Seq(Id) /\ data # <<>>
  BY BatchAssumption
<1>2. Len(data) \in Nat \ {0} /\ DOMAIN data = 1 .. Len(data)
  BY <1>1, EmptySeq, LenProperties
<1>3. /\ line < Len(data) => LineRead = line + 1
      /\ line >= Len(data) => LineRead = Len(data)
  <2>1. line + 1 \in Int /\ Len(data) \in Int
    BY <1>2
  <2>2. /\ line + 1 <= Len(data) => LineRead = line + 1
        /\ Len(data) <= line + 1 => LineRead = Len(data)
    BY <2>1, MinOfTwo DEF LineRead
  <2>3. QED
    BY <1>2, <2>2
<1>4. LineRead \in 1 .. Len(data)
  BY <1>2, <1>3
<1>5. QED
  BY <1>1, <1>2, <1>3, <1>4

\* What the line read is read as; a last line that is read again may be read as
\* 0.
LEMMA CurrentIdIs ==
    ASSUME data \in DataFiles, line \in Nat, HasLine
    PROVE  /\ CurrentId \in Id \cup {0}
           /\ line < Len(data) => Numbers(data)[line + 1] = CurrentId
           /\ line >= Len(data) =>
                /\ data \in Unterminated
                /\ CurrentId # 0 => Numbers(data)[Len(data)] = CurrentId
<1>1. /\ data \in Seq(Id) /\ Len(data) \in Nat \ {0}
      /\ DOMAIN data = 1 .. Len(data)
      /\ line < Len(data) => LineRead = line + 1
      /\ line >= Len(data) => LineRead = Len(data)
  BY LineReadIs
<1>2. /\ Numbers(data) \in Seq(Id \cup {0}) /\ Len(Numbers(data)) = Len(data)
      /\ data \in [1 .. Len(data) -> Id]
  BY <1>1, NumbersType, LenProperties
<1> DEFINE n == Len(data)
<1>0. n \in Nat \ {0} /\ n = Len(data)
  BY <1>1
<1> HIDE DEF n
<1>3. CASE line < Len(data)
  <2>1. CurrentId = Numbers(data)[line + 1]
    BY <1>1, <1>3 DEF CurrentId
  <2>2. line + 1 \in 1 .. n
    BY <1>0, <1>3
  <2>3. CurrentId \in Id \cup {0}
    BY <1>2, <1>0, <2>1, <2>2, ElementOfSeq
  <2>4. QED
    BY <1>0, <1>3, <2>1, <2>3
<1>4. CASE line >= Len(data)
  <2>1. ~(line < Len(data))
    BY <1>1, <1>4
  <2>2. data \in Unterminated
    BY <2>1 DEF HasLine
  <2>3. CurrentId = IF Range(data) \cap Lettered # {} THEN 0
                    ELSE data[Len(data)]
    BY <2>1 DEF CurrentId, Last
  <2>4. Len(data) \in 1 .. Len(data)
    BY <1>1
  <2>5. CurrentId \in Id \cup {0}
    BY <1>2, <2>3, <2>4
  <2>6. ASSUME CurrentId # 0
        PROVE  Numbers(data)[Len(data)] = CurrentId
    <3>1. \A j \in 1 .. Len(data) : data[j] \notin Lettered
      BY <1>1, <2>3, <2>6 DEF Range
    <3>2. \A j \in 1 .. Len(data) - 1 : data[j] \notin Lettered
      BY <1>1, <3>1
    <3>3. Numbers(data)[Len(data)] = data[Len(data)]
      BY <1>1, <2>4, <3>2 DEF Numbers
    <3>4. QED
      BY <2>3, <2>6, <3>3
  <2>7. QED
    BY <2>1, <2>2, <2>5, <2>6
<1>5. QED
  BY <1>1, <1>3, <1>4

\* Some of the first n numbers have a greatest among them: of the intervals from
\* one of them to n, one is contained in all others.
LEMMA Greatest ==
    ASSUME NEW n \in Nat, NEW S \in SUBSET (1 .. n), S # {}
    PROVE  \E m \in S : \A k \in S : k <= m
<1> DEFINE F == {k .. n : k \in S}
           R == StrictSubsetOrdering(Nat)
           U == FiniteSubsetsOf(Nat)
<1>0. \A k \in S : k \in Nat /\ k <= n
  OBVIOUS
<1>1. IsWellFoundedOn(R, U)
  BY FS_StrictSubsetOrderingWellFounded
<1>2. F \subseteq U /\ F # {}
  <2>1. ASSUME NEW k \in S
        PROVE  k .. n \in U
    <3>1. k .. n \subseteq Nat
      BY <1>0
    <3>2. IsFiniteSet(k .. n)
      BY <1>0, FS_Interval
    <3>3. QED
      BY <3>1, <3>2 DEF FiniteSubsetsOf
  <2>2. QED
    BY <2>1
<1>3. PICK X \in F : \A Y \in F : ~(<<Y, X>> \in R)
  <2> HIDE DEF F, R, U
  <2>1. QED
    BY <1>1, <1>2, WFMin
<1>4. PICK m \in S : X = m .. n
  OBVIOUS
<1>5. ASSUME NEW k \in S, m < k
      PROVE  FALSE
  <2>1. k .. n \in SUBSET Nat /\ X \in SUBSET Nat
    BY <1>0, <1>4
  <2>2. k .. n \subseteq X /\ m \in X /\ m \notin k .. n
    BY <1>0, <1>4, <1>5
  <2>3. <<k .. n, X>> \in R
    BY <2>1, <2>2 DEF StrictSubsetOrdering
  <2>4. QED
    BY <2>3, <1>3
<1>6. QED
  BY <1>0, <1>5

\* Where batch_ids_map finds an id.
LEMMA IndexOfIs ==
    ASSUME batch_ids \in Seq(Number), NEW id \in Range(batch_ids)
    PROVE  /\ IndexOf(id) \in Nat
           /\ IndexOf(id) + 1 \in 1 .. Len(batch_ids)
           /\ batch_ids[IndexOf(id) + 1] = id
<1> DEFINE S == {i \in DOMAIN batch_ids : batch_ids[i] = id}
<1>1. Len(batch_ids) \in Nat /\ DOMAIN batch_ids = 1 .. Len(batch_ids)
  BY LenProperties
<1>2. S \in SUBSET (1 .. Len(batch_ids)) /\ S # {}
  BY <1>1 DEF Range
<1>3. Max(S) \in S
  <2> HIDE DEF S
  <2>1. PICK m \in S : \A k \in S : k <= m
    BY <1>1, <1>2, Greatest
  <2>2. \A k \in S : m >= k
    BY <1>1, <1>2, <2>1
  <2>3. QED
    BY <2>2 DEF Max
<1>4. Max(S) \in 1 .. Len(batch_ids) /\ batch_ids[Max(S)] = id
  BY <1>1, <1>3
<1>5. IndexOf(id) = Max(S) - 1
  BY DEF IndexOf
<1> HIDE DEF S
<1>6. QED
  BY <1>1, <1>4, <1>5

-----------------------------------------------------------------------------
(***************************************************************************)
(* Types.                                                                   *)
(***************************************************************************)

\* The end of either program empties what it had in memory.
LEMMA EmptyTypes ==
    /\ <<>> \in Seq(Number) /\ Len(<<>>) = 0
    /\ <<>> \in Seq([id : Number, record : DOMAIN data \cup {Garbage}])
    /\ <<>> \in Seq(0 .. PtxtNumber - 1)
    /\ [i \in Index |-> Garbage] \in [Index -> DOMAIN data \cup {Garbage}]
BY EmptySeq

\* Types of what the client's preprocessing writes.
LEMMA PreprocessTypes ==
    ASSUME IInv, Preprocess
    PROVE  BatchTypeOK'
<1>1. BatchTypeOK /\ PlaceInv /\ ClientInv
  BY DEF IInv
<1>2. /\ ele_per_ptxt \in Nat \ {0} /\ BatchSize \in Nat \ {0}
      /\ BatchIdNumber \in Nat \ {0} /\ RandomIdSize \in Nat \ {0}
      /\ QueryNumber \in Nat \ {0} /\ PtxtNumber \in Nat \ {0}
  BY <1>1, Sizes DEF BatchTypeOK
<1>3. CASE PickRandom
  <2>1. PICK g \in DOMAIN id_map : \E id \in Candidates(g) :
            random_ids' = Append(random_ids, id)
    BY <1>3 DEF PickRandom
  <2>2. PICK id \in Candidates(g) : random_ids' = Append(random_ids, id)
    BY <2>1
  <2>3. id \in Number /\ random_ids \in Seq(Number)
    BY <1>1, <2>2, CandidatesType DEF BatchTypeOK
  <2>4. random_ids' \in Seq(Number) /\ Len(random_ids') = Len(random_ids) + 1
    BY <2>2, <2>3, AppendProperties
  <2>5. Len(random_ids) \in Nat /\ Len(random_ids) < RandomIdSize
    BY <1>3, <2>3, LenProperties DEF PickRandom
  <2>6. Len(random_ids') <= RandomIdSize
    BY <1>2, <2>4, <2>5
  <2>7. QED
    BY <1>1, <1>3, <2>4, <2>6
       DEF BatchTypeOK, PickRandom, settings, file, server, found, PtxtNumber,
           QueryNumber
<1>4. CASE PickFromEmpty
  BY <1>1, <1>2, <1>4, EmptyTypes
     DEF BatchTypeOK, PickFromEmpty, ClientEnds, settings, file, server, found,
         PtxtNumber, QueryNumber
<1>5. CASE OpenPreprocess
  <2>1. /\ indexes' \in Seq(0 .. PtxtNumber - 1) /\ Len(indexes') = 0
        /\ ids' \in Seq(Number) /\ Len(ids') = 0
    BY <1>5, EmptyTypes DEF OpenPreprocess
  <2>2. PtxtNumber' = PtxtNumber /\ QueryNumber' = QueryNumber
    BY <1>5 DEF OpenPreprocess, settings, PtxtNumber, QueryNumber
  <2>3. Len(indexes') <= QueryNumber /\ Len(ids') <= BatchIdNumber
    BY <1>2, <2>1
  <2>4. QED
    BY <1>1, <1>5, <2>1, <2>2, <2>3
       DEF BatchTypeOK, OpenPreprocess, settings, memory, server, found
<1>6. CASE DrawIndex
  <2>1. PICK q \in 0 .. PtxtNumber - 1 : indexes' = Append(indexes, q)
    BY <1>6 DEF DrawIndex
  <2>2. indexes \in Seq(0 .. PtxtNumber - 1)
    BY <1>1 DEF BatchTypeOK
  <2>3. /\ indexes' \in Seq(0 .. PtxtNumber - 1)
        /\ Len(indexes') = Len(indexes) + 1
    BY <2>1, <2>2, AppendProperties
  <2>4. Len(indexes) \in Nat /\ Len(indexes) < QueryNumber
    BY <1>1, <1>6, <2>2, LenProperties DEF DrawIndex, PlaceInv
  <2>5. Len(indexes') <= QueryNumber
    BY <1>2, <2>3, <2>4
  <2>6. PtxtNumber' = PtxtNumber /\ QueryNumber' = QueryNumber
    BY <1>6 DEF DrawIndex, settings, PtxtNumber, QueryNumber
  <2>7. cpc' \in {"index", "place"}
    BY <1>6 DEF DrawIndex
  <2>8. QED
    BY <1>1, <1>6, <2>3, <2>5, <2>6, <2>7
       DEF BatchTypeOK, DrawIndex, settings, memory, server, found
<1>7. ASSUME NEW id \in Number, NEW n \in 0 .. BatchSize, Place(id, n),
             cpc = "place"
      PROVE  BatchTypeOK'
  <2>1. ids \in Seq(Number) /\ batch_query_ids \in Seq(Number)
    BY <1>1 DEF BatchTypeOK
  <2>2. ids' \in Seq(Number) /\ Len(ids') = Len(ids) + 1
    BY <1>7, <2>1, AppendProperties DEF Place
  <2>3. Len(ids) \in Nat /\ Len(ids) < BatchIdNumber
    BY <1>1, <1>7, <2>1, LenProperties DEF PlaceInv
  <2>4. Len(ids') <= BatchIdNumber
    BY <1>2, <2>2, <2>3
  <2>5. PtxtNumber' = PtxtNumber /\ QueryNumber' = QueryNumber
    BY <1>7 DEF Place, settings, PtxtNumber, QueryNumber
  <2>6. /\ cpc' \in {"place", "read"}
        /\ placed_for' \in Seq(Number) \cup {Garbage}
        /\ random_ids' \in Seq(Number) /\ Len(random_ids') <= RandomIdSize
    <3>1. CASE Len(ids') < BatchIdNumber
      BY <1>1, <1>7, <3>1 DEF Place, BatchTypeOK
    <3>2. CASE ~(Len(ids') < BatchIdNumber)
      <4>1. cpc' = "read" /\ placed_for' = batch_query_ids /\ random_ids' = <<>>
        BY <1>7, <3>2 DEF Place
      <4>2. random_ids' \in Seq(Number) /\ Len(random_ids') = 0
        BY <4>1, EmptyTypes
      <4>3. QED
        BY <1>2, <2>1, <4>1, <4>2
    <3>3. QED
      BY <3>1, <3>2
  <2>7. batch_id_idx' \in 0 .. BatchSize
    BY <1>7 DEF Place
  <2>8. QED
    BY <1>1, <1>7, <2>2, <2>4, <2>5, <2>6, <2>7
       DEF BatchTypeOK, Place, settings, server, found
<1>8. CASE PlaceBatchId
  <2>1. /\ Len(batch_query_ids) = BatchSize /\ batch_query_ids \in Seq(Number)
        /\ batch_id_idx \in 0 .. BatchSize - 1
    BY <1>1, <1>2, <1>8 DEF PlaceBatchId, BatchTypeOK, ClientInv
  <2>2. batch_id_idx + 1 \in 1 .. Len(batch_query_ids)
    BY <1>2, <2>1
  <2>3. batch_query_ids[batch_id_idx + 1] \in Number
    BY <2>1, <2>2, ElementOfSeq
  <2>4. batch_id_idx + 1 \in 0 .. BatchSize
    BY <1>2, <2>1
  <2>5. QED
    BY <1>7, <1>8, <2>3, <2>4 DEF PlaceBatchId
<1>9. CASE PlaceRandomId
  <2>1. At(random_ids, Len(ids) - batch_id_idx + 1) \in Number
    BY <1>1, AtType DEF BatchTypeOK, Number
  <2>2. QED
    BY <1>1, <1>7, <1>9, <2>1 DEF PlaceRandomId, BatchTypeOK
<1>10. QED
  BY <1>3, <1>4, <1>5, <1>6, <1>8, <1>9 DEF Preprocess

\* The plaintexts a client asks for.
LEMMA AskedFor ==
    ASSUME IInv, ReadPreprocess
    PROVE  /\ batch_query_index' \subseteq 0 .. PtxtNumber
           /\ IsFiniteSet(batch_query_index')
           /\ Cardinality(batch_query_index') \in 1 .. QueryNumber
           /\ indexes # <<>> => batch_query_index' = Range(indexes)
<1>1. BatchTypeOK
  BY DEF IInv
<1>2. QueryNumber \in Nat \ {0} /\ PtxtNumber \in Nat \ {0}
  BY <1>1, Sizes DEF BatchTypeOK
<1>3. indexes \in Seq(0 .. PtxtNumber - 1) /\ Len(indexes) <= QueryNumber
  BY <1>1 DEF BatchTypeOK
<1>4. CASE indexes # <<>>
  <2>1. batch_query_index' = Range(indexes)
    BY <1>4 DEF ReadPreprocess
  <2>2. /\ IsFiniteSet(Range(indexes))
        /\ Cardinality(Range(indexes)) \in 0 .. Len(indexes)
        /\ Range(indexes) \subseteq 0 .. PtxtNumber - 1
    BY <1>3, RangeIsFinite
  <2>3. Len(indexes) \in Nat \ {0} /\ DOMAIN indexes = 1 .. Len(indexes)
    BY <1>3, <1>4, EmptySeq, LenProperties
  <2>4. Range(indexes) # {}
    <3>1. 1 \in DOMAIN indexes
      BY <2>3
    <3>2. QED
      BY <3>1 DEF Range
  <2>5. Cardinality(Range(indexes)) # 0
    BY <2>2, <2>4, FS_EmptySet
  <2>6. 0 .. PtxtNumber - 1 \subseteq 0 .. PtxtNumber
    BY <1>2
  <2>7. QED
    BY <1>2, <1>3, <2>1, <2>2, <2>3, <2>5, <2>6
<1>5. CASE indexes = <<>>
  <2>1. PICK q \in 0 .. PtxtNumber : batch_query_index' = {q}
    BY <1>5 DEF ReadPreprocess
  <2>2. IsFiniteSet({q}) /\ Cardinality({q}) = 1
    BY FS_Singleton
  <2>3. QED
    BY <1>2, <1>5, <2>1, <2>2
<1>6. QED
  BY <1>4, <1>5

\* What a query adds to the result file.
LEMMA AddedLines ==
    ASSUME IInv, Query
    PROVE  \E q \in batch_query_index :
            LET p == Position(q)
                added == [i \in 1 .. Lines(p) |->
                            [id |-> At(batch_query_ids, p * ele_per_ptxt + i),
                             record |-> Reply(q)[i - 1]]]
            IN  /\ p = asked /\ p \in 0 .. QueryNumber - 1
                /\ Lines(p) \in 0 .. ele_per_ptxt
                /\ results' = results \o added
                /\ added \in Seq([id : Number, record : DOMAIN data \cup {Garbage}])
                /\ Len(added) = Lines(p)
<1>1. BatchTypeOK /\ ClientInv
  BY DEF IInv
<1>2. PICK q \in batch_query_index :
        /\ Position(q) = asked
        /\ results' = results \o
             [i \in 1 .. Lines(Position(q)) |->
                [id |-> At(batch_query_ids, Position(q) * ele_per_ptxt + i),
                 record |-> Reply(q)[i - 1]]]
  BY DEF Query, Position
<1> DEFINE p == Position(q)
           added == [i \in 1 .. Lines(p) |->
                        [id |-> At(batch_query_ids, p * ele_per_ptxt + i),
                         record |-> Reply(q)[i - 1]]]
<1>3. p \in 0 .. QueryNumber - 1
  <2>1. QueryNumber \in Nat /\ asked \in Nat
        /\ Cardinality(batch_query_index) \in 1 .. QueryNumber
        /\ asked < Cardinality(batch_query_index)
    BY <1>1, Sizes DEF BatchTypeOK, ClientInv, Query
  <2>2. QED
    BY <1>2, <2>1
<1>4. Lines(p) \in 0 .. ele_per_ptxt /\ ele_per_ptxt \in Nat
  BY <1>1, <1>3, LinesFit, Sizes DEF BatchTypeOK
<1>5. ASSUME NEW i \in 1 .. Lines(p)
      PROVE  [id |-> At(batch_query_ids, p * ele_per_ptxt + i),
              record |-> Reply(q)[i - 1]]
                \in [id : Number, record : DOMAIN data \cup {Garbage}]
  <2>1. At(batch_query_ids, p * ele_per_ptxt + i) \in Number
    BY <1>1, AtType DEF BatchTypeOK, Number
  <2>2. i - 1 \in 0 .. ele_per_ptxt - 1
    BY <1>4
  <2>3. Reply(q)[i - 1] \in DOMAIN data \cup {Garbage}
    BY <1>1, <2>2 DEF Reply, BatchTypeOK
  <2>4. QED
    BY <2>1, <2>3
<1>6. /\ added \in Seq([id : Number, record : DOMAIN data \cup {Garbage}])
      /\ Len(added) = Lines(p)
  <2> DEFINE T == [id : Number, record : DOMAIN data \cup {Garbage}]
             n == Lines(p)
  <2>1. added \in [1 .. n -> T] /\ DOMAIN added = 1 .. n
    BY <1>5
  <2>2. n \in Nat
    BY <1>4
  <2> HIDE DEF added, T, n
  <2>3. added \in Seq(T) /\ Len(added) = n
    BY <2>1, <2>2
  <2>4. QED
    BY <2>3 DEF T, n
<1>7. QED
  BY <1>2, <1>3, <1>4, <1>6

\* Types of what both programs write when they are connected.
LEMMA ConnectedTypes ==
    ASSUME IInv,
           ReadPreprocess \/ Connect \/ SendIds \/ KeysAsQuery \/ ServerGone
               \/ Query \/ QueryAsKeys
    PROVE  BatchTypeOK'
<1>1. BatchTypeOK /\ ClientInv
  BY DEF IInv
<1>2. /\ BatchIdNumber \in Nat \ {0} /\ QueryNumber \in Nat \ {0}
      /\ ele_per_ptxt \in Nat \ {0}
  BY <1>1, Sizes DEF BatchTypeOK
<1>3. CASE ReadPreprocess
  <2>1. batch_query_index' \subseteq 0 .. PtxtNumber
    BY <1>3, AskedFor
  <2>2. buffer' \in Seq(Number) /\ Len(buffer') = BatchIdNumber
    <3> DEFINE b == [i \in 1 .. BatchIdNumber |-> At(ids, Min({i, Len(ids)}))]
    <3>1. buffer' = b
      BY <1>3 DEF ReadPreprocess
    <3>2. \A i : At(ids, i) \in Number
      BY <1>1, AtType DEF BatchTypeOK, Number
    <3>3. b \in [1 .. BatchIdNumber -> Number] /\ DOMAIN b = 1 .. BatchIdNumber
      BY <3>2
    <3> HIDE DEF b
    <3>4. b \in Seq(Number) /\ Len(b) = BatchIdNumber
      BY <1>2, <3>3
    <3>5. QED
      BY <3>1, <3>4
  <2>3. PtxtNumber' = PtxtNumber /\ QueryNumber' = QueryNumber
    BY <1>3 DEF ReadPreprocess, settings, PtxtNumber, QueryNumber
  <2>4. QED
    BY <1>1, <1>3, <2>1, <2>2, <2>3
       DEF BatchTypeOK, ReadPreprocess, settings, file, server, found
<1>4. CASE Connect
  BY <1>1, <1>4
     DEF BatchTypeOK, Connect, settings, file, memory, found, PtxtNumber,
         QueryNumber
<1>5. CASE SendIds
  BY <1>1, <1>5, EmptyTypes
     DEF BatchTypeOK, SendIds, settings, file, PtxtNumber, QueryNumber
<1>6. ASSUME ClientEnds("lost"), ServerEnds("down") \/ UNCHANGED server,
             UNCHANGED settings, UNCHANGED stopped
      PROVE  BatchTypeOK'
  <2>1. PtxtNumber' = PtxtNumber /\ QueryNumber' = QueryNumber
    BY <1>6 DEF settings, PtxtNumber, QueryNumber
  <2>2. /\ spc' \in {"listen", "receive", "scan", "serve", "down"}
        /\ batch_ids' \in Seq(Number)
        /\ line' \in 0 .. ScanLimit /\ count' \in 0 .. line'
        /\ db' \in [Index -> DOMAIN data \cup {Garbage}]
    <3>1. CASE ServerEnds("down")
      <4>1. /\ batch_ids' \in Seq(Number)
            /\ db' \in [Index -> DOMAIN data \cup {Garbage}]
            /\ spc' = "down" /\ line' = 0 /\ count' = 0
        BY <3>1, EmptyTypes DEF ServerEnds
      <4>2. 0 \in 0 .. ScanLimit /\ 0 \in 0 .. 0
        BY BatchAssumption
      <4>3. QED
        BY <4>1, <4>2
    <3>2. CASE UNCHANGED server
      BY <1>1, <3>2 DEF BatchTypeOK, server, found
    <3>3. QED
      BY <1>6, <3>1, <3>2
  <2>3. /\ batch_query_ids' \in Seq(Number) /\ Len(batch_query_ids') = 0
        /\ random_ids' \in Seq(Number) /\ Len(random_ids') = 0
        /\ batch_id_idx' = 0 /\ batch_query_index' = {} /\ asked' = 0
        /\ buffer' \in Seq(Number) /\ Len(buffer') = 0
        /\ results' \in Seq([id : Number, record : DOMAIN data \cup {Garbage}])
        /\ cpc' = "lost"
    BY <1>6, EmptyTypes DEF ClientEnds
  <2>4. 0 <= RandomIdSize /\ 0 \in 0 .. BatchSize /\ 0 \in 0 .. QueryNumber
    BY <1>1, <1>2, Sizes DEF BatchTypeOK
  <2>5. QED
    BY <1>1, <1>6, <2>1, <2>2, <2>3, <2>4
       DEF BatchTypeOK, ClientEnds, settings, file
<1>7. CASE KeysAsQuery \/ ServerGone \/ QueryAsKeys
  BY <1>6, <1>7 DEF KeysAsQuery, ServerGone, QueryAsKeys
<1>8. CASE Query
  <2>1. results' \in Seq([id : Number, record : DOMAIN data \cup {Garbage}])
    <3> DEFINE T == [id : Number, record : DOMAIN data \cup {Garbage}]
    <3>1. PICK added \in Seq(T) : results' = results \o added
      BY <1>8, AddedLines
    <3>2. results \in Seq(T)
      BY <1>1 DEF BatchTypeOK
    <3> HIDE DEF T
    <3>3. results' \in Seq(T)
      BY <3>1, <3>2, ConcatProperties
    <3>4. QED
      BY <3>3 DEF T
  <2>2. asked' \in 0 .. QueryNumber
    BY <1>1, <1>2, <1>8 DEF BatchTypeOK, ClientInv, Query
  <2>3. PtxtNumber' = PtxtNumber /\ QueryNumber' = QueryNumber
    BY <1>8 DEF Query, settings, PtxtNumber, QueryNumber
  <2>4. cpc' \in {"done", "query"}
    BY <1>8 DEF Query
  <2>5. QED
    BY <1>1, <1>8, <2>1, <2>2, <2>3, <2>4
       DEF BatchTypeOK, Query, settings, file, server, found
<1>9. QED
  BY <1>3, <1>4, <1>5, <1>7, <1>8

\* Types of what the scan writes.
LEMMA ScanTypes ==
    ASSUME IInv, Scan
    PROVE  BatchTypeOK'
<1>1. BatchTypeOK
  BY DEF IInv
<1>2. PtxtNumber' = PtxtNumber /\ QueryNumber' = QueryNumber
  BY DEF Scan, ScanLine, ScanPastEnd, ScanLimitReached, settings, PtxtNumber,
         QueryNumber
<1>3. line \in Nat /\ count \in 0 .. line /\ ScanLimit \in Nat
  BY <1>1, BatchAssumption DEF BatchTypeOK
<1>4. CASE ScanLine
  <2>1. line' = line + 1 /\ line < ScanLimit /\ spc' \in {"serve", "scan"}
    BY <1>4 DEF ScanLine
  <2>2. count' = count + 1 \/ count' = count
    BY <1>4 DEF ScanLine
  <2>3. line' \in 0 .. ScanLimit /\ count' \in 0 .. line'
    BY <1>3, <2>1, <2>2
  <2>4. LineRead \in DOMAIN data
    BY <1>1, <1>3, LineReadIs DEF BatchTypeOK
  <2>5. db' \in [Index -> DOMAIN data \cup {Garbage}]
    BY <1>1, <1>4, <2>4 DEF ScanLine, BatchTypeOK
  <2>6. QED
    BY <1>1, <1>2, <1>4, <2>1, <2>3, <2>5
       DEF BatchTypeOK, ScanLine, settings, client, file, memory
<1>5. CASE ScanPastEnd
  <2>1. /\ batch_ids' \in Seq(Number)
        /\ db' \in [Index -> DOMAIN data \cup {Garbage}]
        /\ spc' = "down" /\ line' = 0 /\ count' = 0
    BY <1>5, EmptyTypes DEF ScanPastEnd, ServerEnds
  <2>2. 0 \in 0 .. ScanLimit /\ 0 \in 0 .. 0
    BY <1>3
  <2>3. QED
    BY <1>1, <1>2, <1>5, <2>1, <2>2
       DEF BatchTypeOK, ScanPastEnd, settings, client, file, memory
<1>6. CASE ScanLimitReached
  BY <1>1, <1>2, <1>6
     DEF BatchTypeOK, ScanLimitReached, settings, client, file, memory, found
<1>7. QED
  BY <1>4, <1>5, <1>6 DEF Scan

\* Types of everything, at every step.
LEMMA TypeStep ==
    ASSUME IInv, [Next]_vars
    PROVE  BatchTypeOK'
<1>1. BatchTypeOK
  BY DEF IInv
<1>2. CASE UNCHANGED vars
  BY <1>1, <1>2
     DEF BatchTypeOK, vars, settings, client, server, file, memory, found,
         PtxtNumber, QueryNumber
<1>3. ASSUME NEW batch \in BatchFiles, NEW b \in BOOLEAN, StartClient(batch, b)
      PROVE  BatchTypeOK'
  <2>1. PtxtNumber' = PtxtNumber /\ QueryNumber' = QueryNumber
    BY <1>3 DEF StartClient, settings, PtxtNumber, QueryNumber
  <2>2. batch_query_ids' \in Seq(Number) /\ Len(batch_query_ids') = BatchSize
    BY <1>3, BatchIdsType DEF StartClient
  <2>3. runs' \in 0 .. Len(Runs)
    <3> DEFINE n == Len(Runs)
    <3>1. n \in Nat
      BY BatchAssumption, LenProperties
    <3>2. runs \in 0 .. n /\ runs < n /\ runs' = runs + 1
      BY <1>1, <1>3 DEF BatchTypeOK, StartClient
    <3> HIDE DEF n
    <3>3. runs' \in 0 .. n
      BY <3>1, <3>2
    <3>4. QED
      BY <3>3 DEF n
  <2>4. /\ random_ids' \in Seq(Number) /\ Len(random_ids') = 0
        /\ batch_id_idx' = 0 /\ batch_query_index' = {} /\ asked' = 0
        /\ buffer' \in Seq(Number) /\ Len(buffer') = 0
        /\ results' \in Seq([id : Number, record : DOMAIN data \cup {Garbage}])
        /\ cpc' \in {"pick", "read"} /\ stopped' \in BOOLEAN
    BY <1>3, EmptyTypes DEF StartClient
  <2>5. 0 <= RandomIdSize /\ 0 \in 0 .. BatchSize /\ 0 \in 0 .. QueryNumber
    BY <1>1, Sizes DEF BatchTypeOK
  <2>6. QED
    BY <1>1, <1>3, <2>1, <2>2, <2>3, <2>4, <2>5
       DEF BatchTypeOK, StartClient, settings, file, server, found
<1>4. ASSUME StopClient \/ RestartServer
      PROVE  BatchTypeOK'
  <2>1. /\ UNCHANGED settings /\ stopped' = TRUE
        /\ UNCHANGED client \/ \E how \in {"off", "lost"} : ClientEnds(how)
        /\ UNCHANGED server \/ \E how \in {"down", "listen"} : ServerEnds(how)
    BY <1>4 DEF StopClient, RestartServer
  <2>2. PtxtNumber' = PtxtNumber /\ QueryNumber' = QueryNumber
    BY <2>1 DEF settings, PtxtNumber, QueryNumber
  <2>3. /\ spc' \in {"listen", "receive", "scan", "serve", "down"}
        /\ batch_ids' \in Seq(Number)
        /\ line' \in 0 .. ScanLimit /\ count' \in 0 .. line'
        /\ db' \in [Index -> DOMAIN data \cup {Garbage}]
    <3>1. CASE UNCHANGED server
      BY <1>1, <3>1 DEF BatchTypeOK, server, found
    <3>2. ASSUME NEW how \in {"down", "listen"}, ServerEnds(how)
          PROVE  /\ batch_ids' \in Seq(Number)
                 /\ db' \in [Index -> DOMAIN data \cup {Garbage}]
                 /\ spc' \in {"down", "listen"} /\ line' = 0 /\ count' = 0
      BY <3>2, EmptyTypes DEF ServerEnds
    <3>3. 0 \in 0 .. ScanLimit /\ 0 \in 0 .. 0
      BY BatchAssumption
    <3>4. QED
      BY <2>1, <3>1, <3>2, <3>3
  <2>4. CASE UNCHANGED client
    BY <1>1, <2>1, <2>2, <2>3, <2>4
       DEF BatchTypeOK, settings, client, file, memory
  <2>5. ASSUME NEW how \in {"off", "lost"}, ClientEnds(how)
        PROVE  BatchTypeOK'
    <3>1. /\ batch_query_ids' \in Seq(Number) /\ Len(batch_query_ids') = 0
          /\ random_ids' \in Seq(Number) /\ Len(random_ids') = 0
          /\ batch_id_idx' = 0 /\ batch_query_index' = {} /\ asked' = 0
          /\ buffer' \in Seq(Number) /\ Len(buffer') = 0
          /\ results' \in Seq([id : Number, record : DOMAIN data \cup {Garbage}])
          /\ cpc' \in {"off", "lost"}
      BY <2>5, EmptyTypes DEF ClientEnds
    <3>2. 0 <= RandomIdSize /\ 0 \in 0 .. BatchSize /\ 0 \in 0 .. QueryNumber
      BY <1>1, Sizes DEF BatchTypeOK
    <3>3. QED
      BY <1>1, <2>1, <2>2, <2>3, <2>5, <3>1, <3>2
         DEF BatchTypeOK, ClientEnds, settings, file
  <2>6. QED
    BY <2>1, <2>4, <2>5
<1>5. QED
  BY <1>2, <1>3, <1>4, PreprocessTypes, ConnectedTypes, ScanTypes
     DEF Next, ClientStep

-----------------------------------------------------------------------------
(***************************************************************************)
(* The placement of the batch.                                              *)
(***************************************************************************)

\* One line more of the file: the next id of the batch in a plaintext that will
\* be asked for, and a random one elsewhere.
LEMMA PlaceStep ==
    ASSUME IInv, PlaceBatchId \/ PlaceRandomId
    PROVE  PlaceInv' /\ FileInv'
<1> DEFINE R == Range(indexes)
           n == Len(ids)
           S(m) == SlotsBefore(R, m)
           e == ele_per_ptxt
           queried == InQueried /\ batch_id_idx < BatchSize
           id == IF queried THEN At(batch_query_ids, batch_id_idx + 1)
                 ELSE At(random_ids, n - batch_id_idx + 1)
<1>1. BatchTypeOK /\ PlaceInv /\ ClientInv /\ cpc = "place"
  BY DEF IInv, PlaceBatchId, PlaceRandomId
<1>2. /\ e \in Nat \ {0} /\ BatchSize \in Nat \ {0}
      /\ BatchIdNumber \in Nat \ {0} /\ RandomIdSize \in Nat \ {0}
      /\ RandomIdSize + BatchSize = BatchIdNumber
  BY <1>1, Sizes DEF BatchTypeOK
<1>3. /\ R \in SUBSET Nat /\ IsFiniteSet(R)
      /\ ids \in Seq(Number) /\ n \in Nat /\ n < BatchIdNumber
      /\ batch_id_idx \in 0 .. BatchSize
      /\ batch_query_ids \in Seq(Number) /\ Len(batch_query_ids) = BatchSize
      /\ random_ids \in Seq(Number) /\ Len(random_ids) = RandomIdSize
  <2>1. indexes \in Seq(Nat)
    <3>1. indexes \in Seq(0 .. PtxtNumber - 1)
          /\ 0 .. PtxtNumber - 1 \subseteq Nat
      BY <1>1 DEF BatchTypeOK
    <3>2. QED
      BY <3>1, SeqMonotonic
  <2>2. QED
    BY <1>1, <2>1, RangeIsFinite, LenProperties
       DEF BatchTypeOK, PlaceInv, ClientInv
<1>4. /\ S(n) \in Nat
      /\ S(n + 1) = IF n \div e \in R THEN S(n) + 1 ELSE S(n)
  BY <1>2, <1>3, SlotsStep
<1>5. /\ batch_id_idx = IF S(n) < BatchSize THEN S(n) ELSE BatchSize
      /\ n - batch_id_idx > RandomIdSize => Garbage \in Range(ids)
      /\ Placement(batch_query_ids)
      /\ Len(indexes) = QueryNumber /\ placed_for = Garbage
  BY <1>1 DEF PlaceInv
<1>6. InQueried <=> n \div e \in R
  BY DEF InQueried
<1>7. /\ UNCHANGED <<settings, indexes, batch_query_ids>>
      /\ ids' = Append(ids, id)
      /\ batch_id_idx' = IF queried THEN batch_id_idx + 1 ELSE batch_id_idx
      /\ IF Len(ids') < BatchIdNumber
         THEN UNCHANGED <<cpc, placed_for, random_ids>>
         ELSE cpc' = "read" /\ placed_for' = batch_query_ids
  <2>1. CASE PlaceBatchId
    <3>1. batch_id_idx + 1 \in 1 .. Len(batch_query_ids)
      BY <1>2, <1>3, <2>1 DEF PlaceBatchId
    <3>2. At(batch_query_ids, batch_id_idx + 1)
              = batch_query_ids[batch_id_idx + 1]
      BY <1>3, <3>1, AtType
    <3>3. QED
      BY <2>1, <3>2 DEF PlaceBatchId, Place
  <2>2. CASE PlaceRandomId
    BY <2>2 DEF PlaceRandomId, Place
  <2>3. QED
    BY <2>1, <2>2
<1>8. id \in Number
  BY <1>3, AtType DEF Number
<1> HIDE DEF id
<1>9. /\ ids' \in Seq(Number) /\ Len(ids') = n + 1
      /\ \A j \in 1 .. n : ids'[j] = ids[j]
      /\ ids'[n + 1] = id
  BY <1>3, <1>7, <1>8, AppendProperties
<1> HIDE DEF n, S, e, R
<1>10. batch_id_idx' = IF S(n + 1) < BatchSize THEN S(n + 1) ELSE BatchSize
  BY <1>2, <1>3, <1>4, <1>5, <1>6, <1>7
<1>11. \A x : x \in Range(ids) \/ x = id => x \in Range(ids')
  <2>1. DOMAIN ids' = 1 .. n + 1 /\ DOMAIN ids = 1 .. n
    BY <1>3, <1>9, LenProperties DEF n
  <2>2. 1 .. n \subseteq 1 .. n + 1 /\ n + 1 \in 1 .. n + 1
    BY <1>3
  <2>3. QED
    BY <1>9, <2>1, <2>2 DEF Range
<1>12. n + 1 - batch_id_idx' > RandomIdSize => Garbage \in Range(ids')
  <2>1. CASE queried
    BY <1>3, <1>5, <1>7, <1>11, <2>1
  <2>2. CASE ~queried
    <3>1. ASSUME n - batch_id_idx = RandomIdSize
          PROVE  id = Garbage
      <4>1. id = At(random_ids, RandomIdSize + 1)
        BY <2>2, <3>1 DEF id, n
      <4>2. RandomIdSize + 1 \notin 1 .. Len(random_ids)
        BY <1>2, <1>3
      <4>3. QED
        BY <1>3, <4>1, <4>2, AtType
    <3>2. batch_id_idx' = batch_id_idx
      BY <1>7, <2>2
    <3>3. QED
      BY <1>2, <1>3, <1>5, <1>11, <3>1, <3>2
  <2>3. QED
    BY <2>1, <2>2
<1>13. ASSUME NEW q \in R, NEW i \in 0 .. e - 1
       PROVE  LET j == q * e + i
                  k == Rank(R, q) * e + i
              IN  /\ j < n + 1 /\ k < BatchSize =>
                        ids'[j + 1] = batch_query_ids[k + 1]
                  /\ BatchSize <= S(n + 1) /\ k < BatchSize => j < n + 1
  <2> DEFINE j == q * e + i
             k == Rank(R, q) * e + i
  <2>1. /\ j \in Nat /\ k \in Nat
        /\ j = n => S(n) = k
        /\ j >= n + 1 => k >= S(n + 1)
    <3>1. /\ j \in Nat /\ k \in Nat
          /\ j = n => S(n) = k
      BY <1>2, <1>3, SlotOrder DEF e, S
    <3>2. n + 1 \in Nat
      BY <1>3
    <3>3. j >= n + 1 => k >= S(n + 1)
      BY <1>2, <1>3, <3>2, SlotOrder DEF e, S
    <3>4. QED
      BY <3>1, <3>3
  <2>2. j < n /\ k < BatchSize => ids[j + 1] = batch_query_ids[k + 1]
    BY <1>5 DEF Placement, R, e, n
  <2>3. j = n => n \div e = q
    <3>1. q \in Nat
      BY <1>3
    <3>2. QED
      BY <1>2, <3>1, DivModIs
  <2> HIDE DEF j, k
  <2>4. ASSUME j = n, k < BatchSize
        PROVE  ids'[j + 1] = batch_query_ids[k + 1]
    <3>1. batch_id_idx = k
      BY <1>5, <2>1, <2>4
    <3>2. queried
      BY <1>6, <2>3, <2>4, <3>1
    <3>3. id = At(batch_query_ids, k + 1)
      BY <3>1, <3>2 DEF id
    <3>4. k + 1 \in 1 .. Len(batch_query_ids)
      BY <1>2, <1>3, <2>1, <2>4
    <3>5. At(batch_query_ids, k + 1) = batch_query_ids[k + 1]
      BY <1>3, <3>4, AtType
    <3>6. QED
      BY <1>9, <2>4, <3>3, <3>5
  <2>5. ASSUME j < n, k < BatchSize
        PROVE  ids'[j + 1] = batch_query_ids[k + 1]
    BY <1>3, <1>9, <2>1, <2>2, <2>5
  <2>6. BatchSize <= S(n + 1) /\ k < BatchSize => j < n + 1
    <3>1. S(n + 1) \in Nat
      BY <1>4
    <3>2. QED
      BY <1>2, <1>3, <2>1, <3>1
  <2>7. QED
    BY <1>3, <2>1, <2>4, <2>5, <2>6 DEF j, k
<1>14. Range(indexes)' = R /\ e' = e
  BY <1>7 DEF R, e, settings, Range
<1>15. Placement(batch_query_ids)'
  BY <1>7, <1>9, <1>13, <1>14 DEF Placement, e, Rank
<1>16. CASE n + 1 < BatchIdNumber
  <2>1. UNCHANGED <<cpc, placed_for, random_ids>>
    BY <1>7, <1>9, <1>16
  <2>2. SlotsBefore(Range(indexes), Len(ids))' = S(n + 1)
    BY <1>9, <1>14 DEF SlotsBefore, S, e, Rank
  <2>3. PlaceInv'
    <3>1. /\ cpc' = "place" /\ placed_for' = Garbage
          /\ Len(random_ids') = RandomIdSize /\ Len(ids') < BatchIdNumber
      BY <1>1, <1>3, <1>5, <1>9, <1>16, <2>1
    <3>2. Len(indexes') = QueryNumber'
      BY <1>5, <1>7 DEF QueryNumber, settings
    <3>3. Len(ids') - batch_id_idx' > RandomIdSize => Garbage \in Range(ids')
      <4>1. Len(ids') = n + 1 /\ n + 1 \in Nat
        BY <1>3, <1>9
      <4>2. batch_id_idx' \in Nat
        BY <1>3, <1>7
      <4>3. ASSUME Len(ids') - batch_id_idx' > RandomIdSize
            PROVE  n + 1 - batch_id_idx' > RandomIdSize
        <5>1. n \in Nat
          BY <1>3
        <5>2. QED
          BY <4>1, <4>2, <4>3, <5>1
      <4>4. QED
        BY <1>12, <4>3, Zenon
    <3>4. batch_id_idx' = IF SlotsBefore(Range(indexes), Len(ids))' < BatchSize
                          THEN SlotsBefore(Range(indexes), Len(ids))'
                          ELSE BatchSize
      BY <1>10, <2>2
    <3>5. QED
      BY <1>15, <3>1, <3>2, <3>3, <3>4 DEF PlaceInv
  <2>4. FileInv'
    BY <1>5, <2>1 DEF FileInv
  <2>5. QED
    BY <2>3, <2>4
<1>17. CASE n + 1 = BatchIdNumber
  <2>1. cpc' = "read" /\ placed_for' = batch_query_ids
    BY <1>2, <1>7, <1>9, <1>17
  <2>2. PlaceInv'
    BY <2>1 DEF PlaceInv
  <2>3. Garbage \in Range(ids)' \/ AllPlaced'
    <3>1. CASE S(n + 1) < BatchSize
      <4>1. n + 1 - batch_id_idx' > RandomIdSize
        <5>1. S(n + 1) \in Nat /\ batch_id_idx' = S(n + 1)
          BY <1>4, <1>10, <3>1
        <5>2. QED
          BY <1>2, <1>3, <1>17, <3>1, <5>1
      <4>2. QED
        BY <1>12, <4>1 DEF Range
    <3>2. CASE BatchSize <= S(n + 1)
      BY <1>13, <1>14, <1>17, <3>2 DEF AllPlaced, e, Rank
    <3>3. S(n + 1) \in Nat
      BY <1>4
    <3>4. QED
      BY <1>2, <3>1, <3>2, <3>3
  <2>4. Placement(placed_for)'
    BY <1>7, <1>15, <2>1 DEF Placement
  <2>5. QED
    BY <1>3, <1>5, <1>7, <1>9, <1>17, <2>1, <2>2, <2>3, <2>4
       DEF FileInv, QueryNumber, settings
<1>18. QED
  BY <1>2, <1>3, <1>16, <1>17

\* A file stays what it is until the next one is written.
LEMMA FileKept ==
    ASSUME FileInv, UNCHANGED <<settings, file>>
    PROVE  FileInv'
BY DEF FileInv, Placement, AllPlaced, Rank, settings, file, QueryNumber

\* Of a client elsewhere the placement says nothing.
LEMMA NoPlacing ==
    ASSUME cpc' # "pick", cpc' # "index", cpc' # "place"
    PROVE  PlaceInv'
<1>1. cpc' \notin {"pick", "index"} /\ cpc' \notin {"index", "place"}
  OBVIOUS
<1>2. QED
  BY <1>1 DEF PlaceInv

\* Nor does the placement change while the client takes no step.
LEMMA PlaceKept ==
    ASSUME PlaceInv, UNCHANGED <<settings, client>>
    PROVE  PlaceInv'
BY DEF PlaceInv, Placement, SlotsBefore, Rank, settings, client, file, memory,
       QueryNumber

\* Placing is all the preprocessing does, and nothing else writes the file.
LEMMA PlacementStep ==
    ASSUME IInv, [Next]_vars
    PROVE  PlaceInv' /\ FileInv'
<1>1. BatchTypeOK /\ PlaceInv /\ FileInv
  BY DEF IInv
<1>2. /\ BatchSize \in Nat \ {0} /\ BatchIdNumber \in Nat \ {0}
      /\ RandomIdSize \in Nat \ {0} /\ QueryNumber \in Nat \ {0}
      /\ ele_per_ptxt \in Nat \ {0}
  BY <1>1, Sizes DEF BatchTypeOK
<1>3. CASE PickRandom
  <2>1. UNCHANGED <<settings, file>> /\ cpc' = "pick" /\ batch_id_idx' = 0
    BY <1>1, <1>3 DEF PickRandom, PlaceInv
  <2>2. QED
    BY <1>1, <2>1, FileKept DEF PlaceInv
<1>4. CASE OpenPreprocess
  <2>1. /\ cpc' = "index" /\ placed_for' = Garbage /\ ids' = <<>>
        /\ indexes' = <<>> /\ batch_id_idx' = 0 /\ UNCHANGED settings
        /\ random_ids' = random_ids /\ Len(random_ids) = RandomIdSize
    BY <1>1, <1>4 DEF OpenPreprocess, PlaceInv, memory
  <2>2. Len(indexes') = 0 /\ QueryNumber' = QueryNumber
    BY <2>1, EmptySeq DEF QueryNumber, settings
  <2>3. Len(indexes') < QueryNumber'
    BY <1>2, <2>2
  <2>4. QED
    BY <2>1, <2>3 DEF PlaceInv, FileInv
<1>5. CASE DrawIndex
  <2>1. /\ placed_for' = Garbage /\ ids' = <<>> /\ batch_id_idx' = 0
        /\ Len(random_ids') = RandomIdSize /\ UNCHANGED settings
        /\ cpc' = IF Len(indexes') = QueryNumber THEN "place" ELSE "index"
        /\ Len(indexes) < QueryNumber
    BY <1>1, <1>5 DEF DrawIndex, PlaceInv, memory
  <2>2. PICK q \in 0 .. PtxtNumber - 1 : indexes' = Append(indexes, q)
    BY <1>5 DEF DrawIndex
  <2>3. indexes \in Seq(0 .. PtxtNumber - 1) /\ Len(indexes) \in Nat
    BY <1>1, LenProperties DEF BatchTypeOK
  <2>4. /\ indexes' \in Seq(0 .. PtxtNumber - 1)
        /\ Len(indexes') = Len(indexes) + 1
    BY <2>2, <2>3, AppendProperties
  <2>5. QueryNumber' = QueryNumber /\ ele_per_ptxt' = ele_per_ptxt
    BY <2>1 DEF QueryNumber, settings
  <2>6. CASE cpc' = "index"
    <3>1. Len(indexes') < QueryNumber'
      BY <1>2, <2>1, <2>3, <2>4, <2>5, <2>6
    <3>2. QED
      BY <2>1, <2>6, <3>1 DEF PlaceInv, FileInv
  <2>7. CASE cpc' = "place"
    <3>1. Len(indexes') = QueryNumber'
      BY <2>1, <2>5, <2>7
    <3>2. Len(ids') = 0
      BY <2>1, EmptySeq
    <3>3. /\ Range(indexes') \in SUBSET Nat /\ IsFiniteSet(Range(indexes'))
      <4>1. 0 .. PtxtNumber - 1 \subseteq Nat
        OBVIOUS
      <4>2. indexes' \in Seq(Nat)
        BY <2>4, <4>1, SeqMonotonic
      <4>3. QED
        BY <4>2, RangeIsFinite
    <3>4. SlotsBefore(Range(indexes'), 0) = 0
      BY <1>2, <3>3, SlotsStep
    <3>5. SlotsBefore(Range(indexes), Len(ids))' = 0
      BY <2>5, <3>2, <3>4 DEF SlotsBefore, Rank
    <3>6. Placement(batch_query_ids)'
      <4>1. SUFFICES ASSUME NEW x \in Range(indexes)',
                            NEW i \in 0 .. ele_per_ptxt' - 1
                     PROVE  ~(x * ele_per_ptxt' + i < Len(ids'))
        BY DEF Placement
      <4>2. x \in Nat
        BY <3>3
      <4>3. x * ele_per_ptxt' + i \in Nat
        BY <1>2, <2>5, <4>2
      <4>4. QED
        BY <3>2, <4>3
    <3>7. Len(ids') < BatchIdNumber /\ ~(Len(ids') - batch_id_idx' > RandomIdSize)
      BY <1>2, <2>1, <3>2
    <3>8. batch_id_idx' = IF SlotsBefore(Range(indexes), Len(ids))' < BatchSize
                          THEN SlotsBefore(Range(indexes), Len(ids))'
                          ELSE BatchSize
      BY <1>2, <2>1, <3>5
    <3>9. QED
      BY <2>1, <2>7, <3>1, <3>6, <3>7, <3>8 DEF PlaceInv, FileInv
  <2>8. QED
    BY <2>1, <2>6, <2>7
<1>6. CASE PlaceBatchId \/ PlaceRandomId
  BY <1>6, PlaceStep
<1>7. ASSUME UNCHANGED <<settings, file>>,
             cpc' \notin {"pick", "index", "place"} \/ UNCHANGED client
      PROVE  PlaceInv' /\ FileInv'
  <2>1. FileInv'
    BY <1>1, <1>7, FileKept
  <2>2. CASE cpc' \notin {"pick", "index", "place"}
    BY <2>1, <2>2, NoPlacing
  <2>3. CASE UNCHANGED client
    <3>1. UNCHANGED <<settings, client>>
      BY <1>7, <2>3
    <3>2. QED
      BY <1>1, <2>1, <3>1, PlaceKept
  <2>4. QED
    BY <1>7, <2>1, <2>2, <2>3
<1>8. ASSUME NEW batch \in BatchFiles, NEW b \in BOOLEAN, StartClient(batch, b)
      PROVE  PlaceInv' /\ FileInv'
  <2>1. UNCHANGED <<settings, file>> /\ cpc' \in {"pick", "read"}
        /\ batch_id_idx' = 0
    BY <1>8 DEF StartClient
  <2>2. QED
    BY <1>1, <2>1, FileKept DEF PlaceInv
<1>9. CASE PickFromEmpty \/ ReadPreprocess \/ Connect \/ SendIds \/ KeysAsQuery
              \/ ServerGone \/ Query \/ QueryAsKeys
  BY <1>7, <1>9
     DEF PickFromEmpty, ReadPreprocess, Connect, SendIds, KeysAsQuery,
         ServerGone, Query, QueryAsKeys, ClientEnds, file
<1>10. CASE Scan
  BY <1>7, <1>10
     DEF Scan, ScanLine, ScanPastEnd, ScanLimitReached, client, file
<1>11. CASE StopClient \/ RestartServer
  <2>1. UNCHANGED settings
        /\ (UNCHANGED client \/ \E how \in {"off", "lost"} : ClientEnds(how))
    BY <1>11 DEF StopClient, RestartServer
  <2>2. UNCHANGED file /\ (cpc' \in {"off", "lost"} \/ UNCHANGED client)
    BY <2>1 DEF ClientEnds, client
  <2>3. QED
    BY <1>7, <2>1, <2>2
<1>12. CASE UNCHANGED vars
  <2>1. UNCHANGED <<settings, file>> /\ UNCHANGED client
    BY <1>12 DEF vars, client
  <2>2. QED
    BY <1>7, <2>1
<1>13. QED
  BY <1>3, <1>4, <1>5, <1>6, <1>8, <1>9, <1>10, <1>11, <1>12
     DEF Next, ClientStep, Preprocess

-----------------------------------------------------------------------------
(***************************************************************************)
(* The scan.                                                                *)
(***************************************************************************)

\* Of ids that are each in the data file once, each is in one line.
LEMMA OnePlace ==
    ASSUME data \in DataFiles, NEW sent \in Seq(Number), EachOnce(sent),
           NEW i \in 1 .. Len(sent)
    PROVE  \E l \in 1 .. Len(data) :
            /\ Found(sent[i]) = {l} /\ l <= ScanLimit
            /\ Numbers(data)[l] = sent[i]
<1>1. /\ data \in Seq(Id) /\ Len(data) \in Nat
      /\ DOMAIN data = 1 .. Len(data)
  BY BatchAssumption, LenProperties
<1>2. IsFiniteSet(1 .. Len(data))
  BY <1>1, FS_Interval
<1>3. Found(sent[i]) \subseteq 1 .. Len(data)
  BY <1>1 DEF Found
<1>4. sent[i] \in Range(sent)
  BY RangeIsFinite
<1>5. Cardinality(Found(sent[i])) = 1
  BY <1>4 DEF EachOnce
<1>6. IsFiniteSet(Found(sent[i]))
  BY <1>2, <1>3, FS_Subset
<1>7. PICK l : Found(sent[i]) = {l}
  BY <1>5, <1>6, FS_Singleton
<1>8. l \in Found(sent[i])
  BY <1>7
<1>9. l \in 1 .. Len(data) /\ l <= ScanLimit /\ Numbers(data)[l] = sent[i]
  BY <1>1, <1>8 DEF Found
<1>10. QED
  BY <1>7, <1>9

\* The lines of the data file do not change, nor whether ids are in one of them.
LEMMA FoundKept ==
    ASSUME data' = data
    PROVE  /\ \A id : Found(id)' = Found(id)
           /\ \A sent : EachOnce(sent)' <=> EachOnce(sent)
BY DEF Found, EachOnce

\* While the scan goes on and each id is in the data file once, a line is still
\* to come.
LEMMA ToCome ==
    ASSUME BatchTypeOK, ScanInv, spc = "scan", EachOnce(batch_ids)
    PROVE  line < ScanLimit /\ line < Len(data)
<1> DEFINE D == {i \in Index : db[i] # Garbage}
<1>1. /\ BatchIdNumber \in Nat \ {0} /\ data \in DataFiles
      /\ batch_ids \in Seq(Number) /\ Len(batch_ids) = BatchIdNumber
      /\ line \in Nat /\ ScanLimit \in Nat
  BY Sizes, BatchAssumption DEF BatchTypeOK, ScanInv
<1>2. /\ Cardinality(D) < BatchIdNumber
      /\ \A i \in Index : \A l \in Found(batch_ids[i + 1]) :
            db[i] = IF l <= line THEN l ELSE Garbage
  BY DEF ScanInv
<1>3. Cardinality(Index) = BatchIdNumber
  BY <1>1, FS_Interval DEF Index
<1>4. PICK i \in Index : db[i] = Garbage
  <2>1. ASSUME D = Index PROVE FALSE
    <3> HIDE DEF D
    <3>1. Cardinality(Index) < BatchIdNumber
      BY <1>2, <2>1
    <3>2. QED
      BY <1>1, <1>3, <3>1
  <2>2. QED
    BY <2>1
<1>5. i + 1 \in 1 .. Len(batch_ids)
  BY <1>1 DEF Index
<1>6. PICK l \in 1 .. Len(data) :
        Found(batch_ids[i + 1]) = {l} /\ l <= ScanLimit
  BY <1>1, <1>5, OnePlace
<1>7. ~(l <= line)
  <2>1. l # Garbage
    BY BatchAssumption
  <2>2. db[i] = IF l <= line THEN l ELSE Garbage
    BY <1>2, <1>6
  <2>3. QED
    BY <1>4, <2>1, <2>2
<1> DEFINE n == Len(data)
<1>8. l \in 1 .. n /\ n \in Nat
  BY <1>1, BatchAssumption, LenProperties
<1> HIDE DEF n
<1>9. line < n
  BY <1>1, <1>7, <1>8
<1>10. line < ScanLimit
  BY <1>1, <1>6, <1>7, <1>8
<1>11. QED
  BY <1>9, <1>10 DEF n

\* A line stored is stored for an id it is read as.
LEMMA StoredStep ==
    ASSUME BatchTypeOK, ScanInv, ScanLine
    PROVE  \A i \in Index : db'[i] # Garbage => Stored(i)'
<1>1. /\ data \in DataFiles /\ batch_ids \in Seq(Number)
      /\ line \in Nat /\ ScanLimit \in Nat /\ line < ScanLimit
      /\ db \in [Index -> DOMAIN data \cup {Garbage}]
      /\ spc = "scan" /\ HasLine
      /\ data' = data /\ batch_ids' = batch_ids /\ spc' \in {"scan", "serve"}
  BY BatchAssumption DEF BatchTypeOK, ScanLine, settings
<1>2. \A x : Found(x)' = Found(x)
  BY <1>1, FoundKept
<1>3. ASSUME NEW i \in Index, db'[i] # Garbage, db'[i] = db[i]
      PROVE  Stored(i)'
  <2>1. Stored(i)
    BY <1>3 DEF ScanInv
  <2>2. QED
    BY <1>1, <1>2, <1>3, <2>1 DEF Stored
<1>4. ASSUME CurrentId \in Range(batch_ids),
             NEW k \in Index, k = IndexOf(CurrentId),
             db' = [db EXCEPT ![k] = LineRead]
      PROVE  Stored(k)'
  <2>1. batch_ids[k + 1] = CurrentId
    BY <1>1, <1>4, IndexOfIs
  <2>2. db'[k] = LineRead
    BY <1>1, <1>4
  <2>3. /\ DOMAIN data = 1 .. Len(data) /\ LineRead \in DOMAIN data
        /\ line < Len(data) => LineRead = line + 1
        /\ line >= Len(data) => LineRead = Len(data)
        /\ Len(data) \in Nat
    BY <1>1, LineReadIs
  <2>4. /\ line < Len(data) => Numbers(data)[line + 1] = CurrentId
        /\ line >= Len(data) =>
            /\ data \in Unterminated
            /\ CurrentId # 0 => Numbers(data)[Len(data)] = CurrentId
    BY <1>1, CurrentIdIs
  <2>5. ASSUME LineRead <= ScanLimit, Numbers(data)[LineRead] = CurrentId
        PROVE  Stored(k)'
    <3>1. LineRead \in Found(CurrentId)
      BY <2>3, <2>5 DEF Found
    <3>2. QED
      BY <1>1, <1>2, <2>1, <2>2, <3>1 DEF Stored
  <2> DEFINE n == Len(data)
  <2>6. n \in Nat /\ n = Len(data)
    BY <2>3
  <2> HIDE DEF n
  <2>7. CASE line < n
    <3>1. LineRead = line + 1 /\ Numbers(data)[line + 1] = CurrentId
      BY <2>3, <2>4, <2>6, <2>7
    <3>2. line + 1 <= ScanLimit
      BY <1>1
    <3>3. QED
      BY <2>5, <3>1, <3>2
  <2>8. CASE line >= n /\ CurrentId # 0
    <3>1. LineRead = n /\ Numbers(data)[n] = CurrentId
      BY <2>3, <2>4, <2>6, <2>8
    <3>2. n <= ScanLimit
      BY <1>1, <2>6, <2>8
    <3>3. QED
      BY <2>5, <3>1, <3>2
  <2>9. CASE line >= n /\ CurrentId = 0
    <3>1. LineRead = Len(data) /\ data \in Unterminated
      BY <2>3, <2>4, <2>6, <2>9
    <3>2. QED
      BY <1>1, <2>1, <2>2, <2>9, <3>1 DEF Stored
  <2>10. QED
    BY <1>1, <2>6, <2>7, <2>8, <2>9
<1>5. CASE CurrentId \in Range(batch_ids)
  <2>1. PICK k \in Index :
            k = IndexOf(CurrentId) /\ db' = [db EXCEPT ![k] = LineRead]
    <3>1. Len(batch_ids) = BatchIdNumber /\ BatchIdNumber \in Nat
      BY <1>1, BatchAssumption DEF ScanInv
    <3> DEFINE m == IndexOf(CurrentId)
    <3>2. m \in Nat /\ m + 1 \in 1 .. BatchIdNumber
      BY <1>1, <1>5, <3>1, IndexOfIs
    <3>3. m \in Index
      <4> HIDE DEF m
      <4>1. QED
        BY <3>1, <3>2 DEF Index
    <3>4. db' = [db EXCEPT ![IndexOf(CurrentId)] = LineRead]
      BY <1>5 DEF ScanLine
    <3>5. QED
      BY <3>3, <3>4
  <2>2. Stored(k)'
    BY <1>4, <1>5, <2>1
  <2>3. ASSUME NEW i \in Index, db'[i] # Garbage, i # k
        PROVE  Stored(i)'
    <3>1. db'[i] = db[i]
      BY <1>1, <2>1, <2>3
    <3>2. QED
      BY <1>3, <2>3, <3>1
  <2>4. QED
    BY <2>2, <2>3
<1>6. CASE CurrentId \notin Range(batch_ids)
  <2>1. db' = db
    BY <1>6 DEF ScanLine
  <2>2. QED
    BY <1>3, <2>1
<1>7. QED
  BY <1>5, <1>6

\* If each id is in the data file once, so that this line is none's second, what
\* is stored stays what was passed, and with as many lines found as ids it is
\* all of them.
LEMMA PassedStep ==
    ASSUME BatchTypeOK, ScanInv, ScanLine, EachOnce(batch_ids)
    PROVE  /\ spc' = "scan" =>
                /\ count' = Cardinality({i \in Index : db'[i] # Garbage})
                /\ count' < BatchIdNumber
                /\ \A i \in Index : \A l \in Found(batch_ids[i + 1]) :
                    db'[i] = IF l <= line' THEN l ELSE Garbage
           /\ spc' = "serve" =>
                \A i \in Index : Found(batch_ids[i + 1]) = {db'[i]}
<1> DEFINE D == {i \in Index : db[i] # Garbage}
           E == {i \in Index : db'[i] # Garbage}
           lines(i) == Found(batch_ids[i + 1])
<1>1. /\ data \in DataFiles /\ batch_ids \in Seq(Number)
      /\ BatchIdNumber \in Nat \ {0} /\ Len(batch_ids) = BatchIdNumber
      /\ line \in Nat /\ count \in Nat /\ spc = "scan"
      /\ db \in [Index -> DOMAIN data \cup {Garbage}] /\ Garbage \notin Nat
      /\ line' = line + 1 /\ HasLine
      /\ spc' = IF count' = BatchIdNumber THEN "serve" ELSE "scan"
  BY Sizes, BatchAssumption DEF BatchTypeOK, ScanInv, ScanLine
<1>2. /\ count = Cardinality(D) /\ count < BatchIdNumber
      /\ \A i \in Index : \A l \in lines(i) :
            db[i] = IF l <= line THEN l ELSE Garbage
  BY <1>1 DEF ScanInv
<1>3. line < Len(data) /\ line < ScanLimit
  BY <1>1, ToCome
<1>4. LineRead = line + 1 /\ Numbers(data)[line + 1] = CurrentId
  BY <1>1, <1>3, LineReadIs, CurrentIdIs
<1>5. ASSUME NEW i \in Index
      PROVE  i \in Nat /\ i + 1 \in 1 .. Len(batch_ids)
             /\ batch_ids[i + 1] \in Range(batch_ids)
  <2>1. i \in Nat /\ i + 1 \in 1 .. Len(batch_ids)
    BY <1>1 DEF Index
  <2>2. QED
    BY <1>1, <2>1, RangeIsFinite
<1>6. ASSUME NEW i \in Index
      PROVE  \E l \in Nat : lines(i) = {l} /\ Numbers(data)[l] = batch_ids[i + 1]
  <2>1. PICK l \in 1 .. Len(data) :
            lines(i) = {l} /\ Numbers(data)[l] = batch_ids[i + 1]
    BY <1>1, <1>5, OnePlace
  <2>2. l \in Nat
    BY <2>1
  <2>3. QED
    BY <2>1, <2>2
<1>7. IsFiniteSet(Index) /\ Cardinality(Index) = BatchIdNumber
  BY <1>1, FS_Interval DEF Index
<1>8. IsFiniteSet(D) /\ IsFiniteSet(E) /\ Cardinality(E) \in Nat
      /\ Cardinality(E) <= BatchIdNumber
      /\ (Cardinality(E) = BatchIdNumber => E = Index)
  <2>1. D \subseteq Index /\ E \subseteq Index
    OBVIOUS
  <2> HIDE DEF D, E
  <2>2. QED
    BY <1>7, <2>1, FS_Subset, FS_CardinalityType
<1>9. count' = Cardinality(E)
      /\ \A i \in Index : \A l \in lines(i) :
            db'[i] = IF l <= line + 1 THEN l ELSE Garbage
  <2>1. CASE CurrentId \in Range(batch_ids)
    <3>1. PICK k \in Index : k = IndexOf(CurrentId)
      <4> DEFINE m == IndexOf(CurrentId)
      <4>1. m \in Nat /\ m + 1 \in 1 .. BatchIdNumber
        BY <1>1, <2>1, IndexOfIs
      <4>2. m \in Index
        <5> HIDE DEF m
        <5>1. QED
          BY <1>1, <4>1 DEF Index
      <4>3. QED
        BY <4>2
    <3>2. batch_ids[k + 1] = CurrentId
      BY <1>1, <2>1, <3>1, IndexOfIs
    <3>3. db' = [db EXCEPT ![k] = line + 1] /\ count' = count + 1
      BY <1>4, <2>1, <3>1 DEF ScanLine
    <3>4. /\ db'[k] = line + 1
          /\ \A i \in Index : i # k => db'[i] = db[i]
      BY <1>1, <3>3
    <3>5. line + 1 \in lines(k)
      <4> DEFINE n == Len(data)
      <4>1. n \in Nat /\ DOMAIN data = 1 .. n
        BY <1>1, LineReadIs
      <4>2. line + 1 \in 1 .. n
        <5>1. line < n
          BY <1>3
        <5> HIDE DEF n
        <5>2. QED
          BY <1>1, <4>1, <5>1
      <4>3. line + 1 <= ScanLimit
        BY <1>1, <1>3, BatchAssumption
      <4>4. QED
        BY <1>4, <3>2, <4>1, <4>2, <4>3 DEF Found
    <3>6. \A l \in lines(k) : l = line + 1
      BY <1>6, <3>5
    <3>7. db[k] = Garbage
      <4>1. ~(line + 1 <= line)
        BY <1>1
      <4>2. QED
        BY <1>2, <3>5, <4>1
    <3>8. E = D \cup {k} /\ k \notin D
      BY <1>1, <3>4, <3>7
    <3>9. Cardinality(E) = Cardinality(D) + 1
      <4> HIDE DEF D, E
      <4>1. QED
        BY <1>8, <3>8, FS_AddElement
    <3>10. ASSUME NEW i \in Index, NEW l \in lines(i)
           PROVE  db'[i] = IF l <= line + 1 THEN l ELSE Garbage
      <4>1. CASE i = k
        <5>1. l = line + 1 /\ l <= line + 1
          BY <1>1, <3>6, <4>1
        <5>2. QED
          BY <3>4, <4>1, <5>1
      <4>2. CASE i # k
        <5>1. l \in Nat /\ Numbers(data)[l] = batch_ids[i + 1]
          BY <1>6
        <5>2. l # line + 1
          <6>1. i + 1 # k + 1
            BY <1>5, <4>2
          <6>2. batch_ids[i + 1] # batch_ids[k + 1]
            BY <1>1, <1>5, <6>1, LenProperties DEF EachOnce, IsInjective
          <6>3. QED
            BY <1>4, <3>2, <5>1, <6>2
        <5>3. l <= line + 1 <=> l <= line
          BY <1>1, <5>1, <5>2
        <5>4. QED
          BY <1>2, <3>4, <4>2, <5>3
      <4>3. QED
        BY <4>1, <4>2
    <3>11. QED
      BY <1>2, <3>3, <3>9, <3>10
  <2>2. CASE CurrentId \notin Range(batch_ids)
    <3>1. db' = db /\ count' = count
      BY <2>2 DEF ScanLine
    <3>2. ASSUME NEW i \in Index, NEW l \in lines(i)
          PROVE  db'[i] = IF l <= line + 1 THEN l ELSE Garbage
      <4>1. l \in Nat /\ Numbers(data)[l] = batch_ids[i + 1]
        BY <1>6
      <4>2. l # line + 1
        BY <1>4, <1>5, <2>2, <4>1
      <4>3. l <= line + 1 <=> l <= line
        BY <1>1, <4>1, <4>2
      <4>4. QED
        BY <1>2, <3>1, <4>3
    <3>3. QED
      BY <1>2, <3>1, <3>2
  <2>3. QED
    BY <2>1, <2>2
<1>10. ASSUME spc' = "serve", NEW i \in Index
       PROVE  lines(i) = {db'[i]}
  <2>1. count' = BatchIdNumber
    BY <1>1, <1>10
  <2>2. db'[i] # Garbage
    BY <1>8, <1>9, <2>1
  <2>3. PICK l \in Nat : lines(i) = {l}
    BY <1>6
  <2>4. l \in lines(i)
    BY <2>3
  <2>5. db'[i] = IF l <= line + 1 THEN l ELSE Garbage
    BY <1>9, <2>4
  <2>6. QED
    BY <2>2, <2>3, <2>5
<1>11. ASSUME spc' = "scan"
       PROVE  count' < BatchIdNumber
  <2>1. count' # BatchIdNumber
    BY <1>1, <1>11
  <2> HIDE DEF E
  <2>2. QED
    BY <1>1, <1>8, <1>9, <2>1
<1>12. QED
  BY <1>1, <1>9, <1>10, <1>11

\* What the server has does not change while it takes no step.
LEMMA ScanKept ==
    ASSUME ScanInv, data' = data, UNCHANGED server
    PROVE  ScanInv'
<1>1. /\ \A id : Found(id)' = Found(id)
      /\ EachOnce(batch_ids)' <=> EachOnce(batch_ids)
  BY FoundKept DEF server, found, EachOnce
<1>2. \A i \in Index : Stored(i) => Stored(i)'
  BY <1>1 DEF Stored, server, found
<1>3. QED
  BY <1>1, <1>2 DEF ScanInv, server, found

\* A server that ends has nothing.
LEMMA ScanEnded ==
    ASSUME ServerEnds(spc'), spc' \notin {"scan", "serve"}
    PROVE  ScanInv'
<1>1. /\ batch_ids' = <<>> /\ line' = 0 /\ count' = 0
      /\ \A i \in Index : db'[i] = Garbage
      /\ spc' # "scan" /\ spc' # "serve"
  BY DEF ServerEnds
<1>2. QED
  BY <1>1 DEF ScanInv

\* The scan's part of the invariant, at every step.
LEMMA ScanStep ==
    ASSUME IInv, [Next]_vars
    PROVE  ScanInv'
<1>1. BatchTypeOK /\ ScanInv /\ ClientInv
  BY DEF IInv
<1>2. /\ BatchIdNumber \in Nat \ {0} /\ Garbage \notin Nat
  BY <1>1, Sizes, BatchAssumption DEF BatchTypeOK
<1>3. CASE ScanLine
  <2>1. /\ data' = data /\ batch_ids' = batch_ids /\ spc' \in {"scan", "serve"}
        /\ Len(batch_ids) = BatchIdNumber
    BY <1>1, <1>3 DEF ScanLine, settings, ScanInv
  <2>2. /\ \A id : Found(id)' = Found(id)
        /\ EachOnce(batch_ids)' <=> EachOnce(batch_ids)
    BY <2>1, FoundKept DEF EachOnce
  <2>3. \A i \in Index : db'[i] # Garbage => Stored(i)'
    BY <1>1, <1>3, StoredStep
  <2>4. EachOnce(batch_ids) =>
            /\ spc' = "scan" =>
                /\ count' = Cardinality({i \in Index : db'[i] # Garbage})
                /\ count' < BatchIdNumber
                /\ \A i \in Index : \A l \in Found(batch_ids[i + 1]) :
                    db'[i] = IF l <= line' THEN l ELSE Garbage
            /\ spc' = "serve" =>
                \A i \in Index : Found(batch_ids[i + 1]) = {db'[i]}
    BY <1>1, <1>3, PassedStep
  <2>5. QED
    BY <2>1, <2>2, <2>3, <2>4 DEF ScanInv
<1>4. CASE ScanLimitReached
  <2>1. /\ data' = data /\ UNCHANGED found /\ spc = "scan" /\ spc' = "serve"
        /\ line = ScanLimit
    BY <1>4 DEF ScanLimitReached, settings
  <2>2. /\ \A id : Found(id)' = Found(id)
        /\ EachOnce(batch_ids)' <=> EachOnce(batch_ids)
    BY <2>1, FoundKept DEF EachOnce, found
  <2>3. ~EachOnce(batch_ids)
    <3>1. ~(line < ScanLimit)
      BY <1>1, <2>1, BatchAssumption DEF BatchTypeOK
    <3>2. QED
      BY <1>1, <2>1, <3>1, ToCome
  <2>4. \A i \in Index : Stored(i) => Stored(i)'
    BY <2>1, <2>2 DEF Stored, found
  <2>5. QED
    BY <1>1, <2>1, <2>2, <2>3, <2>4 DEF ScanInv, found
<1>5. CASE SendIds
  <2>1. /\ data' = data /\ batch_ids' = buffer /\ spc' = "scan"
        /\ UNCHANGED <<line, count, db>> /\ spc = "receive"
        /\ Len(buffer) = BatchIdNumber
    BY <1>1, <1>5 DEF SendIds, settings, ClientInv
  <2>2. line = 0 /\ count = 0 /\ \A i \in Index : db[i] = Garbage
    BY <1>1, <2>1 DEF ScanInv, Stored
  <2>3. Cardinality({i \in Index : db'[i] # Garbage}) = 0
    <3>1. {i \in Index : db'[i] # Garbage} = {}
      BY <2>1, <2>2
    <3>2. QED
      BY <3>1, FS_EmptySet
  <2>4. ASSUME NEW id, NEW l \in Found(id)'
        PROVE  ~(l <= 0)
    <3>1. l \in DOMAIN data /\ DOMAIN data = 1 .. Len(data) /\ Len(data) \in Nat
      BY <1>1, <2>1, LineReadIs DEF Found, BatchTypeOK
    <3>2. QED
      BY <3>1
  <2>5. 0 < BatchIdNumber
    BY <1>2
  <2>6. QED
    BY <2>1, <2>2, <2>3, <2>4, <2>5 DEF ScanInv
<1>6. CASE Connect
  <2>1. UNCHANGED found /\ spc = "listen" /\ spc' = "receive"
    BY <1>6 DEF Connect
  <2>2. /\ batch_ids = <<>> /\ line = 0 /\ count = 0
        /\ \A i \in Index : db[i] = Garbage
    BY <1>1, <2>1 DEF ScanInv, Stored
  <2>3. QED
    BY <2>1, <2>2 DEF ScanInv, found
<1>7. CASE ScanPastEnd \/ KeysAsQuery \/ QueryAsKeys
  <2>1. ServerEnds("down")
    BY <1>7 DEF ScanPastEnd, KeysAsQuery, QueryAsKeys
  <2>2. spc' = "down"
    BY <2>1 DEF ServerEnds
  <2>3. QED
    BY <2>1, <2>2, ScanEnded
<1>8. CASE StopClient \/ RestartServer
  <2>1. /\ data' = data
        /\ UNCHANGED server \/ ServerEnds("down") \/ ServerEnds("listen")
    BY <1>8 DEF StopClient, RestartServer, settings
  <2>2. ASSUME NEW how \in {"down", "listen"}, ServerEnds(how)
        PROVE  ScanInv'
    <3>1. spc' = how
      BY <2>2 DEF ServerEnds
    <3>2. QED
      BY <2>2, <3>1, ScanEnded
  <2>3. QED
    BY <1>1, <2>1, <2>2, ScanKept
<1>9. CASE Preprocess \/ ReadPreprocess \/ ServerGone \/ Query
  BY <1>1, <1>9, ScanKept
     DEF Preprocess, PickRandom, PickFromEmpty, OpenPreprocess, DrawIndex,
         PlaceBatchId, PlaceRandomId, Place, ReadPreprocess, ServerGone, Query,
         settings
<1>10. ASSUME NEW batch \in BatchFiles, NEW b \in BOOLEAN, StartClient(batch, b)
       PROVE  ScanInv'
  BY <1>1, <1>10, ScanKept DEF StartClient, settings
<1>11. CASE UNCHANGED vars
  BY <1>1, <1>11, ScanKept DEF vars, settings
<1>12. QED
  BY <1>3, <1>4, <1>5, <1>6, <1>7, <1>8, <1>9, <1>10, <1>11
     DEF Next, ClientStep, Scan

-----------------------------------------------------------------------------
(***************************************************************************)
(* The client and what it has.                                              *)
(***************************************************************************)

\* A client that ended has nothing, and there is no server that waits for it.
LEMMA ClientEnded ==
    ASSUME ClientEnds(cpc'), cpc' \in {"off", "lost"}, spc' # "receive"
    PROVE  ClientInv'
<1>1. results' = <<>> /\ asked' = 0
      /\ cpc' \notin {"connect", "send", "query"} /\ cpc' # "send"
  BY DEF ClientEnds
<1>2. QED
  BY <1>1 DEF ClientInv

\* The client's part of the invariant, at every step.
LEMMA ClientInvStep ==
    ASSUME IInv, [Next]_vars
    PROVE  ClientInv'
<1>1. BatchTypeOK /\ ClientInv
  BY DEF IInv
<1>2. /\ BatchIdNumber \in Nat \ {0} /\ QueryNumber \in Nat \ {0}
  BY <1>1, Sizes DEF BatchTypeOK
<1>3. CASE UNCHANGED <<ele_per_ptxt, cpc, memory, spc>>
  BY <1>1, <1>3 DEF ClientInv, memory, QueryNumber
<1>4. ASSUME NEW batch \in BatchFiles, NEW b \in BOOLEAN, StartClient(batch, b)
      PROVE  ClientInv'
  <2>1. Len(batch_query_ids') = BatchSize
    BY <1>4, BatchIdsType DEF StartClient
  <2>2. /\ cpc' \in {"pick", "read"} /\ results' = <<>> /\ asked' = 0
        /\ spc' = spc /\ cpc # "send"
    BY <1>4 DEF StartClient, server
  <2>3. QED
    BY <1>1, <2>1, <2>2 DEF ClientInv
<1>5. CASE Preprocess
  <2>1. CASE PickFromEmpty
    <3>1. ClientEnds("lost") /\ cpc' = "lost" /\ spc' = spc /\ cpc = "pick"
      BY <2>1 DEF PickFromEmpty, ClientEnds, server
    <3>2. QED
      BY <1>1, <3>1, ClientEnded DEF ClientInv
  <2>2. CASE ~PickFromEmpty
    <3>1. /\ cpc \in {"pick", "index", "place"}
          /\ cpc' \in {"pick", "index", "place", "read"}
          /\ UNCHANGED <<batch_query_ids, results, asked, spc>>
      BY <1>5, <2>2
         DEF Preprocess, PickRandom, OpenPreprocess, DrawIndex, PlaceBatchId,
             PlaceRandomId, Place, memory, server
    <3>2. QED
      BY <1>1, <3>1 DEF ClientInv
  <2>3. QED
    BY <2>1, <2>2
<1>6. CASE ReadPreprocess
  <2>1. /\ cpc = "read" /\ cpc' = "connect"
        /\ UNCHANGED <<settings, batch_query_ids, asked, results, spc>>
        /\ buffer' = [i \in 1 .. BatchIdNumber |-> At(ids, Min({i, Len(ids)}))]
    BY <1>6 DEF ReadPreprocess, server
  <2>2. Len(buffer') = BatchIdNumber
    BY <1>2, <2>1
  <2>3. /\ IsFiniteSet(batch_query_index')
        /\ Cardinality(batch_query_index') \in 1 .. QueryNumber
    BY <1>6, AskedFor
  <2>4. asked = 0 /\ asked' < Cardinality(batch_query_index')
    BY <1>1, <1>2, <2>1, <2>3 DEF ClientInv
  <2>5. QueryNumber' = QueryNumber
    BY <2>1 DEF QueryNumber, settings
  <2>6. QED
    BY <1>1, <2>1, <2>2, <2>3, <2>4, <2>5 DEF ClientInv
<1>7. CASE Connect \/ SendIds
  <2>1. /\ cpc' \in {"send", "query"} /\ cpc \in {"connect", "send"}
        /\ cpc' = "send" <=> spc' = "receive"
        /\ cpc' = "send" => buffer' = buffer
        /\ UNCHANGED <<settings, batch_query_ids, batch_query_index, asked,
                       results>>
    BY <1>7 DEF Connect, SendIds, memory
  <2>2. QueryNumber' = QueryNumber
    BY <2>1 DEF QueryNumber, settings
  <2>3. QED
    BY <1>1, <2>1, <2>2 DEF ClientInv
<1>8. CASE KeysAsQuery \/ QueryAsKeys \/ ServerGone
  <2>1. ClientEnds("lost") /\ cpc' = "lost" /\ spc' = "down"
    BY <1>8
       DEF KeysAsQuery, QueryAsKeys, ServerGone, ClientEnds, ServerEnds, server
  <2>2. QED
    BY <2>1, ClientEnded
<1>9. CASE Query
  <2>1. /\ cpc = "query" /\ spc = "serve" /\ spc' = spc /\ asked' = asked + 1
        /\ cpc' = IF asked' = Cardinality(batch_query_index) THEN "done"
                  ELSE "query"
        /\ UNCHANGED <<settings, batch_query_ids, batch_query_index>>
    BY <1>9 DEF Query, server
  <2> DEFINE c == Cardinality(batch_query_index)
  <2>2. IsFiniteSet(batch_query_index) /\ c \in 1 .. QueryNumber /\ asked < c
    BY <1>1, <2>1 DEF ClientInv
  <2>3. asked \in Nat /\ c \in Nat
    BY <1>1, <1>2, <2>2 DEF BatchTypeOK
  <2>4. cpc' = IF asked' = c THEN "done" ELSE "query"
    BY <2>1
  <2> HIDE DEF c
  <2>5. cpc' = "query" => asked' < c
    BY <2>1, <2>2, <2>3, <2>4
  <2>6. QueryNumber' = QueryNumber
    BY <2>1 DEF QueryNumber, settings
  <2>7. cpc' \in {"query", "done"} /\ Len(batch_query_ids') = BatchSize
    BY <1>1, <2>1 DEF ClientInv
  <2>8. QED
    BY <2>1, <2>2, <2>5, <2>6, <2>7 DEF ClientInv, c
<1>10. CASE Scan
  <2>1. UNCHANGED <<ele_per_ptxt, cpc, memory>> /\ spc = "scan"
        /\ spc' \in {"scan", "serve", "down"}
    BY <1>10
       DEF Scan, ScanLine, ScanPastEnd, ScanLimitReached, ServerEnds, settings,
           client
  <2>2. QED
    BY <1>1, <2>1 DEF ClientInv, memory, QueryNumber
<1>11. CASE StopClient
  <2>1. ClientEnds("off") /\ cpc' = "off"
    BY <1>11 DEF StopClient, ClientEnds
  <2>2. spc' # "receive"
    <3>1. CASE cpc = "send"
      BY <1>11, <3>1 DEF StopClient, ServerEnds
    <3>2. CASE cpc # "send"
      BY <1>1, <1>11, <3>2 DEF StopClient, server, ClientInv
    <3>3. QED
      BY <3>1, <3>2
  <2>3. QED
    BY <2>1, <2>2, ClientEnded
<1>12. CASE RestartServer
  <2>1. spc' = "listen" /\ UNCHANGED settings
    BY <1>12 DEF RestartServer, ServerEnds
  <2>2. CASE ClientEnds("lost")
    <3>1. cpc' = "lost"
      BY <2>2 DEF ClientEnds
    <3>2. QED
      BY <2>1, <2>2, <3>1, ClientEnded
  <2>3. CASE UNCHANGED client /\ cpc # "send"
    BY <1>1, <2>1, <2>3 DEF ClientInv, client, memory, settings, QueryNumber
  <2>4. QED
    BY <1>12, <2>2, <2>3 DEF RestartServer
<1>13. CASE UNCHANGED vars
  BY <1>3, <1>13 DEF vars, settings, client, server
<1>14. QED
  BY <1>4, <1>5, <1>6, <1>7, <1>8, <1>9, <1>10, <1>11, <1>12, <1>13
     DEF Next, ClientStep

\* A batch is not garbage, so that the file of a batch was written.
LEMMA OwnFile ==
    ASSUME IInv, placed_for = batch_query_ids
    PROVE  /\ placed_for # Garbage /\ Len(indexes) = QueryNumber
           /\ Len(ids) = BatchIdNumber /\ indexes # <<>>
           /\ Placement(batch_query_ids)
           /\ Garbage \in Range(ids) \/ AllPlaced
<1>1. batch_query_ids \in Seq(Id \cup {0, Garbage})
  BY DEF IInv, BatchTypeOK, Number
<1>2. placed_for # Garbage
  BY <1>1, BatchAssumption
<1>3. QueryNumber \in Nat \ {0}
  BY Sizes DEF IInv, BatchTypeOK
<1>4. Len(indexes) = QueryNumber
  BY <1>2 DEF IInv, FileInv
<1>5. indexes # <<>>
  <2>1. Len(indexes) # 0
    BY <1>3, <1>4
  <2>2. Len(<<>>) = 0
    BY EmptySeq
  <2>3. QED
    BY <2>1, <2>2
<1>6. QED
  BY <1>2, <1>4, <1>5 DEF IInv, FileInv

\* What is asked for and sent is the file, at every step.
LEMMA OwnFileStep ==
    ASSUME IInv, [Next]_vars
    PROVE  OwnFileInv'
<1>1. BatchTypeOK /\ ClientInv /\ OwnFileInv
  BY DEF IInv
<1>2. ASSUME cpc' \notin {"connect", "send", "query"}
      PROVE  OwnFileInv'
  <2>1. cpc' # "connect" /\ cpc' # "send" /\ cpc' # "query"
    BY <1>2
  <2>2. QED
    BY <2>1 DEF OwnFileInv
<1>3. CASE ReadPreprocess
  <2>1. SUFFICES ASSUME placed_for = batch_query_ids
                 PROVE  batch_query_index' = Range(indexes) /\ buffer' = ids
    BY <1>3 DEF ReadPreprocess, OwnFileInv, file
  <2>2. batch_query_index' = Range(indexes)
    BY <1>3, <2>1, OwnFile DEF ReadPreprocess
  <2>3. /\ Len(ids) = BatchIdNumber /\ ids \in Seq(Number)
        /\ BatchIdNumber \in Nat \ {0}
    BY <1>1, <2>1, OwnFile, Sizes DEF BatchTypeOK
  <2>4. buffer' = [i \in 1 .. BatchIdNumber |-> At(ids, Min({i, BatchIdNumber}))]
    BY <1>3, <2>3 DEF ReadPreprocess
  <2>5. ASSUME NEW i \in 1 .. BatchIdNumber
        PROVE  At(ids, Min({i, BatchIdNumber})) = ids[i]
    <3>1. Min({i, BatchIdNumber}) = i
      BY <2>3, MinOfTwo
    <3>2. QED
      BY <2>3, <3>1, AtType
  <2>6. buffer' = [i \in 1 .. BatchIdNumber |-> ids[i]]
    BY <2>4, <2>5
  <2>7. ids \in [1 .. BatchIdNumber -> Number]
    BY <2>3, LenProperties
  <2>8. QED
    BY <2>2, <2>6, <2>7
<1>4. CASE Connect
  BY <1>1, <1>4 DEF Connect, OwnFileInv, file, memory
<1>5. CASE SendIds
  BY <1>1, <1>5 DEF SendIds, OwnFileInv, file
<1>6. CASE Query
  <2>1. /\ cpc = "query" /\ cpc' \in {"query", "done"}
        /\ UNCHANGED <<file, batch_query_ids, batch_query_index, server>>
    BY <1>6 DEF Query
  <2>2. QED
    BY <1>1, <2>1 DEF OwnFileInv, file, server, found
<1>7. CASE Scan
  <2>1. UNCHANGED client /\ spc = "scan"
        /\ (batch_ids' = batch_ids \/ spc' = "down")
    BY <1>7
       DEF Scan, ScanLine, ScanPastEnd, ScanLimitReached, found, ServerEnds
  <2>2. QED
    BY <1>1, <2>1 DEF OwnFileInv, client, file, memory
<1>8. CASE KeysAsQuery \/ QueryAsKeys \/ ServerGone \/ StopClient
  <2>1. cpc' \in {"lost", "off"}
    BY <1>8 DEF KeysAsQuery, QueryAsKeys, ServerGone, StopClient, ClientEnds
  <2>2. QED
    BY <1>2, <2>1
<1>9. CASE RestartServer
  <2>1. spc' = "listen"
    BY <1>9 DEF RestartServer, ServerEnds
  <2>2. CASE UNCHANGED client
    BY <1>1, <2>1, <2>2 DEF OwnFileInv, client, file, memory
  <2>3. CASE ClientEnds("lost")
    BY <1>2, <2>3 DEF ClientEnds
  <2>4. QED
    BY <1>9, <2>2, <2>3 DEF RestartServer
<1>10. CASE Preprocess
  <2>1. cpc' \in {"pick", "index", "place", "read", "lost"}
    BY <1>10
       DEF Preprocess, PickRandom, PickFromEmpty, OpenPreprocess, DrawIndex,
           PlaceBatchId, PlaceRandomId, Place, ClientEnds
  <2>2. QED
    BY <1>2, <2>1
<1>11. ASSUME NEW batch \in BatchFiles, NEW b \in BOOLEAN, StartClient(batch, b)
       PROVE  OwnFileInv'
  <2>1. cpc' \in {"pick", "read"}
    BY <1>11 DEF StartClient
  <2>2. QED
    BY <1>2, <2>1
<1>12. CASE UNCHANGED vars
  BY <1>1, <1>12
     DEF OwnFileInv, vars, client, file, memory, server, found
<1>13. QED
  BY <1>3, <1>4, <1>5, <1>6, <1>7, <1>8, <1>9, <1>10, <1>11, <1>12
     DEF Next, ClientStep

-----------------------------------------------------------------------------
(***************************************************************************)
(* The results.                                                             *)
(***************************************************************************)

\* A line of a query is for the id the file has in its place.
LEMMA LineIs ==
    ASSUME IInv, placed_for = batch_query_ids, cpc = "query", spc = "serve",
           NEW q \in batch_query_index, asked = Position(q),
           asked \in 0 .. QueryNumber - 1, NEW i \in 1 .. Lines(asked)
    PROVE  LET j == q * ele_per_ptxt + (i - 1)
               id == At(batch_query_ids, asked * ele_per_ptxt + i)
               record == Reply(q)[i - 1]
           IN  /\ q \in Range(indexes) /\ i - 1 \in 0 .. ele_per_ptxt - 1
               /\ j \in Nat
               /\ Rank(Range(indexes), q) * ele_per_ptxt + (i - 1) < BatchSize
               /\ j \in Index => record = db[j] /\ id = batch_ids[j + 1]
               /\ j \notin Index => record = Garbage
<1> DEFINE e == ele_per_ptxt
           j == q * e + (i - 1)
           k == asked * e + (i - 1)
           R == Range(indexes)
<1>1. BatchTypeOK /\ ClientInv /\ OwnFileInv
  BY DEF IInv
<1>2. /\ e \in Nat \ {0} /\ BatchSize \in Nat \ {0}
      /\ BatchIdNumber \in Nat \ {0} /\ QueryNumber \in Nat \ {0}
      /\ asked \in Nat
  BY <1>1, Sizes DEF BatchTypeOK
<1>3. batch_query_index = R /\ batch_ids = ids /\ Len(ids) = BatchIdNumber
      /\ Placement(batch_query_ids)
  BY <1>1, OwnFile DEF OwnFileInv
<1>4. q \in R /\ asked = Rank(R, q)
  BY <1>3 DEF Position, Rank
<1>5. q \in Nat
  <2>1. indexes \in Seq(0 .. PtxtNumber - 1)
    BY <1>1 DEF BatchTypeOK
  <2>2. q \in 0 .. PtxtNumber - 1
    BY <1>4, <2>1, RangeIsFinite
  <2>3. QED
    BY <2>2
<1>6. /\ Lines(asked) \in 0 .. e
      /\ asked * e + i \in 1 .. BatchSize
  BY <1>1, LinesFit DEF BatchTypeOK
<1>7. /\ i \in Nat /\ i - 1 \in 0 .. e - 1 /\ q * e \in Nat /\ asked * e \in Nat
  BY <1>2, <1>5, <1>6
<1>8. j \in Nat /\ k \in Nat /\ k < BatchSize /\ k + 1 = asked * e + i
  BY <1>2, <1>6, <1>7
<1>9. At(batch_query_ids, k + 1) = batch_query_ids[k + 1]
  <2>1. batch_query_ids \in Seq(Number) /\ Len(batch_query_ids) = BatchSize
    BY <1>1 DEF BatchTypeOK, ClientInv
  <2>2. k + 1 \in 1 .. Len(batch_query_ids)
    BY <1>6, <1>8, <2>1
  <2>3. QED
    BY <2>1, <2>2, AtType
<1>10. Reply(q)[i - 1] = IF j \in Index THEN db[j] ELSE Garbage
  BY <1>7 DEF Reply
<1>11. ASSUME j \in Index PROVE batch_query_ids[k + 1] = batch_ids[j + 1]
  <2>1. j < Len(ids)
    <3> HIDE DEF j
    <3>1. QED
      BY <1>2, <1>3, <1>11 DEF Index
  <2>2. ids[j + 1] = batch_query_ids[k + 1]
    BY <1>3, <1>4, <1>7, <1>8, <2>1 DEF Placement
  <2>3. QED
    BY <1>3, <2>2
<1> HIDE DEF j, k
<1>12. QED
  BY <1>4, <1>7, <1>8, <1>9, <1>10, <1>11 DEF j, k, R

\* If a line has no record, an id was sent that is not in the data file once:
\* it has a place but no line, or it has no place and garbage has one.
LEMMA LineWithout ==
    ASSUME IInv, placed_for = batch_query_ids, cpc = "query", spc = "serve",
           NEW q \in Range(indexes), NEW i \in 0 .. ele_per_ptxt - 1,
           q * ele_per_ptxt + i \in Nat,
           Rank(Range(indexes), q) * ele_per_ptxt + i < BatchSize,
           q * ele_per_ptxt + i \in Index => db[q * ele_per_ptxt + i] = Garbage
    PROVE  ~EachOnce(batch_ids)
<1> DEFINE j == q * ele_per_ptxt + i
<1>1. BatchTypeOK /\ ScanInv /\ OwnFileInv
  BY DEF IInv
<1>2. /\ data \in DataFiles /\ data \in Seq(Id) /\ Garbage \notin Nat
      /\ Id \subseteq Nat
  BY <1>1, BatchAssumption DEF BatchTypeOK
<1>3. Len(data) \in Nat /\ DOMAIN data = 1 .. Len(data)
  BY <1>2, LenProperties
<1>4. CASE j \in Index
  <2>1. ASSUME EachOnce(batch_ids) PROVE FALSE
    <3>1. Found(batch_ids[j + 1]) = {db[j]}
      BY <1>1, <1>4, <2>1 DEF ScanInv
    <3>2. Garbage \in Found(batch_ids[j + 1])
      BY <1>4, <3>1
    <3>3. Garbage \in Nat
      BY <1>3, <3>2 DEF Found
    <3>4. QED
      BY <1>2, <3>3
  <2>2. QED
    BY <2>1
<1>5. CASE j \notin Index
  <2>1. BatchIdNumber \in Nat /\ ~(j < BatchIdNumber)
    <3>1. BatchIdNumber \in Nat
      BY BatchAssumption
    <3>2. j \in Nat
      OBVIOUS
    <3> HIDE DEF j
    <3>3. QED
      BY <1>5, <3>1, <3>2 DEF Index
  <2>2. ~AllPlaced
    BY <2>1 DEF AllPlaced
  <2>3. Garbage \in Range(batch_ids)
    BY <1>1, <2>2, OwnFile DEF OwnFileInv
  <2>4. Found(Garbage) = {}
    <3>1. ASSUME NEW l \in DOMAIN data PROVE Numbers(data)[l] # Garbage
      <4>1. Numbers(data) \in Seq(Id \cup {0}) /\ Len(Numbers(data)) = Len(data)
        BY <1>2, NumbersType
      <4>2. Numbers(data)[l] \in Id \cup {0}
        BY <1>3, <4>1, ElementOfSeq
      <4>3. \A x \in Id \cup {0} : x \in Nat
        BY <1>2
      <4>4. Numbers(data)[l] \in Nat
        BY <4>2, <4>3
      <4>5. QED
        BY <1>2, <4>4
    <3>2. QED
      BY <3>1 DEF Found
  <2>5. Cardinality(Found(Garbage)) # 1
    BY <2>4, FS_EmptySet
  <2>6. QED
    BY <2>3, <2>5 DEF EachOnce
<1>6. QED
  BY <1>4, <1>5

\* What was written stays right, also when the server ends and with it the ids
\* it was sent.
LEMMA ResultsKept ==
    ASSUME ResultsAreRecords, data' = data,
           \/ results' = <<>>
           \/ /\ results' = results
              /\ UNCHANGED <<placed_for, batch_query_ids>>
              /\ batch_ids' = batch_ids \/ batch_ids' = <<>>
    PROVE  ResultsAreRecords'
<1>1. /\ \A id : Found(id)' = Found(id)
      /\ EachOnce(batch_ids') <=> EachOnce(batch_ids)'
  BY FoundKept DEF EachOnce
<1>2. Range(<<>>) = {}
  BY DEF Range
<1>3. CASE results' = <<>>
  <2>1. Range(results') = {}
    BY <1>2, <1>3
  <2>2. QED
    BY <2>1 DEF ResultsAreRecords
<1>4. CASE /\ results' = results
           /\ UNCHANGED <<placed_for, batch_query_ids>>
           /\ batch_ids' = batch_ids \/ batch_ids' = <<>>
  <2>1. SUFFICES ASSUME placed_for = batch_query_ids, NEW r \in Range(results)
                 PROVE  IF r.record # Garbage
                        THEN \/ r.record \in Found(r.id)'
                             \/ r.id = 0 /\ data' \in Unterminated
                                /\ r.record = Len(data')
                        ELSE \/ r.id \notin Range(batch_ids')
                             \/ ~EachOnce(batch_ids)'
    BY <1>4 DEF ResultsAreRecords
  <2>2. IF r.record # Garbage
        THEN \/ r.record \in Found(r.id)
             \/ r.id = 0 /\ data \in Unterminated /\ r.record = Len(data)
        ELSE \/ r.id \notin Range(batch_ids)
             \/ ~EachOnce(batch_ids)
    BY <2>1 DEF ResultsAreRecords
  <2>3. CASE batch_ids' = batch_ids
    <3>1. EachOnce(batch_ids)' <=> EachOnce(batch_ids)
      BY <1>1, <2>3, FoundKept
    <3>2. QED
      BY <1>1, <2>2, <2>3, <3>1
  <2>4. CASE batch_ids' = <<>>
    BY <1>1, <1>2, <2>2, <2>4
  <2>5. QED
    BY <1>4, <2>3, <2>4
<1>5. QED
  BY <1>3, <1>4

\* The lines of a query are right too.
LEMMA QueryResults ==
    ASSUME IInv, Query
    PROVE  ResultsAreRecords'
<1>1. BatchTypeOK /\ ScanInv /\ ResultsAreRecords
  BY DEF IInv
<1>2. /\ cpc = "query" /\ spc = "serve" /\ data' = data
      /\ UNCHANGED <<placed_for, batch_query_ids, batch_ids>>
  BY DEF Query, settings, file, server, found
<1>3. /\ \A id : Found(id)' = Found(id)
      /\ EachOnce(batch_ids)' <=> EachOnce(batch_ids)
  BY <1>2, FoundKept DEF EachOnce
<1>4. PICK q \in batch_query_index :
        LET p == Position(q)
            added == [i \in 1 .. Lines(p) |->
                        [id |-> At(batch_query_ids, p * ele_per_ptxt + i),
                         record |-> Reply(q)[i - 1]]]
        IN  /\ p = asked /\ p \in 0 .. QueryNumber - 1
            /\ Lines(p) \in 0 .. ele_per_ptxt
            /\ results' = results \o added
            /\ added \in Seq([id : Number, record : DOMAIN data \cup {Garbage}])
            /\ Len(added) = Lines(p)
  BY AddedLines
<1> DEFINE added == [i \in 1 .. Lines(asked) |->
                        [id |-> At(batch_query_ids, asked * ele_per_ptxt + i),
                         record |-> Reply(q)[i - 1]]]
           T == [id : Number, record : DOMAIN data \cup {Garbage}]
           Right(r) == IF r.record # Garbage
                       THEN \/ r.record \in Found(r.id)
                            \/ r.id = 0 /\ data \in Unterminated
                               /\ r.record = Len(data)
                       ELSE \/ r.id \notin Range(batch_ids)
                            \/ ~EachOnce(batch_ids)
<1>5. /\ asked = Position(q) /\ asked \in 0 .. QueryNumber - 1
      /\ results' = results \o added /\ added \in Seq(T)
  BY <1>4
<1>6. results \in Seq(T)
  BY <1>1 DEF BatchTypeOK
<1>7. SUFFICES ASSUME placed_for = batch_query_ids, NEW r \in Range(results')
               PROVE  Right(r)
  BY <1>2, <1>3 DEF ResultsAreRecords
<1>8. r \in Range(results) \/ r \in Range(added)
  <2> HIDE DEF added, T
  <2> DEFINE m == Len(results)
             n == Len(added)
             s == results \o added
  <2>1. /\ m \in Nat /\ n \in Nat /\ s \in Seq(T) /\ Len(s) = m + n
        /\ \A i \in 1 .. m + n : s[i] = IF i <= m THEN results[i]
                                        ELSE added[i - m]
    BY <1>5, <1>6, ConcatProperties, LenProperties
  <2>2. PICK i \in 1 .. m + n : s[i] = r
    <3>1. r \in Range(s)
      BY <1>5
    <3> HIDE DEF s
    <3>2. QED
      BY <2>1, <3>1, RangeIsFinite
  <2>3. CASE i <= m
    <3>1. i \in 1 .. m /\ results[i] = r
      BY <2>1, <2>2, <2>3
    <3>2. QED
      BY <1>6, <3>1, RangeIsFinite
  <2>4. CASE ~(i <= m)
    <3>1. added[i - m] = r
      BY <2>1, <2>2, <2>4
    <3>2. i - m \in 1 .. n
      <4> HIDE DEF m, n, s
      <4>1. QED
        BY <2>1, <2>2, <2>4
    <3>3. QED
      BY <1>5, <3>1, <3>2, RangeIsFinite
  <2>5. QED
    BY <2>3, <2>4
<1>9. CASE r \in Range(results)
  BY <1>1, <1>7, <1>9 DEF ResultsAreRecords
<1>10. CASE r \in Range(added)
  <2>1. PICK i \in 1 .. Lines(asked) : added[i] = r
    BY <1>10 DEF Range
  <2> DEFINE j == q * ele_per_ptxt + (i - 1)
  <2>2. /\ r.id = At(batch_query_ids, asked * ele_per_ptxt + i)
        /\ r.record = Reply(q)[i - 1]
    BY <2>1
  <2>3. /\ q \in Range(indexes) /\ i - 1 \in 0 .. ele_per_ptxt - 1
        /\ j \in Nat
        /\ Rank(Range(indexes), q) * ele_per_ptxt + (i - 1) < BatchSize
        /\ j \in Index => r.record = db[j] /\ r.id = batch_ids[j + 1]
        /\ j \notin Index => r.record = Garbage
    BY <1>2, <1>5, <1>7, <2>2, LineIs
  <2>4. CASE r.record # Garbage
    <3>1. j \in Index /\ Stored(j)
      BY <1>1, <2>3, <2>4 DEF ScanInv
    <3>2. QED
      BY <2>3, <2>4, <3>1 DEF Stored
  <2>5. CASE r.record = Garbage
    <3>1. ~EachOnce(batch_ids)
      BY <1>2, <1>7, <2>3, <2>5, LineWithout
    <3>2. QED
      BY <2>5, <3>1
  <2>6. QED
    BY <2>4, <2>5
<1>11. QED
  BY <1>8, <1>9, <1>10

\* The results, at every step.
LEMMA ResultsStep ==
    ASSUME IInv, [Next]_vars
    PROVE  ResultsAreRecords'
<1>1. ResultsAreRecords /\ ClientInv
  BY DEF IInv
<1>2. ASSUME NEW batch \in BatchFiles, NEW b \in BOOLEAN, StartClient(batch, b)
      PROVE  ResultsAreRecords'
  BY <1>1, <1>2, ResultsKept DEF StartClient, settings
<1>3. CASE Preprocess \/ ReadPreprocess \/ Connect \/ SendIds
  <2>1. cpc \in {"pick", "index", "place", "read", "connect", "send"}
    BY <1>3
       DEF Preprocess, PickRandom, PickFromEmpty, OpenPreprocess, DrawIndex,
           PlaceBatchId, PlaceRandomId, ReadPreprocess, Connect, SendIds
  <2>2. results = <<>>
    BY <1>1, <2>1 DEF ClientInv
  <2>3. data' = data /\ (results' = results \/ results' = <<>>)
    BY <1>3
       DEF Preprocess, PickRandom, PickFromEmpty, OpenPreprocess, DrawIndex,
           PlaceBatchId, PlaceRandomId, Place, ReadPreprocess, Connect, SendIds,
           ClientEnds, settings, memory
  <2>4. QED
    BY <1>1, <2>2, <2>3, ResultsKept
<1>4. CASE KeysAsQuery \/ QueryAsKeys \/ ServerGone \/ StopClient
  <2>1. data' = data /\ results' = <<>>
    BY <1>4
       DEF KeysAsQuery, QueryAsKeys, ServerGone, StopClient, ClientEnds, settings
  <2>2. QED
    BY <1>1, <2>1, ResultsKept
<1>5. CASE Scan
  <2>1. /\ data' = data /\ UNCHANGED client
        /\ batch_ids' = batch_ids \/ batch_ids' = <<>>
    BY <1>5
       DEF Scan, ScanLine, ScanPastEnd, ScanLimitReached, ServerEnds, settings,
           found
  <2>2. QED
    BY <1>1, <2>1, ResultsKept DEF client, file, memory
<1>6. CASE RestartServer
  <2>1. data' = data /\ batch_ids' = <<>>
    BY <1>6 DEF RestartServer, ServerEnds, settings
  <2>2. UNCHANGED client \/ results' = <<>>
    BY <1>6 DEF RestartServer, ClientEnds
  <2>3. QED
    BY <1>1, <2>1, <2>2, ResultsKept DEF client, file, memory
<1>7. CASE UNCHANGED vars
  <2>1. /\ data' = data /\ results' = results /\ batch_ids' = batch_ids
        /\ UNCHANGED <<placed_for, batch_query_ids>>
    BY <1>7 DEF vars, settings, client, file, memory, server, found
  <2>2. QED
    BY <1>1, <2>1, ResultsKept
<1>8. QED
  BY <1>2, <1>3, <1>4, <1>5, <1>6, <1>7, QueryResults DEF Next, ClientStep

-----------------------------------------------------------------------------
(***************************************************************************)
(* The theorems.                                                            *)
(***************************************************************************)

\* It all holds at the start.
LEMMA InitInv ==
    Init => IInv
<1>1. SUFFICES ASSUME Init PROVE IInv
  OBVIOUS
<1>2. /\ QueryNumber \in Nat \ {0} /\ BatchSize \in Nat \ {0}
      /\ RandomIdSize \in Nat \ {0} /\ BatchIdNumber \in Nat \ {0}
  BY <1>1, Sizes DEF Init
<1>3. 0 \in 0 .. ScanLimit /\ Len(Runs) \in Nat
  BY BatchAssumption, LenProperties
<1>4. BatchTypeOK
  <2>1. /\ runs = 0 /\ batch_id_idx = 0 /\ asked = 0 /\ line = 0 /\ count = 0
        /\ 0 \in 0 .. 0 /\ 0 \in 0 .. BatchSize /\ 0 \in 0 .. QueryNumber
        /\ 0 <= RandomIdSize /\ 0 <= QueryNumber /\ 0 <= BatchIdNumber
        /\ runs \in 0 .. Len(Runs)
    BY <1>1, <1>2, <1>3 DEF Init
  <2>2. QED
    BY <1>1, <1>3, <2>1, EmptyTypes DEF Init, BatchTypeOK
<1>5. PlaceInv /\ FileInv /\ ClientInv /\ OwnFileInv
  BY <1>1 DEF Init, PlaceInv, FileInv, ClientInv, OwnFileInv
<1>6. ScanInv
  BY <1>1 DEF Init, ScanInv
<1>7. ResultsAreRecords
  BY <1>1 DEF Init, ResultsAreRecords, Range
<1>8. QED
  BY <1>4, <1>5, <1>6, <1>7 DEF IInv

\* The inductive invariant holds of every state.
THEOREM Invariance ==
    Spec => []IInv
<1>1. IInv /\ [Next]_vars => IInv'
  BY TypeStep, PlacementStep, ClientInvStep, OwnFileStep, ScanStep, ResultsStep
     DEF IInv
<1>2. QED
  BY <1>1, InitInv, PTL DEF Spec

\* Every variable keeps its type: nothing is written behind the end of
\* batch_query_ids, of the file or of the buffer sent, and the server finds no
\* more ids than lines.
THEOREM TypeCorrect ==
    Spec => []BatchTypeOK
<1>1. IInv => BatchTypeOK
  BY DEF IInv
<1>2. QED
  BY <1>1, Invariance, PTL

\* A client whose preprocess file is that of its batch writes no line with
\* another id's record, and none without one unless what was sent is not in the
\* data file once.
THEOREM ResultsAreRight ==
    Spec => []ResultsAreRecords
<1>1. IInv => ResultsAreRecords
  BY DEF IInv
<1>2. QED
  BY <1>1, Invariance, PTL

\* If each id that was sent is in the data file once, the scan ends with the
\* record of each in its place: neither with an exception nor too early.
THEOREM ScanIsComplete ==
    Spec => ScanFindsAll
<1> DEFINE A == spc = "scan" /\ spc' \in {"serve", "down"} /\ EachOnce(batch_ids)
                => /\ spc' = "serve"
                   /\ \A i \in Index : Found(batch_ids[i + 1]) = {db'[i]}
<1>1. ASSUME IInv, [Next]_vars PROVE A
  <2>1. SUFFICES ASSUME spc = "scan", spc' \in {"serve", "down"},
                        EachOnce(batch_ids)
                 PROVE  /\ spc' = "serve"
                        /\ \A i \in Index : Found(batch_ids[i + 1]) = {db'[i]}
    OBVIOUS
  <2>2. BatchTypeOK /\ ScanInv /\ ClientInv
    BY <1>1 DEF IInv
  <2>3. line < ScanLimit /\ line < Len(data)
    BY <2>1, <2>2, ToCome
  <2>4. ~ScanPastEnd
    BY <2>3 DEF ScanPastEnd, HasLine
  <2>5. ~ScanLimitReached
    BY <2>2, <2>3, BatchAssumption DEF ScanLimitReached, BatchTypeOK
  <2>6. cpc # "send"
    BY <2>1, <2>2 DEF ClientInv
  <2>7. ScanLine
    BY <1>1, <2>1, <2>4, <2>5, <2>6
       DEF Next, ClientStep, Preprocess, PickRandom, PickFromEmpty,
           OpenPreprocess, DrawIndex, PlaceBatchId, PlaceRandomId, Place,
           ReadPreprocess, Connect, SendIds, KeysAsQuery, ServerGone, Query,
           QueryAsKeys, Scan, StartClient, StopClient, RestartServer,
           ServerEnds, server, vars
  <2>8. spc' = "serve"
    BY <2>1, <2>7 DEF ScanLine
  <2>9. QED
    BY <2>1, <2>2, <2>7, <2>8, PassedStep
<1>2. IInv /\ [Next]_vars => [A]_vars
  BY <1>1
<1>3. QED
  BY <1>2, Invariance, PTL DEF Spec, ScanFindsAll
=============================================================================
