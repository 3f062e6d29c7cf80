-------------------------- MODULE Retrieval_proofs --------------------------
(***************************************************************************)
(* For every size of the group, FIRST_DIM, DIM, degree, modulus and gadget: *)
(* the query reaches the record it is for.                                  *)
(*                                                                         *)
(* First what the recursive functions of PirParams compute, and from it     *)
(* that the matrix holds every plaintext and that the parts which the       *)
(* coordinates contribute add up to the plaintext's index.  Then the        *)
(* polynomials: a Galois automorphism of poc_rlwe_expand keeps or negates   *)
(* a coefficient, so that an iteration splits a polynomial in the even and  *)
(* the odd slots; at the end the rows of a gadget are there or are zero.    *)
(*                                                                         *)
(* The inductive invariant IInv adds to the properties that the query under *)
(* way is the one the client packed (QueryInv), how many polynomials, sums  *)
(* and bits there are (ShapeInv), and that the bits are those of the        *)
(* coordinates (MuxInv): with them, each step of the server picks one       *)
(* plaintext per sum.                                                       *)
(***************************************************************************)
EXTENDS Retrieval, FiniteSetTheorems, SequenceTheorems, WellFoundedInduction, TLAPS

-----------------------------------------------------------------------------
(***************************************************************************)
(* Natural numbers: a least element, and with it induction over a set.      *)
(***************************************************************************)

\* A set of naturals has a least element: among the intervals that end in an
\* element of the set one is contained in all others.
LEMMA Least ==
    ASSUME NEW S \in SUBSET Nat, S # {}
    PROVE  \E m \in S : \A n \in S : m <= n
<1> DEFINE F == {0 .. n : n \in S}
           R == StrictSubsetOrdering(Nat)
           U == FiniteSubsetsOf(Nat)
<1>1. IsWellFoundedOn(R, U)
  BY FS_StrictSubsetOrderingWellFounded
<1>2. F \subseteq U /\ F # {}
  <2>1. ASSUME NEW n \in S
        PROVE  0 .. n \in U
    <3>1. 0 .. n \subseteq Nat
      OBVIOUS
    <3>2. IsFiniteSet(0 .. n)
      BY FS_Interval
    <3>3. QED
      BY <3>1, <3>2 DEF FiniteSubsetsOf
  <2>2. QED
    BY <2>1
<1>3. PICK X \in F : \A Y \in F : ~(<<Y, X>> \in R)
  <2> HIDE DEF F, R, U
  <2>1. QED
    BY <1>1, <1>2, WFMin
<1>4. PICK m \in S : X = 0 .. m
  OBVIOUS
<1>5. ASSUME NEW n \in S, n < m
      PROVE  FALSE
  <2>1. 0 .. n \in SUBSET Nat /\ X \in SUBSET Nat
    BY <1>4
  <2>2. 0 .. n \subseteq X /\ 0 .. n # X
    BY <1>4, <1>5
  <2>3. <<0 .. n, X>> \in R
    BY <2>1, <2>2 DEF StrictSubsetOrdering
  <2>4. QED
    BY <2>3, <1>3
<1>6. QED
  BY <1>5

\* Induction, for a property given as the set of numbers that have it.
LEMMA Induction ==
    ASSUME NEW S, 0 \in S, \A n \in Nat : n \in S => n + 1 \in S
    PROVE  \A n \in Nat : n \in S
<1> DEFINE Out == {n \in Nat : n \notin S}
<1> SUFFICES ASSUME Out # {}
             PROVE  FALSE
  OBVIOUS
<1>1. PICK m \in Out : \A n \in Out : m <= n
  BY Least
<1>2. m - 1 \in Nat /\ m - 1 \in S
  BY <1>1
<1>3. QED
  BY <1>1, <1>2

\* Induction from all smaller numbers.
LEMMA StrongInduction ==
    ASSUME NEW S, \A n \in Nat : (\A m \in Nat : m < n => m \in S) => n \in S
    PROVE  \A n \in Nat : n \in S
<1> DEFINE Out == {n \in Nat : n \notin S}
<1> SUFFICES ASSUME Out # {}
             PROVE  FALSE
  OBVIOUS
<1>1. PICK m \in Out : \A n \in Out : m <= n
  BY Least
<1>2. \A n \in Nat : n < m => n \in S
  BY <1>1
<1>3. QED
  BY <1>1, <1>2

\* f is defined by recursion: its value at n in Z is B[n], elsewhere it is
\* computed by F[n] from the value at D[n].
Recurs(f, S, Z, B, D, F) ==
    \A n \in S : f[n] = IF n \in Z THEN B[n] ELSE F[n][f[D[n]]]
Descends(S, Z, D) == \A n \in S \ Z : D[n] \in S /\ D[n] < n

\* Such a function exists when D descends.
LEMMA Recursion ==
    ASSUME NEW S \in SUBSET Nat, NEW Z \in SUBSET S, NEW V,
           NEW B \in [S -> V], NEW D \in [S -> Nat], NEW F \in [S -> [V -> V]],
           Descends(S, Z, D)
    PROVE  \E f \in [S -> V] : Recurs(f, S, Z, B, D, F)
<1>0. \A n \in S \ Z : D[n] \in S /\ D[n] < n
  BY DEF Descends
<1> DEFINE Good(f, n) == f[n] = IF n \in Z THEN B[n] ELSE F[n][f[D[n]]]
           Upto(f, n) == \A m \in S : m <= n => Good(f, m)
           X == {n \in Nat : \E f \in [S -> V] : Upto(f, n)}
<1>1. 0 \in X
  <2>1. \A m \in S : m <= 0 => m \in Z
    BY <1>0
  <2>2. Upto(B, 0)
    BY <2>1
  <2>3. QED
    BY <2>2
<1>2. ASSUME NEW n \in Nat, n \in X
      PROVE  n + 1 \in X
  <2>1. PICK f \in [S -> V] : Upto(f, n)
    BY <1>2
  <2> DEFINE k == n + 1
             v == IF k \in Z THEN B[k] ELSE F[k][f[D[k]]]
             g == [f EXCEPT ![k] = v]
  <2>2. CASE k \notin S
    <3>1. \A m \in S : m <= k => m <= n
      BY <2>2
    <3>2. Upto(f, k)
      BY <2>1, <3>1
    <3>3. QED
      BY <3>2
  <2>3. CASE k \in S
    <3>1. v \in V
      BY <1>0, <2>3
    <3>2. g \in [S -> V] /\ g[k] = v /\ \A m \in S : m <= n => g[m] = f[m]
      BY <2>3, <3>1
    <3>3. ASSUME NEW m \in S, m <= k
          PROVE  Good(g, m)
      <4>1. m \in Z \/ (D[m] \in S /\ D[m] <= n)
        BY <1>0, <3>3
      <4>2. m \in Z \/ g[D[m]] = f[D[m]]
        <5> HIDE DEF g
        <5>1. QED
          BY <3>2, <4>1
      <4>3. CASE m = k
        <5> HIDE DEF g
        <5>1. QED
          BY <3>2, <4>2, <4>3
      <4>4. CASE m <= n
        <5>1. g[m] = f[m] /\ Good(f, m)
          <6> HIDE DEF g, Good
          <6>1. QED
            BY <2>1, <3>2, <4>4
        <5>2. QED
          <6> HIDE DEF g
          <6>1. QED
            BY <4>2, <5>1
      <4>5. QED
        BY <3>3, <4>3, <4>4
    <3>4. QED
      <4> HIDE DEF g, Good
      <4>1. QED
        BY <3>2, <3>3
  <2>4. QED
    BY <2>2, <2>3
<1>3. \A n \in Nat : n \in X
  <2> HIDE DEF X
  <2>1. QED
    BY <1>1, <1>2, Induction
<1>4. ASSUME NEW f \in [S -> V], NEW g \in [S -> V], NEW n \in Nat,
             Upto(f, n), Upto(g, n)
      PROVE  \A m \in S : m <= n => f[m] = g[m]
  <2> DEFINE Y == {m \in Nat : m \in S /\ m <= n => f[m] = g[m]}
  <2>1. ASSUME NEW m \in Nat, \A i \in Nat : i < m => i \in Y
        PROVE  m \in Y
    <3> SUFFICES ASSUME m \in S, m <= n
                 PROVE  f[m] = g[m]
      OBVIOUS
    <3>1. Good(f, m) /\ Good(g, m)
      <4> HIDE DEF Good
      <4>1. QED
        BY <1>4
    <3>2. m \notin Z => D[m] \in S /\ D[m] \in Nat /\ D[m] < m /\ D[m] <= n
      BY <1>0
    <3>3. m \notin Z => f[D[m]] = g[D[m]]
      BY <2>1, <3>2
    <3>4. QED
      BY <3>1, <3>3
  <2>2. \A m \in Nat : m \in Y
    <3> HIDE DEF Y
    <3>1. QED
      BY <2>1, StrongInduction
  <2>3. QED
    BY <2>2
<1> DEFINE h(n) == CHOOSE f \in [S -> V] : Upto(f, n)
           f == [n \in S |-> h(n)[n]]
<1>5. \A n \in Nat : h(n) \in [S -> V] /\ Upto(h(n), n)
  <2> HIDE DEF Upto
  <2>1. QED
    BY <1>3
<1>6. \A n, m \in S : m <= n => h(n)[m] = f[m]
  <2> SUFFICES ASSUME NEW n \in S, NEW m \in S, m <= n
               PROVE  h(n)[m] = h(m)[m]
    <3> HIDE DEF h
    <3>1. QED
      OBVIOUS
  <2>1. Upto(h(n), m)
    <3> HIDE DEF h, Good
    <3>1. QED
      BY <1>5
  <2>2. QED
    <3> HIDE DEF h, Upto
    <3>1. QED
      BY <1>4, <1>5, <2>1
<1>7. f \in [S -> V]
  <2> HIDE DEF h, Upto
  <2>1. QED
    BY <1>5
<1>8. ASSUME NEW n \in S
      PROVE  Good(f, n)
  <2>1. Good(h(n), n)
    <3> HIDE DEF h, Good
    <3>1. QED
      BY <1>5
  <2>2. n \notin Z => D[n] \in S /\ D[n] <= n
    BY <1>0
  <2>3. n \notin Z => h(n)[D[n]] = f[D[n]]
    <3> HIDE DEF h, f, Good
    <3>1. QED
      BY <1>6, <2>2
  <2>4. h(n)[n] = f[n]
    BY <1>6
  <2>5. QED
    <3> HIDE DEF h, f
    <3>1. QED
      BY <2>1, <2>3, <2>4
<1>9. QED
  <2> HIDE DEF f
  <2>1. QED
    BY <1>7, <1>8 DEF Recurs

-----------------------------------------------------------------------------
(***************************************************************************)
(* Division, powers and logarithms.                                         *)
(***************************************************************************)

\* Quotient and remainder.
LEMMA DivMod ==
    ASSUME NEW a \in Int, NEW b \in Nat \ {0}
    PROVE  /\ a \div b \in Int
           /\ a % b \in 0 .. b - 1
           /\ a = b * (a \div b) + (a % b)
OBVIOUS

\* They are the only ones.
LEMMA DivModIs ==
    ASSUME NEW b \in Nat \ {0}, NEW q \in Int, NEW r \in 0 .. b - 1
    PROVE  (b * q + r) \div b = q /\ (b * q + r) % b = r
OBVIOUS

\* Of naturals, naturals that are not greater.
LEMMA DivNat ==
    ASSUME NEW a \in Nat, NEW b \in Nat \ {0}
    PROVE  a \div b \in Nat /\ b * (a \div b) <= a /\ a < b * ((a \div b) + 1)
BY DivMod

\* Rounded up, the least that many times b is a or more.
LEMMA CeilDivIs ==
    ASSUME NEW a \in Nat, NEW b \in Nat \ {0}
    PROVE  /\ CeilDiv(a, b) \in Nat
           /\ CeilDiv(a, b) * b >= a
           /\ (CeilDiv(a, b) - 1) * b < a
<1> DEFINE c == a + b - 1
           q == c \div b
<1>1. c \in Nat /\ CeilDiv(a, b) = q
  BY DEF CeilDiv
<1>2. q \in Nat /\ b * q <= c /\ c < b * (q + 1)
  <2> HIDE DEF c
  <2>1. QED
    BY <1>1, DivNat
<1>3. b * (q + 1) = q * b + b /\ (q - 1) * b = b * q - b
  <2> HIDE DEF q
  <2>1. QED
    BY <1>2
<1>4. q * b >= a /\ (q - 1) * b < a
  <2> HIDE DEF q
  <2>1. q * b \in Int /\ (q - 1) * b \in Int /\ b * q = q * b
    BY <1>2
  <2>2. QED
    BY <1>2, <1>3, <2>1
<1>5. QED
  BY <1>1, <1>2, <1>4

\* The recursion of Power.
LEMMA PowerIs ==
    ASSUME NEW b \in Nat
    PROVE  /\ Power(b, 0) = 1
           /\ \A k \in Nat : Power(b, k) \in Nat /\ Power(b, k + 1) = b * Power(b, k)
<1> DEFINE Is(f) == f = [i \in Nat |-> IF i = 0 THEN 1 ELSE b * f[i - 1]]
           c == CHOOSE f : Is(f)
<1>1. \E f : Is(f)
  <2> DEFINE S == Nat
             V == Nat
             Z == {0}
             B == [n \in S |-> 1]
             D == [n \in S |-> IF n = 0 THEN 0 ELSE n - 1]
             F == [n \in S |-> [v \in V |-> b * v]]
  <2>1. /\ S \in SUBSET Nat /\ Z \in SUBSET S /\ B \in [S -> V]
        /\ D \in [S -> Nat] /\ F \in [S -> [V -> V]]
        /\ Descends(S, Z, D)
    BY DEF Descends
  <2>2. PICK f \in [S -> V] : Recurs(f, S, Z, B, D, F)
    <3> HIDE DEF S, V, Z, B, D, F
    <3>1. QED
      BY <2>1, Recursion
  <2>3. \A n \in Nat : f[n] = IF n = 0 THEN 1 ELSE b * f[n - 1]
    <3> SUFFICES ASSUME NEW n \in Nat, n # 0
                 PROVE  f[n] = b * f[n - 1]
      BY <2>2 DEF Recurs
    <3>1. f[n] = F[n][f[n - 1]]
      BY <2>2 DEF Recurs
    <3>2. f[n - 1] \in Nat
      OBVIOUS
    <3>3. QED
      BY <3>1, <3>2
  <2>4. Is(f)
    BY <2>3
  <2>5. QED
    BY <2>4
<1>2. Is(c)
  <2> HIDE DEF Is
  <2>1. QED
    BY <1>1
<1>3. \A k \in Nat : Power(b, k) = c[k]
  BY DEF Power
<1>4. c[0] = 1 /\ \A k \in Nat : c[k + 1] = b * c[k]
  <2> HIDE DEF c
  <2>1. \A i \in Nat : c[i] = IF i = 0 THEN 1 ELSE b * c[i - 1]
    BY <1>2
  <2>2. QED
    BY <2>1
<1> HIDE DEF c
<1> DEFINE S == {k \in Nat : c[k] \in Nat}
<1>5. 0 \in S /\ \A k \in Nat : k \in S => k + 1 \in S
  BY <1>4
<1>6. \A k \in Nat : k \in S
  <2> HIDE DEF S
  <2>1. QED
    BY <1>5, Induction
<1>7. QED
  BY <1>3, <1>4, <1>6

\* Powers of two grow.
LEMMA PowersOfTwo ==
    /\ Power(2, 0) = 1
    /\ \A k \in Nat : Power(2, k) \in Nat \ {0} /\ Power(2, k) > k
    /\ \A k \in Nat : Power(2, k + 1) = 2 * Power(2, k)
<1>1. /\ Power(2, 0) = 1
      /\ \A k \in Nat : Power(2, k) \in Nat /\ Power(2, k + 1) = 2 * Power(2, k)
  BY PowerIs
<1> DEFINE S == {k \in Nat : Power(2, k) > k}
<1>2. 0 \in S /\ \A k \in Nat : k \in S => k + 1 \in S
  BY <1>1
<1>3. \A k \in Nat : k \in S
  <2> HIDE DEF S
  <2>1. QED
    BY <1>2, Induction
<1>4. QED
  BY <1>1, <1>3

\* Powers of a sum.
LEMMA PowerOfSum ==
    \A i, k \in Nat : Power(2, i + k) = Power(2, i) * Power(2, k)
<1> SUFFICES ASSUME NEW i \in Nat
             PROVE  \A k \in Nat : Power(2, i + k) = Power(2, i) * Power(2, k)
  OBVIOUS
<1> DEFINE S == {k \in Nat : Power(2, i + k) = Power(2, i) * Power(2, k)}
<1>1. 0 \in S
  BY PowersOfTwo
<1>2. ASSUME NEW k \in Nat, k \in S
      PROVE  k + 1 \in S
  <2>1. /\ Power(2, i + (k + 1)) = 2 * Power(2, i + k)
        /\ Power(2, k + 1) = 2 * Power(2, k)
    <3>1. i + (k + 1) = (i + k) + 1 /\ i + k \in Nat
      OBVIOUS
    <3>2. QED
      BY <3>1, PowersOfTwo
  <2> DEFINE x == Power(2, i)
             y == Power(2, k)
  <2>2. x \in Nat /\ y \in Nat
    BY PowersOfTwo
  <2>3. 2 * (x * y) = x * (2 * y)
    <3> HIDE DEF x, y
    <3>1. QED
      BY <2>2
  <2>4. QED
    BY <1>2, <2>1, <2>3
<1>3. \A k \in Nat : k \in S
  <2> HIDE DEF S
  <2>1. QED
    BY <1>1, <1>2, Induction
<1>4. QED
  BY <1>3

\* Powers of two are in order.
LEMMA PowerOrder ==
    ASSUME NEW i \in Nat, NEW k \in Nat, i <= k
    PROVE  Power(2, i) <= Power(2, k)
<1> DEFINE x == Power(2, i)
           y == Power(2, k - i)
<1>1. k - i \in Nat /\ i + (k - i) = k
  OBVIOUS
<1>2. Power(2, k) = x * y
  BY <1>1, PowerOfSum
<1>3. x \in Nat /\ y \in Nat \ {0}
  BY <1>1, PowersOfTwo
<1>4. x <= x * y
  <2> HIDE DEF x, y
  <2>1. QED
    BY <1>3
<1>5. QED
  BY <1>2, <1>4

\* What CeilLog2 chooses.
LEMMA CeilLog2Is ==
    ASSUME NEW n \in Nat
    PROVE  /\ CeilLog2(n) \in Nat
           /\ Power(2, CeilLog2(n)) >= n
           /\ CeilLog2(n) = 0 \/ Power(2, CeilLog2(n) - 1) < n
<1> DEFINE S == {k \in Nat : Power(2, k) >= n}
<1>1. n \in S
  BY PowersOfTwo
<1>2. PICK m \in S : \A k \in S : m <= k
  BY <1>1, Least
<1>3. m \in 0 .. n /\ Power(2, m) >= n
  BY <1>1, <1>2
<1>4. m = 0 \/ Power(2, m - 1) < n
  <2> SUFFICES ASSUME m # 0
               PROVE  Power(2, m - 1) < n
    OBVIOUS
  <2>1. m - 1 \in Nat /\ m - 1 \notin S
    BY <1>2
  <2>2. Power(2, m - 1) \in Nat
    BY <2>1, PowersOfTwo
  <2>3. QED
    BY <2>1, <2>2
<1>5. CeilLog2(n) \in 0 .. n
      /\ Power(2, CeilLog2(n)) >= n
      /\ (CeilLog2(n) = 0 \/ Power(2, CeilLog2(n) - 1) < n)
  BY <1>3, <1>4 DEF CeilLog2
<1>6. QED
  BY <1>5

\* More slots need no fewer bits.
LEMMA CeilLog2Order ==
    ASSUME NEW m \in Nat, NEW n \in Nat, m <= n
    PROVE  CeilLog2(m) <= CeilLog2(n)
<1> DEFINE k == CeilLog2(m)
           l == CeilLog2(n)
<1>1. /\ k \in Nat /\ l \in Nat /\ Power(2, l) >= n
      /\ k = 0 \/ Power(2, k - 1) < m
  BY CeilLog2Is
<1> HIDE DEF k, l
<1> SUFFICES ASSUME k > l
             PROVE  FALSE
  BY <1>1 DEF k, l
<1>2. k - 1 \in Nat /\ l <= k - 1
  BY <1>1
<1>3. Power(2, l) <= Power(2, k - 1)
  BY <1>1, <1>2, PowerOrder
<1>4. Power(2, l) \in Nat /\ Power(2, k - 1) \in Nat
  BY <1>1, <1>2, PowersOfTwo
<1>5. QED
  BY <1>1, <1>2, <1>3, <1>4

-----------------------------------------------------------------------------
(***************************************************************************)
(* Sums and products.                                                       *)
(***************************************************************************)

\* The recursion of Sum.
LEMMA SumIs ==
    ASSUME NEW s \in Seq(Nat), NEW i \in Nat \ {0}, NEW j \in 0 .. Len(s)
    PROVE  /\ Sum(s, i, j) \in Nat
           /\ j < i => Sum(s, i, j) = 0
           /\ j >= i => Sum(s, i, j) = Sum(s, i, j - 1) + s[j]
<1> DEFINE K == 0 .. Len(s)
           Is(f) == f = [k \in K |-> IF k < i THEN 0 ELSE f[k - 1] + s[k]]
           c == CHOOSE f : Is(f)
<1>0. Len(s) \in Nat /\ \A k \in 1 .. Len(s) : s[k] \in Nat
  BY LenProperties, ElementOfSeq
<1>1. \E f : Is(f)
  <2> DEFINE V == Nat
             Z == {k \in K : k < i}
             B == [n \in K |-> 0]
             D == [n \in K |-> IF n = 0 THEN 0 ELSE n - 1]
             F == [n \in K |-> [v \in V |-> IF n < i THEN v ELSE v + s[n]]]
  <2>0. \A n \in K, v \in V : (IF n < i THEN v ELSE v + s[n]) \in V
    BY <1>0
  <2>1. K \in SUBSET Nat /\ Z \in SUBSET K /\ B \in [K -> V] /\ D \in [K -> Nat]
    BY <1>0
  <2>2. F \in [K -> [V -> V]]
    <3> HIDE DEF K, V
    <3>1. QED
      BY <2>0
  <2>3. Descends(K, Z, D)
    BY <1>0 DEF Descends
  <2>4. PICK f \in [K -> V] : Recurs(f, K, Z, B, D, F)
    <3> HIDE DEF K, V, Z, B, D, F
    <3>1. QED
      BY <2>1, <2>2, <2>3, Recursion
  <2>5. ASSUME NEW n \in K
        PROVE  f[n] = IF n < i THEN 0 ELSE f[n - 1] + s[n]
    <3>1. f[n] = IF n \in Z THEN B[n] ELSE F[n][f[D[n]]]
      <4> HIDE DEF K, Z, B, D, F
      <4>1. QED
        BY <2>4 DEF Recurs
    <3>2. CASE n < i
      BY <3>1, <3>2
    <3>3. CASE ~(n < i)
      <4>1. n - 1 \in K /\ D[n] = n - 1 /\ n \notin Z
        BY <1>0, <3>3
      <4>2. f[n - 1] \in V
        <5> HIDE DEF K, V
        <5>1. QED
          BY <4>1
      <4>3. F[n][f[n - 1]] = f[n - 1] + s[n]
        <5> HIDE DEF K, V
        <5>1. QED
          BY <3>3, <4>2
      <4>4. QED
        BY <3>1, <3>3, <4>1, <4>3
    <3>4. QED
      BY <3>2, <3>3
  <2>6. Is(f)
    BY <2>5
  <2>7. QED
    BY <2>6
<1>2. Is(c)
  <2> HIDE DEF Is
  <2>1. QED
    BY <1>1
<1>3. \A k \in K : Sum(s, i, k) = c[k]
  BY DEF Sum
<1>4. \A k \in K : c[k] = IF k < i THEN 0 ELSE c[k - 1] + s[k]
  <2> HIDE DEF c
  <2>1. QED
    BY <1>2
<1> HIDE DEF c
<1> DEFINE S == {k \in Nat : k \in K => c[k] \in Nat}
<1>5. 0 \in S
  BY <1>0, <1>4
<1>6. ASSUME NEW k \in Nat, k \in S
      PROVE  k + 1 \in S
  <2> SUFFICES ASSUME k + 1 \in K
               PROVE  c[k + 1] \in Nat
    OBVIOUS
  <2>1. c[k] \in Nat /\ s[k + 1] \in Nat
    BY <1>0, <1>6
  <2>2. c[k + 1] = IF k + 1 < i THEN 0 ELSE c[k] + s[k + 1]
    BY <1>4
  <2>3. QED
    BY <2>1, <2>2
<1>7. \A k \in Nat : k \in S
  <2> HIDE DEF S
  <2>1. QED
    BY <1>5, <1>6, Induction
<1>8. j \in Nat /\ (j >= i => j - 1 \in K)
  BY <1>0
<1>9. c[j] \in Nat /\ c[j] = IF j < i THEN 0 ELSE c[j - 1] + s[j]
  BY <1>4, <1>7, <1>8
<1>10. Sum(s, i, j) = c[j] /\ (j >= i => Sum(s, i, j - 1) = c[j - 1])
  BY <1>3, <1>8
<1>11. QED
  <2> HIDE DEF K
  <2>1. QED
    BY <1>8, <1>9, <1>10

\* The recursion of Product.
LEMMA ProductIs ==
    ASSUME NEW s \in Seq(Nat \ {0}), NEW i \in Nat \ {0}, NEW j \in 0 .. Len(s)
    PROVE  /\ Product(s, i, j) \in (Nat \ {0})
           /\ j < i => Product(s, i, j) = 1
           /\ j >= i => Product(s, i, j) = Product(s, i, j - 1) * s[j]
<1> DEFINE K == 0 .. Len(s)
           Is(f) == f = [k \in K |-> IF k < i THEN 1 ELSE f[k - 1] * s[k]]
           c == CHOOSE f : Is(f)
<1>0. Len(s) \in Nat /\ \A k \in 1 .. Len(s) : s[k] \in (Nat \ {0})
  BY LenProperties, ElementOfSeq
<1>1. \E f : Is(f)
  <2> DEFINE V == (Nat \ {0})
             Z == {k \in K : k < i}
             B == [n \in K |-> 1]
             D == [n \in K |-> IF n = 0 THEN 0 ELSE n - 1]
             F == [n \in K |-> [v \in V |-> IF n < i THEN v ELSE v * s[n]]]
  <2>0. \A n \in K, v \in V : (IF n < i THEN v ELSE v * s[n]) \in V
    BY <1>0
  <2>1. K \in SUBSET Nat /\ Z \in SUBSET K /\ B \in [K -> V] /\ D \in [K -> Nat]
    BY <1>0
  <2>2. F \in [K -> [V -> V]]
    <3> HIDE DEF K, V
    <3>1. QED
      BY <2>0
  <2>3. Descends(K, Z, D)
    BY <1>0 DEF Descends
  <2>4. PICK f \in [K -> V] : Recurs(f, K, Z, B, D, F)
    <3> HIDE DEF K, V, Z, B, D, F
    <3>1. QED
      BY <2>1, <2>2, <2>3, Recursion
  <2>5. ASSUME NEW n \in K
        PROVE  f[n] = IF n < i THEN 1 ELSE f[n - 1] * s[n]
    <3>1. f[n] = IF n \in Z THEN B[n] ELSE F[n][f[D[n]]]
      <4> HIDE DEF K, Z, B, D, F
      <4>1. QED
        BY <2>4 DEF Recurs
    <3>2. CASE n < i
      BY <3>1, <3>2
    <3>3. CASE ~(n < i)
      <4>1. n - 1 \in K /\ D[n] = n - 1 /\ n \notin Z
        BY <1>0, <3>3
      <4>2. f[n - 1] \in V
        <5> HIDE DEF K, V
        <5>1. QED
          BY <4>1
      <4>3. F[n][f[n - 1]] = f[n - 1] * s[n]
        <5> HIDE DEF K, V
        <5>1. QED
          BY <3>3, <4>2
      <4>4. QED
        BY <3>1, <3>3, <4>1, <4>3
    <3>4. QED
      BY <3>2, <3>3
  <2>6. Is(f)
    BY <2>5
  <2>7. QED
    BY <2>6
<1>2. Is(c)
  <2> HIDE DEF Is
  <2>1. QED
    BY <1>1
<1>3. \A k \in K : Product(s, i, k) = c[k]
  BY DEF Product
<1>4. \A k \in K : c[k] = IF k < i THEN 1 ELSE c[k - 1] * s[k]
  <2> HIDE DEF c
  <2>1. QED
    BY <1>2
<1> HIDE DEF c
<1> DEFINE S == {k \in Nat : k \in K => c[k] \in (Nat \ {0})}
<1>5. 0 \in S
  BY <1>0, <1>4
<1>6. ASSUME NEW k \in Nat, k \in S
      PROVE  k + 1 \in S
  <2> SUFFICES ASSUME k + 1 \in K
               PROVE  c[k + 1] \in (Nat \ {0})
    OBVIOUS
  <2>1. c[k] \in (Nat \ {0}) /\ s[k + 1] \in (Nat \ {0})
    BY <1>0, <1>6
  <2>2. c[k + 1] = IF k + 1 < i THEN 1 ELSE c[k] * s[k + 1]
    BY <1>4
  <2>3. QED
    BY <2>1, <2>2
<1>7. \A k \in Nat : k \in S
  <2> HIDE DEF S
  <2>1. QED
    BY <1>5, <1>6, Induction
<1>8. j \in Nat /\ (j >= i => j - 1 \in K)
  BY <1>0
<1>9. c[j] \in (Nat \ {0}) /\ c[j] = IF j < i THEN 1 ELSE c[j - 1] * s[j]
  BY <1>4, <1>7, <1>8
<1>10. Product(s, i, j) = c[j] /\ (j >= i => Product(s, i, j - 1) = c[j - 1])
  BY <1>3, <1>8
<1>11. QED
  <2> HIDE DEF K
  <2>1. QED
    BY <1>8, <1>9, <1>10

\* Longer sums are not smaller.
LEMMA SumGrows ==
    ASSUME NEW s \in Seq(Nat), NEW i \in Nat \ {0}, NEW j \in 0 .. Len(s),
           NEW k \in j .. Len(s)
    PROVE  Sum(s, i, j) <= Sum(s, i, k)
<1> DEFINE S == {n \in Nat : n \in j .. Len(s) => Sum(s, i, j) <= Sum(s, i, n)}
<1>0. Len(s) \in Nat
  BY LenProperties
<1>1. ASSUME NEW n \in 0 .. Len(s), n + 1 <= Len(s)
      PROVE  Sum(s, i, n) <= Sum(s, i, n + 1)
  <2>1. n + 1 \in 0 .. Len(s) /\ s[n + 1] \in Nat /\ (n + 1) - 1 = n
    BY <1>0, <1>1, ElementOfSeq
  <2>2. /\ Sum(s, i, n) \in Nat
        /\ n < i => Sum(s, i, n) = 0
        /\ n + 1 < i => Sum(s, i, n + 1) = 0
        /\ n + 1 >= i => Sum(s, i, n + 1) = Sum(s, i, n) + s[n + 1]
    BY <2>1, SumIs
  <2>3. QED
    BY <2>1, <2>2
<1>2. 0 \in S
  <2>1. Sum(s, i, 0) \in Nat
    BY <1>0, SumIs
  <2>2. QED
    BY <2>1
<1>3. ASSUME NEW n \in Nat, n \in S
      PROVE  n + 1 \in S
  <2> SUFFICES ASSUME n + 1 \in j .. Len(s)
               PROVE  Sum(s, i, j) <= Sum(s, i, n + 1)
    OBVIOUS
  <2>1. Sum(s, i, j) \in Nat /\ Sum(s, i, n + 1) \in Nat /\ Sum(s, i, n) \in Nat
    BY <1>0, SumIs, SMTT(30)
  <2>2. CASE n + 1 = j
    BY <2>1, <2>2
  <2>3. CASE n + 1 # j
    <3>1. n \in j .. Len(s) /\ n \in 0 .. Len(s) /\ n + 1 <= Len(s)
      BY <1>0, <2>3
    <3>2. Sum(s, i, j) <= Sum(s, i, n) /\ Sum(s, i, n) <= Sum(s, i, n + 1)
      BY <1>1, <1>3, <3>1
    <3>3. QED
      BY <2>1, <3>2
  <2>4. QED
    BY <2>2, <2>3
<1>4. \A n \in Nat : n \in S
  <2> HIDE DEF S
  <2>1. QED
    BY <1>2, <1>3, Induction
<1>5. QED
  BY <1>4

\* A product depends on its factors only.
LEMMA ProductSame ==
    ASSUME NEW s \in Seq(Nat \ {0}), NEW t \in Seq(Nat \ {0}),
           NEW j \in 0 .. Len(s), j <= Len(t), \A k \in 1 .. j : s[k] = t[k]
    PROVE  Product(s, 1, j) = Product(t, 1, j)
<1> DEFINE S == {n \in Nat : n <= j => Product(s, 1, n) = Product(t, 1, n)}
<1>0. Len(s) \in Nat /\ Len(t) \in Nat /\ 1 \in Nat \ {0}
  BY LenProperties
<1>1. 0 \in S
  <2>1. 0 \in 0 .. Len(s) /\ 0 \in 0 .. Len(t) /\ 0 < 1
    BY <1>0
  <2>2. Product(s, 1, 0) = 1 /\ Product(t, 1, 0) = 1
    BY <1>0, <2>1, ProductIs
  <2>3. QED
    BY <2>2
<1>2. ASSUME NEW n \in Nat, n \in S
      PROVE  n + 1 \in S
  <2> SUFFICES ASSUME n + 1 <= j
               PROVE  Product(s, 1, n + 1) = Product(t, 1, n + 1)
    OBVIOUS
  <2>1. n + 1 \in 0 .. Len(s) /\ n + 1 \in 0 .. Len(t) /\ n + 1 >= 1 /\ (n + 1) - 1 = n
    BY <1>0
  <2>2. /\ Product(s, 1, n + 1) = Product(s, 1, n) * s[n + 1]
        /\ Product(t, 1, n + 1) = Product(t, 1, n) * t[n + 1]
    BY <1>0, <2>1, ProductIs
  <2>3. s[n + 1] = t[n + 1] /\ Product(s, 1, n) = Product(t, 1, n)
    BY <1>2, <2>1
  <2>4. QED
    BY <2>2, <2>3
<1>3. \A n \in Nat : n \in S
  <2> HIDE DEF S
  <2>1. QED
    BY <1>1, <1>2, Induction
<1>4. QED
  BY <1>3

\* Its first factor can be taken out.
LEMMA ProductSplit ==
    ASSUME NEW s \in Seq(Nat \ {0}), NEW i \in 1 .. Len(s), NEW j \in i .. Len(s)
    PROVE  Product(s, i, j) = s[i] * Product(s, i + 1, j)
<1> DEFINE S == {n \in Nat : n \in i .. Len(s) =>
                    Product(s, i, n) = s[i] * Product(s, i + 1, n)}
<1>0. /\ Len(s) \in Nat /\ i \in Nat \ {0} /\ i + 1 \in Nat \ {0}
      /\ \A k \in 1 .. Len(s) : s[k] \in Nat \ {0}
  BY LenProperties, ElementOfSeq
<1>1. 0 \in S
  BY <1>0
<1>2. ASSUME NEW n \in Nat, n \in S
      PROVE  n + 1 \in S
  <2> SUFFICES ASSUME n + 1 \in i .. Len(s)
               PROVE  Product(s, i, n + 1) = s[i] * Product(s, i + 1, n + 1)
    OBVIOUS
  <2>1. n + 1 \in 0 .. Len(s) /\ n \in 0 .. Len(s) /\ (n + 1) - 1 = n /\ n + 1 >= i
    BY <1>0
  <2>2. Product(s, i, n + 1) = Product(s, i, n) * s[n + 1]
    BY <1>0, <2>1, ProductIs
  <2>3. CASE n + 1 = i
    <3>1. n < i /\ n + 1 < i + 1
      BY <1>0, <2>3
    <3>2. Product(s, i, n) = 1 /\ Product(s, i + 1, n + 1) = 1
      BY <1>0, <2>1, <3>1, ProductIs
    <3>3. QED
      BY <1>0, <2>2, <2>3, <3>2
  <2>4. CASE n + 1 # i
    <3> DEFINE x == Product(s, i + 1, n)
    <3>1. n \in i .. Len(s) /\ n + 1 >= i + 1
      BY <1>0, <2>4
    <3>2. Product(s, i + 1, n + 1) = x * s[n + 1] /\ x \in Nat
      BY <1>0, <2>1, <3>1, ProductIs
    <3>3. Product(s, i, n) = s[i] * x
      BY <1>2, <3>1
    <3>4. s[i] \in Nat /\ s[n + 1] \in Nat
      BY <1>0, <2>1
    <3>5. (s[i] * x) * s[n + 1] = s[i] * (x * s[n + 1])
      <4> HIDE DEF x
      <4>1. QED
        BY <3>2, <3>4
    <3>6. QED
      BY <2>2, <3>2, <3>3, <3>5
  <2>5. QED
    BY <2>3, <2>4
<1>3. \A n \in Nat : n \in S
  <2> HIDE DEF S
  <2>1. QED
    BY <1>1, <1>2, Induction
<1>4. QED
  BY <1>3

-----------------------------------------------------------------------------
(***************************************************************************)
(* The layout.                                                              *)
(***************************************************************************)

\* Further dimensions are added all of size Dim, and one at least when the
\* quotient still has one in it.
LEMMA PushedIs ==
    ASSUME NEW q \in Nat
    PROVE  Pushed(q) \in Seq({Dim}) /\ (q >= Dim => Len(Pushed(q)) >= 1)
<1> DEFINE Is(f) == f = [i \in Nat |-> IF i < Dim THEN <<>> ELSE <<Dim>> \o f[i \div Dim]]
           c == CHOOSE f : Is(f)
           V == Seq({Dim})
<1>0. Dim \in Nat \ {0, 1} /\ <<Dim>> \in V /\ <<>> \in V
      /\ \A s \in V : <<Dim>> \o s \in V /\ Len(<<Dim>> \o s) >= 1
  <2>1. Dim \in Nat \ {0, 1}
    BY DimAssumption
  <2>2. ASSUME NEW s \in V
        PROVE  <<Dim>> \o s \in V /\ Len(<<Dim>> \o s) >= 1
    <3>1. <<Dim>> \in Seq({Dim}) /\ Len(<<Dim>>) = 1
      OBVIOUS
    <3>2. <<Dim>> \o s \in Seq({Dim}) /\ Len(<<Dim>> \o s) = Len(<<Dim>>) + Len(s)
      BY <3>1, ConcatProperties
    <3>3. Len(s) \in Nat
      BY LenProperties
    <3>4. QED
      BY <3>1, <3>2, <3>3
  <2>3. QED
    BY <2>1, <2>2
<1> HIDE DEF V
<1>1. \A n \in Nat : n >= Dim => n \div Dim \in Nat /\ n \div Dim < n
  <2> SUFFICES ASSUME NEW n \in Nat, n >= Dim
               PROVE  n \div Dim \in Nat /\ n \div Dim < n
    OBVIOUS
  <2> DEFINE d == n \div Dim
  <2>1. d \in Nat /\ Dim * d <= n
    BY <1>0, DivNat
  <2> HIDE DEF d
  <2>2. d >= n => FALSE
    <3> SUFFICES ASSUME d >= n
                 PROVE  FALSE
      OBVIOUS
    <3>0. Dim \in Nat \ {0, 1}
      BY DimAssumption
    <3>1. d >= 1
      BY <3>0, <2>1
    <3>2. Dim * d >= 2 * d /\ Dim * d \in Nat
      BY <3>0, <2>1
    <3> DEFINE e == Dim * d
    <3>3. e \in Nat /\ e >= 2 * d /\ e <= n
      BY <2>1, <3>2
    <3> HIDE DEF e
    <3>4. QED
      BY <2>1, <3>1, <3>3
  <2>3. QED
    BY <2>1, <2>2 DEF d
<1>2. \E f : Is(f)
  <2> DEFINE S == Nat
             Z == {n \in S : n < Dim}
             B == [n \in S |-> <<>>]
             D == [n \in S |-> IF n < Dim THEN 0 ELSE n \div Dim]
             F == [n \in S |-> [v \in V |-> <<Dim>> \o v]]
  <2>1. S \in SUBSET Nat /\ Z \in SUBSET S /\ B \in [S -> V]
    BY <1>0
  <2>2. D \in [S -> Nat]
    BY <1>1, <1>0
  <2>3. F \in [S -> [V -> V]]
    BY <1>0
  <2>4. Descends(S, Z, D)
    BY <1>0, <1>1 DEF Descends
  <2>5. PICK f \in [S -> V] : Recurs(f, S, Z, B, D, F)
    <3> HIDE DEF S, Z, B, D, F
    <3>1. QED
      BY <2>1, <2>2, <2>3, <2>4, Recursion
  <2>6. ASSUME NEW n \in Nat
        PROVE  f[n] = IF n < Dim THEN <<>> ELSE <<Dim>> \o f[n \div Dim]
    <3>1. f[n] = IF n \in Z THEN B[n] ELSE F[n][f[D[n]]]
      <4> HIDE DEF Z, B, D, F
      <4>1. QED
        BY <2>5 DEF Recurs
    <3>2. CASE n < Dim
      BY <3>1, <3>2
    <3>3. CASE ~(n < Dim)
      <4>1. n \div Dim \in Nat /\ D[n] = n \div Dim /\ n \notin Z
        BY <1>0, <1>1, <3>3
      <4>2. f[n \div Dim] \in V
        BY <4>1
      <4>3. F[n][f[n \div Dim]] = <<Dim>> \o f[n \div Dim]
        BY <4>2
      <4>4. QED
        BY <3>1, <3>3, <4>1, <4>3
    <3>4. QED
      BY <3>2, <3>3
  <2>7. Is(f)
    BY <2>6
  <2>8. QED
    BY <2>7
<1>3. Is(c)
  <2> HIDE DEF Is
  <2>1. QED
    BY <1>2
<1>4. \A n \in Nat : Pushed(n) = c[n]
  BY DEF Pushed
<1>5. \A n \in Nat : c[n] = IF n < Dim THEN <<>> ELSE <<Dim>> \o c[n \div Dim]
  <2> HIDE DEF c
  <2>1. QED
    BY <1>3
<1> HIDE DEF c
<1> DEFINE S == {n \in Nat : c[n] \in V}
<1>6. ASSUME NEW n \in Nat, \A m \in Nat : m < n => m \in S
      PROVE  n \in S
  <2>1. CASE n < Dim
    BY <1>0, <1>5, <2>1
  <2>2. CASE ~(n < Dim)
    <3>1. n \div Dim \in S
      BY <1>0, <1>1, <1>6, <2>2
    <3>2. QED
      BY <1>0, <1>5, <2>2, <3>1
  <2>3. QED
    BY <2>1, <2>2
<1>7. \A n \in Nat : n \in S
  <2> HIDE DEF S
  <2>1. QED
    BY <1>6, StrongInduction
<1>8. q >= Dim => Len(c[q]) >= 1
  <2> SUFFICES ASSUME q >= Dim
               PROVE  Len(c[q]) >= 1
    OBVIOUS
  <2>0. q \div Dim \in Nat /\ ~(q < Dim)
    BY <1>0, <1>1
  <2>1. c[q \div Dim] \in V /\ c[q] = <<Dim>> \o c[q \div Dim]
    BY <1>5, <1>7, <2>0
  <2>2. QED
    BY <1>0, <2>1
<1>9. QED
  BY <1>4, <1>7, <1>8 DEF V

\* Every record of a group is in one of its plaintexts.
LEMMA PlaintextsHold ==
    ASSUME NEW c \in Nat \ {0}
    PROVE  /\ PlaintextsPerDb(c) \in Nat \ {0}
           /\ \A e \in 0 .. c - 1 : e \div PerPtxt \in 0 .. PlaintextsPerDb(c) - 1
<1> DEFINE n == PlaintextsPerDb(c)
<1>1. PerPtxt \in Nat \ {0} /\ n \in Nat /\ n * PerPtxt >= c
  BY PerPtxtAssumption, CeilDivIs DEF PlaintextsPerDb
<1> HIDE DEF n
<1>2. n # 0
  BY <1>1
<1>3. ASSUME NEW e \in 0 .. c - 1
      PROVE  e \div PerPtxt \in 0 .. n - 1
  <2> DEFINE q == e \div PerPtxt
  <2>1. q \in Nat /\ PerPtxt * q <= e
    BY <1>1, DivNat
  <2> HIDE DEF q
  <2>2. q >= n => FALSE
    <3> SUFFICES ASSUME q >= n
                 PROVE  FALSE
      OBVIOUS
    <3>1. PerPtxt * q >= n * PerPtxt
      BY <1>1, <2>1
    <3>2. PerPtxt * q \in Nat /\ n * PerPtxt \in Nat
      BY <1>1, <2>1
    <3> DEFINE x == PerPtxt * q
               y == n * PerPtxt
    <3>3. x \in Nat /\ y \in Nat /\ x >= y /\ y >= c /\ x <= e
      BY <1>1, <2>1, <3>1, <3>2
    <3> HIDE DEF x, y
    <3>4. QED
      BY <3>3
  <2>3. QED
    BY <1>1, <2>1, <2>2 DEF q
<1>4. QED
  BY <1>1, <1>2, <1>3 DEF n

\* The dimensions before the last one grows.
LEMMA BeforeGrowth ==
    ASSUME NEW q \in Nat
    PROVE  /\ <<FirstDim>> \o Pushed(q) \in Seq(Nat \ {0})
           /\ Len(<<FirstDim>> \o Pushed(q)) \in Nat \ {0}
           /\ (<<FirstDim>> \o Pushed(q))[1] = FirstDim
           /\ \A i \in 2 .. Len(<<FirstDim>> \o Pushed(q)) :
                (<<FirstDim>> \o Pushed(q))[i] = Dim
           /\ Len(<<FirstDim>> \o Pushed(q)) = 1 => q < Dim
<1> DEFINE p == Pushed(q)
           one == <<FirstDim>>
           s == one \o p
<1>1. FirstDim \in Nat \ {0} /\ Dim \in Nat \ {0, 1}
  BY DimAssumption
<1>2. p \in Seq({Dim}) /\ (q >= Dim => Len(p) >= 1)
  BY PushedIs
<1> HIDE DEF p
<1>3. Len(p) \in Nat /\ \A i \in 1 .. Len(p) : p[i] = Dim
  BY <1>2, LenProperties, ElementOfSeq
<1>4. p \in Seq(Nat \ {0})
  <2>1. {Dim} \subseteq Nat \ {0}
    BY <1>1
  <2>2. QED
    BY <1>2, <2>1, SeqDef
<1>5. one \in Seq(Nat \ {0}) /\ Len(one) = 1 /\ one[1] = FirstDim
  BY <1>1
<1> HIDE DEF one
<1>6. /\ s \in Seq(Nat \ {0})
      /\ Len(s) = Len(one) + Len(p)
      /\ \A i \in 1 .. Len(one) + Len(p) :
            s[i] = IF i <= Len(one) THEN one[i] ELSE p[i - Len(one)]
  BY <1>4, <1>5, ConcatProperties
<1> HIDE DEF s
<1>7. s[1] = FirstDim /\ \A i \in 2 .. Len(s) : s[i] = Dim
  <2>1. Len(one) = 1 /\ Len(s) = 1 + Len(p)
    BY <1>5, <1>6
  <2>2. ASSUME NEW i \in 2 .. Len(s)
        PROVE  s[i] = Dim
    <3>1. i - 1 \in 1 .. Len(p) /\ i \in 1 .. Len(one) + Len(p)
          /\ ~(i <= Len(one)) /\ i - Len(one) = i - 1
      BY <1>3, <2>1
    <3>2. s[i] = p[i - 1]
      BY <1>6, <3>1
    <3>3. QED
      BY <1>3, <3>1, <3>2
  <2>3. s[1] = FirstDim
    <3>1. 1 \in 1 .. Len(one) + Len(p) /\ 1 <= Len(one)
      BY <1>3, <2>1
    <3>2. QED
      BY <1>5, <1>6, <3>1
  <2>4. QED
    BY <2>2, <2>3
<1>8. Len(s) \in Nat \ {0} /\ (Len(s) = 1 => q < Dim)
  BY <1>1, <1>2, <1>3, <1>5, <1>6
<1>9. QED
  BY <1>6, <1>7, <1>8 DEF p, s, one

\* What get_dimensions returns: the first dimension alone for a small group,
\* and never less room than plaintexts.
LEMMA DimensionsAre ==
    ASSUME NEW c \in Nat \ {0}
    PROVE  /\ Dimensions(c) \in Seq(Nat \ {0})
           /\ Len(Dimensions(c)) \in Nat \ {0}
           /\ Len(Dimensions(c)) > 1 => Dimensions(c)[1] = FirstDim
           /\ Len(Dimensions(c)) = 1 => PlaintextsPerDb(c) < FirstDim * Dim
           /\ LET nvec == Dimensions(c)
                  size == Product(nvec, 1, Len(nvec))
                  row == Product(nvec, 1, Len(nvec) - 1)
                  start == IF Len(nvec) = 1 THEN FirstDim ELSE Dim
              IN  /\ size >= PlaintextsPerDb(c)
                  /\ nvec[Len(nvec)] > start => size - row < PlaintextsPerDb(c)
<1> DEFINE n == PlaintextsPerDb(c)
           q == n \div FirstDim
           s == <<FirstDim>> \o Pushed(q)
           l == Len(s)
           row == Product(s, 1, l - 1)
           rows == CeilDiv(n, row)
           t == [s EXCEPT ![l] = Larger(s[l], rows)]
<1>1. FirstDim \in Nat \ {0} /\ Dim \in Nat \ {0, 1} /\ n \in Nat \ {0}
  BY DimAssumption, PlaintextsHold
<1> HIDE DEF n
<1>2. q \in Nat /\ n < FirstDim * (q + 1)
  BY <1>1, DivNat
<1>3. Dimensions(c) = t
  BY DEF Dimensions, GrowLast, n
<1> HIDE DEF q
<1>4. /\ s \in Seq(Nat \ {0}) /\ l \in Nat \ {0} /\ s[1] = FirstDim
      /\ \A i \in 2 .. l : s[i] = Dim
      /\ l = 1 => q < Dim
  BY <1>2, BeforeGrowth
<1> HIDE DEF s
<1>5. l - 1 \in 0 .. l /\ l \in 1 .. l /\ 1 \in Nat \ {0}
  BY <1>4
<1>6. row \in Nat \ {0}
  BY <1>4, <1>5, ProductIs
<1>7. rows \in Nat /\ rows * row >= n /\ (rows - 1) * row < n
  <2> HIDE DEF row
  <2>1. QED
    BY <1>1, <1>6, CeilDivIs
<1>8. s[l] = IF l = 1 THEN FirstDim ELSE Dim
  <2> HIDE DEF l
  <2>1. l = 1 \/ l \in 2 .. l
    BY <1>4
  <2>2. QED
    BY <1>1, <1>4, <2>1
<1>9. s[l] \in Nat \ {0} /\ Larger(s[l], rows) \in Nat \ {0}
      /\ Larger(s[l], rows) = IF s[l] < rows THEN rows ELSE s[l]
  BY <1>1, <1>7, <1>8 DEF Larger
<1>10. /\ t \in Seq(Nat \ {0}) /\ Len(t) = l
       /\ t[l] = Larger(s[l], rows)
       /\ \A i \in 1 .. l - 1 : t[i] = s[i]
  <2> DEFINE v == Larger(s[l], rows)
  <2> HIDE DEF v
  <2>1. [s EXCEPT ![l] = v] \in Seq(Nat \ {0})
        /\ Len([s EXCEPT ![l] = v]) = l
        /\ \A i \in 1 .. l : [s EXCEPT ![l] = v][i] = IF i = l THEN v ELSE s[i]
    BY <1>4, <1>5, <1>9, ExceptSeq DEF v
  <2>2. QED
    BY <1>4, <1>5, <2>1 DEF v
<1> HIDE DEF t, rows, row, l
<1>11. Product(t, 1, l - 1) = row
  <2>1. \A k \in 1 .. l - 1 : t[k] = s[k]
    BY <1>10
  <2>2. l - 1 \in 0 .. Len(t) /\ l - 1 <= Len(s)
    BY <1>4, <1>5, <1>10 DEF l
  <2>3. QED
    BY <1>4, <1>10, <2>1, <2>2, ProductSame DEF row, l
<1>12. Product(t, 1, l) = row * t[l]
  <2>1. l \in 0 .. Len(t) /\ l >= 1
    BY <1>4, <1>5, <1>10
  <2>2. QED
    BY <1>5, <1>10, <1>11, <2>1, ProductIs
<1>13. l > 1 => t[1] = FirstDim
  BY <1>4, <1>10
<1>14. l = 1 => n < FirstDim * Dim
  <2> SUFFICES ASSUME l = 1
               PROVE  n < FirstDim * Dim
    OBVIOUS
  <2>1. q + 1 <= Dim
    BY <1>1, <1>2, <1>4
  <2>2. FirstDim * (q + 1) <= FirstDim * Dim
    BY <1>1, <1>2, <2>1
  <2>3. FirstDim * (q + 1) \in Nat /\ FirstDim * Dim \in Nat
    BY <1>1, <1>2
  <2>4. QED
    BY <1>1, <1>2, <2>2, <2>3
<1>15. row * t[l] >= n
  <2>1. t[l] \in Nat /\ t[l] >= rows
    BY <1>7, <1>9, <1>10
  <2>2. row * t[l] >= rows * row
    BY <1>6, <1>7, <2>1
  <2>3. QED
    BY <1>1, <1>6, <1>7, <2>1, <2>2
<1>16. t[l] > s[l] => row * t[l] - row < n
  <2> SUFFICES ASSUME t[l] > s[l]
               PROVE  row * t[l] - row < n
    OBVIOUS
  <2>1. t[l] = rows
    BY <1>7, <1>9, <1>10
  <2>2. row * rows - row = (rows - 1) * row
    BY <1>6, <1>7
  <2>3. QED
    BY <1>7, <2>1, <2>2
<1>17. QED
  BY <1>3, <1>4, <1>8, <1>10, <1>11, <1>12, <1>13, <1>14, <1>15, <1>16 DEF n

\* A remainder of a multiple of the divisor is no different.
LEMMA ModOfMod ==
    ASSUME NEW x \in Int, NEW a \in Nat \ {0}, NEW b \in Nat \ {0}
    PROVE  (x % (a * b)) % b = x % b
<1> DEFINE m == a * b
           q == x \div m
           r == x % m
           d == r \div b
           k == r % b
<1>1. m \in Nat \ {0}
  OBVIOUS
<1>2. q \in Int /\ r \in Int /\ x = m * q + r
  <2> HIDE DEF m
  <2>1. QED
    BY <1>1, DivMod
<1> HIDE DEF q, r
<1>3. d \in Int /\ k \in 0 .. b - 1 /\ r = b * d + k
  BY <1>2, DivMod
<1> HIDE DEF d, k
<1>4. x = b * (a * q + d) + k /\ a * q + d \in Int
  BY <1>2, <1>3
<1>5. x % b = k
  BY <1>3, <1>4, DivModIs
<1>6. QED
  BY <1>5 DEF k, r

\* The products of the dimensions from one on.
LEMMA ProductFromIs ==
    ASSUME NEW nvec \in Seq(Nat \ {0})
    PROVE  /\ \A i \in 1 .. Len(nvec) + 1 : ProductFrom(nvec, i) \in Nat \ {0}
           /\ \A i \in 1 .. Len(nvec) :
                ProductFrom(nvec, i) = nvec[i] * ProductFrom(nvec, i + 1)
           /\ ProductFrom(nvec, Len(nvec) + 1) = 1
<1>1. Len(nvec) \in Nat
  BY LenProperties
<1>2. ASSUME NEW i \in 1 .. Len(nvec) + 1
      PROVE  /\ ProductFrom(nvec, i) \in Nat \ {0}
             /\ i = Len(nvec) + 1 => ProductFrom(nvec, i) = 1
  <2>1. i \in Nat \ {0} /\ Len(nvec) \in 0 .. Len(nvec)
    BY <1>1
  <2>2. QED
    BY <1>1, <2>1, ProductIs DEF ProductFrom
<1>3. ASSUME NEW i \in 1 .. Len(nvec)
      PROVE  ProductFrom(nvec, i) = nvec[i] * ProductFrom(nvec, i + 1)
  <2>1. Len(nvec) \in i .. Len(nvec)
    BY <1>1
  <2>2. QED
    BY <2>1, ProductSplit DEF ProductFrom
<1>4. Len(nvec) + 1 \in 1 .. Len(nvec) + 1
  BY <1>1
<1>5. QED
  BY <1>2, <1>3, <1>4

\* The coordinates are within the dimensions, and together they are the index.
LEMMA IndicesAre ==
    ASSUME NEW nvec \in Seq(Nat \ {0}), Len(nvec) >= 1,
           NEW x \in 0 .. ProductFrom(nvec, 1) - 1
    PROVE  /\ \A i \in 1 .. Len(nvec) : ComputeIndices(x, nvec)[i] \in 0 .. nvec[i] - 1
           /\ Parts(nvec, ComputeIndices(x, nvec)) \in Seq(Nat)
           /\ Len(Parts(nvec, ComputeIndices(x, nvec))) = Len(nvec)
           /\ \A i \in 1 .. Len(nvec) :
                Parts(nvec, ComputeIndices(x, nvec))[i] =
                    ComputeIndices(x, nvec)[i] * ProductFrom(nvec, i + 1)
           /\ Sum(Parts(nvec, ComputeIndices(x, nvec)), 1, Len(nvec)) = x
<1> DEFINE l == Len(nvec)
           P(i) == ProductFrom(nvec, i)
           c == ComputeIndices(x, nvec)
           y(i) == IF i = 1 THEN x ELSE x % P(i)
           s == Parts(nvec, c)
<1>1. /\ l \in Nat \ {0} /\ DOMAIN nvec = 1 .. l
      /\ \A i \in 1 .. l : nvec[i] \in Nat \ {0}
  BY LenProperties, ElementOfSeq
<1>2. /\ \A i \in 1 .. l + 1 : P(i) \in Nat \ {0}
      /\ \A i \in 1 .. l : P(i) = nvec[i] * P(i + 1)
      /\ P(l + 1) = 1
  BY ProductFromIs
<1>3. \A i \in 1 .. l : c[i] = y(i) \div P(i + 1)
  BY <1>1 DEF ComputeIndices
<1> HIDE DEF c, P
<1>4. \A i \in 1 .. l : y(i) \in 0 .. P(i) - 1
  <2> SUFFICES ASSUME NEW i \in 1 .. l
               PROVE  y(i) \in 0 .. P(i) - 1
    OBVIOUS
  <2>0. x \in Int
    OBVIOUS
  <2>1. P(i) \in Nat \ {0}
    BY <1>1, <1>2
  <2>2. CASE i = 1
    BY <2>2 DEF P
  <2>3. CASE i # 1
    <3> DEFINE p == P(i)
    <3> HIDE DEF p
    <3>1. x % p \in 0 .. p - 1
      BY <2>0, <2>1 DEF p
    <3>2. QED
      BY <2>3, <3>1 DEF p
  <2>4. QED
    BY <2>2, <2>3
<1> HIDE DEF y
<1>5. ASSUME NEW i \in 1 .. l
      PROVE  /\ c[i] \in 0 .. nvec[i] - 1
             /\ c[i] * P(i + 1) \in Nat
             /\ y(i) = c[i] * P(i + 1) + (y(i) % P(i + 1))
  <2> DEFINE a == nvec[i]
             p == P(i + 1)
             z == y(i)
             q == c[i]
             r == z % p
  <2>1. a \in Nat \ {0} /\ p \in Nat \ {0} /\ z \in 0 .. a * p - 1
    <3>1. i + 1 \in 1 .. l + 1 /\ P(i) = a * p /\ a \in Nat \ {0}
      BY <1>1, <1>2
    <3>2. QED
      BY <1>2, <1>4, <3>1
  <2>2. q = z \div p
    BY <1>3
  <2> HIDE DEF a, p, z, q
  <2>3. q \in Nat /\ p * q <= z /\ r \in 0 .. p - 1 /\ z = p * q + r
    <3>1. z \in Nat
      BY <2>1
    <3>2. z \div p \in Nat /\ p * (z \div p) <= z
      BY <2>1, <3>1, DivNat
    <3>3. z % p \in 0 .. p - 1 /\ z = p * (z \div p) + (z % p)
      BY <2>1, <3>1
    <3>4. QED
      BY <2>2, <3>2, <3>3
  <2> HIDE DEF r
  <2>4. q >= a => FALSE
    <3> SUFFICES ASSUME q >= a
                 PROVE  FALSE
      OBVIOUS
    <3>1. p * q >= a * p /\ p * q \in Nat /\ a * p \in Nat
      BY <2>1, <2>3
    <3>2. QED
      BY <2>1, <2>3, <3>1
  <2>5. q * p = p * q /\ q * p \in Nat
    BY <2>1, <2>3
  <2>6. q \in 0 .. a - 1
    BY <2>1, <2>3, <2>4
  <2>7. QED
    BY <2>3, <2>5, <2>6 DEF a, p, z, q, r
<1>6. s \in Seq(Nat) /\ Len(s) = l /\ \A i \in 1 .. l : s[i] = c[i] * P(i + 1)
  <2>1. s = [i \in 1 .. l |-> c[i] * P(i + 1)]
    BY <1>1 DEF Parts, P
  <2>2. \A i \in 1 .. l : c[i] * P(i + 1) \in Nat
    BY <1>5
  <2> HIDE DEF s
  <2>3. QED
    BY <1>1, <2>1, <2>2
<1> HIDE DEF s
<1> DEFINE S == {j \in Nat : j \in 1 .. l => Sum(s, 1, j) + (y(j) % P(j + 1)) = x}
<1>7. 0 \in S
  OBVIOUS
<1>8. ASSUME NEW j \in Nat, j \in S
      PROVE  j + 1 \in S
  <2> SUFFICES ASSUME j + 1 \in 1 .. l
               PROVE  Sum(s, 1, j + 1) + (y(j + 1) % P((j + 1) + 1)) = x
    OBVIOUS
  <2>1. Sum(s, 1, j + 1) = Sum(s, 1, j) + s[j + 1] /\ Sum(s, 1, j) \in Nat
        /\ (j = 0 => Sum(s, 1, j) = 0)
    <3>1. j + 1 \in 0 .. Len(s) /\ j \in 0 .. Len(s) /\ j + 1 >= 1 /\ (j + 1) - 1 = j
          /\ 1 \in Nat \ {0}
      BY <1>1, <1>6
    <3>2. /\ Sum(s, 1, j + 1) = Sum(s, 1, (j + 1) - 1) + s[j + 1]
          /\ Sum(s, 1, j) \in Nat /\ (j < 1 => Sum(s, 1, j) = 0)
      BY <1>6, <3>1, SumIs
    <3>3. QED
      BY <3>1, <3>2
  <2> DEFINE z == y(j + 1)
             r == z % P((j + 1) + 1)
  <2>2. z = s[j + 1] + r /\ s[j + 1] \in Nat /\ r \in Nat
    <3>1. z = c[j + 1] * P((j + 1) + 1) + r
      BY <1>5
    <3>2. z \in Int /\ P((j + 1) + 1) \in Nat \ {0}
      <4>1. (j + 1) + 1 \in 1 .. l + 1 /\ P(j + 1) \in Nat
        BY <1>1, <1>2
      <4>2. QED
        BY <1>2, <1>4, <4>1
    <3>3. r \in Nat
      <4> DEFINE p == P((j + 1) + 1)
      <4> HIDE DEF z, p
      <4>1. z % p \in 0 .. p - 1
        BY <3>2, DivMod DEF p
      <4>2. QED
        BY <3>2, <4>1 DEF p
    <3>4. QED
      BY <1>5, <1>6, <3>1, <3>3
  <2>3. Sum(s, 1, j) + z = x
    <3>1. CASE j = 0
      BY <2>1, <3>1 DEF y
    <3>2. CASE j # 0
      <4>1. j \in 1 .. l /\ j \in 1 .. l + 1 /\ j + 1 \in 1 .. l + 1
        BY <1>1, <3>2
      <4>2. Sum(s, 1, j) + (y(j) % P(j + 1)) = x
        BY <1>8, <4>1
      <4>3. y(j) % P(j + 1) = x % P(j + 1)
        <5>1. CASE j = 1
          BY <5>1 DEF y
        <5>2. CASE j # 1
          <6>1. y(j) = x % (nvec[j] * P(j + 1))
            BY <1>2, <4>1, <5>2 DEF y
          <6>2. nvec[j] \in Nat \ {0} /\ P(j + 1) \in Nat \ {0} /\ x \in Int
            BY <1>1, <1>2, <4>1
          <6>3. (x % (nvec[j] * P(j + 1))) % P(j + 1) = x % P(j + 1)
            BY <6>2, ModOfMod
          <6>4. QED
            BY <6>1, <6>3
        <5>3. QED
          BY <5>1, <5>2
      <4>4. z = x % P(j + 1)
        BY <3>2 DEF y
      <4>5. QED
        BY <4>2, <4>3, <4>4
    <3>3. QED
      BY <3>1, <3>2
  <2> HIDE DEF z, r
  <2>4. z \in Int /\ x \in Int
    BY <2>2
  <2>5. (Sum(s, 1, j) + s[j + 1]) + r = x
    BY <2>1, <2>2, <2>3
  <2>6. QED
    BY <2>1, <2>5 DEF r, z
<1>9. \A j \in Nat : j \in S
  <2> HIDE DEF S
  <2>1. QED
    BY <1>7, <1>8, Induction
<1>10. Sum(s, 1, l) = x
  <2>1. Sum(s, 1, l) + (y(l) % P(l + 1)) = x /\ P(l + 1) = 1 /\ y(l) \in Int
    BY <1>1, <1>2, <1>4, <1>9
  <2>2. y(l) % P(l + 1) = 0
    BY <2>1
  <2>3. Sum(s, 1, l) \in Nat
    <3>1. l \in 0 .. Len(s) /\ 1 \in Nat \ {0}
      BY <1>1, <1>6
    <3>2. QED
      BY <1>6, <3>1, SumIs
  <2>4. QED
    BY <2>1, <2>2, <2>3
<1>11. QED
  BY <1>5, <1>6, <1>10 DEF c, s, P

\* The counts of a deployment and the layouts for them.
LEMMA LayoutFits ==
    ASSUME NEW c \in Counts, NEW n \in {c[1], c[2]}
    PROVE  /\ n \in Nat \ {0}
           /\ Dimensions(n) \in Seq(Nat \ {0})
           /\ Len(Dimensions(n)) \in Nat \ {0}
           /\ Dimensions(n)[1] \in Nat \ {0}
           /\ PlainSize * Dimensions(n)[1] <= N
           /\ RestSize(Dimensions(n)) \in Nat
           /\ GswSize * RestSize(Dimensions(n)) <= N
           /\ Len(Dimensions(n)) > 1 => RestSize(Dimensions(n)) >= 1
<1> DEFINE nvec == Dimensions(n)
           l == Len(nvec)
<1>1. n \in Nat \ {0} /\ \E i \in 1 .. 2 : n = c[i]
  BY CountAssumption
<1>2. PlainSize * nvec[1] <= N /\ GswSize * RestSize(nvec) <= N
  BY <1>1, FitAssumption
<1>3. nvec \in Seq(Nat \ {0}) /\ l \in Nat \ {0}
  BY <1>1, DimensionsAre
<1> HIDE DEF nvec
<1>4. /\ l \in 0 .. l /\ l - 1 \in 0 .. l /\ 2 \in Nat \ {0} /\ 1 \in 1 .. l /\ l \in 1 .. l
      /\ \A i \in 1 .. l : nvec[i] \in Nat \ {0}
  BY <1>3, ElementOfSeq
<1>5. nvec \in Seq(Nat)
  BY <1>3, SeqDef
<1>6. /\ Sum(nvec, 2, l) \in Nat
      /\ Sum(nvec, 2, l - 1) \in Nat
      /\ l >= 2 => Sum(nvec, 2, l) = Sum(nvec, 2, l - 1) + nvec[l]
  BY <1>4, <1>5, SumIs
<1>7. RestSize(nvec) = Sum(nvec, 2, l)
  BY DEF RestSize
<1>8. l > 1 => RestSize(nvec) >= 1
  <2> HIDE DEF l
  <2>1. nvec[l] \in Nat \ {0}
    BY <1>4
  <2>2. QED
    BY <1>3, <1>6, <1>7, <2>1
<1>9. QED
  BY <1>1, <1>2, <1>3, <1>4, <1>6, <1>7, <1>8 DEF nvec

\* N is a power of two.
LEMMA DegreeIs ==
    /\ N \in Nat \ {0}
    /\ CeilLog2(N) \in Nat
    /\ Power(2, CeilLog2(N)) = N
    /\ Power(2, CeilLog2(N) + 1) = 2 * N
<1>1. N \in Nat \ {0} /\ CeilLog2(N) \in Nat /\ Power(2, CeilLog2(N)) = N
  BY DegreeAssumption, CeilLog2Is
<1>2. QED
  BY <1>1, PowersOfTwo

\* Slots laid out at a distance that divides the degree.
LEMMA GapIs ==
    ASSUME NEW slots \in Nat, slots <= N
    PROVE  /\ CeilLog2(slots) \in 0 .. CeilLog2(N)
           /\ Gap(slots) = Power(2, CeilLog2(N) - CeilLog2(slots))
           /\ Gap(slots) \in Nat \ {0}
           /\ Power(2, CeilLog2(slots)) \in Nat \ {0}
           /\ Power(2, CeilLog2(slots)) >= slots
           /\ Power(2, CeilLog2(slots)) <= N
           /\ Gap(slots) * Power(2, CeilLog2(slots)) = N
<1> DEFINE k == CeilLog2(slots)
           n == CeilLog2(N)
           g == Power(2, n - k)
           h == Power(2, k)
<1>1. n \in Nat /\ Power(2, n) = N /\ N \in Nat \ {0}
  BY DegreeIs
<1>2. k \in Nat /\ k <= n /\ h >= slots
  BY <1>1, CeilLog2Is, CeilLog2Order
<1> HIDE DEF k, n
<1>3. n - k \in Nat /\ (n - k) + k = n
  BY <1>1, <1>2
<1>4. g \in Nat \ {0} /\ h \in Nat \ {0} /\ N = g * h
  BY <1>1, <1>2, <1>3, PowersOfTwo, PowerOfSum, ZenonT(40)
<1>5. Gap(slots) = N \div h
  BY DEF Gap, k
<1> HIDE DEF g, h
<1>6. N \div h = g
  <2>1. N = h * g + 0 /\ 0 \in 0 .. h - 1
    BY <1>4
  <2>2. (h * g + 0) \div h = g
    BY <1>4, DivModIs
  <2>3. QED
    BY <2>1, <2>2
<1>7. h <= N
  BY <1>4
<1>8. QED
  BY <1>1, <1>2, <1>4, <1>5, <1>6, <1>7 DEF k, n, g, h

-----------------------------------------------------------------------------
(***************************************************************************)
(* Polynomials.                                                             *)
(***************************************************************************)

\* The modulus is above the degree, and every number below it has an inverse.
LEMMA InverseIs ==
    /\ T \in Nat /\ T > N /\ T > 1
    /\ \A a \in 1 .. T - 1 : InverseMod(a) \in 1 .. T - 1 /\ (a * InverseMod(a)) % T = 1
<1>1. T \in Nat /\ T > N /\ N \in Nat \ {0}
  BY ModulusAssumption, DegreeAssumption
<1>2. ASSUME NEW a \in 1 .. T - 1
      PROVE  InverseMod(a) \in 1 .. T - 1 /\ (a * InverseMod(a)) % T = 1
  <2>1. \E b \in 1 .. T - 1 : (a * b) % T = 1
    BY ModulusAssumption
  <2> DEFINE Good(b) == b \in 1 .. T - 1 /\ (a * b) % T = 1
  <2>2. \E b : Good(b)
    BY <2>1
  <2>3. InverseMod(a) = CHOOSE b \in 1 .. T - 1 : (a * b) % T = 1
    BY DEF InverseMod
  <2>4. (CHOOSE b : Good(b)) = InverseMod(a)
    BY <2>3
  <2>5. Good(InverseMod(a))
    <3> HIDE DEF Good
    <3>1. QED
      BY <2>2, <2>4
  <2>6. QED
    BY <2>5
<1>3. QED
  BY <1>1, <1>2

\* A factor of a gadget is a coefficient; that of the last row is 1.
LEMMA GadgetIs ==
    ASSUME NEW l \in Nat \ {0}, NEW p \in 0 .. l - 1
    PROVE  Gadget(l, p) \in 0 .. T - 1 /\ Gadget(l, l - 1) = 1
<1>1. T \in Nat /\ T > 1 /\ Base \in Nat
  BY InverseIs, BaseAssumption
<1>2. l - 1 - p \in Nat /\ l - 1 - (l - 1) = 0
  OBVIOUS
<1>3. Power(Base, l - 1 - p) \in Nat /\ Power(Base, 0) = 1
  BY <1>1, <1>2, PowerIs
<1> DEFINE x == Power(Base, l - 1 - p)
<1>4. Gadget(l, p) = x % T /\ Gadget(l, l - 1) = 1 % T
  BY <1>2, <1>3 DEF Gadget
<1> HIDE DEF x
<1>5. x \in Nat
  BY <1>3 DEF x
<1>6. x % T \in 0 .. T - 1 /\ 1 % T = 1
  BY <1>1, <1>5
<1>7. QED
  BY <1>4, <1>6

\* What is packed is a polynomial.
LEMMA PackedIs ==
    ASSUME NEW indices, NEW size, NEW rows \in Nat \ {0}, NEW scale \in 1 .. N
    PROVE  Packed(Marks(indices, size, rows), rows, scale) \in Polynomial
<1> DEFINE marks == Marks(indices, size, rows)
           m(e) == CHOOSE m \in marks : m[1] = e
           v(e) == (Gadget(rows, m(e)[2]) * InverseMod(scale % T)) % T
<1>1. \A x \in marks : x[2] \in 0 .. rows - 1
  BY DEF Marks
<1>2. T \in Nat /\ T > 1 /\ N \in Nat
  BY InverseIs, DegreeIs
<1>3. InverseMod(scale % T) \in Nat
  <2>1. T \in Nat /\ T > N
    BY InverseIs
  <2>2. scale % T = scale /\ scale \in 1 .. T - 1
    BY <1>2, <2>1
  <2>3. InverseMod(scale) \in 1 .. T - 1
    BY <2>2, InverseIs
  <2>4. QED
    BY <2>2, <2>3
<1>4. ASSUME NEW e, \E x \in marks : x[1] = e
      PROVE  v(e) \in 0 .. T - 1
  <2>1. m(e) \in marks
    BY <1>4
  <2> DEFINE a == Gadget(rows, m(e)[2])
             b == InverseMod(scale % T)
  <2>2. a \in 0 .. T - 1
    BY <1>1, <2>1, GadgetIs
  <2>3. b \in Nat
    BY <1>3
  <2> HIDE DEF a, b
  <2>4. a * b \in Nat
    BY <2>2, <2>3
  <2> DEFINE c == a * b
  <2> HIDE DEF c
  <2>5. c % T \in 0 .. T - 1
    BY <1>2, <2>4 DEF c
  <2>6. QED
    BY <2>5 DEF a, b, c
<1>5. Packed(marks, rows, scale) =
        [e \in Exponent |-> IF \E x \in marks : x[1] = e THEN v(e) ELSE 0]
  BY DEF Packed
<1> HIDE DEF v, marks
<1>6. 0 \in 0 .. T - 1
  BY <1>2
<1>7. QED
  BY <1>4, <1>5, <1>6 DEF Polynomial, marks

\* An odd number has an inverse modulo a power of two.
LEMMA OddInverse ==
    ASSUME NEW k \in Nat, k % 2 = 1
    PROVE  \A n \in Nat : \E r \in Nat, q \in Nat : k * r = 1 + q * Power(2, n)
<1> DEFINE S == {n \in Nat : \E r \in Nat, q \in Nat : k * r = 1 + q * Power(2, n)}
<1>1. 0 \in S
  <2>1. k >= 1 /\ Power(2, 0) = 1
    BY PowersOfTwo
  <2>2. k * 1 = 1 + (k - 1) * Power(2, 0) /\ k - 1 \in Nat
    BY <2>1
  <2>3. QED
    BY <2>2
<1>2. ASSUME NEW n \in Nat, n \in S
      PROVE  n + 1 \in S
  <2>1. PICK r \in Nat, q \in Nat : k * r = 1 + q * Power(2, n)
    BY <1>2
  <2> DEFINE x == Power(2, n)
             h == (k + 1) \div 2
  <2>2. x \in Nat /\ Power(2, n + 1) = 2 * x
    BY PowersOfTwo
  <2>3. h \in Nat /\ k + 1 = 2 * h
    OBVIOUS
  <2> HIDE DEF x, h
  <2>4. k * r = 1 + q * x
    BY <2>1 DEF x
  <2>5. k * (r + q * x) = k * r + k * (q * x) /\ k * (q * x) = (k * q) * x
    BY <2>2
  <2>6. k * (r + q * x) = 1 + (q + k * q) * x
    <3>1. (q + k * q) * x = q * x + (k * q) * x
      BY <2>2
    <3>2. QED
      BY <2>2, <2>4, <2>5, <3>1
  <2>7. q + k * q = (k + 1) * q /\ (k + 1) * q = (2 * h) * q
    BY <2>3
  <2>8. ((2 * h) * q) * x = (h * q) * (2 * x)
    BY <2>2, <2>3
  <2>9. k * (r + q * x) = 1 + (h * q) * Power(2, n + 1)
    BY <2>2, <2>6, <2>7, <2>8
  <2>10. r + q * x \in Nat /\ h * q \in Nat
    BY <2>2, <2>3
  <2>11. \E t \in Nat, u \in Nat : k * t = 1 + u * Power(2, n + 1)
    BY <2>9, <2>10
  <2>12. QED
    BY <2>11
<1>3. \A n \in Nat : n \in S
  <2> HIDE DEF S
  <2>1. QED
    BY <1>1, <1>2, Induction
<1>4. QED
  BY <1>3

\* A coefficient, read below 2 * N.
LEMMA SignedIs ==
    ASSUME NEW p \in Polynomial, NEW x \in 0 .. 2 * N - 1
    PROVE  /\ Signed(p, x) \in 0 .. T - 1
           /\ x < N => Signed(p, x) = p[x]
           /\ x >= N => x - N \in Exponent /\ Signed(p, x) = (T - p[x - N]) % T
<1>1. T \in Nat /\ T > 1 /\ N \in Nat \ {0}
  BY InverseIs, DegreeIs
<1>2. CASE x < N
  <2>1. x \in Exponent
    BY <1>1, <1>2 DEF Exponent
  <2>2. p[x] \in 0 .. T - 1
    BY <2>1 DEF Polynomial
  <2>3. QED
    BY <1>1, <1>2, <2>2 DEF Signed
<1>3. CASE ~(x < N)
  <2>1. x - N \in Exponent
    BY <1>1, <1>3 DEF Exponent
  <2>2. p[x - N] \in 0 .. T - 1
    BY <2>1 DEF Polynomial
  <2> DEFINE c == T - p[x - N]
  <2>3. c \in Int /\ Signed(p, x) = c % T
    BY <1>1, <1>3, <2>2 DEF Signed
  <2> HIDE DEF c
  <2>4. c % T \in 0 .. T - 1
    BY <1>1, <2>3
  <2>5. QED
    BY <1>1, <1>3, <2>1, <2>3, <2>4 DEF c
<1>4. QED
  BY <1>2, <1>3

\* A remainder of T is a coefficient.
LEMMA ModIs ==
    ASSUME NEW x \in Int
    PROVE  x % T \in 0 .. T - 1
BY InverseIs

\* The factor that apply_galois multiplies exponents with has an inverse.
LEMMA GaloisRoot ==
    ASSUME NEW k \in Nat, k % 2 = 1
    PROVE  \E r \in 1 .. 2 * N - 1 :
                /\ (r * k) % (2 * N) = 1
                /\ \A p : ApplyGalois(p, k) =
                            [e \in Exponent |-> Signed(p, (e * r) % (2 * N))]
<1> DEFINE m == 2 * N
           Good(r) == r \in 1 .. 2 * N - 1 /\ (r * k) % (2 * N) = 1
           c == CHOOSE r \in 1 .. 2 * N - 1 : (r * k) % (2 * N) = 1
<1>1. /\ CeilLog2(N) + 1 \in Nat /\ Power(2, CeilLog2(N) + 1) = m
      /\ m \in Nat /\ m >= 2
  BY DegreeIs
<1> HIDE DEF m
<1>2. PICK s \in Nat, q \in Nat : k * s = 1 + q * m
  <2> DEFINE l == CeilLog2(N) + 1
  <2>1. l \in Nat /\ Power(2, l) = m
    BY <1>1
  <2> HIDE DEF l
  <2>2. \E x \in Nat, q \in Nat : k * x = 1 + q * Power(2, l)
    BY <2>1, OddInverse
  <2>3. QED
    BY <2>1, <2>2
<1> DEFINE r == s % m
           d == s \div m
<1>3. r \in 0 .. m - 1 /\ d \in Int /\ s = m * d + r
  BY <1>1, <1>2
<1> HIDE DEF r, d
<1>4. r * k = m * (q - d * k) + 1
  <2>1. r = s - m * d
    BY <1>1, <1>3
  <2>2. r * k = k * s - (m * d) * k
    BY <1>1, <1>2, <1>3, <2>1
  <2>3. (m * d) * k = m * (d * k) /\ m * (q - d * k) = q * m - m * (d * k)
    BY <1>1, <1>2, <1>3
  <2>4. QED
    BY <1>1, <1>2, <1>3, <2>2, <2>3
<1>5. (r * k) % m = 1
  <2>1. q - d * k \in Int /\ 1 \in 0 .. m - 1 /\ m \in Nat \ {0}
    BY <1>1, <1>2, <1>3
  <2>2. (m * (q - d * k) + 1) % m = 1
    BY <2>1, DivModIs
  <2>3. QED
    BY <1>4, <2>2
<1>6. r # 0
  <2> SUFFICES ASSUME r = 0
               PROVE  FALSE
    OBVIOUS
  <2>1. r * k = 0 /\ 0 % m = 0
    BY <1>1
  <2>2. QED
    BY <1>5, <2>1
<1>7. Good(r)
  BY <1>1, <1>3, <1>5, <1>6 DEF m
<1>8. Good(c)
  <2>1. c = CHOOSE x : Good(x)
    OBVIOUS
  <2> HIDE DEF Good, c
  <2>2. QED
    BY <1>7, <2>1
<1>9. \A p : ApplyGalois(p, k) = [e \in Exponent |-> Signed(p, (e * c) % (2 * N))]
  BY DEF ApplyGalois
<1> HIDE DEF c
<1>10. QED
  BY <1>8, <1>9

\* The operations make polynomials of polynomials.
LEMMA Operations ==
    ASSUME NEW p \in Polynomial, NEW q \in Polynomial, NEW k \in Nat
    PROVE  /\ Plus(p, q) \in Polynomial
           /\ Minus(p, q) \in Polynomial
           /\ k <= 2 * N => TimesPowerOfX(p, k) \in Polynomial
           /\ k % 2 = 1 => ApplyGalois(p, k) \in Polynomial
<1>1. T \in Nat /\ N \in Nat \ {0}
  BY InverseIs, DegreeIs
<1>2. \A e \in Exponent : p[e] \in Nat /\ q[e] \in Nat
  BY DEF Polynomial
<1>3. Plus(p, q) \in Polynomial
  <2>1. \A e \in Exponent : (p[e] + q[e]) % T \in 0 .. T - 1
    BY <1>2, ModIs
  <2>2. QED
    BY <2>1 DEF Plus, Polynomial
<1>4. Minus(p, q) \in Polynomial
  <2>1. \A e \in Exponent : (p[e] + T - q[e]) % T \in 0 .. T - 1
    BY <1>1, <1>2, ModIs
  <2>2. QED
    BY <2>1 DEF Minus, Polynomial
<1>5. \A x \in Int : x % (2 * N) \in 0 .. 2 * N - 1
  BY <1>1
<1>6. k <= 2 * N => TimesPowerOfX(p, k) \in Polynomial
  <2>1. \A e \in Exponent : Signed(p, (e + 2 * N - k) % (2 * N)) \in 0 .. T - 1
    <3> SUFFICES ASSUME NEW e \in Exponent
                 PROVE  Signed(p, (e + 2 * N - k) % (2 * N)) \in 0 .. T - 1
      OBVIOUS
    <3>1. e + 2 * N - k \in Int
      BY <1>1 DEF Exponent
    <3>2. (e + 2 * N - k) % (2 * N) \in 0 .. 2 * N - 1
      BY <1>5, <3>1
    <3>3. QED
      BY <3>2, SignedIs
  <2>2. QED
    BY <2>1 DEF TimesPowerOfX, Polynomial
<1>7. k % 2 = 1 => ApplyGalois(p, k) \in Polynomial
  <2> SUFFICES ASSUME k % 2 = 1
               PROVE  ApplyGalois(p, k) \in Polynomial
    OBVIOUS
  <2>1. PICK r \in 1 .. 2 * N - 1 :
            ApplyGalois(p, k) = [e \in Exponent |-> Signed(p, (e * r) % (2 * N))]
    BY GaloisRoot
  <2>2. \A e \in Exponent : Signed(p, (e * r) % (2 * N)) \in 0 .. T - 1
    <3> SUFFICES ASSUME NEW e \in Exponent
                 PROVE  Signed(p, (e * r) % (2 * N)) \in 0 .. T - 1
      OBVIOUS
    <3>1. e * r \in Int
      BY <1>1 DEF Exponent
    <3>2. (e * r) % (2 * N) \in 0 .. 2 * N - 1
      BY <1>5, <3>1
    <3>3. QED
      BY <3>2, SignedIs
  <2>3. QED
    BY <2>1, <2>2 DEF Polynomial
<1>8. QED
  BY <1>3, <1>4, <1>6, <1>7

\* Multiples, the even and the odd ones.
LEMMA Multiples ==
    ASSUME NEW g \in Nat \ {0}, NEW x \in Int
    PROVE  /\ x % g = 0 <=> \E y \in Int : x = g * y
           /\ x % (2 * g) = 0 <=> \E y \in Int : x = g * (2 * y)
           /\ (x % g = 0 /\ x % (2 * g) # 0) <=> \E y \in Int : x = g * (2 * y + 1)
<1>1. ASSUME NEW h \in Nat \ {0}
      PROVE  x % h = 0 <=> \E y \in Int : x = h * y
  <2>1. x % h = 0 => x = h * (x \div h) /\ x \div h \in Int
    OBVIOUS
  <2>2. ASSUME NEW y \in Int, x = h * y
        PROVE  x % h = 0
    <3>1. (h * y + 0) % h = 0
      BY DivModIs
    <3>2. QED
      BY <2>2, <3>1
  <2>3. QED
    BY <2>1, <2>2
<1>2. x % g = 0 <=> \E y \in Int : x = g * y
  BY <1>1
<1>3. x % (2 * g) = 0 <=> \E y \in Int : x = g * (2 * y)
  <2> DEFINE h == 2 * g
  <2>1. h \in Nat \ {0}
    OBVIOUS
  <2>2. \A y \in Int : h * y = g * (2 * y)
    OBVIOUS
  <2> HIDE DEF h
  <2>3. x % h = 0 <=> \E y \in Int : x = h * y
    BY <1>1, <2>1
  <2>4. QED
    BY <2>2, <2>3 DEF h
<1>4. ASSUME NEW y \in Int, x = g * (2 * y + 1)
      PROVE  x % g = 0 /\ x % (2 * g) # 0
  <2>1. x % g = 0
    BY <1>2, <1>4
  <2>2. ASSUME NEW z \in Int, x = g * (2 * z)
        PROVE  FALSE
    <3>1. g * (2 * y + 1 - 2 * z) = 0
      BY <1>4, <2>2
    <3>2. 2 * y + 1 - 2 * z = 0
      BY <3>1
    <3>3. QED
      BY <3>2
  <2>3. QED
    BY <1>3, <2>1, <2>2
<1>5. ASSUME x % g = 0, x % (2 * g) # 0
      PROVE  \E y \in Int : x = g * (2 * y + 1)
  <2>1. PICK y \in Int : x = g * y
    BY <1>2, <1>5
  <2>2. \E z \in Int : y = 2 * z \/ y = 2 * z + 1
    <3>1. y = 2 * (y \div 2) \/ y = 2 * (y \div 2) + 1
      OBVIOUS
    <3>2. y \div 2 \in Int
      OBVIOUS
    <3>3. QED
      BY <3>1, <3>2
  <2>3. QED
    BY <1>3, <1>5, <2>1, <2>2
<1>6. QED
  BY <1>2, <1>3, <1>4, <1>5

\* apply_galois with the power of one iteration, on a polynomial that has
\* coefficients at multiples of g only: it negates those at the odd ones.
LEMMA GaloisSplits ==
    ASSUME NEW s \in Nat, s < CeilLog2(N), NEW p \in Polynomial,
           \A e \in Exponent : e % Power(2, s) # 0 => p[e] = 0
    PROVE  /\ N \div Power(2, s) + 1 \in Nat
           /\ (N \div Power(2, s) + 1) % 2 = 1
           /\ \A e \in Exponent :
                ApplyGalois(p, N \div Power(2, s) + 1)[e] =
                    IF e % Power(2, s) # 0 THEN 0
                    ELSE IF e % (2 * Power(2, s)) = 0 THEN p[e]
                    ELSE (T - p[e]) % T
<1> DEFINE n == CeilLog2(N)
           g == Power(2, s)
           f == Power(2, n - s - 1)
           k == N \div g + 1
<1>1. /\ n \in Nat /\ N \in Nat \ {0} /\ N = g * (2 * f)
      /\ g \in Nat \ {0} /\ f \in Nat \ {0}
  <2>1. n \in Nat /\ N \in Nat \ {0} /\ Power(2, n) = N
    BY DegreeIs
  <2>2. n - s - 1 \in Nat /\ n - s \in Nat /\ n - s = (n - s - 1) + 1 /\ n = s + (n - s)
    BY <2>1
  <2> HIDE DEF n
  <2>3. Power(2, n) = g * Power(2, n - s)
    BY <2>2, PowerOfSum
  <2>4. Power(2, n - s) = 2 * f
    BY <2>2, PowersOfTwo
  <2>5. g \in Nat \ {0} /\ f \in Nat \ {0}
    BY <2>2, PowersOfTwo
  <2>6. QED
    BY <2>1, <2>3, <2>4, <2>5
<1> HIDE DEF n, g, f
<1>2. k = 2 * f + 1
  <2>1. (g * (2 * f) + 0) \div g = 2 * f
    <3>1. 2 * f \in Int /\ 0 \in 0 .. g - 1
      BY <1>1
    <3> DEFINE x == 2 * f
    <3> HIDE DEF x
    <3>2. (g * x + 0) \div g = x
      BY <1>1, <3>1, DivModIs DEF x
    <3>3. QED
      BY <3>2 DEF x
  <2>2. QED
    BY <1>1, <2>1
<1> HIDE DEF k
<1>3. k \in Nat /\ k % 2 = 1
  BY <1>1, <1>2
<1>4. PICK r \in 1 .. 2 * N - 1 :
            /\ (r * k) % (2 * N) = 1
            /\ \A q : ApplyGalois(q, k) =
                        [e \in Exponent |-> Signed(q, (e * r) % (2 * N))]
  BY <1>3, GaloisRoot
<1>5. PICK w \in Int : r * k = (2 * N) * w + 1
  <2> DEFINE a == r * k
             m == 2 * N
  <2>1. a \in Int /\ m \in Nat \ {0} /\ a % m = 1
    BY <1>1, <1>3, <1>4
  <2> HIDE DEF a, m
  <2>2. a = m * (a \div m) + 1 /\ a \div m \in Int
    BY <2>1
  <2>3. QED
    BY <2>2 DEF a, m
<1>6. PICK u \in Int : r = 2 * u + 1
  <2>1. r \in Int /\ (r = 2 * (r \div 2) \/ r = 2 * (r \div 2) + 1) /\ r \div 2 \in Int
    BY <1>1
  <2>2. ASSUME NEW u \in Int, r = 2 * u
        PROVE  FALSE
    <3>1. r * k = 2 * (u * k)
      BY <1>3, <2>2
    <3>2. (2 * N) * w = 2 * (N * w)
      BY <1>1
    <3> DEFINE a == u * k
               b == N * w
    <3>3. a \in Int /\ b \in Int /\ r * k = 2 * a /\ r * k = 2 * b + 1
      BY <1>1, <1>3, <1>5, <3>1, <3>2
    <3> HIDE DEF a, b
    <3>4. 2 * (a - b) = 1 /\ a - b \in Int
      BY <3>3
    <3>5. QED
      BY <3>4
  <2>3. QED
    BY <2>1, <2>2
<1> SUFFICES ASSUME NEW e \in Exponent
             PROVE  ApplyGalois(p, k)[e] = IF e % g # 0 THEN 0
                                           ELSE IF e % (2 * g) = 0 THEN p[e]
                                           ELSE (T - p[e]) % T
  BY <1>3 DEF g, k
<1> DEFINE x == (e * r) % (2 * N)
<1>7. ApplyGalois(p, k)[e] = Signed(p, x)
  BY <1>4
<1>8. e \in Int /\ 0 <= e /\ e < N
  BY <1>1 DEF Exponent
<1>9. PICK z \in Int : e * r = (2 * N) * z + x /\ x \in 0 .. 2 * N - 1
  <2> DEFINE a == e * r
             m == 2 * N
  <2>1. a \in Int /\ m \in Nat \ {0}
    BY <1>1, <1>8
  <2> HIDE DEF a, m
  <2>2. a = m * (a \div m) + (a % m) /\ a \div m \in Int /\ a % m \in 0 .. m - 1
    BY <2>1
  <2>3. QED
    BY <2>2 DEF a, m
<1>10. \A v \in 0 .. 2 * N - 1, y \in Int : e * r = (2 * N) * y + v => x = v
  <2> SUFFICES ASSUME NEW v \in 0 .. 2 * N - 1, NEW y \in Int,
                      e * r = (2 * N) * y + v
               PROVE  x = v
    OBVIOUS
  <2> DEFINE m == 2 * N
  <2>1. m \in Nat \ {0} /\ v \in 0 .. m - 1
    BY <1>1
  <2>2. (m * y + v) % m = v
    <3> HIDE DEF m
    <3>1. QED
      BY <2>1, DivModIs
  <2>3. QED
    BY <2>2
<1> HIDE DEF x
<1>11. e * (r * k) = e + (2 * N) * (e * w)
  BY <1>1, <1>5, <1>8
<1>12. CASE e % (2 * g) = 0
  <2>1. PICK y \in Int : e = g * (2 * y)
    <3>1. e % (2 * g) = 0 <=> \E y \in Int : e = g * (2 * y)
      BY <1>1, <1>8, Multiples, ZenonT(40)
    <3>2. QED
      BY <1>12, <3>1
  <2>2. e % g = 0
    <3>1. e = g * (2 * y) /\ 2 * y \in Int
      BY <2>1
    <3>2. QED
      BY <1>1, <1>8, <3>1, Multiples
  <2>3. e * k = (2 * N) * y + e
    <3>1. e * k = e * (2 * f) + e
      BY <1>1, <1>2, <1>8
    <3>2. e * (2 * f) = (g * (2 * f)) * (2 * y)
      BY <1>1, <2>1
    <3>3. QED
      BY <1>1, <1>8, <3>1, <3>2
  <2>4. e * r = (2 * N) * (e * w - r * y) + e
    <3>1. e * (r * k) = r * (e * k)
      BY <1>3, <1>8
    <3>2. r * (e * k) = (2 * N) * (r * y) + e * r
      BY <1>1, <1>8, <2>3
    <3>3. (2 * N) * (e * w - r * y) = (2 * N) * (e * w) - (2 * N) * (r * y)
      BY <1>1, <1>8
    <3>4. QED
      BY <1>1, <1>8, <1>11, <3>1, <3>2, <3>3
  <2>5. x = e
    <3>1. e * w - r * y \in Int /\ e \in 0 .. 2 * N - 1
      BY <1>1, <1>8
    <3>2. QED
      BY <1>10, <2>4, <3>1
  <2>6. QED
    BY <1>7, <1>8, <1>9, <1>12, <2>2, <2>5, SignedIs
<1>13. CASE e % g = 0 /\ e % (2 * g) # 0
  <2>1. PICK y \in Int : e = g * (2 * y + 1)
    BY <1>1, <1>8, <1>13, Multiples
  <2>2. e * k = (2 * N) * y + N + e
    <3>1. e * k = e * (2 * f) + e
      BY <1>1, <1>2, <1>8
    <3>2. e * (2 * f) = (g * (2 * f)) * (2 * y + 1)
      BY <1>1, <2>1
    <3>3. N * (2 * y + 1) = (2 * N) * y + N
      BY <1>1
    <3>4. QED
      BY <1>1, <1>8, <3>1, <3>2, <3>3
  <2> DEFINE q == e * w - r * y - u - 1
  <2>3. e * r = (2 * N) * q + (e + N)
    <3>1. e * (r * k) = r * (e * k)
      BY <1>3, <1>8
    <3>2. r * (e * k) = (2 * N) * (r * y) + r * N + e * r
      <4>1. r * (e * k) = r * ((2 * N) * y + N + e)
        BY <2>2
      <4>2. QED
        BY <1>1, <1>8, <4>1
    <3>3. r * N = (2 * N) * u + N
      BY <1>1, <1>6
    <3>4. (2 * N) * q = (2 * N) * (e * w) - (2 * N) * (r * y) - (2 * N) * u - 2 * N
      BY <1>1, <1>8
    <3> HIDE DEF q
    <3> DEFINE a == (2 * N) * (e * w)
               b == (2 * N) * (r * y)
               c == (2 * N) * u
               d == e * r
    <3>5. a \in Int /\ b \in Int /\ c \in Int /\ d \in Int
      BY <1>1, <1>8
    <3>6. e + a = b + (c + N) + d /\ (2 * N) * q = a - b - c - 2 * N
      BY <1>11, <3>1, <3>2, <3>3, <3>4
    <3> HIDE DEF a, b, c, d
    <3>7. d = (a - b - c - 2 * N) + (e + N)
      BY <1>1, <1>8, <3>5, <3>6
    <3>8. QED
      BY <3>6, <3>7 DEF d
  <2>4. x = e + N
    <3>1. q \in Int /\ e + N \in 0 .. 2 * N - 1
      BY <1>1, <1>8
    <3> HIDE DEF q
    <3>2. QED
      BY <1>10, <2>3, <3>1
  <2>5. x >= N /\ x - N = e /\ ~(x < N)
    BY <1>1, <1>8, <2>4
  <2>6. QED
    BY <1>7, <1>9, <1>13, <2>5, SignedIs
<1>14. CASE e % g # 0
  <2>1. \A y \in Int : x # g * y
    <3> SUFFICES ASSUME NEW y \in Int, x = g * y
                 PROVE  FALSE
      OBVIOUS
    <3> DEFINE v == (2 * f) * (2 * z) + y
               q == v * k - (2 * f) * (2 * (e * w))
    <3>1. e * r = g * v
      <4>1. (2 * N) * z = g * ((2 * f) * (2 * z))
        BY <1>1
      <4>2. QED
        BY <1>1, <1>9, <4>1
    <3>2. v \in Int
      BY <1>1
    <3> HIDE DEF v
    <3>3. e * (r * k) = g * (v * k)
      <4>1. e * (r * k) = (e * r) * k
        BY <1>3, <1>8
      <4>2. QED
        BY <1>1, <1>3, <3>1, <3>2, <4>1
    <3>4. (2 * N) * (e * w) = g * ((2 * f) * (2 * (e * w)))
      BY <1>1, <1>8
    <3>5. g * q = g * (v * k) - g * ((2 * f) * (2 * (e * w)))
      BY <1>1, <1>3, <1>8, <3>2
    <3>6. e = g * q
      BY <1>1, <1>8, <1>11, <3>3, <3>4, <3>5
    <3>7. q \in Int
      BY <1>1, <1>3, <1>8, <3>2
    <3> HIDE DEF q
    <3>8. e % g = 0
      BY <1>1, <1>8, <3>6, <3>7, Multiples
    <3>9. QED
      BY <1>14, <3>8
  <2>2. \A y \in Int : x - N # g * y
    <3> SUFFICES ASSUME NEW y \in Int, x - N = g * y
                 PROVE  FALSE
      OBVIOUS
    <3>1. x = g * (2 * f + y) /\ 2 * f + y \in Int
      BY <1>1, <1>9
    <3>2. QED
      BY <2>1, <3>1
  <2>3. CASE x < N
    <3>1. x \in Exponent /\ x \in Int
      BY <1>1, <1>9, <2>3 DEF Exponent
    <3>2. x % g # 0
      <4>1. x % g = 0 <=> \E y \in Int : x = g * y
        BY <1>1, <3>1, Multiples, ZenonT(40)
      <4>2. QED
        BY <2>1, <4>1
    <3>3. p[x] = 0
      BY <3>1, <3>2 DEF g
    <3>4. QED
      BY <1>7, <1>9, <1>14, <2>3, <3>3, SignedIs
  <2>4. CASE x >= N
    <3>1. x - N \in Exponent /\ x - N \in Int
      BY <1>1, <1>9, <2>4 DEF Exponent
    <3>2. (x - N) % g # 0
      <4> DEFINE v == x - N
      <4>1. v \in Int
        BY <3>1
      <4> HIDE DEF v
      <4>2. v % g = 0 <=> \E y \in Int : v = g * y
        BY <1>1, <4>1, Multiples, ZenonT(40)
      <4>3. QED
        BY <2>2, <4>2 DEF v
    <3>3. p[x - N] = 0
      BY <3>1, <3>2 DEF g
    <3>4. T \in Nat /\ T > 1 /\ T % T = 0
      BY InverseIs
    <3>5. Signed(p, x) = (T - p[x - N]) % T
      BY <1>9, <2>4, SignedIs
    <3>6. QED
      BY <1>7, <1>14, <3>3, <3>4, <3>5
  <2>5. QED
    BY <1>1, <1>9, <2>3, <2>4
<1>15. QED
  BY <1>12, <1>13, <1>14

\* Remainders of T in sums and multiples.
LEMMA ModOfMultiple ==
    ASSUME NEW a \in Int, NEW b \in Int
    PROVE  ((a % T) * b) % T = (a * b) % T
<1> DEFINE q == a \div T
           r == a % T
           c == r * b
           d == c \div T
           k == c % T
<1>1. T \in Nat \ {0}
  BY InverseIs
<1>2. q \in Int /\ r \in Int /\ a = T * q + r
  BY <1>1
<1> HIDE DEF q, r
<1>3. c \in Int
  BY <1>2
<1>4. a * b = T * (q * b) + c
  BY <1>1, <1>2
<1> HIDE DEF c
<1>5. d \in Int /\ k \in 0 .. T - 1 /\ c = T * d + k
  BY <1>1, <1>3
<1> HIDE DEF d, k
<1>6. a * b = T * (q * b + d) + k /\ q * b + d \in Int
  BY <1>1, <1>2, <1>4, <1>5
<1>7. (T * (q * b + d) + k) % T = k
  BY <1>1, <1>5, <1>6, DivModIs
<1>8. QED
  BY <1>6, <1>7 DEF k, c, r

\* What one iteration makes of one polynomial: the coefficients at the even
\* multiples of g, and those at the odd ones moved to the even ones, doubled.
LEMMA OneStep ==
    ASSUME NEW s \in Nat, s < CeilLog2(N), NEW p \in Polynomial,
           \A e \in Exponent : e % Power(2, s) # 0 => p[e] = 0
    PROVE  \A e \in Exponent :
            /\ Plus(ApplyGalois(p, N \div Power(2, s) + 1), p)[e] =
                    IF e % (2 * Power(2, s)) = 0 THEN (2 * p[e]) % T ELSE 0
            /\ e % (2 * Power(2, s)) = 0 => e + Power(2, s) \in Exponent
            /\ TimesPowerOfX(Minus(p, ApplyGalois(p, N \div Power(2, s) + 1)),
                             2 * N - Power(2, s))[e] =
                    IF e % (2 * Power(2, s)) = 0 THEN (2 * p[e + Power(2, s)]) % T ELSE 0
<1> DEFINE g == Power(2, s)
           k == N \div g + 1
           a == ApplyGalois(p, k)
           even(e) == e % (2 * g) = 0
           any(e) == e % g = 0
<1>1. /\ k \in Nat /\ k % 2 = 1
      /\ \A e \in Exponent : a[e] = IF ~any(e) THEN 0 ELSE IF even(e) THEN p[e]
                                    ELSE (T - p[e]) % T
  BY GaloisSplits
<1>2. /\ T \in Nat /\ T > 1 /\ N \in Nat \ {0} /\ g \in Nat \ {0}
      /\ \E h \in Nat \ {0} : N = g * (2 * h)
  <2> DEFINE n == CeilLog2(N)
  <2>1. n \in Nat /\ N \in Nat \ {0} /\ Power(2, n) = N /\ T \in Nat /\ T > 1
    BY DegreeIs, InverseIs
  <2> HIDE DEF n
  <2>2. n - s - 1 \in Nat /\ n = (s + 1) + (n - s - 1) /\ s + 1 \in Nat
    BY <2>1 DEF n
  <2>3. /\ N = Power(2, s + 1) * Power(2, n - s - 1)
        /\ Power(2, s + 1) = 2 * g
        /\ g \in Nat \ {0} /\ Power(2, n - s - 1) \in Nat \ {0}
    <3> DEFINE i == s + 1
               j == n - s - 1
    <3>1. i \in Nat /\ j \in Nat /\ n = i + j
      BY <2>2
    <3> HIDE DEF i, j
    <3>2. N = Power(2, i) * Power(2, j)
      BY <2>1, <3>1, PowerOfSum
    <3>3. Power(2, s + 1) = 2 * g /\ g \in Nat \ {0} /\ Power(2, j) \in Nat \ {0}
      BY <3>1, PowersOfTwo
    <3>4. QED
      BY <3>2, <3>3 DEF i, j
  <2>4. \A x \in Nat : (2 * g) * x = g * (2 * x)
    BY <2>3
  <2>5. QED
    BY <2>1, <2>3, <2>4
<1>3. a \in Polynomial
  BY <1>1, Operations
<1>4. \A e \in Exponent : p[e] \in 0 .. T - 1 /\ (~any(e) => p[e] = 0)
  BY DEF Polynomial
<1>5. \A e \in Exponent : e \in Int /\ 0 <= e /\ e < N
  BY <1>2 DEF Exponent
<1>6. \A e \in Exponent : even(e) => any(e)
  <2> SUFFICES ASSUME NEW e \in Exponent, even(e)
               PROVE  any(e)
    OBVIOUS
  <2>1. PICK y \in Int : e = g * (2 * y)
    <3>1. even(e) <=> \E y \in Int : e = g * (2 * y)
      BY <1>2, <1>5, Multiples, ZenonT(40)
    <3>2. QED
      BY <3>1
  <2>2. 2 * y \in Int
    OBVIOUS
  <2>3. any(e) <=> \E z \in Int : e = g * z
    BY <1>2, <1>5, Multiples
  <2>4. QED
    BY <2>1, <2>2, <2>3
<1> HIDE DEF a, k
<1> DEFINE b == Minus(p, a)
<1>7. ASSUME NEW e \in Exponent
      PROVE  /\ Plus(a, p)[e] = IF even(e) THEN (2 * p[e]) % T ELSE 0
             /\ b[e] = IF any(e) /\ ~even(e) THEN (2 * p[e]) % T ELSE 0
  <2> DEFINE c == p[e]
             d == a[e]
  <2>1. Plus(a, p)[e] = (d + c) % T /\ b[e] = (c + T - d) % T
    BY DEF Plus, Minus
  <2>2. c \in 0 .. T - 1 /\ d \in 0 .. T - 1
        /\ d = IF ~any(e) THEN 0 ELSE IF even(e) THEN c ELSE (T - c) % T
    BY <1>1, <1>3, <1>4 DEF Polynomial
  <2>3. ~any(e) => c = 0
    BY <1>4
  <2>4. even(e) => any(e)
    BY <1>6
  <2> HIDE DEF c, d, b, any, even
  <2>5. CASE even(e)
    <3>1. d = c /\ d + c = 2 * c /\ c + T - d = T
      BY <1>2, <2>2, <2>4, <2>5
    <3>2. T % T = 0
      BY <1>2
    <3>3. QED
      BY <2>1, <2>5, <3>1, <3>2 DEF c
  <2>6. CASE any(e) /\ ~even(e)
    <3>1. d = IF c = 0 THEN 0 ELSE T - c
      BY <1>2, <2>2, <2>6
    <3>2. d + c = IF c = 0 THEN 0 ELSE T
      BY <1>2, <2>2, <3>1
    <3>3. 0 % T = 0 /\ T % T = 0
      BY <1>2
    <3>4. (c + T - d) % T = (2 * c) % T
      <4>1. CASE c = 0
        BY <1>2, <3>1, <3>3, <4>1
      <4>2. CASE c # 0
        BY <1>2, <2>2, <3>1, <4>2
      <4>3. QED
        BY <4>1, <4>2
    <3>5. QED
      BY <2>1, <2>6, <3>2, <3>3, <3>4 DEF c
  <2>7. CASE ~any(e)
    <3>1. d = 0 /\ c = 0 /\ 0 % T = 0 /\ T % T = 0 /\ d + c = 0 /\ c + T - d = T
      BY <1>2, <2>2, <2>3, <2>7
    <3>2. QED
      BY <2>1, <2>4, <2>7, <3>1
  <2>8. QED
    BY <2>5, <2>6, <2>7
<1>8. b \in Polynomial
  BY <1>3, Operations
<1> SUFFICES ASSUME NEW e \in Exponent
             PROVE  /\ even(e) => e + g \in Exponent
                    /\ TimesPowerOfX(b, 2 * N - g)[e] =
                            IF even(e) THEN (2 * p[e + g]) % T ELSE 0
  BY <1>7 DEF a, k
<1>9. g <= N /\ g \in Nat /\ N \in Nat \ {0} /\ e + g \in 0 .. 2 * N - 1
  <2>1. g <= N /\ g \in Nat /\ N \in Nat \ {0}
    BY <1>2
  <2> HIDE DEF g
  <2>2. QED
    BY <1>5, <2>1
<1> DEFINE x == (e + 2 * N - (2 * N - g)) % (2 * N)
<1>10. x = e + g
  <2>1. e + 2 * N - (2 * N - g) = e + g
    BY <1>5, <1>9
  <2>2. (e + g) % (2 * N) = e + g
    <3> DEFINE v == e + g
               m == 2 * N
    <3>1. m \in Nat \ {0} /\ v \in 0 .. m - 1
      BY <1>9
    <3> HIDE DEF v, m
    <3>2. v % m = v
      BY <3>1
    <3>3. QED
      BY <3>2 DEF v, m
  <2>3. QED
    BY <2>1, <2>2
<1>11. TimesPowerOfX(b, 2 * N - g)[e] = Signed(b, e + g)
  BY <1>10 DEF TimesPowerOfX
<1> HIDE DEF x, b
<1>12. PICK h \in Nat \ {0} : N = g * (2 * h)
  BY <1>2
<1>13. /\ even(e) <=> \E y \in Int : e = g * (2 * y)
       /\ any(e + g) /\ ~even(e + g) <=> \E y \in Int : e + g = g * (2 * y + 1)
       /\ any((e + g) - N) /\ ~even((e + g) - N) <=> \E y \in Int : (e + g) - N = g * (2 * y + 1)
  <2>1. g \in Nat \ {0} /\ e \in Int /\ e + g \in Int /\ (e + g) - N \in Int
    BY <1>2, <1>5
  <2> HIDE DEF g
  <2>2. \A z \in Int : /\ even(z) <=> \E y \in Int : z = g * (2 * y)
                       /\ any(z) /\ ~even(z) <=> \E y \in Int : z = g * (2 * y + 1)
    BY <2>1, Multiples
  <2> HIDE DEF even, any
  <2>3. QED
    BY <2>1, <2>2
<1>14. CASE even(e)
  <2>1. PICK y \in Int : e = g * (2 * y)
    BY <1>13, <1>14
  <2>2. e + g = g * (2 * y + 1)
    BY <1>2, <2>1
  <2>3. e + g < N
    <3>1. e < g * (2 * h)
      BY <1>5, <1>12
    <3>2. y < h
      <4>1. y >= h => g * (2 * y) >= g * (2 * h)
        BY <1>2
      <4>2. g * (2 * y) \in Int /\ g * (2 * h) \in Int
        BY <1>2
      <4>3. QED
        BY <2>1, <3>1, <4>1, <4>2
    <3>3. 2 * y + 1 < 2 * h
      BY <3>2
    <3>4. g * (2 * y + 1) < g * (2 * h)
      BY <1>2, <3>3
    <3>5. QED
      BY <1>12, <2>2, <3>4
  <2>4. e + g \in Exponent /\ e + g \in 0 .. 2 * N - 1
    BY <1>2, <1>5, <2>3 DEF Exponent
  <2>5. Signed(b, e + g) = b[e + g]
    BY <1>8, <2>3, <2>4, SignedIs
  <2>6. any(e + g) /\ ~even(e + g)
    BY <1>13, <2>2
  <2>7. b[e + g] = (2 * p[e + g]) % T
    BY <1>7, <2>4, <2>6
  <2>8. QED
    BY <1>11, <1>14, <2>4, <2>5, <2>7
<1>15. CASE ~even(e)
  <2>1. e + g \in 0 .. 2 * N - 1
    BY <1>9
  <2>2. \A y \in Int : e # g * (2 * y)
    BY <1>13, <1>15
  <2>3. \A y \in Int : e + g # g * (2 * y + 1)
    <3> SUFFICES ASSUME NEW y \in Int, e + g = g * (2 * y + 1)
                 PROVE  FALSE
      OBVIOUS
    <3>1. e = g * (2 * y)
      BY <1>2, <1>5
    <3>2. QED
      BY <2>2, <3>1
  <2>4. \A y \in Int : (e + g) - N # g * (2 * y + 1)
    <3> SUFFICES ASSUME NEW y \in Int, (e + g) - N = g * (2 * y + 1)
                 PROVE  FALSE
      OBVIOUS
    <3>1. e + g = g * (2 * (y + h) + 1)
      <4>1. e + g = g * (2 * y + 1) + g * (2 * h)
        BY <1>5, <1>9, <1>12
      <4> HIDE DEF g
      <4>2. g * (2 * y + 1) + g * (2 * h) = g * (2 * (y + h) + 1)
        BY <1>9
      <4>3. QED
        BY <4>1, <4>2
    <3>2. y + h \in Int
      OBVIOUS
    <3>3. QED
      BY <2>3, <3>1, <3>2
  <2>5. CASE e + g < N
    <3>1. e + g \in Exponent
      BY <1>2, <1>5, <2>5 DEF Exponent
    <3>2. b[e + g] = 0
      BY <1>7, <1>13, <2>3, <3>1
    <3>3. QED
      BY <1>8, <1>11, <1>15, <2>1, <2>5, <3>2, SignedIs
  <2>6. CASE e + g >= N
    <3>1. (e + g) - N \in Exponent /\ Signed(b, e + g) = (T - b[(e + g) - N]) % T
      <4> DEFINE v == e + g
      <4>1. v \in 0 .. 2 * N - 1 /\ v >= N
        BY <2>1, <2>6
      <4> HIDE DEF v
      <4>2. v - N \in Exponent /\ Signed(b, v) = (T - b[v - N]) % T
        BY <1>8, <4>1, SignedIs
      <4>3. QED
        BY <4>2 DEF v
    <3>2. b[(e + g) - N] = 0
      BY <1>7, <1>13, <2>4, <3>1
    <3>3. (T - 0) % T = 0
      BY <1>2
    <3>4. QED
      BY <1>11, <1>15, <3>1, <3>2, <3>3
  <2>7. QED
    BY <1>2, <1>5, <2>5, <2>6
<1>16. QED
  BY <1>14, <1>15

\* The next multiple is not behind a later one.
LEMMA NextMultiple ==
    ASSUME NEW g \in Nat \ {0}, NEW h \in Int, NEW e \in Int,
           e % g = 0, e < g * h
    PROVE  e + g <= g * h
<1>1. PICK y \in Int : e = g * y
  BY Multiples
<1>2. y < h
  <2> SUFFICES ASSUME y >= h
               PROVE  FALSE
    OBVIOUS
  <2>1. g * y >= g * h
    OBVIOUS
  <2>2. g * y \in Int /\ g * h \in Int
    OBVIOUS
  <2>3. QED
    BY <1>1, <2>1, <2>2
<1>3. y + 1 <= h
  BY <1>2
<1>4. g * (y + 1) <= g * h
  BY <1>3
<1>5. g * (y + 1) = e + g
  BY <1>1
<1>6. QED
  BY <1>4, <1>5

\* The power and the shift of an iteration are such that it makes polynomials
\* of polynomials, and twice as many.
LEMMA ExpandedIs ==
    ASSUME NEW l \in 0 .. CeilLog2(N), NEW i \in Nat, i < l,
           NEW t \in [0 .. Power(2, i) - 1 -> Polynomial]
    PROVE  Expanded(t, i, l) \in [0 .. Power(2, i + 1) - 1 -> Polynomial]
<1> DEFINE n == CeilLog2(N)
           s == n - l + i
           g == Power(2, s)
           k == N \div g + 1
           half == Power(2, i)
           v(j) == IF j < half THEN Plus(ApplyGalois(t[j], k), t[j])
                   ELSE TimesPowerOfX(Minus(t[j - half], ApplyGalois(t[j - half], k)),
                                      2 * N - g)
<1>1. n \in Nat /\ N \in Nat \ {0} /\ Power(2, n) = N /\ T \in Nat /\ T > 1
  BY DegreeIs, InverseIs
<1> HIDE DEF n
<1>2. s \in Nat /\ s < n
  BY <1>1 DEF n
<1>3. g \in Nat /\ g <= N /\ half \in Nat \ {0} /\ Power(2, i + 1) = 2 * half
  <2> HIDE DEF s
  <2>1. g \in Nat /\ half \in Nat \ {0} /\ Power(2, i + 1) = 2 * half
    BY <1>2, PowersOfTwo
  <2>2. g <= N
    BY <1>1, <1>2, PowerOrder
  <2>3. QED
    BY <2>1, <2>2
<1>4. k \in Nat /\ k % 2 = 1
  <2> DEFINE p == [e \in Exponent |-> 0]
  <2>1. p \in Polynomial /\ \A e \in Exponent : p[e] = 0
    BY <1>1 DEF Polynomial
  <2> HIDE DEF p, s
  <2>2. QED
    BY <1>2, <2>1, GaloisSplits DEF n
<1>5. Expanded(t, i, l) = [j \in 0 .. 2 * half - 1 |-> v(j)]
  BY DEF Expanded, n
<1> HIDE DEF s, g, k, half
<1>6. \A p \in Polynomial :
        /\ Plus(ApplyGalois(p, k), p) \in Polynomial
        /\ TimesPowerOfX(Minus(p, ApplyGalois(p, k)), 2 * N - g) \in Polynomial
  <2> SUFFICES ASSUME NEW p \in Polynomial
               PROVE  /\ Plus(ApplyGalois(p, k), p) \in Polynomial
                      /\ TimesPowerOfX(Minus(p, ApplyGalois(p, k)), 2 * N - g) \in Polynomial
    OBVIOUS
  <2>1. ApplyGalois(p, k) \in Polynomial
    BY <1>4, Operations
  <2> DEFINE a == ApplyGalois(p, k)
             d == 2 * N - g
  <2>2. d \in Nat /\ d <= 2 * N
    BY <1>1, <1>3
  <2> HIDE DEF a, d
  <2>3. Plus(a, p) \in Polynomial /\ Minus(p, a) \in Polynomial
    BY <2>1, <2>2, Operations DEF a
  <2>4. TimesPowerOfX(Minus(p, a), d) \in Polynomial
    BY <2>2, <2>3, Operations
  <2>5. QED
    BY <2>3, <2>4 DEF a, d
<1>7. ASSUME NEW j \in 0 .. 2 * half - 1
      PROVE  v(j) \in Polynomial
  <2>1. CASE j < half
    <3>1. t[j] \in Polynomial
      BY <1>3, <2>1 DEF half
    <3>2. QED
      BY <1>6, <2>1, <3>1
  <2>2. CASE ~(j < half)
    <3>1. j - half \in 0 .. half - 1
      BY <1>3, <2>2
    <3>2. t[j - half] \in Polynomial
      BY <3>1 DEF half
    <3>3. QED
      BY <1>6, <2>2, <3>2
  <2>3. QED
    BY <2>1, <2>2
<1>8. QED
  <2> HIDE DEF v
  <2>1. [j \in 0 .. 2 * half - 1 |-> v(j)] \in [0 .. 2 * half - 1 -> Polynomial]
    BY <1>7
  <2>2. QED
    BY <1>3, <1>5, <2>1

\* An iteration splits them once more.
LEMMA ExpandedSplits ==
    ASSUME NEW l \in 0 .. CeilLog2(N), NEW i \in Nat, i < l,
           NEW t \in [0 .. Power(2, i) - 1 -> Polynomial],
           NEW q \in Polynomial, NEW gap, gap = Power(2, CeilLog2(N) - l),
           Splits(t, q, gap, i)
    PROVE  Splits(Expanded(t, i, l), q, gap, i + 1)
<1> DEFINE n == CeilLog2(N)
           s == n - l + i
           g == Power(2, s)
           k == N \div g + 1
           half == Power(2, i)
           r == Expanded(t, i, l)
           v(j) == IF j < half THEN Plus(ApplyGalois(t[j], k), t[j])
                   ELSE TimesPowerOfX(Minus(t[j - half], ApplyGalois(t[j - half], k)),
                                      2 * N - g)
<1>1. n \in Nat /\ N \in Nat \ {0} /\ Power(2, n) = N /\ T \in Nat /\ T > 1
  BY DegreeIs, InverseIs
<1>2. s \in Nat /\ s < n /\ n - l \in Nat /\ s = (n - l) + i
  <2> HIDE DEF n
  <2>1. QED
    BY <1>1 DEF n
<1>3. /\ g \in Nat \ {0} /\ half \in Nat \ {0} /\ gap \in Nat \ {0}
      /\ Power(2, i + 1) = 2 * half /\ g = gap * half
  <2> DEFINE m == n - l
  <2> HIDE DEF m, n
  <2>1. m \in Nat /\ s = m + i /\ s \in Nat /\ gap = Power(2, m)
    BY <1>2 DEF m, n
  <2> HIDE DEF s
  <2>2. g = Power(2, m) * half
    BY <2>1, PowerOfSum
  <2>3. g \in Nat \ {0} /\ half \in Nat \ {0} /\ Power(2, m) \in Nat \ {0}
        /\ Power(2, i + 1) = 2 * half
    BY <2>1, PowersOfTwo
  <2>4. QED
    BY <2>1, <2>2, <2>3
<1>3a. g \in Nat \ {0}
  BY <1>3
<1>4. r = [j \in 0 .. 2 * half - 1 |-> v(j)]
  BY DEF Expanded
<1> DEFINE z(j, e) == t[j][e]
           even(e) == e % (2 * g) = 0
           any(e) == e % g = 0
<1>5. \A j \in 0 .. half - 1, e \in Exponent :
        z(j, e) = IF any(e) THEN (half * q[e + j * gap]) % T ELSE 0
  BY <1>3 DEF Splits
<1>6. \A j \in 0 .. half - 1 : t[j] \in Polynomial
  OBVIOUS
<1>7. \A e \in Exponent : e \in Int /\ 0 <= e /\ e < N
  BY <1>1 DEF Exponent
<1>8. ASSUME NEW j \in 0 .. half - 1, NEW e \in Exponent
      PROVE  /\ Plus(ApplyGalois(t[j], k), t[j])[e] =
                    IF even(e) THEN (2 * z(j, e)) % T ELSE 0
             /\ even(e) => e + g \in Exponent
             /\ TimesPowerOfX(Minus(t[j], ApplyGalois(t[j], k)), 2 * N - g)[e] =
                    IF even(e) THEN (2 * z(j, e + g)) % T ELSE 0
  <2> DEFINE p == t[j]
  <2>1. p \in Polynomial
    BY <1>6
  <2>2. \A x \in Exponent : ~any(x) => p[x] = 0
    BY <1>5
  <2> HIDE DEF p, s
  <2>3. \A x \in Exponent : x % Power(2, s) # 0 => p[x] = 0
    BY <2>2
  <2>4. /\ Plus(ApplyGalois(p, N \div Power(2, s) + 1), p)[e] =
                IF e % (2 * Power(2, s)) = 0 THEN (2 * p[e]) % T ELSE 0
        /\ e % (2 * Power(2, s)) = 0 => e + Power(2, s) \in Exponent
        /\ TimesPowerOfX(Minus(p, ApplyGalois(p, N \div Power(2, s) + 1)),
                         2 * N - Power(2, s))[e] =
                IF e % (2 * Power(2, s)) = 0 THEN (2 * p[e + Power(2, s)]) % T ELSE 0
    BY <1>2, <2>1, <2>3, OneStep
  <2>5. QED
    BY <2>4 DEF p
<1> HIDE DEF g, k, half, n, s, z, v, r
<1>9. ASSUME NEW e \in Exponent, even(e)
      PROVE  any(e) /\ any(e + g)
  <2>1. PICK y \in Int : e = g * (2 * y)
    <3>1. even(e) <=> \E y \in Int : e = g * (2 * y)
      BY <1>3a, <1>7, Multiples
    <3>2. QED
      BY <1>9, <3>1
  <2>2. e + g = g * (2 * y + 1)
    BY <1>3, <2>1
  <2> DEFINE w == e + g
  <2>3. w \in Int /\ e \in Int
    BY <1>3, <1>7
  <2> HIDE DEF w
  <2>4. /\ any(e) <=> \E x \in Int : e = g * x
        /\ any(w) <=> \E x \in Int : w = g * x
    BY <1>3a, <2>3, Multiples, ZenonT(40)
  <2>5. 2 * y \in Int /\ 2 * y + 1 \in Int
    OBVIOUS
  <2>6. /\ \E x \in Int : e = g * x
        /\ \E x \in Int : w = g * x
    BY <2>1, <2>2, <2>5, Zenon DEF w
  <2>7. any(e) /\ any(w)
    BY <2>4, <2>6, Zenon
  <2>8. QED
    BY <2>7 DEF w
<1>10. ASSUME NEW x \in Nat
       PROVE  (2 * ((half * x) % T)) % T = ((2 * half) * x) % T
  <2> DEFINE a == half * x
  <2>1. a \in Int
    BY <1>3
  <2>2. ((2 * half) * x) = a * 2
    BY <1>3
  <2> HIDE DEF a
  <2>3. ((a % T) * 2) % T = (a * 2) % T
    BY <2>1, ModOfMultiple
  <2>4. (a % T) * 2 = 2 * (a % T)
    <3>1. a % T \in Int
      BY <2>1, ModIs
    <3>2. QED
      BY <3>1
  <2>5. QED
    BY <2>2, <2>3, <2>4 DEF a
<1> SUFFICES ASSUME NEW j \in 0 .. 2 * half - 1, NEW e \in Exponent
             PROVE  v(j)[e] = IF even(e) THEN ((2 * half) * q[e + j * gap]) % T ELSE 0
  <2>1. DOMAIN r = 0 .. 2 * half - 1 /\ \A j \in 0 .. 2 * half - 1 : r[j] = v(j)
    BY <1>4
  <2>2. gap * Power(2, i + 1) = 2 * g
    BY <1>3
  <2>3. Splits(r, q, gap, i + 1) <=>
            \A j \in 0 .. 2 * half - 1, e \in Exponent :
                v(j)[e] = IF even(e) THEN ((2 * half) * q[e + j * gap]) % T ELSE 0
    <3>1. Splits(r, q, gap, i + 1) <=>
            \A j \in 0 .. 2 * half - 1, e \in Exponent :
                r[j][e] = IF even(e) THEN ((2 * half) * q[e + j * gap]) % T ELSE 0
      <4> DEFINE pow == Power(2, i + 1)
      <4>1. Splits(r, q, gap, i + 1) <=>
                \A j \in DOMAIN r, e \in Exponent :
                    r[j][e] = IF e % (gap * pow) = 0
                              THEN (pow * q[e + j * gap]) % T ELSE 0
        BY Zenon DEF Splits
      <4>2. pow = 2 * half /\ gap * pow = 2 * g
        BY <1>3, <2>2
      <4> HIDE DEF pow
      <4>3. QED
        BY <2>1, <4>1, <4>2, Zenon
    <3>2. QED
      BY <2>1, <3>1, ZenonT(40)
  <2>4. QED
    BY <2>3 DEF r
<1>11. j \in Int /\ e \in Int
  BY <1>7
<1>10a. even(e) => e + j * gap \in Exponent
  <2> SUFFICES ASSUME even(e)
               PROVE  e + j * gap \in Exponent
    OBVIOUS
  <2> DEFINE d == n - s - 1
             h == Power(2, d)
             i1 == s + 1
             g2 == 2 * g
  <2>1. d \in Nat /\ i1 \in Nat /\ s \in Nat /\ n = i1 + d
    BY <1>1, <1>2
  <2>2. Power(2, i1) = g2
    BY <2>1, PowersOfTwo DEF g
  <2> HIDE DEF d, i1
  <2>3. N = g2 * h /\ h \in Nat
    <3>1. Power(2, i1 + d) = Power(2, i1) * Power(2, d)
      BY <2>1, PowerOfSum
    <3>2. Power(2, d) \in Nat
      BY <2>1, PowersOfTwo
    <3> HIDE DEF g2
    <3>3. QED
      BY <1>1, <2>1, <2>2, <3>1, <3>2
  <2>4. g2 \in Nat \ {0} /\ e \in Int /\ e % g2 = 0 /\ e < g2 * h
    BY <1>3a, <1>7, <2>3
  <2> HIDE DEF g2, h
  <2>5. e + g2 <= g2 * h
    <3>1. h \in Int
      BY <2>3
    <3>2. QED
      BY <2>4, <3>1, NextMultiple
  <2>6. j * gap < (2 * half) * gap /\ j * gap \in Nat
    BY <1>3, SMTT(30)
  <2>7. (2 * half) * gap = g2
    BY <1>3 DEF g2
  <2> DEFINE x == j * gap
  <2>8. x \in Nat /\ x < g2
    BY <2>6, <2>7
  <2> HIDE DEF x
  <2>9. e + x \in 0 .. N - 1
    BY <1>1, <1>7, <2>3, <2>4, <2>5, <2>8
  <2>10. QED
    BY <2>9 DEF x, Exponent
<1>12. CASE j < half
  <2>1. j \in 0 .. half - 1 /\ v(j) = Plus(ApplyGalois(t[j], k), t[j])
    BY <1>3, <1>12 DEF v
  <2>2. v(j)[e] = IF even(e) THEN (2 * z(j, e)) % T ELSE 0
    BY <1>8, <2>1
  <2>3. CASE even(e)
    <3>1. any(e)
      BY <1>9, <2>3
    <3> DEFINE x == q[e + j * gap]
    <3>2. z(j, e) = (half * x) % T
      BY <1>5, <2>1, <3>1
    <3>3. x \in Nat
      <4>1. e + j * gap \in Exponent
        BY <1>10a, <2>3
      <4>2. QED
        BY <4>1 DEF Polynomial
    <3> HIDE DEF x
    <3>4. (2 * z(j, e)) % T = ((2 * half) * x) % T
      BY <1>10, <3>2, <3>3
    <3>5. QED
      BY <2>2, <2>3, <3>4 DEF x
  <2>4. QED
    BY <2>2, <2>3
<1>13. CASE ~(j < half)
  <2> DEFINE m == j - half
  <2>1. m \in 0 .. half - 1 /\ j = m + half
    BY <1>3, <1>13
  <2>2. v(j) = TimesPowerOfX(Minus(t[m], ApplyGalois(t[m], k)), 2 * N - g)
    BY <1>13 DEF v
  <2> HIDE DEF m
  <2>3. v(j)[e] = (IF even(e) THEN (2 * z(m, e + g)) % T ELSE 0)
        /\ (even(e) => e + g \in Exponent)
    BY <1>8, <2>1, <2>2
  <2>4. CASE even(e)
    <3>1. any(e + g) /\ e + g \in Exponent
      BY <1>9, <2>3, <2>4
    <3>2. (e + g) + m * gap = e + j * gap
      <4> DEFINE a == m * gap
                 b == half * gap
      <4>1. j * gap = a + b /\ a \in Int /\ b = g
        BY <1>3, <2>1
      <4>2. g \in Int /\ e \in Int
        BY <1>3, <1>11
      <4> HIDE DEF a, b
      <4>3. (e + g) + a = e + (a + b)
        BY <4>1, <4>2
      <4>4. QED
        BY <4>1, <4>3 DEF a
    <3> DEFINE x == q[e + j * gap]
               w == e + g
    <3>3. z(m, w) = (half * q[w + m * gap]) % T
      <4> HIDE DEF w
      <4>1. QED
        BY <1>5, <2>1, <3>1 DEF w
    <3>4. z(m, w) = (half * x) % T
      BY <3>2, <3>3
    <3>5. x \in Nat
      <4>1. e + j * gap \in Exponent
        BY <1>10a, <2>4
      <4>2. QED
        BY <4>1 DEF Polynomial
    <3> HIDE DEF x
    <3>6. (2 * z(m, w)) % T = ((2 * half) * x) % T
      BY <1>10, <3>4, <3>5
    <3>7. QED
      BY <2>3, <2>4, <3>6 DEF x
  <2>5. QED
    BY <2>3, <2>4
<1>14. QED
  BY <1>11, <1>12, <1>13

-----------------------------------------------------------------------------
(***************************************************************************)
(* What the client packs, and the bits the server finds in it.               *)
(***************************************************************************)

\* The slot of row p of the bit at j is that of no other row or bit.
LEMMA SlotIs ==
    ASSUME NEW size \in Nat \ {0}, NEW rows \in Nat \ {0}, size * rows <= N,
           NEW j \in 0 .. size - 1, NEW p \in 0 .. rows - 1
    PROVE  /\ j + p * size \in 0 .. size * rows - 1
           /\ j + p * size \in 0 .. Power(2, CeilLog2(size * rows)) - 1
           /\ (j + p * size) * Gap(size * rows) \in Exponent
           /\ ((j + p * size) * Gap(size * rows)) % Gap(size * rows) = 0
           /\ \A i \in 0 .. size - 1, q \in 0 .. rows - 1 :
                (i + q * size) * Gap(size * rows) = (j + p * size) * Gap(size * rows)
                    => i = j /\ q = p
<1> DEFINE slots == size * rows
           gap == Gap(slots)
           h == Power(2, CeilLog2(slots))
           x == j + p * size
<1>1. slots \in Nat \ {0} /\ slots <= N /\ N \in Nat \ {0}
  BY DegreeIs
<1> HIDE DEF slots
<1>2. gap \in Nat \ {0} /\ h \in Nat \ {0} /\ h >= slots /\ gap * h = N
  BY <1>1, GapIs
<1> HIDE DEF gap, h
<1>3. x \in Nat /\ x < slots
  <2>1. (p + 1) * size <= rows * size
    OBVIOUS
  <2>2. (p + 1) * size = p * size + size /\ rows * size = slots /\ p * size \in Nat
    BY DEF slots
  <2> DEFINE y == p * size
  <2> HIDE DEF y
  <2>3. QED
    BY <1>1, <2>1, <2>2 DEF y
<1>4. x * gap \in Nat /\ x * gap < N
  <2> HIDE DEF x
  <2>1. x * gap < h * gap
    BY <1>1, <1>2, <1>3
  <2>2. QED
    BY <1>2, <1>3, <2>1
<1>5. (x * gap) % gap = 0
  <2>1. (gap * x + 0) % gap = 0
    <3> HIDE DEF x
    <3>1. QED
      BY <1>2, <1>3, DivModIs
  <2>2. gap * x + 0 = x * gap
    BY <1>2, <1>3
  <2>3. QED
    BY <2>1, <2>2
<1>6. ASSUME NEW i \in 0 .. size - 1, NEW q \in 0 .. rows - 1,
             (i + q * size) * gap = x * gap
      PROVE  i = j /\ q = p
  <2> DEFINE y == i + q * size
  <2>1. y \in Nat /\ y * gap = x * gap
    BY <1>6
  <2> HIDE DEF x, y
  <2>2. y = x
    BY <1>2, <1>3, <2>1
  <2>3. (size * q + i) \div size = q /\ (size * q + i) % size = i
    BY DivModIs
  <2>4. (size * p + j) \div size = p /\ (size * p + j) % size = j
    BY DivModIs
  <2>5. size * q + i = size * p + j
    BY <2>2 DEF x, y
  <2>6. QED
    BY <2>3, <2>4, <2>5
<1>7. QED
  BY <1>1, <1>2, <1>3, <1>4, <1>5, <1>6 DEF Exponent, gap, slots, h

\* The coefficient of a slot is the factor of the row when the bit is set.
LEMMA PackedAt ==
    ASSUME NEW size \in Nat \ {0}, NEW rows \in Nat \ {0}, size * rows <= N,
           NEW bits \in SUBSET (0 .. size - 1), NEW scale \in 1 .. N,
           NEW j \in 0 .. size - 1, NEW p \in 0 .. rows - 1
    PROVE  Packed(Marks(bits, size, rows), rows, scale)
                 [(j + p * size) * Gap(size * rows)] =
           IF j \in bits THEN (Gadget(rows, p) * InverseMod(scale)) % T ELSE 0
<1> DEFINE gap == Gap(size * rows)
           marks == Marks(bits, size, rows)
           f == Packed(marks, rows, scale)
           at(i, q) == (i + q * size) * gap
           e == at(j, p)
           m == CHOOSE m \in marks : m[1] = e
<1>1. scale % T = scale
  <2>1. T \in Nat /\ T > N /\ N \in Nat
    BY InverseIs, DegreeIs
  <2>2. QED
    BY <2>1
<1>2. marks = {<<at(i, q), q>> : i \in bits, q \in 0 .. rows - 1}
  BY DEF Marks
<1>3. /\ e \in Exponent
      /\ \A i \in 0 .. size - 1, q \in 0 .. rows - 1 :
              at(i, q) = e => i = j /\ q = p
  BY SlotIs
<1>4. e = at(j, p)
  OBVIOUS
<1> HIDE DEF marks, at, gap, e
<1>5. (~ \E y \in marks : y[1] = e) => f[e] = 0
  BY <1>3 DEF Packed
<1>6. (\E y \in marks : y[1] = e) =>
        f[e] = (Gadget(rows, m[2]) * InverseMod(scale % T)) % T
  BY <1>3 DEF Packed
<1>7. CASE j \in bits
  <2>1. <<e, p>> \in marks
    BY <1>2, <1>4, <1>7
  <2>2. \E y \in marks : y[1] = e
    BY <2>1
  <2>3. m \in marks /\ m[1] = e
    BY <2>2
  <2>4. f[e] = (Gadget(rows, m[2]) * InverseMod(scale)) % T
    BY <1>1, <1>6, <2>2
  <2> HIDE DEF m
  <2>5. PICK i \in bits, q \in 0 .. rows - 1 : m = <<at(i, q), q>>
    BY <1>2, <2>3
  <2>6. at(i, q) = e /\ m[2] = q
    BY <2>3, <2>5
  <2>7. q = p
    BY <1>3, <2>5, <2>6
  <2>8. QED
    BY <1>7, <2>4, <2>6, <2>7 DEF f, marks, e, at, gap
<1>8. CASE j \notin bits
  <2>1. ASSUME NEW y \in marks, y[1] = e
        PROVE  FALSE
    <3>1. PICK i \in bits, q \in 0 .. rows - 1 : y = <<at(i, q), q>>
      BY <1>2, <2>1
    <3>2. at(i, q) = e
      BY <2>1, <3>1
    <3>3. i = j
      BY <1>3, <3>1, <3>2
    <3>4. QED
      BY <1>8, <3>1, <3>3
  <2>2. f[e] = 0
    BY <1>5, <2>1
  <2>3. QED
    BY <1>8, <2>2 DEF f, marks, e, at, gap
<1>9. QED
  BY <1>7, <1>8

\* Between the slots there is nothing.
LEMMA PackedBetween ==
    ASSUME NEW size \in Nat \ {0}, NEW rows \in Nat \ {0}, size * rows <= N,
           NEW bits \in SUBSET (0 .. size - 1), NEW scale,
           NEW e \in Exponent, e % Gap(size * rows) # 0
    PROVE  Packed(Marks(bits, size, rows), rows, scale)[e] = 0
<1> DEFINE gap == Gap(size * rows)
           at(i, q) == (i + q * size) * gap
<1>1. Marks(bits, size, rows) = {<<at(i, q), q>> : i \in bits, q \in 0 .. rows - 1}
  BY DEF Marks
<1>2. ASSUME NEW i \in 0 .. size - 1, NEW q \in 0 .. rows - 1
      PROVE  at(i, q) % gap = 0
  BY SlotIs
<1> HIDE DEF at, gap
<1>3. ASSUME NEW y \in Marks(bits, size, rows), y[1] = e
      PROVE  FALSE
  <2>1. PICK i \in bits, q \in 0 .. rows - 1 : y = <<at(i, q), q>>
    BY <1>1, <1>3
  <2>2. at(i, q) % gap = 0
    BY <1>2, <2>1
  <2>3. QED
    BY <1>3, <2>1, <2>2 DEF gap
<1>4. QED
  BY <1>3 DEF Packed

\* At the start of an expansion there is one polynomial, the client's.
LEMMA StartSplits ==
    ASSUME NEW size \in Nat \ {0}, NEW rows \in Nat \ {0}, size * rows <= N,
           NEW bits \in SUBSET (0 .. size - 1), NEW scale \in 1 .. N
    PROVE  Splits([j \in {0} |-> Packed(Marks(bits, size, rows), rows, scale)],
                  Packed(Marks(bits, size, rows), rows, scale), Gap(size * rows), 0)
<1> DEFINE f == Packed(Marks(bits, size, rows), rows, scale)
           gap == Gap(size * rows)
           t == [j \in {0} |-> f]
<1>1. f \in Polynomial
  BY PackedIs
<1>2. \A e \in Exponent : e % gap # 0 => f[e] = 0
  BY PackedBetween
<1>3. gap \in Nat \ {0}
  BY GapIs
<1>4. Power(2, 0) = 1 /\ T \in Nat /\ T > 1 /\ N \in Nat
  BY PowersOfTwo, InverseIs, DegreeIs
<1> HIDE DEF f, gap
<1>5. ASSUME NEW e \in Exponent
      PROVE  f[e] = IF e % (gap * 1) = 0 THEN (1 * f[e + 0 * gap]) % T ELSE 0
  <2>1. f[e] \in 0 .. T - 1 /\ e \in Int
    BY <1>1, <1>4 DEF Polynomial, Exponent
  <2>2. e + 0 * gap = e /\ gap * 1 = gap
    BY <1>3, <2>1
  <2>3. (1 * f[e]) % T = f[e]
    BY <1>4, <2>1
  <2>4. QED
    BY <1>2, <2>2, <2>3
<1>6. Splits(t, f, gap, 0)
  BY <1>4, <1>5 DEF Splits
<1>7. QED
  BY <1>6 DEF f, gap

\* The coefficient that an expansion leaves of a slot is the factor of its row.
LEMMA ScaledBack ==
    ASSUME NEW scale \in 1 .. N, NEW g \in 0 .. T - 1
    PROVE  (scale * ((g * InverseMod(scale)) % T)) % T = g
<1> DEFINE v == InverseMod(scale)
<1>1. T \in Nat /\ T > 1 /\ N \in Nat /\ T > N
  BY InverseIs, DegreeIs
<1>2. scale \in 1 .. T - 1 /\ scale \in Int /\ g \in Int
  BY <1>1
<1>3. v \in Int /\ (scale * v) % T = 1
  BY <1>2, InverseIs
<1> HIDE DEF v
<1>4. g * v \in Int /\ scale * v \in Int
  BY <1>2, <1>3
<1>5. (((g * v) % T) * scale) % T = ((g * v) * scale) % T
  BY <1>2, <1>4, ModOfMultiple
<1>6. (g * v) * scale = (scale * v) * g
  BY <1>2, <1>3
<1>7. (((scale * v) % T) * g) % T = ((scale * v) * g) % T
  BY <1>2, <1>4, ModOfMultiple
<1>8. (1 * g) % T = g
  BY <1>1
<1>9. (g * v) % T \in Int
  BY <1>1, <1>4
<1>10. scale * ((g * v) % T) = ((g * v) % T) * scale
  BY <1>2, <1>9
<1>11. QED
  BY <1>3, <1>5, <1>6, <1>7, <1>8, <1>10 DEF v

\* At the end of an expansion the server finds the bits that the client packed.
LEMMA BitsAre ==
    ASSUME NEW size \in Nat \ {0}, NEW rows \in Nat \ {0}, size * rows <= N,
           NEW bits \in SUBSET (0 .. size - 1),
           NEW scale, scale = Power(2, CeilLog2(size * rows)),
           temp \in [0 .. scale - 1 -> Polynomial],
           Splits(temp, Packed(Marks(bits, size, rows), rows, scale),
                  Gap(size * rows), CeilLog2(size * rows))
    PROVE  \A j \in 0 .. size - 1 :
                BitAt(j, size, rows) = IF j \in bits THEN "on" ELSE "off"
<1> DEFINE slots == size * rows
           gap == Gap(slots)
           f == Packed(Marks(bits, size, rows), rows, scale)
<1>0. ASSUME NEW c \in 1 .. N, NEW j \in 0 .. size - 1, NEW p \in 0 .. rows - 1
      PROVE  Packed(Marks(bits, size, rows), rows, c)[(j + p * size) * gap] =
             IF j \in bits THEN (Gadget(rows, p) * InverseMod(c)) % T ELSE 0
  BY PackedAt
<1>1. slots \in Nat /\ slots <= N /\ N \in Nat \ {0} /\ T \in Nat /\ T > 1
  BY DegreeIs, InverseIs
<1>2. gap \in Nat \ {0} /\ scale \in 1 .. N /\ gap * scale = N
  <2> HIDE DEF slots
  <2>1. /\ Gap(slots) \in Nat \ {0}
        /\ Power(2, CeilLog2(slots)) \in Nat \ {0}
        /\ Power(2, CeilLog2(slots)) <= N
        /\ Gap(slots) * Power(2, CeilLog2(slots)) = N
    BY <1>1, GapIs
  <2>2. QED
    BY <1>1, <2>1 DEF slots
<1>3. \A x \in 0 .. scale - 1, e \in Exponent :
        temp[x][e] = IF e % N = 0 THEN (scale * f[e + x * gap]) % T ELSE 0
  <2> HIDE DEF f, gap
  <2>1. Splits(temp, f, gap, CeilLog2(slots)) /\ scale = Power(2, CeilLog2(slots))
    BY DEF f, gap
  <2>2. DOMAIN temp = 0 .. scale - 1
    OBVIOUS
  <2>3. QED
    BY <1>2, <2>1, <2>2 DEF Splits
<1>4. ASSUME NEW x \in 0 .. scale - 1
      PROVE  temp[x] = [e \in Exponent |-> IF e = 0 THEN (scale * f[x * gap]) % T ELSE 0]
  <2> HIDE DEF f, gap
  <2>1. temp[x] \in Polynomial
    OBVIOUS
  <2>2. ASSUME NEW e \in Exponent
        PROVE  temp[x][e] = IF e = 0 THEN (scale * f[x * gap]) % T ELSE 0
    <3>1. e \in 0 .. N - 1 /\ (e % N = 0 <=> e = 0)
      BY <1>1 DEF Exponent
    <3>2. e = 0 => e + x * gap = x * gap
      BY <1>2, <3>1
    <3>3. QED
      BY <1>3, <3>1, <3>2
  <2>3. QED
    BY <2>1, <2>2 DEF Polynomial
<1>5. ASSUME NEW j \in 0 .. size - 1, NEW p \in 0 .. rows - 1
      PROVE  /\ j \in bits => temp[j + p * size] = Const(Gadget(rows, p))
             /\ j \notin bits => temp[j + p * size] = Const(0)
  <2> DEFINE x == j + p * size
  <2>1. x \in 0 .. scale - 1
    BY SlotIs
  <2>2. f[x * gap] = IF j \in bits THEN (Gadget(rows, p) * InverseMod(scale)) % T ELSE 0
    <3> HIDE DEF gap
    <3>1. QED
      BY <1>0, <1>2
  <2> HIDE DEF f, gap, x
  <2>3. Gadget(rows, p) \in 0 .. T - 1
    BY GadgetIs
  <2>4. CASE j \in bits
    <3>1. (scale * f[x * gap]) % T = Gadget(rows, p)
      BY <1>2, <2>2, <2>3, <2>4, ScaledBack
    <3>2. Gadget(rows, p) % T = Gadget(rows, p)
      BY <1>1, <2>3
    <3>3. QED
      BY <1>4, <2>1, <2>4, <3>1, <3>2 DEF Const, x
  <2>5. CASE j \notin bits
    <3>1. (scale * f[x * gap]) % T = 0
      BY <1>1, <1>2, <2>2, <2>5
    <3>2. 0 % T = 0
      BY <1>1
    <3>3. QED
      BY <1>4, <2>1, <2>5, <3>1, <3>2 DEF Const, x
  <2>6. QED
    BY <2>4, <2>5
<1> HIDE DEF f, gap, slots
<1>6. ASSUME NEW j \in 0 .. size - 1
      PROVE  BitAt(j, size, rows) = IF j \in bits THEN "on" ELSE "off"
  <2>1. CASE j \in bits
    BY <1>5, <2>1 DEF BitAt
  <2>2. CASE j \notin bits
    <3>1. rows - 1 \in 0 .. rows - 1 /\ Gadget(rows, rows - 1) = 1
      BY GadgetIs
    <3>2. Const(1) # Const(0)
      <4>1. 0 \in Exponent /\ 1 % T = 1 /\ 0 % T = 0
        BY <1>1 DEF Exponent
      <4>2. Const(1)[0] = 1 /\ Const(0)[0] = 0
        BY <4>1 DEF Const
      <4>3. QED
        BY <4>2
    <3>3. temp[j + (rows - 1) * size] # Const(Gadget(rows, rows - 1))
      BY <1>5, <2>2, <3>1, <3>2
    <3>4. \A p \in 0 .. rows - 1 : temp[j + p * size] = Const(0)
      BY <1>5, <2>2
    <3>5. ~ \A p \in 0 .. rows - 1 : temp[j + p * size] = Const(Gadget(rows, p))
      BY <3>1, <3>3
    <3>6. QED
      BY <2>2, <3>4, <3>5 DEF BitAt
  <2>3. QED
    BY <2>1, <2>2
<1>7. QED
  BY <1>6

\* The expansion of the first dimension multiplies with 2 * nvec[1], as the
\* client assumes, because FIRST_DIM is a power of two.
LEMMA FirstScale ==
    Power(2, CeilLog2(FirstDim * PlainSize)) = 2 * FirstDim
<1> DEFINE n == 2 * FirstDim
           k == CeilLog2(FirstDim) + 1
           c == CeilLog2(n)
<1>1. FirstDim \in Nat \ {0} /\ CeilLog2(FirstDim) \in Nat
  BY DimAssumption, CeilLog2Is
<1>2. k \in Nat /\ n \in Nat /\ Power(2, k) = n
  BY <1>1, FirstDimAssumption, PowersOfTwo
<1> HIDE DEF n, k
<1>3. c \in Nat /\ Power(2, c) >= n /\ (c = 0 \/ Power(2, c - 1) < n)
  BY <1>2, CeilLog2Is
<1> HIDE DEF c
<1>4. ASSUME c < k
      PROVE  FALSE
  <2>1. Power(2, c + 1) <= Power(2, k)
    BY <1>2, <1>3, <1>4, PowerOrder
  <2>2. Power(2, c + 1) = 2 * Power(2, c) /\ Power(2, c) \in Nat \ {0}
    BY <1>3, PowersOfTwo
  <2>3. QED
    BY <1>2, <1>3, <2>1, <2>2
<1>5. ASSUME c > k
      PROVE  FALSE
  <2>1. c - 1 \in Nat /\ k <= c - 1 /\ Power(2, c - 1) \in Nat
    BY <1>2, <1>3, <1>5, PowersOfTwo
  <2>2. Power(2, k) <= Power(2, c - 1)
    BY <1>2, <2>1, PowerOrder
  <2>3. QED
    BY <1>2, <1>3, <1>5, <2>1, <2>2
<1>6. c = k
  BY <1>2, <1>3, <1>4, <1>5
<1>7. FirstDim * PlainSize = n
  BY <1>1 DEF n, PlainSize
<1>8. QED
  BY <1>2, <1>6, <1>7 DEF c, n

\* The bits of the dimensions after the first lie one behind the other, those
\* of each dimension in a range of its own.
LEMMA RestIndicesAre ==
    ASSUME NEW nvec \in Seq(Nat \ {0}), NEW indices,
           \A i \in 1 .. Len(nvec) : indices[i] \in 0 .. nvec[i] - 1
    PROVE  /\ RestIndices(nvec, indices) \subseteq 0 .. RestSize(nvec) - 1
           /\ \A d \in 2 .. Len(nvec) :
                \A j \in 0 .. nvec[d] - 1 :
                    /\ j + Sum(nvec, 2, d - 1) \in 0 .. RestSize(nvec) - 1
                    /\ j + Sum(nvec, 2, d - 1) \in RestIndices(nvec, indices)
                            <=> j = indices[d]
           /\ \A d, k \in 2 .. Len(nvec) :
                indices[d] + Sum(nvec, 2, d - 1) = indices[k] + Sum(nvec, 2, k - 1)
                    => d = k
<1> DEFINE n == Len(nvec)
           before(d) == Sum(nvec, 2, d - 1)
           size == RestSize(nvec)
<1>1. /\ nvec \in Seq(Nat) /\ n \in Nat
      /\ \A i \in 1 .. n : nvec[i] \in Nat \ {0}
  BY LenProperties, ElementOfSeq, SeqDef
<1>2. ASSUME NEW d \in 2 .. n
      PROVE  /\ before(d) \in Nat /\ before(d) + nvec[d] <= size /\ size \in Nat
             /\ \A k \in d + 1 .. n : before(d) + nvec[d] <= before(k)
  <2>1. d - 1 \in 0 .. n /\ d \in 0 .. n /\ n \in 0 .. n /\ n \in d .. n
    BY <1>1
  <2>2. Sum(nvec, 2, d - 1) \in Nat /\ Sum(nvec, 2, n) \in Nat
    <3>1. 2 \in Nat \ {0}
      OBVIOUS
    <3>2. nvec \in Seq(Nat) /\ n \in 0 .. n /\ d - 1 \in 0 .. n
      BY <1>1, <2>1
    <3>3. QED
      BY <3>1, <3>2, SumIs
  <2>3. Sum(nvec, 2, d) = Sum(nvec, 2, d - 1) + nvec[d]
    BY <1>1, <2>1, SumIs
  <2>4. Sum(nvec, 2, d) <= Sum(nvec, 2, n)
    BY <1>1, <2>1, SumGrows
  <2>5. ASSUME NEW k \in d + 1 .. n
        PROVE  Sum(nvec, 2, d) <= Sum(nvec, 2, k - 1)
    <3>1. k - 1 \in d .. n
      BY <1>1
    <3>2. QED
      BY <1>1, <2>1, <3>1, SumGrows
  <2>6. QED
    BY <2>2, <2>3, <2>4, <2>5 DEF RestSize
<1> HIDE DEF n, before, size
<1>3. \A d \in 2 .. n : nvec[d] \in Nat /\ indices[d] \in 0 .. nvec[d] - 1
  <2>1. \A d \in 2 .. n : d \in 1 .. n
    BY <1>1
  <2>2. QED
    BY <1>1, <2>1 DEF n
<1>4. ASSUME NEW d \in 2 .. n, NEW k \in 2 .. n,
             NEW a \in 0 .. nvec[d] - 1, NEW b \in 0 .. nvec[k] - 1,
             a + before(d) = b + before(k)
      PROVE  d = k /\ a = b
  <2>1. /\ before(d) \in Nat /\ before(k) \in Nat
        /\ nvec[d] \in Nat /\ nvec[k] \in Nat /\ d \in Int /\ k \in Int
    BY <1>1, <1>2, <1>3
  <2>2. ASSUME d < k PROVE FALSE
    <3>1. k \in d + 1 .. n
      BY <1>1, <2>1, <2>2
    <3>2. before(d) + nvec[d] <= before(k)
      BY <1>2, <3>1
    <3>3. QED
      BY <1>4, <2>1, <3>2
  <2>3. ASSUME k < d PROVE FALSE
    <3>1. d \in k + 1 .. n
      BY <1>1, <2>1, <2>3
    <3>2. before(k) + nvec[k] <= before(d)
      BY <1>2, <3>1
    <3>3. QED
      BY <1>4, <2>1, <3>2
  <2>4. d = k
    BY <2>1, <2>2, <2>3
  <2>5. QED
    BY <1>4, <2>1, <2>4
<1>5. RestIndices(nvec, indices) = {indices[i] + before(i) : i \in 2 .. n}
  BY DEF RestIndices, before, n
<1>6. ASSUME NEW d \in 2 .. n, NEW j \in 0 .. nvec[d] - 1
      PROVE  /\ j + before(d) \in 0 .. size - 1
             /\ j + before(d) \in RestIndices(nvec, indices) <=> j = indices[d]
  <2>1. j + before(d) \in 0 .. size - 1
    BY <1>2, <1>3
  <2>2. ASSUME j + before(d) \in RestIndices(nvec, indices)
        PROVE  j = indices[d]
    <3>1. PICK i \in 2 .. n : j + before(d) = indices[i] + before(i)
      BY <1>5, <2>2
    <3>2. indices[i] \in 0 .. nvec[i] - 1
      BY <1>3
    <3>3. d = i /\ j = indices[i]
      BY <1>4, <3>1, <3>2
    <3>4. QED
      BY <3>3
  <2>3. ASSUME j = indices[d]
        PROVE  j + before(d) \in RestIndices(nvec, indices)
    BY <1>5, <2>3
  <2>4. QED
    BY <2>1, <2>2, <2>3
<1>7. RestIndices(nvec, indices) \subseteq 0 .. size - 1
  BY <1>3, <1>5, <1>6
<1>8. \A d, k \in 2 .. n : indices[d] + before(d) = indices[k] + before(k) => d = k
  BY <1>3, <1>4
<1>9. QED
  BY <1>6, <1>7, <1>8 DEF n, before, size

-----------------------------------------------------------------------------
(***************************************************************************)
(* The client writes inside its polynomials, every bit to its own place.     *)
(***************************************************************************)

\* A function that keeps values apart has as many values as arguments.
LEMMA ValuesOf ==
    ASSUME NEW S, IsFiniteSet(S), NEW V, NEW f \in [S -> V],
           \A x, y \in S : f[x] = f[y] => x = y,
           \A v \in V : \E x \in S : v = f[x]
    PROVE  IsFiniteSet(V) /\ Cardinality(V) = Cardinality(S)
<1>1. f \in Injection(S, V) /\ f \in Surjection(S, V)
  <2>1. f \in Injection(S, V)
    BY DEF Injection, IsInjective
  <2>2. \A v \in V : \E x \in S : f[x] = v
    OBVIOUS
  <2>3. f \in Surjection(S, V)
    BY <2>2, Zenon DEF Surjection
  <2>4. QED
    BY <2>1, <2>3
<1>2. QED
  BY <1>1, FS_Surjection

\* Marks are inside the polynomial, one for every bit and row.
LEMMA MarksFit ==
    ASSUME NEW size \in Nat \ {0}, NEW rows \in Nat \ {0}, size * rows <= N,
           NEW bits \in SUBSET (0 .. size - 1), IsFiniteSet(bits)
    PROVE  /\ \A m \in Marks(bits, size, rows) : m[1] \in Exponent
           /\ Cardinality({m[1] : m \in Marks(bits, size, rows)})
                = Cardinality(bits) * rows
<1> DEFINE gap == Gap(size * rows)
           at(i, q) == (i + q * size) * gap
           marks == Marks(bits, size, rows)
           S == bits \X (0 .. rows - 1)
           V == {m[1] : m \in marks}
           f == [x \in S |-> at(x[1], x[2])]
<1>1. \A i \in 0 .. size - 1, q \in 0 .. rows - 1 : at(i, q) \in Exponent
  BY SlotIs
<1>2. ASSUME NEW i \in 0 .. size - 1, NEW q \in 0 .. rows - 1
      PROVE  \A j \in 0 .. size - 1, p \in 0 .. rows - 1 :
                at(j, p) = at(i, q) => j = i /\ p = q
  BY SlotIs
<1>3. marks = {<<at(i, q), q>> : i \in bits, q \in 0 .. rows - 1}
  BY DEF Marks
<1> HIDE DEF at, marks
<1>4. V = {f[x] : x \in S}
  <2>1. ASSUME NEW v \in V
        PROVE  v \in {f[x] : x \in S}
    <3>1. PICK m \in marks : v = m[1]
      OBVIOUS
    <3>2. PICK i \in bits, q \in 0 .. rows - 1 : v = at(i, q)
      BY <1>3, <3>1
    <3>3. <<i, q>> \in S /\ f[<<i, q>>] = at(i, q)
      OBVIOUS
    <3>4. QED
      BY <3>2, <3>3
  <2>2. ASSUME NEW x \in S
        PROVE  f[x] \in V
    <3>1. x[1] \in bits /\ x[2] \in 0 .. rows - 1 /\ f[x] = at(x[1], x[2])
      OBVIOUS
    <3>2. <<at(x[1], x[2]), x[2]>> \in marks
      BY <1>3, <3>1
    <3>3. QED
      BY <3>1, <3>2
  <2>3. QED
    BY <2>1, <2>2
<1>5. ASSUME NEW x \in S, NEW y \in S, f[x] = f[y]
      PROVE  x = y
  <2>1. /\ x[1] \in 0 .. size - 1 /\ x[2] \in 0 .. rows - 1 /\ f[x] = at(x[1], x[2])
        /\ y[1] \in 0 .. size - 1 /\ y[2] \in 0 .. rows - 1 /\ f[y] = at(y[1], y[2])
    OBVIOUS
  <2>2. x[1] = y[1] /\ x[2] = y[2]
    BY <1>2, <1>5, <2>1
  <2>3. QED
    BY <2>2
<1>6. IsFiniteSet(S) /\ Cardinality(S) = Cardinality(bits) * rows
  <2>1. /\ IsFiniteSet(0 .. rows - 1)
        /\ Cardinality(0 .. rows - 1) = rows
    BY FS_Interval
  <2>2. QED
    BY <2>1, FS_Product
<1>7. f \in [S -> V]
  BY <1>4
<1>8. Cardinality(V) = Cardinality(S)
  <2> HIDE DEF f, V, S
  <2>1. \A v \in V : \E x \in S : v = f[x]
    BY <1>4
  <2>2. QED
    BY <1>5, <1>6, <1>7, <2>1, ValuesOf
<1>9. \A m \in marks : m[1] \in Exponent
  BY <1>1, <1>3
<1>10. QED
  BY <1>6, <1>8, <1>9 DEF marks

\* The coordinates of a record that a side counts.
LEMMA AskedIndices ==
    ASSUME NEW n \in Nat \ {0}, NEW e \in 0 .. n - 1,
           NEW nvec, nvec = Dimensions(n),
           NEW indices, indices = ComputeIndices(e \div PerPtxt, nvec)
    PROVE  /\ \A i \in 1 .. Len(nvec) : indices[i] \in 0 .. nvec[i] - 1
           /\ Parts(nvec, indices) \in Seq(Nat)
           /\ Len(Parts(nvec, indices)) = Len(nvec)
           /\ \A i \in 1 .. Len(nvec) :
                Parts(nvec, indices)[i] = indices[i] * ProductFrom(nvec, i + 1)
           /\ Sum(Parts(nvec, indices), 1, Len(nvec)) = e \div PerPtxt
<1> DEFINE x == e \div PerPtxt
<1>1. nvec \in Seq(Nat \ {0}) /\ Len(nvec) >= 1
  BY DimensionsAre
<1>2. ProductFrom(nvec, 1) >= PlaintextsPerDb(n)
  BY DimensionsAre DEF ProductFrom
<1>3. x \in 0 .. PlaintextsPerDb(n) - 1 /\ PlaintextsPerDb(n) \in Nat
  BY PlaintextsHold
<1>4. ProductFrom(nvec, 1) \in Nat
  BY <1>1, ProductFromIs
<1> HIDE DEF x
<1>5. x \in 0 .. ProductFrom(nvec, 1) - 1
  BY <1>2, <1>3, <1>4
<1>6. indices = ComputeIndices(x, nvec)
  BY DEF x
<1>7. /\ \A i \in 1 .. Len(nvec) : ComputeIndices(x, nvec)[i] \in 0 .. nvec[i] - 1
      /\ Parts(nvec, ComputeIndices(x, nvec)) \in Seq(Nat)
      /\ Len(Parts(nvec, ComputeIndices(x, nvec))) = Len(nvec)
      /\ \A i \in 1 .. Len(nvec) :
           Parts(nvec, ComputeIndices(x, nvec))[i] =
                ComputeIndices(x, nvec)[i] * ProductFrom(nvec, i + 1)
      /\ Sum(Parts(nvec, ComputeIndices(x, nvec)), 1, Len(nvec)) = x
  BY <1>1, <1>5, IndicesAre
<1>8. QED
  BY <1>6, <1>7, Zenon DEF x

\* The bits of both polynomials have room in them, and the factors by which
\* the client divides are those of the expansion.
Fits(nvec, indices) ==
    /\ nvec[1] \in Nat \ {0} /\ nvec[1] * PlainSize <= N
    /\ {indices[1]} \in SUBSET (0 .. nvec[1] - 1)
    /\ 2 * nvec[1] = Power(2, CeilLog2(nvec[1] * PlainSize))
    /\ 2 * nvec[1] \in 1 .. N
    /\ RestSize(nvec) \in Nat \ {0} /\ RestSize(nvec) * GswSize <= N
    /\ RestIndices(nvec, indices) \in SUBSET (0 .. RestSize(nvec) - 1)
    /\ Power(2, CeilLog2(RestSize(nvec) * GswSize)) \in 1 .. N
    /\ IsFiniteSet(RestIndices(nvec, indices))
    /\ Cardinality(RestIndices(nvec, indices)) = Len(nvec) - 1

\* They have, for every record that a side counts.
LEMMA BitsFit ==
    ASSUME NEW c \in Counts, NEW n \in {c[1], c[2]}, NEW e \in 0 .. n - 1,
           NEW nvec, nvec = Dimensions(n), Len(nvec) > 1,
           NEW indices, indices = ComputeIndices(e \div PerPtxt, nvec)
    PROVE  Fits(nvec, indices)
<1> DEFINE l == Len(nvec)
           size == RestSize(nvec)
           R == RestIndices(nvec, indices)
           f == [i \in 2 .. l |-> indices[i] + Sum(nvec, 2, i - 1)]
<1>1. /\ n \in Nat \ {0} /\ nvec \in Seq(Nat \ {0}) /\ l \in Nat \ {0}
      /\ nvec[1] \in Nat \ {0} /\ PlainSize * nvec[1] <= N
      /\ size \in Nat /\ GswSize * size <= N /\ size >= 1
  BY LayoutFits
<1>2. nvec[1] = FirstDim
  BY <1>1, DimensionsAre
<1>3. 2 * nvec[1] = Power(2, CeilLog2(nvec[1] * PlainSize))
  BY <1>2, FirstScale
<1>4. \A i \in 1 .. l : indices[i] \in 0 .. nvec[i] - 1
  BY <1>1, AskedIndices
<1>5. N \in Nat /\ GswSize \in Nat \ {0} /\ PlainSize = 2
  BY DegreeIs, GswSizeAssumption DEF PlainSize
<1>6. /\ R \subseteq 0 .. size - 1
      /\ \A d, k \in 2 .. l :
            indices[d] + Sum(nvec, 2, d - 1) = indices[k] + Sum(nvec, 2, k - 1)
                => d = k
  <2>1. nvec \in Seq(Nat \ {0}) /\ \A i \in 1 .. Len(nvec) : indices[i] \in 0 .. nvec[i] - 1
    BY <1>1, <1>4
  <2>2. R \subseteq 0 .. size - 1
    BY <2>1, RestIndicesAre, Zenon
  <2>3. ASSUME NEW d \in 2 .. l, NEW k \in 2 .. l,
               indices[d] + Sum(nvec, 2, d - 1) = indices[k] + Sum(nvec, 2, k - 1)
        PROVE  d = k
    BY <2>1, <2>3, RestIndicesAre, Zenon
  <2>4. QED
    BY <2>2, <2>3, Zenon
<1>7. Power(2, CeilLog2(size * GswSize)) \in 1 .. N
  <2> DEFINE slots == size * GswSize
  <2>1. slots \in Nat /\ slots <= N
    BY <1>1, <1>5
  <2> HIDE DEF slots
  <2>2. Power(2, CeilLog2(slots)) \in Nat \ {0} /\ Power(2, CeilLog2(slots)) <= N
    BY <2>1, GapIs
  <2>3. QED
    BY <1>5, <2>2 DEF slots
<1>8. IsFiniteSet(R) /\ Cardinality(R) = l - 1
  <2>1. IsFiniteSet(2 .. l) /\ Cardinality(2 .. l) = l - 1
    BY <1>1, FS_Interval
  <2>2. R = {indices[i] + Sum(nvec, 2, i - 1) : i \in 2 .. l}
    BY DEF RestIndices
  <2> HIDE DEF R, l
  <2>3. f \in [2 .. l -> R]
    BY <2>2
  <2>4. \A v \in R : \E i \in 2 .. l : v = f[i]
    BY <2>2
  <2>5. \A i, k \in 2 .. l : f[i] = f[k] => i = k
    BY <1>6
  <2> HIDE DEF f
  <2>6. QED
    BY <2>1, <2>3, <2>4, <2>5, ValuesOf, ZenonT(40)
<1>9. indices[1] \in 0 .. nvec[1] - 1
  BY <1>1, <1>4
<1>10. /\ nvec[1] * PlainSize <= N /\ 2 * nvec[1] \in 1 .. N
       /\ size \in Nat \ {0} /\ size * GswSize <= N
       /\ {indices[1]} \in SUBSET (0 .. nvec[1] - 1)
  <2> HIDE DEF size
  <2>1. QED
    BY <1>1, <1>5, <1>9
<1>11. QED
  BY <1>1, <1>3, <1>6, <1>7, <1>8, <1>10, Zenon DEF Fits

-----------------------------------------------------------------------------
(***************************************************************************)
(* The inductive invariant                                                  *)
(***************************************************************************)

\* The query under way is the client's, and only small groups crash a side.
QueryInv ==
    /\ step \notin {"prompt", "crashed"} =>
        /\ Len(client_nvec) > 1
        /\ ele_index \in 0 .. known - 1
        /\ query = QueryFor(client_nvec, Indices)
    /\ step = "crashed" => Len(client_nvec) = 1 \/ Len(server_nvec) = 1

\* How many polynomials, sums and bits there are.
ShapeInv ==
    /\ Expanding => /\ iter <= CeilLog2(Slots)
                    /\ temp \in [0 .. Power(2, iter) - 1 -> Polynomial]
    /\ step = "expand_rest" =>
        /\ Len(server_nvec) > 1
        /\ DOMAIN cts = 0 .. ProductFrom(server_nvec, 2) - 1
    /\ step = "fold" =>
        /\ dim >= 2
        /\ DOMAIN cts = 0 .. ProductFrom(server_nvec, dim) - 1
        /\ Len(server_nvec) > 1 => DOMAIN mux = 0 .. RestSize(server_nvec) - 1

\* The bits are those of the coordinates after the first.
MuxInv ==
    step = "fold" /\ SameLayout =>
        \A j \in 0 .. RestSize(server_nvec) - 1 :
            mux[j] = IF j \in RestIndices(client_nvec, Indices) THEN "on" ELSE "off"

\* The inductive invariant.
IInv ==
    /\ RetrievalTypeOK
    /\ QueryInv
    /\ ShapeInv
    /\ ExpansionSplits
    /\ MuxInv
    /\ SumsArePlaintexts

\* Both layouts fit.
LEMMA LayoutsFit ==
    ASSUME <<items, known>> \in Counts
    PROVE  /\ items \in Nat \ {0} /\ known \in Nat \ {0}
           /\ server_nvec \in Seq(Nat \ {0}) /\ Len(server_nvec) \in Nat \ {0}
           /\ client_nvec \in Seq(Nat \ {0}) /\ Len(client_nvec) \in Nat \ {0}
           /\ server_nvec[1] \in Nat \ {0}
           /\ FirstSlots \in Nat /\ FirstSlots <= N
           /\ RestSize(server_nvec) \in Nat
           /\ Len(server_nvec) > 1 => RestSize(server_nvec) >= 1
           /\ RestSlots \in Nat /\ RestSlots <= N
           /\ Slots \in Nat /\ Slots <= N
           /\ CeilLog2(Slots) \in 0 .. CeilLog2(N)
<1> DEFINE c == <<items, known>>
<1>1. c \in Counts /\ c[1] = items /\ c[2] = known
  OBVIOUS
<1>2. \A n \in {items, known} :
        /\ n \in Nat \ {0}
        /\ Dimensions(n) \in Seq(Nat \ {0})
        /\ Len(Dimensions(n)) \in Nat \ {0}
        /\ Dimensions(n)[1] \in Nat \ {0}
        /\ PlainSize * Dimensions(n)[1] <= N
        /\ RestSize(Dimensions(n)) \in Nat
        /\ GswSize * RestSize(Dimensions(n)) <= N
        /\ Len(Dimensions(n)) > 1 => RestSize(Dimensions(n)) >= 1
  <2>1. SUFFICES ASSUME NEW n \in {c[1], c[2]}
                 PROVE  /\ n \in Nat \ {0}
                        /\ Dimensions(n) \in Seq(Nat \ {0})
                        /\ Len(Dimensions(n)) \in Nat \ {0}
                        /\ Dimensions(n)[1] \in Nat \ {0}
                        /\ PlainSize * Dimensions(n)[1] <= N
                        /\ RestSize(Dimensions(n)) \in Nat
                        /\ GswSize * RestSize(Dimensions(n)) <= N
                        /\ Len(Dimensions(n)) > 1 => RestSize(Dimensions(n)) >= 1
    BY <1>1
  <2> HIDE DEF c
  <2>2. QED
    BY <1>1, LayoutFits
<1>3. /\ server_nvec \in Seq(Nat \ {0}) /\ Len(server_nvec) \in Nat \ {0}
      /\ server_nvec[1] \in Nat \ {0} /\ PlainSize * server_nvec[1] <= N
      /\ RestSize(server_nvec) \in Nat /\ GswSize * RestSize(server_nvec) <= N
      /\ Len(server_nvec) > 1 => RestSize(server_nvec) >= 1
  BY <1>2 DEF server_nvec
<1>4. /\ client_nvec \in Seq(Nat \ {0}) /\ Len(client_nvec) \in Nat \ {0}
      /\ items \in Nat \ {0} /\ known \in Nat \ {0}
  BY <1>2 DEF client_nvec
<1>5. FirstSlots \in Nat /\ FirstSlots <= N
  BY <1>3 DEF FirstSlots, PlainSize
<1>6. RestSlots \in Nat /\ RestSlots <= N
  BY <1>3, GswSizeAssumption, DegreeIs DEF RestSlots
<1>7. Slots \in Nat /\ Slots <= N
  BY <1>5, <1>6 DEF Slots
<1>8. CeilLog2(Slots) \in 0 .. CeilLog2(N)
  BY <1>7, GapIs
<1>9. QED
  BY <1>3, <1>4, <1>5, <1>6, <1>7, <1>8

\* The query that the client packs.
LEMMA QueryIs ==
    ASSUME <<items, known>> \in Counts, Len(client_nvec) > 1,
           NEW e \in 0 .. known - 1,
           NEW indices, indices = ComputeIndices(e \div PerPtxt, client_nvec)
    PROVE  QueryFor(client_nvec, indices) \in Polynomial \X Polynomial
<1> DEFINE c == <<items, known>>
           nvec == client_nvec
           rest == Power(2, CeilLog2(RestSize(nvec) * GswSize))
<1>1. c \in Counts /\ known \in {c[1], c[2]} /\ nvec = Dimensions(known)
  BY DEF client_nvec
<1>2. 2 * nvec[1] \in 1 .. N /\ rest \in 1 .. N
  <2> HIDE DEF c, nvec
  <2>1. Len(nvec) > 1 /\ indices = ComputeIndices(e \div PerPtxt, nvec)
    BY DEF nvec
  <2>2. QED
    BY <1>1, <2>1, BitsFit DEF Fits
<1> HIDE DEF nvec, rest
<1>3. GswSize \in Nat \ {0} /\ PlainSize \in Nat \ {0}
  BY GswSizeAssumption DEF PlainSize
<1>4. Packed(Marks({indices[1]}, nvec[1], PlainSize), PlainSize, 2 * nvec[1]) \in Polynomial
  BY <1>2, <1>3, PackedIs
<1>5. Packed(Marks(RestIndices(nvec, indices), RestSize(nvec), GswSize), GswSize, rest)
        \in Polynomial
  BY <1>2, <1>3, PackedIs
<1>6. QueryFor(nvec, indices) =
        <<Packed(Marks({indices[1]}, nvec[1], PlainSize), PlainSize, 2 * nvec[1]),
          Packed(Marks(RestIndices(nvec, indices), RestSize(nvec), GswSize), GswSize, rest)>>
  BY DEF QueryFor, FirstMarks, RestMarks, rest
<1>7. QED
  BY <1>4, <1>5, <1>6 DEF nvec

\* Of the client's layout and the coordinates of its query.
LEMMA AskedFits ==
    ASSUME RetrievalTypeOK, QueryInv, step \notin {"prompt", "crashed"},
           NEW nvec, nvec = client_nvec
    PROVE  Fits(nvec, Indices)
<1> DEFINE c == <<items, known>>
           n == known
           e == ele_index
<1>1. c \in Counts /\ n \in {c[1], c[2]} /\ nvec = Dimensions(n)
  BY DEF client_nvec, RetrievalTypeOK
<1>2. /\ e \in 0 .. n - 1 /\ Len(nvec) > 1
      /\ Indices = ComputeIndices(e \div PerPtxt, nvec)
  BY DEF QueryInv, Indices
<1> HIDE DEF c, n, e
<1>3. QED
  BY <1>1, <1>2, BitsFit

\* What the first polynomial of the query is to a server of the same layout,
\* and what is left of it after the expansion.
LEMMA FirstBits ==
    ASSUME RetrievalTypeOK, QueryInv, step = "expand_first", SameLayout,
           NEW f, f = query[1]
    PROVE  /\ f = Packed(Marks({Indices[1]}, server_nvec[1], PlainSize), PlainSize,
                         2 * server_nvec[1])
           /\ FirstSlots = server_nvec[1] * PlainSize
<1>1. query = QueryFor(client_nvec, Indices) /\ client_nvec = server_nvec
  BY DEF QueryInv, SameLayout
<1>2. f = Packed(FirstMarks(server_nvec, Indices), PlainSize, 2 * server_nvec[1])
  BY <1>1 DEF QueryFor
<1>3. server_nvec[1] \in Nat
  BY LayoutsFit DEF RetrievalTypeOK
<1>4. QED
  BY <1>2, <1>3 DEF FirstMarks, FirstSlots, PlainSize

\* The same of the second polynomial.
LEMMA RestBits ==
    ASSUME RetrievalTypeOK, QueryInv, step \notin {"prompt", "crashed"}, SameLayout,
           NEW f, f = query[2]
    PROVE  f = Packed(Marks(RestIndices(server_nvec, Indices), RestSize(server_nvec),
                            GswSize),
                      GswSize, Power(2, CeilLog2(RestSize(server_nvec) * GswSize)))
<1>1. query = QueryFor(client_nvec, Indices) /\ client_nvec = server_nvec
  BY DEF QueryInv, SameLayout
<1>2. QED
  BY <1>1 DEF QueryFor, RestMarks

\* Out of one sum in which the bits choose.
LEMMA SelectOne ==
    ASSUME NEW J, NEW a \in J, NEW bit, NEW ct,
           \A j \in J : bit[j] = IF j = a THEN "on" ELSE "off"
    PROVE  UNION {Times(bit[j], ct[j]) : j \in J} = ct[a]
<1>1. \A j \in J : Times(bit[j], ct[j]) = IF j = a THEN ct[a] ELSE {}
  BY DEF Times
<1>2. QED
  BY <1>1

\* A product has plaintexts in it, or noise.
LEMMA TimesIs ==
    ASSUME NEW bit \in {"on", "off", "noise"}, NEW ct \in SUBSET (Nat \cup {Noise})
    PROVE  Times(bit, ct) \subseteq Nat \cup {Noise}
BY DEF Times

\* The server's bits of the first dimension.
LEMMA FirstExpanded ==
    ASSUME IInv, SameLayout, step = "expand_first", iter = CeilLog2(Slots)
    PROVE  /\ Indices[1] \in 0 .. server_nvec[1] - 1
           /\ \A j \in 0 .. server_nvec[1] - 1 :
                BitAt(j, server_nvec[1], PlainSize) =
                    IF j = Indices[1] THEN "on" ELSE "off"
<1> DEFINE nvec == server_nvec
           size == nvec[1]
           bits == {Indices[1]}
           scale == 2 * nvec[1]
           l == CeilLog2(nvec[1] * PlainSize)
<1>1. RetrievalTypeOK /\ QueryInv /\ ShapeInv /\ ExpansionSplits /\ Expanding
  BY DEF IInv, Expanding
<1>2. nvec = client_nvec
  BY DEF SameLayout
<1>3. /\ nvec[1] \in Nat \ {0} /\ nvec[1] * PlainSize <= N
      /\ bits \in SUBSET (0 .. nvec[1] - 1)
      /\ scale = Power(2, l)
  <2> HIDE DEF nvec
  <2>1. QED
    BY <1>1, <1>2, AskedFits DEF Fits
<1>4. Slots = nvec[1] * PlainSize /\ iter = l
  BY <1>1, FirstBits DEF Slots
<1>5. query[1] = Packed(Marks(bits, nvec[1], PlainSize), PlainSize, scale)
  BY <1>1, FirstBits
<1>6. temp \in [0 .. scale - 1 -> Polynomial]
  BY <1>1, <1>3, <1>4 DEF ShapeInv
<1>7. Splits(temp, query[1], Gap(Slots), iter)
  BY <1>1 DEF ExpansionSplits, Splits
<1>8. Splits(temp, Packed(Marks(bits, nvec[1], PlainSize), PlainSize, scale),
             Gap(nvec[1] * PlainSize), l)
  BY <1>4, <1>5, <1>7
<1>9. PlainSize \in Nat \ {0}
  BY DEF PlainSize
<1>10. Indices[1] \in bits /\ \A j : j \in bits <=> j = Indices[1]
  OBVIOUS
<1> HIDE DEF nvec, bits, scale, l
<1>11. size \in Nat \ {0} /\ size * PlainSize <= N
  BY <1>3 DEF size
<1>12. bits \in SUBSET (0 .. size - 1) /\ l = CeilLog2(size * PlainSize)
  BY <1>3 DEF size, l
<1>13. Splits(temp, Packed(Marks(bits, size, PlainSize), PlainSize, scale),
              Gap(size * PlainSize), l)
  BY <1>8 DEF size
<1>14. size = server_nvec[1]
  BY DEF size, nvec
<1> HIDE DEF size
<1>15. \A j \in 0 .. size - 1 :
            BitAt(j, size, PlainSize) = IF j \in bits THEN "on" ELSE "off"
  BY <1>3, <1>6, <1>9, <1>11, <1>12, <1>13, BitsAre
<1>16. Indices[1] \in 0 .. size - 1
  BY <1>10, <1>12
<1>17. QED
  BY <1>10, <1>14, <1>15, <1>16

\* The server's bits of the other dimensions.
LEMMA RestExpanded ==
    ASSUME IInv, SameLayout, step = "expand_rest", iter = CeilLog2(Slots)
    PROVE  \A j \in 0 .. RestSize(server_nvec) - 1 :
                BitAt(j, RestSize(server_nvec), GswSize) =
                    IF j \in RestIndices(client_nvec, Indices) THEN "on" ELSE "off"
<1> DEFINE nvec == server_nvec
           size == RestSize(nvec)
           bits == RestIndices(nvec, Indices)
           scale == Power(2, CeilLog2(size * GswSize))
           l == CeilLog2(size * GswSize)
<1>1. RetrievalTypeOK /\ QueryInv /\ ShapeInv /\ ExpansionSplits /\ Expanding
  BY DEF IInv, Expanding
<1>2. nvec = client_nvec
  BY DEF SameLayout
<1>3. /\ size \in Nat \ {0} /\ size * GswSize <= N
      /\ bits \in SUBSET (0 .. size - 1)
  <2> HIDE DEF nvec
  <2>1. QED
    BY <1>1, <1>2, AskedFits DEF Fits
<1>4. Slots = size * GswSize /\ iter = l
  BY DEF Slots, RestSlots
<1>5. query[2] = Packed(Marks(bits, size, GswSize), GswSize, scale)
  BY <1>1, RestBits
<1>6. temp \in [0 .. scale - 1 -> Polynomial]
  BY <1>1, <1>4 DEF ShapeInv
<1>7. Splits(temp, query[2], Gap(Slots), iter)
  BY <1>1 DEF ExpansionSplits, Splits
<1>8. Splits(temp, Packed(Marks(bits, size, GswSize), GswSize, scale),
             Gap(size * GswSize), l)
  BY <1>4, <1>5, <1>7
<1>9. GswSize \in Nat \ {0} /\ l = CeilLog2(size * GswSize) /\ scale = Power(2, l)
  BY GswSizeAssumption
<1>10. bits = RestIndices(client_nvec, Indices) /\ size = RestSize(server_nvec)
  BY <1>2
<1> HIDE DEF nvec, size, bits, scale, l
<1>11. \A j \in 0 .. size - 1 :
            BitAt(j, size, GswSize) = IF j \in bits THEN "on" ELSE "off"
  BY <1>3, <1>6, <1>8, <1>9, BitsAre
<1>12. QED
  BY <1>10, <1>11

-----------------------------------------------------------------------------
(***************************************************************************)
(* The invariant holds, action by action                                    *)
(***************************************************************************)

\* At first there is no query.
LEMMA InitHolds ==
    Init => IInv
<1> SUFFICES ASSUME Init PROVE IInv
  OBVIOUS
<1>1. <<items, known>> \in Counts
  <2>1. PICK c \in Counts : items = c[1] /\ known = c[2]
    BY DEF Init
  <2>2. c = <<c[1], c[2]>>
    BY CountAssumption
  <2>3. QED
    BY <2>1, <2>2
<1>2. /\ step = "prompt" /\ ele_index = 0 /\ query = <<>> /\ temp = <<>> /\ iter = 0
      /\ cts = <<>> /\ dim = 0 /\ mux = <<>> /\ answer = Padding
  BY DEF Init
<1>3. CeilLog2(N) \in Nat /\ Len(server_nvec) \in Nat
  BY <1>1, DegreeIs, LayoutsFit
<1>4. RetrievalTypeOK
  BY <1>1, <1>2, <1>3 DEF RetrievalTypeOK
<1>5. QueryInv /\ ShapeInv /\ ExpansionSplits /\ MuxInv /\ SumsArePlaintexts
  BY <1>2 DEF QueryInv, ShapeInv, ExpansionSplits, MuxInv, SumsArePlaintexts, Expanding
<1>6. QED
  BY <1>4, <1>5 DEF IInv

\* What the layouts and the query are made of stays.
LEMMA Stays ==
    ASSUME UNCHANGED <<items, known>>
    PROVE  /\ server_nvec' = server_nvec /\ client_nvec' = client_nvec
           /\ SameLayout' = SameLayout
           /\ FirstSlots' = FirstSlots /\ RestSlots' = RestSlots
           /\ step' = step => Slots' = Slots /\ Expanding' = Expanding
           /\ ele_index' = ele_index => Indices' = Indices
<1>1. server_nvec' = server_nvec /\ client_nvec' = client_nvec
  BY DEF server_nvec, client_nvec
<1>2. QED
  BY <1>1 DEF SameLayout, FirstSlots, RestSlots, Slots, Expanding, Indices

\* Ask.
LEMMA AskStep ==
    ASSUME IInv, NEW e \in 0 .. known - 1, Ask(e)
    PROVE  IInv'
<1>1. RetrievalTypeOK /\ QueryInv
  BY DEF IInv
<1>2. /\ step = "prompt" /\ ele_index' = e /\ answer' = Padding
      /\ UNCHANGED <<items, known, temp, iter, cts, dim, mux>>
  BY DEF Ask
<1>3. server_nvec' = server_nvec /\ client_nvec' = client_nvec
  BY <1>2, Stays
<1>4. Indices' = ComputeIndices(e \div PerPtxt, client_nvec)
  BY <1>2, <1>3 DEF Indices
<1>5. known \in Nat
  BY <1>1, LayoutsFit DEF RetrievalTypeOK
<1>6. e \in Nat
  BY <1>5
<1>7. \/ step' = "crashed" /\ Len(client_nvec) = 1 /\ query' = query
      \/ step' = "sent" /\ Len(client_nvec) > 1 /\ query' = QueryFor(client_nvec, Indices')
  BY <1>4 DEF Ask
<1>8. query' \in {<<>>} \cup (Polynomial \X Polynomial)
  <2>1. CASE step' = "crashed" /\ query' = query
    BY <1>1, <2>1 DEF RetrievalTypeOK, Polynomial
  <2>2. CASE Len(client_nvec) > 1 /\ query' = QueryFor(client_nvec, Indices')
    <3>1. <<items, known>> \in Counts
      BY <1>1 DEF RetrievalTypeOK
    <3>2. QED
      BY <1>4, <2>2, <3>1, QueryIs
  <2>3. QED
    BY <1>7, <2>1, <2>2
<1>9. RetrievalTypeOK'
  BY <1>1, <1>2, <1>3, <1>6, <1>7, <1>8 DEF RetrievalTypeOK, Polynomial
<1>10. QueryInv'
  BY <1>2, <1>3, <1>7 DEF QueryInv
<1>11. ShapeInv' /\ ExpansionSplits' /\ MuxInv' /\ SumsArePlaintexts'
  BY <1>7 DEF ShapeInv, ExpansionSplits, MuxInv, SumsArePlaintexts, Expanding
<1>12. QED
  BY <1>9, <1>10, <1>11 DEF IInv

\* One polynomial is an expansion before its first iteration.
LEMMA StartIs ==
    ASSUME NEW f \in Polynomial, NEW slots \in Nat, slots <= N
    PROVE  /\ [j \in {0} |-> f] \in [0 .. Power(2, 0) - 1 -> Polynomial]
           /\ 0 <= CeilLog2(slots) /\ 0 \in 0 .. CeilLog2(N)
<1>1. Power(2, 0) = 1 /\ 0 .. 1 - 1 = {0}
  BY PowersOfTwo
<1>2. CeilLog2(slots) \in Nat /\ CeilLog2(N) \in Nat
  BY GapIs, DegreeIs
<1>3. QED
  BY <1>1, <1>2

\* Both polynomials of a query under way.
LEMMA UnderWay ==
    ASSUME RetrievalTypeOK, QueryInv, step \notin {"prompt", "crashed"}
    PROVE  query[1] \in Polynomial /\ query[2] \in Polynomial
<1>1. query = QueryFor(client_nvec, Indices) /\ ele_index \in 0 .. known - 1
      /\ Len(client_nvec) > 1
  BY DEF QueryInv
<1>2. <<items, known>> \in Counts
      /\ Indices = ComputeIndices(ele_index \div PerPtxt, client_nvec)
  BY DEF RetrievalTypeOK, Indices
<1>3. query \in Polynomial \X Polynomial
  BY <1>1, <1>2, QueryIs
<1>4. QED
  BY <1>3

\* Receive.
LEMMA ReceiveStep ==
    ASSUME IInv, Receive
    PROVE  IInv'
<1> DEFINE nvec == server_nvec
           f == query[1]
<1>1. RetrievalTypeOK /\ QueryInv
  BY DEF IInv
<1>2. /\ step = "sent" /\ step' = "expand_first" /\ temp' = [j \in {0} |-> f]
      /\ iter' = 0
      /\ UNCHANGED <<items, known, ele_index, query, cts, dim, mux, answer>>
  BY DEF Receive
<1>3. /\ server_nvec' = server_nvec /\ client_nvec' = client_nvec /\ Indices' = Indices
      /\ SameLayout' = SameLayout /\ FirstSlots' = FirstSlots
  BY <1>2, Stays
<1>4. f \in Polynomial
  BY <1>1, <1>2, UnderWay
<1>5. Slots' = FirstSlots /\ FirstSlots \in Nat /\ FirstSlots <= N
  BY <1>1, <1>2, <1>3, LayoutsFit DEF Slots, RetrievalTypeOK
<1> HIDE DEF f
<1>6. /\ temp' \in [0 .. Power(2, 0) - 1 -> Polynomial]
      /\ 0 <= CeilLog2(FirstSlots) /\ 0 \in 0 .. CeilLog2(N)
  BY <1>2, <1>4, <1>5, StartIs
<1>7. RetrievalTypeOK'
  <2>1. \A j \in DOMAIN temp' : temp'[j] \in Polynomial
    BY <1>6 DEF Polynomial
  <2>2. QED
    BY <1>1, <1>2, <1>3, <1>6, <2>1 DEF RetrievalTypeOK
<1>8. QueryInv'
  BY <1>1, <1>2, <1>3 DEF QueryInv
<1>9. ShapeInv'
  BY <1>2, <1>5, <1>6 DEF ShapeInv
<1>10. ExpansionSplits'
  <2>1. SUFFICES ASSUME SameLayout
                 PROVE  Splits(temp', f, Gap(FirstSlots), 0)
    BY <1>2, <1>3, <1>5 DEF ExpansionSplits, Splits, f
  <2>2. client_nvec = nvec
    BY <2>1 DEF SameLayout
  <2>3. /\ query = QueryFor(client_nvec, Indices)
    BY <1>1, <1>2 DEF QueryInv
  <2>4. f = Packed(Marks({Indices[1]}, nvec[1], PlainSize), PlainSize, 2 * nvec[1])
    BY <2>2, <2>3 DEF QueryFor, FirstMarks, f
  <2>5. /\ nvec[1] \in Nat \ {0} /\ nvec[1] * PlainSize <= N
        /\ {Indices[1]} \in SUBSET (0 .. nvec[1] - 1)
        /\ 2 * nvec[1] \in 1 .. N
    <3> HIDE DEF nvec
    <3>1. QED
      BY <1>1, <1>2, <2>2, AskedFits DEF Fits
  <2>6. FirstSlots = nvec[1] * PlainSize /\ PlainSize \in Nat \ {0}
    BY <2>5 DEF FirstSlots, PlainSize
  <2> DEFINE size == nvec[1]
             bits == {Indices[1]}
             scale == 2 * size
  <2>7. /\ size \in Nat \ {0} /\ size * PlainSize <= N
        /\ bits \in SUBSET (0 .. size - 1) /\ scale \in 1 .. N
    BY <2>5
  <2> HIDE DEF size, bits, scale
  <2>8. Splits([j \in {0} |-> Packed(Marks(bits, size, PlainSize), PlainSize, scale)],
               Packed(Marks(bits, size, PlainSize), PlainSize, scale),
               Gap(size * PlainSize), 0)
    BY <2>6, <2>7, StartSplits
  <2>9. QED
    BY <1>2, <2>4, <2>6, <2>8 DEF size, bits, scale
<1>11. MuxInv' /\ SumsArePlaintexts'
  BY <1>2 DEF MuxInv, SumsArePlaintexts
<1>12. QED
  BY <1>7, <1>8, <1>9, <1>10, <1>11 DEF IInv

\* ExpandStep.
LEMMA ExpandStepStep ==
    ASSUME IInv, ExpandStep
    PROVE  IInv'
<1> DEFINE l == CeilLog2(Slots)
           gap == Gap(Slots)
           q == query[IF step = "expand_first" THEN 1 ELSE 2]
<1>1. RetrievalTypeOK /\ QueryInv /\ ShapeInv /\ ExpansionSplits
  BY DEF IInv
<1>2. /\ Expanding /\ iter < l /\ temp' = Expanded(temp, iter, l) /\ iter' = iter + 1
      /\ UNCHANGED <<items, known, step, ele_index, query, cts, dim, mux, answer>>
  BY DEF ExpandStep
<1>3. /\ server_nvec' = server_nvec /\ client_nvec' = client_nvec /\ Indices' = Indices
      /\ SameLayout' = SameLayout /\ Slots' = Slots /\ Expanding' = Expanding
  BY <1>2, Stays
<1>4. step \in {"expand_first", "expand_rest"}
  BY <1>2 DEF Expanding
<1>5. Slots \in Nat /\ Slots <= N /\ l \in 0 .. CeilLog2(N) /\ CeilLog2(N) \in Nat
  BY <1>1, LayoutsFit, DegreeIs DEF RetrievalTypeOK
<1>6. gap = Power(2, CeilLog2(N) - l)
  BY <1>5, GapIs
<1>7. iter \in Nat /\ temp \in [0 .. Power(2, iter) - 1 -> Polynomial]
  BY <1>1, <1>2, <1>5 DEF ShapeInv, RetrievalTypeOK
<1>8. q \in Polynomial
  BY <1>1, <1>4, UnderWay
<1> HIDE DEF l, gap, q
<1>9. temp' \in [0 .. Power(2, iter + 1) - 1 -> Polynomial]
  BY <1>2, <1>5, <1>7, ExpandedIs
<1>10. iter' \in 0 .. CeilLog2(N) /\ iter' <= l
  BY <1>2, <1>5, <1>7
<1>11. RetrievalTypeOK'
  <2>1. \A j \in DOMAIN temp' : temp'[j] \in Polynomial
    BY <1>9 DEF Polynomial
  <2>2. QED
    BY <1>1, <1>2, <1>3, <1>10, <2>1 DEF RetrievalTypeOK
<1>12. QueryInv'
  BY <1>1, <1>2, <1>3, <1>4 DEF QueryInv
<1>13. ShapeInv'
  <2>1. iter' <= CeilLog2(Slots') /\ temp' \in [0 .. Power(2, iter') - 1 -> Polynomial]
    BY <1>2, <1>3, <1>9, <1>10 DEF l
  <2>2. step' = "expand_rest" =>
            /\ Len(server_nvec') > 1
            /\ DOMAIN cts' = 0 .. ProductFrom(server_nvec', 2) - 1
    BY <1>1, <1>2, <1>3 DEF ShapeInv
  <2>3. step' # "fold"
    BY <1>2, <1>4
  <2>4. QED
    BY <2>1, <2>2, <2>3 DEF ShapeInv
<1>14. ExpansionSplits'
  <2>1. SUFFICES ASSUME SameLayout
                 PROVE  Splits(temp', q, gap, iter + 1)
    BY <1>2, <1>3 DEF ExpansionSplits, Splits, q, gap
  <2>2. Splits(temp, q, gap, iter)
    BY <1>1, <1>2, <2>1 DEF ExpansionSplits, Splits, q, gap
  <2>3. QED
    BY <1>2, <1>5, <1>6, <1>7, <1>8, <2>2, ExpandedSplits
<1>15. MuxInv'
  BY <1>2, <1>4 DEF MuxInv
<1>16. SumsArePlaintexts'
  <2>1. SumsArePlaintexts
    BY DEF IInv
  <2>2. QED
    BY <1>2, <1>3, <1>4, <2>1 DEF SumsArePlaintexts
<1>17. QED
  BY <1>11, <1>12, <1>13, <1>14, <1>15, <1>16 DEF IInv

\* The plaintexts of one sum of the first dimension.
LEMMA FirstSums ==
    ASSUME IInv, FirstDimension, NEW k \in 0 .. ProductFrom(server_nvec, 2) - 1
    PROVE  /\ k \in DOMAIN cts'
           /\ cts'[k] \subseteq Nat \cup {Noise}
           /\ SameLayout => cts'[k] = {k + Indices[1] * ProductFrom(server_nvec, 2)}
<1> DEFINE J == 0 .. server_nvec[1] - 1
           bit == [j \in J |-> BitAt(j, server_nvec[1], PlainSize)]
           ct == [j \in J |-> {SplitDbAt(k, j)}]
           rest == ProductFrom(server_nvec, 2)
<1>1. RetrievalTypeOK /\ step = "expand_first" /\ iter = CeilLog2(Slots)
  BY DEF IInv, FirstDimension
<1>2. /\ cts' = [i \in 0 .. rest - 1 |->
            UNION {Times(BitAt(j, server_nvec[1], PlainSize), {SplitDbAt(i, j)}) : j \in J}]
  BY DEF FirstDimension
<1>3. cts'[k] = UNION {Times(bit[j], ct[j]) : j \in J} /\ k \in DOMAIN cts'
  <2>1. cts'[k] = UNION {Times(BitAt(j, server_nvec[1], PlainSize), {SplitDbAt(k, j)}) :
                         j \in J}
    BY <1>2
  <2>2. \A j \in J : Times(bit[j], ct[j]) =
            Times(BitAt(j, server_nvec[1], PlainSize), {SplitDbAt(k, j)})
    OBVIOUS
  <2>3. QED
    BY <1>2, <2>1, <2>2
<1>4. rest \in Nat /\ server_nvec[1] \in Nat
  <2>1. server_nvec \in Seq(Nat \ {0}) /\ Len(server_nvec) \in Nat \ {0}
        /\ server_nvec[1] \in Nat
    BY <1>1, LayoutsFit DEF RetrievalTypeOK
  <2>2. 2 \in 1 .. Len(server_nvec) + 1
    BY <2>1
  <2>3. QED
    BY <2>1, <2>2, ProductFromIs
<1>5. cts'[k] \subseteq Nat \cup {Noise}
  <2>1. ASSUME NEW j \in J
        PROVE  Times(bit[j], ct[j]) \subseteq Nat \cup {Noise}
    <3>1. bit[j] \in {"on", "off", "noise"}
      BY DEF BitAt
    <3>2. SplitDbAt(k, j) \in Nat
      <4> HIDE DEF rest
      <4>1. j * rest \in Nat
        BY <1>4
      <4>2. k + j * rest \in Nat
        BY <1>4, <4>1 DEF rest
      <4>3. QED
        BY <4>2 DEF SplitDbAt, rest
    <3>3. ct[j] \in SUBSET (Nat \cup {Noise})
      BY <3>2
    <3> HIDE DEF bit, ct
    <3>4. QED
      BY <3>1, <3>3, TimesIs
  <2> HIDE DEF bit, ct, J
  <2>2. QED
    BY <1>3, <2>1
<1>6. ASSUME SameLayout
      PROVE  cts'[k] = {k + Indices[1] * rest}
  <2>1. Indices[1] \in J
    BY <1>1, <1>6, FirstExpanded
  <2>2. \A j \in J : bit[j] = IF j = Indices[1] THEN "on" ELSE "off"
    BY <1>1, <1>6, FirstExpanded
  <2>3. ct[Indices[1]] = {k + Indices[1] * rest}
    BY <2>1 DEF SplitDbAt
  <2> HIDE DEF bit, ct, J
  <2>4. UNION {Times(bit[j], ct[j]) : j \in J} = ct[Indices[1]]
    BY <2>1, <2>2, SelectOne
  <2>5. QED
    BY <1>3, <2>3, <2>4
<1>7. QED
  BY <1>3, <1>5, <1>6

\* Dimension by dimension, the parts add up to the plaintext asked for.
LEMMA PartsAre ==
    ASSUME RetrievalTypeOK, QueryInv, step \notin {"prompt", "crashed"}, SameLayout
    PROVE  /\ \A d \in 0 .. Len(server_nvec) : Sum(Parts(server_nvec, Indices), 1, d) \in Nat
           /\ Sum(Parts(server_nvec, Indices), 1, 0) = 0
           /\ \A d \in 1 .. Len(server_nvec) :
                /\ Indices[d] \in 0 .. server_nvec[d] - 1
                /\ Sum(Parts(server_nvec, Indices), 1, d) =
                        Sum(Parts(server_nvec, Indices), 1, d - 1)
                            + Indices[d] * ProductFrom(server_nvec, d + 1)
           /\ Sum(Parts(server_nvec, Indices), 1, Len(server_nvec)) = ele_index \div PerPtxt
<1> DEFINE nvec == server_nvec
           P == Parts(nvec, Indices)
           l == Len(nvec)
<1>1. nvec = client_nvec /\ known \in Nat \ {0} /\ l \in Nat
  BY LayoutsFit DEF SameLayout, RetrievalTypeOK
<1>2. /\ nvec = Dimensions(known) /\ ele_index \in 0 .. known - 1
      /\ Indices = ComputeIndices(ele_index \div PerPtxt, nvec)
  BY <1>1 DEF QueryInv, Indices, client_nvec
<1> HIDE DEF nvec
<1>3. /\ \A i \in 1 .. l : Indices[i] \in 0 .. nvec[i] - 1
      /\ P \in Seq(Nat)
      /\ Len(P) = l
      /\ \A i \in 1 .. l : P[i] = Indices[i] * ProductFrom(nvec, i + 1)
      /\ Sum(P, 1, l) = ele_index \div PerPtxt
  <2> DEFINE n == known
             e == ele_index
             ind == Indices
  <2>1. /\ n \in Nat \ {0} /\ e \in 0 .. n - 1 /\ nvec = Dimensions(n)
        /\ ind = ComputeIndices(e \div PerPtxt, nvec)
    BY <1>1, <1>2
  <2> HIDE DEF n, e, ind
  <2>2. \A i \in 1 .. Len(nvec) : ind[i] \in 0 .. nvec[i] - 1
    BY <2>1, AskedIndices
  <2>3. Parts(nvec, ind) \in Seq(Nat) /\ Len(Parts(nvec, ind)) = Len(nvec)
    BY <2>1, AskedIndices
  <2>4. \A i \in 1 .. Len(nvec) :
            Parts(nvec, ind)[i] = ind[i] * ProductFrom(nvec, i + 1)
    BY <2>1, AskedIndices
  <2>5. Sum(Parts(nvec, ind), 1, Len(nvec)) = e \div PerPtxt
    BY <2>1, AskedIndices
  <2>6. QED
    BY <2>2, <2>3, <2>4, <2>5, Zenon DEF n, e, ind
<1> HIDE DEF P, l
<1>4. 1 \in Nat \ {0}
  OBVIOUS
<1>5. ASSUME NEW d \in 0 .. l
      PROVE  /\ Sum(P, 1, d) \in Nat
             /\ d = 0 => Sum(P, 1, d) = 0
             /\ d >= 1 => Sum(P, 1, d) = Sum(P, 1, d - 1) + P[d]
  <2>1. d \in 0 .. Len(P)
    BY <1>3
  <2>2. P \in Seq(Nat)
    BY <1>3
  <2>3. /\ Sum(P, 1, d) \in Nat
        /\ d < 1 => Sum(P, 1, d) = 0
        /\ d >= 1 => Sum(P, 1, d) = Sum(P, 1, d - 1) + P[d]
    BY <1>4, <2>1, <2>2, SumIs
  <2>4. QED
    BY <1>1, <2>3
<1>6. Sum(P, 1, 0) = 0
  BY <1>1, <1>5
<1>7. ASSUME NEW d \in 1 .. l
      PROVE  Sum(P, 1, d) = Sum(P, 1, d - 1) + Indices[d] * ProductFrom(nvec, d + 1)
  <2>1. d \in 0 .. l /\ d >= 1
    BY <1>1
  <2>2. QED
    BY <1>3, <1>5, <2>1
<1>8. QED
  BY <1>3, <1>5, <1>6, <1>7, Zenon DEF nvec, P, l

\* FirstDimension.
LEMMA FirstDimensionStep ==
    ASSUME IInv, FirstDimension
    PROVE  IInv'
<1> DEFINE nvec == server_nvec
           f == query[2]
           rest == ProductFrom(nvec, 2)
<1>1. RetrievalTypeOK /\ QueryInv
  BY DEF IInv
<1>2. /\ step = "expand_first" /\ iter' = 0 /\ DOMAIN cts' = 0 .. rest - 1
      /\ UNCHANGED <<items, known, ele_index, query, mux, answer>>
  BY DEF FirstDimension
<1>3. \/ /\ Len(nvec) > 1 /\ step' = "expand_rest"
         /\ temp' = [j \in {0} |-> f] /\ dim' = dim
      \/ /\ Len(nvec) = 1 /\ step' \in {"crashed", "fold"}
         /\ temp' = <<>> /\ dim' = 2
  BY DEF FirstDimension
<1>4. /\ server_nvec' = server_nvec /\ client_nvec' = client_nvec /\ Indices' = Indices
      /\ SameLayout' = SameLayout /\ RestSlots' = RestSlots
  BY <1>2, Stays
<1>5. f \in Polynomial
  BY <1>1, <1>2, UnderWay
<1>6. RestSlots \in Nat /\ RestSlots <= N /\ Len(nvec) \in Nat \ {0}
  BY <1>1, LayoutsFit DEF RetrievalTypeOK
<1> HIDE DEF f, nvec
<1>7. /\ [j \in {0} |-> f] \in [0 .. Power(2, 0) - 1 -> Polynomial]
      /\ 0 <= CeilLog2(RestSlots) /\ 0 \in 0 .. CeilLog2(N)
  BY <1>5, <1>6, StartIs
<1>8. \A j \in DOMAIN temp' : temp'[j] \in Polynomial
  BY <1>3, <1>5 DEF Polynomial
<1>9. \A k \in DOMAIN cts' : cts'[k] \subseteq Nat \cup {Noise}
  BY <1>2, FirstSums DEF nvec
<1>10. RetrievalTypeOK'
  <2>1. dim' \in 0 .. Len(server_nvec') + 1
    BY <1>1, <1>3, <1>4, <1>6 DEF RetrievalTypeOK, nvec
  <2>2. step' \in {"prompt", "sent", "expand_first", "expand_rest", "fold", "crashed"}
    BY <1>3
  <2>3. QED
    BY <1>1, <1>2, <1>7, <1>8, <1>9, <2>1, <2>2 DEF RetrievalTypeOK
<1>11. QueryInv'
  BY <1>1, <1>2, <1>3, <1>4 DEF QueryInv, nvec
<1>12. step' = "expand_rest" => Slots' = RestSlots
  BY <1>4 DEF Slots
<1>13. ShapeInv'
  <2>1. CASE Len(nvec) > 1 /\ step' = "expand_rest" /\ temp' = [j \in {0} |-> f]
    BY <1>2, <1>4, <1>7, <1>12, <2>1 DEF ShapeInv, nvec
  <2>2. CASE Len(nvec) = 1 /\ step' = "crashed"
    BY <2>2 DEF ShapeInv, Expanding
  <2>3. CASE Len(nvec) = 1 /\ step' = "fold" /\ dim' = 2
    BY <1>2, <1>4, <2>3 DEF ShapeInv, Expanding, nvec
  <2>4. QED
    BY <1>3, <2>1, <2>2, <2>3
<1>14. SameLayout => Len(nvec) > 1 /\ step' = "expand_rest"
  <2>1. ASSUME SameLayout
        PROVE  Len(nvec) > 1
    BY <1>1, <1>2, <2>1 DEF QueryInv, SameLayout, nvec
  <2>2. ~ (Len(nvec) > 1 /\ Len(nvec) = 1)
    <3> DEFINE l == Len(nvec)
    <3>1. l \in Nat
      BY <1>6
    <3> HIDE DEF l
    <3>2. ~ (l > 1 /\ l = 1)
      BY <3>1
    <3>3. QED
      BY <3>2 DEF l
  <2>3. QED
    BY <1>3, <2>1, <2>2, Zenon
<1>15. ExpansionSplits'
  <2>1. SUFFICES ASSUME SameLayout, step' = "expand_rest"
                 PROVE  Splits(temp', f, Gap(RestSlots), 0)
    BY <1>2, <1>4, <1>12, <1>14 DEF ExpansionSplits, Splits, f
  <2> DEFINE size == RestSize(nvec)
             bits == RestIndices(nvec, Indices)
             scale == Power(2, CeilLog2(size * GswSize))
  <2>2. f = Packed(Marks(bits, size, GswSize), GswSize, scale)
    BY <1>1, <1>2, <2>1, RestBits DEF f, nvec
  <2>3. /\ size \in Nat \ {0} /\ size * GswSize <= N
        /\ bits \in SUBSET (0 .. size - 1) /\ scale \in 1 .. N
    <3>1. nvec = client_nvec
      BY <2>1 DEF SameLayout, nvec
    <3>2. QED
      BY <1>1, <1>2, <3>1, AskedFits DEF Fits
  <2>4. RestSlots = size * GswSize /\ GswSize \in Nat \ {0}
    BY GswSizeAssumption DEF RestSlots, nvec
  <2> HIDE DEF size, bits, scale
  <2>5. Splits([j \in {0} |-> Packed(Marks(bits, size, GswSize), GswSize, scale)],
               Packed(Marks(bits, size, GswSize), GswSize, scale),
               Gap(size * GswSize), 0)
    BY <2>3, <2>4, StartSplits
  <2>6. QED
    BY <1>3, <2>1, <2>2, <2>4, <2>5
<1>16. MuxInv'
  BY <1>4, <1>14 DEF MuxInv
<1>17. SumsArePlaintexts'
  <2>1. SUFFICES ASSUME SameLayout, step' = "expand_rest", NEW k \in 0 .. rest - 1
                 PROVE  cts'[k] = {Sum(Parts(nvec, Indices), 1, 1) + k}
    BY <1>2, <1>4, <1>14 DEF SumsArePlaintexts, nvec
  <2>2. cts'[k] = {k + Indices[1] * rest}
    BY <2>1, FirstSums DEF nvec
  <2>3. Sum(Parts(nvec, Indices), 1, 1) = Indices[1] * rest
        /\ Sum(Parts(nvec, Indices), 1, 1) \in Nat
    <3> DEFINE S(d) == Sum(Parts(nvec, Indices), 1, d)
    <3>1. /\ \A d \in 0 .. Len(nvec) : S(d) \in Nat
          /\ S(0) = 0
          /\ \A d \in 1 .. Len(nvec) :
                S(d) = S(d - 1) + Indices[d] * ProductFrom(nvec, d + 1)
          /\ \A d \in 1 .. Len(nvec) : Indices[d] \in 0 .. nvec[d] - 1
      BY <1>1, <1>2, <2>1, PartsAre DEF nvec
    <3> HIDE DEF S
    <3>2. 1 \in 1 .. Len(nvec) /\ 1 \in 0 .. Len(nvec)
      BY <1>6
    <3>3. S(1) = S(1 - 1) + Indices[1] * ProductFrom(nvec, 1 + 1) /\ S(1) \in Nat
      BY <3>1, <3>2
    <3>4. rest \in Nat /\ Indices[1] \in Int
      <4>1. nvec \in Seq(Nat \ {0}) /\ nvec[1] \in Nat
        BY <1>1, LayoutsFit DEF RetrievalTypeOK, nvec
      <4>2. 2 \in 1 .. Len(nvec) + 1
        BY <1>6
      <4>3. rest \in Nat
        BY <4>1, <4>2, ProductFromIs
      <4>4. Indices[1] \in 0 .. nvec[1] - 1
        BY <3>1, <3>2
      <4>5. QED
        BY <4>1, <4>3, <4>4
    <3> HIDE DEF rest
    <3>5. ProductFrom(nvec, 1 + 1) = rest
      BY DEF rest
    <3>6. QED
      BY <3>1, <3>3, <3>4, <3>5 DEF S
  <2>4. QED
    BY <2>1, <2>2, <2>3
<1>18. QED
  BY <1>10, <1>11, <1>13, <1>15, <1>16, <1>17 DEF IInv

\* MuxBits.
LEMMA MuxBitsStep ==
    ASSUME IInv, MuxBits
    PROVE  IInv'
<1> DEFINE size == RestSize(server_nvec)
<1>1. RetrievalTypeOK /\ QueryInv /\ ShapeInv /\ SumsArePlaintexts
  BY DEF IInv
<1>2. /\ step = "expand_rest" /\ iter = CeilLog2(Slots)
      /\ mux' = [j \in 0 .. size - 1 |-> BitAt(j, size, GswSize)]
      /\ step' = "fold" /\ temp' = <<>> /\ iter' = 0 /\ dim' = 2
      /\ UNCHANGED <<items, known, ele_index, query, cts, answer>>
  BY DEF MuxBits
<1>3. /\ server_nvec' = server_nvec /\ client_nvec' = client_nvec /\ Indices' = Indices
      /\ SameLayout' = SameLayout
  BY <1>2, Stays
<1>4. /\ Len(server_nvec) > 1
      /\ DOMAIN cts = 0 .. ProductFrom(server_nvec, 2) - 1
  BY <1>1, <1>2 DEF ShapeInv
<1>5. Len(server_nvec) \in Nat /\ 0 \in 0 .. CeilLog2(N)
  BY <1>1, LayoutsFit, DegreeIs DEF RetrievalTypeOK
<1>6. \A j \in DOMAIN mux' : mux'[j] \in {"on", "off", "noise"}
  BY <1>2 DEF BitAt
<1>7. RetrievalTypeOK'
  <2>1. 2 \in 0 .. Len(server_nvec) + 1
    BY <1>4, <1>5
  <2>2. QED
    BY <1>1, <1>2, <1>3, <1>5, <1>6, <2>1 DEF RetrievalTypeOK
<1>8. QueryInv'
  BY <1>1, <1>2, <1>3 DEF QueryInv
<1>9. ShapeInv'
  BY <1>2, <1>3, <1>4 DEF ShapeInv, Expanding
<1>10. ExpansionSplits'
  BY <1>2 DEF ExpansionSplits, Expanding
<1>11. MuxInv'
  <2>1. SUFFICES ASSUME SameLayout, NEW j \in 0 .. size - 1
                 PROVE  mux'[j] = IF j \in RestIndices(client_nvec, Indices)
                                  THEN "on" ELSE "off"
    BY <1>3 DEF MuxInv
  <2>2. mux'[j] = BitAt(j, size, GswSize)
    BY <1>2
  <2>3. QED
    BY <1>2, <2>1, <2>2, RestExpanded
<1>12. SumsArePlaintexts'
  BY <1>1, <1>2, <1>3 DEF SumsArePlaintexts
<1>13. QED
  BY <1>7, <1>8, <1>9, <1>10, <1>11, <1>12 DEF IInv

\* What the round over a dimension finds.
LEMMA FoldFinds ==
    ASSUME IInv, FoldDimension, NEW rest, rest = ProductFrom(server_nvec, dim + 1)
    PROVE  /\ dim \in 2 .. Len(server_nvec)
           /\ rest \in Nat \ {0}
           /\ server_nvec[dim] \in Nat \ {0}
           /\ DOMAIN cts = 0 .. server_nvec[dim] * rest - 1
           /\ DOMAIN mux = 0 .. RestSize(server_nvec) - 1
           /\ server_nvec \in Seq(Nat \ {0})
<1>1. RetrievalTypeOK /\ ShapeInv /\ step = "fold" /\ dim <= Len(server_nvec)
  BY DEF IInv, FoldDimension
<1>2. server_nvec \in Seq(Nat \ {0}) /\ Len(server_nvec) \in Nat
  BY <1>1, LayoutsFit DEF RetrievalTypeOK
<1>3. /\ dim \in Nat /\ dim >= 2 /\ DOMAIN cts = 0 .. ProductFrom(server_nvec, dim) - 1
      /\ Len(server_nvec) > 1 => DOMAIN mux = 0 .. RestSize(server_nvec) - 1
  BY <1>1, <1>2 DEF ShapeInv, RetrievalTypeOK
<1>4. dim \in 2 .. Len(server_nvec) /\ Len(server_nvec) > 1
  BY <1>1, <1>2, <1>3
<1>5. dim \in 1 .. Len(server_nvec) /\ dim + 1 \in 1 .. Len(server_nvec) + 1
  BY <1>2, <1>4
<1>6. /\ ProductFrom(server_nvec, dim + 1) \in Nat \ {0}
      /\ ProductFrom(server_nvec, dim) = server_nvec[dim] * ProductFrom(server_nvec, dim + 1)
  BY <1>2, <1>5, ProductFromIs
<1>7. server_nvec[dim] \in Nat \ {0}
  BY <1>2, <1>5, ElementOfSeq
<1>8. QED
  BY <1>2, <1>3, <1>4, <1>6, <1>7

\* A row after the other, w of them.
LEMMA RowInside ==
    ASSUME NEW w \in Nat, NEW rest \in Nat \ {0}, NEW j \in 0 .. w - 1,
           NEW k \in 0 .. rest - 1
    PROVE  j * rest \in Nat /\ k + j * rest \in 0 .. w * rest - 1
<1>1. (j + 1) * rest <= w * rest
  OBVIOUS
<1>2. (j + 1) * rest = j * rest + rest /\ j * rest \in Nat /\ w * rest \in Nat
  OBVIOUS
<1> DEFINE a == j * rest
           b == w * rest
<1>3. a \in Nat /\ b \in Nat /\ a + rest <= b
  BY <1>1, <1>2
<1> HIDE DEF a, b
<1>4. k + a \in 0 .. b - 1
  BY <1>3
<1>5. QED
  BY <1>3, <1>4 DEF a, b

\* The plaintexts of one sum of the dimension that is folded.
LEMMA FoldSums ==
    ASSUME IInv, FoldDimension, NEW rest, rest = ProductFrom(server_nvec, dim + 1),
           NEW k \in 0 .. rest - 1
    PROVE  /\ cts'[k] \subseteq Nat \cup {Noise}
           /\ SameLayout => cts'[k] = {Sum(Parts(server_nvec, Indices), 1, dim) + k}
<1> DEFINE J == 0 .. server_nvec[dim] - 1
           before == PreviousDim(dim)
           bit == [j \in J |-> mux[j + before]]
           ct == [j \in J |-> cts[k + j * rest]]
           S(d) == Sum(Parts(server_nvec, Indices), 1, d)
<1>1. RetrievalTypeOK /\ QueryInv /\ step = "fold"
  BY DEF IInv, FoldDimension
<1>2. /\ dim \in 2 .. Len(server_nvec)
      /\ rest \in Nat \ {0}
      /\ server_nvec[dim] \in Nat \ {0}
      /\ DOMAIN cts = 0 .. server_nvec[dim] * rest - 1
      /\ DOMAIN mux = 0 .. RestSize(server_nvec) - 1
      /\ server_nvec \in Seq(Nat \ {0})
  BY FoldFinds
<1>3. cts'[k] = UNION {Times(bit[j], ct[j]) : j \in J}
  <2>1. cts' = [i \in 0 .. rest - 1 |->
                    UNION {Times(mux[j + before], cts[i + j * rest]) : j \in J}]
    BY DEF FoldDimension
  <2>2. cts'[k] = UNION {Times(mux[j + before], cts[k + j * rest]) : j \in J}
    BY <2>1
  <2>3. \A j \in J : Times(bit[j], ct[j]) = Times(mux[j + before], cts[k + j * rest])
    OBVIOUS
  <2>4. QED
    BY <2>2, <2>3
<1>4. ASSUME NEW j \in J
      PROVE  k + j * rest \in DOMAIN cts /\ j + before \in DOMAIN mux
  <2> DEFINE w == server_nvec[dim]
  <2>1. w \in Nat /\ j \in 0 .. w - 1 /\ DOMAIN cts = 0 .. w * rest - 1
    BY <1>2
  <2> HIDE DEF w
  <2>2. k + j * rest \in 0 .. w * rest - 1
    BY <1>2, <2>1, RowInside
  <2>3. k + j * rest \in DOMAIN cts
    BY <2>1, <2>2
  <2>4. \A i \in 1 .. Len(server_nvec) :
            [d \in 1 .. Len(server_nvec) |-> 0][i] \in 0 .. server_nvec[i] - 1
    BY <1>2, ElementOfSeq, SMTT(30)
  <2>5. j + Sum(server_nvec, 2, dim - 1) \in 0 .. RestSize(server_nvec) - 1
    BY <1>2, <2>4, RestIndicesAre
  <2>6. QED
    BY <1>2, <2>3, <2>5 DEF PreviousDim
<1>5. cts'[k] \subseteq Nat \cup {Noise}
  <2>1. ASSUME NEW j \in J
        PROVE  Times(bit[j], ct[j]) \subseteq Nat \cup {Noise}
    <3>1. bit[j] \in {"on", "off", "noise"} /\ ct[j] \in SUBSET (Nat \cup {Noise})
      BY <1>1, <1>4 DEF RetrievalTypeOK
    <3> HIDE DEF bit, ct
    <3>2. QED
      BY <3>1, TimesIs
  <2> HIDE DEF bit, ct, J
  <2>2. QED
    BY <1>3, <2>1
<1>6. ASSUME SameLayout
      PROVE  cts'[k] = {S(dim) + k}
  <2> DEFINE a == Indices[dim]
  <2>1. /\ a \in J /\ S(dim - 1) \in Nat /\ S(dim) = S(dim - 1) + a * rest
        /\ \A i \in 1 .. Len(server_nvec) : Indices[i] \in 0 .. server_nvec[i] - 1
    <3>1. /\ \A d \in 0 .. Len(server_nvec) : S(d) \in Nat
          /\ \A d \in 1 .. Len(server_nvec) :
                /\ Indices[d] \in 0 .. server_nvec[d] - 1
                /\ S(d) = S(d - 1) + Indices[d] * ProductFrom(server_nvec, d + 1)
      BY <1>1, <1>6, PartsAre
    <3> HIDE DEF S
    <3>2. dim \in 1 .. Len(server_nvec) /\ dim - 1 \in 0 .. Len(server_nvec)
      BY <1>2
    <3>3. QED
      BY <3>1, <3>2
  <2>2. \A j \in J : bit[j] = IF j = a THEN "on" ELSE "off"
    <3>1. MuxInv /\ client_nvec = server_nvec
      BY <1>6 DEF IInv, SameLayout
    <3>2. \A j \in J : j + before \in 0 .. RestSize(server_nvec) - 1
      BY <1>2, <1>4
    <3>3. \A j \in J : mux[j + before] =
                IF j + before \in RestIndices(server_nvec, Indices) THEN "on" ELSE "off"
      BY <1>1, <1>6, <3>1, <3>2 DEF MuxInv
    <3>4. ASSUME NEW j \in J
          PROVE  j + before \in RestIndices(server_nvec, Indices) <=> j = a
      <4> DEFINE nvec == server_nvec
                 d == dim
      <4>1. /\ nvec \in Seq(Nat \ {0}) /\ d \in 2 .. Len(nvec)
            /\ \A i \in 1 .. Len(nvec) : Indices[i] \in 0 .. nvec[i] - 1
            /\ j \in 0 .. nvec[d] - 1
        BY <1>2, <2>1
      <4> HIDE DEF nvec, d, a
      <4>2. j + Sum(nvec, 2, d - 1) \in RestIndices(nvec, Indices) <=> j = Indices[d]
        BY <4>1, RestIndicesAre
      <4>3. QED
        BY <4>2 DEF PreviousDim, nvec, d, a
    <3>5. QED
      BY <3>3, <3>4
  <2>3. ct[a] = {S(dim) + k}
    <3>1. ct[a] = cts[k + a * rest]
      BY <2>1
    <3>2. cts[k + a * rest] = {S(dim - 1) + (k + a * rest)}
      BY <1>1, <1>4, <1>6, <2>1 DEF IInv, SumsArePlaintexts
    <3>3. S(dim - 1) + (k + a * rest) = S(dim) + k
      <4> DEFINE b == a * rest
      <4>1. b \in Nat /\ k \in Nat
        <5> DEFINE w == server_nvec[dim]
        <5>1. w \in Nat /\ a \in 0 .. w - 1
          BY <1>2, <2>1
        <5> HIDE DEF w, a
        <5>2. a * rest \in Nat
          BY <1>2, <5>1, RowInside
        <5>3. QED
          BY <1>2, <5>2
      <4> HIDE DEF S, a
      <4>2. S(dim) = S(dim - 1) + b /\ S(dim - 1) \in Nat
        BY <2>1
      <4> HIDE DEF b
      <4>3. S(dim - 1) + (k + b) = S(dim) + k
        BY <4>1, <4>2
      <4>4. QED
        BY <4>3 DEF b
    <3>4. QED
      BY <3>1, <3>2, <3>3
  <2> HIDE DEF bit, ct, J, a
  <2>4. UNION {Times(bit[j], ct[j]) : j \in J} = ct[a]
    BY <2>1, <2>2, SelectOne
  <2>5. QED
    BY <1>3, <2>3, <2>4
<1>7. QED
  BY <1>5, <1>6

\* FoldDimension.
LEMMA FoldDimensionStep ==
    ASSUME IInv, FoldDimension
    PROVE  IInv'
<1> DEFINE rest == ProductFrom(server_nvec, dim + 1)
<1>1. RetrievalTypeOK /\ QueryInv /\ ShapeInv /\ MuxInv
  BY DEF IInv
<1>2. /\ step = "fold" /\ DOMAIN cts' = 0 .. rest - 1 /\ dim' = dim + 1
      /\ UNCHANGED <<items, known, step, ele_index, query, temp, iter, mux, answer>>
  BY DEF FoldDimension
<1>3. /\ server_nvec' = server_nvec /\ client_nvec' = client_nvec /\ Indices' = Indices
      /\ SameLayout' = SameLayout
  BY <1>2, Stays
<1>4. dim \in 2 .. Len(server_nvec) /\ DOMAIN mux = 0 .. RestSize(server_nvec) - 1
  BY FoldFinds
<1>5. Len(server_nvec) \in Nat
  BY <1>1, LayoutsFit DEF RetrievalTypeOK
<1>6. dim' \in 0 .. Len(server_nvec) + 1 /\ dim' >= 2 /\ dim' - 1 = dim
  BY <1>2, <1>4, <1>5
<1>7. \A k \in DOMAIN cts' : cts'[k] \subseteq Nat \cup {Noise}
  BY <1>2, FoldSums
<1>8. RetrievalTypeOK'
  BY <1>1, <1>2, <1>3, <1>6, <1>7 DEF RetrievalTypeOK
<1>9. QueryInv'
  BY <1>1, <1>2, <1>3 DEF QueryInv
<1>10. ShapeInv'
  BY <1>2, <1>3, <1>4, <1>6 DEF ShapeInv, Expanding
<1>11. ExpansionSplits'
  BY <1>2 DEF ExpansionSplits, Expanding
<1>12. MuxInv'
  BY <1>1, <1>2, <1>3 DEF MuxInv
<1>13. SumsArePlaintexts'
  <2>1. SUFFICES ASSUME SameLayout, NEW k \in 0 .. rest - 1
                 PROVE  cts'[k] = {Sum(Parts(server_nvec, Indices), 1, dim) + k}
    BY <1>2, <1>3, <1>6 DEF SumsArePlaintexts
  <2>2. QED
    BY <2>1, FoldSums
<1>14. QED
  BY <1>8, <1>9, <1>10, <1>11, <1>12, <1>13 DEF IInv

\* What the client finds is a record, the padding or noise.
LEMMA DecodeFinds ==
    ASSUME IInv, Decode
    PROVE  /\ answer' \in Nat \cup {Padding, Noise}
           /\ SameLayout /\ ele_index < items => answer' = ele_index
<1>1. RetrievalTypeOK /\ QueryInv /\ ShapeInv /\ step = "fold" /\ dim > Len(server_nvec)
  BY DEF IInv, Decode
<1>2. /\ items \in Nat /\ Len(server_nvec) \in Nat \ {0}
      /\ server_nvec \in Seq(Nat \ {0})
  BY <1>1, LayoutsFit DEF RetrievalTypeOK
<1>3. dim = Len(server_nvec) + 1
  BY <1>1, <1>2 DEF RetrievalTypeOK
<1>4. DOMAIN cts = 0 .. 0
  <2>1. DOMAIN cts = 0 .. ProductFrom(server_nvec, Len(server_nvec) + 1) - 1
    BY <1>1, <1>3 DEF ShapeInv
  <2>2. ProductFrom(server_nvec, Len(server_nvec) + 1) = 1
    BY <1>2, ProductFromIs
  <2>3. QED
    BY <2>1, <2>2
<1>5. cts[0] \subseteq Nat \cup {Noise}
  BY <1>1, <1>4 DEF RetrievalTypeOK
<1>6. /\ (\E p \in cts[0] \ {Noise} : cts[0] = {p}) =>
            answer' = Record(CHOOSE p \in cts[0] : TRUE, ele_index % PerPtxt)
      /\ ~ (\E p \in cts[0] \ {Noise} : cts[0] = {p}) => answer' = Noise
  BY DEF Decode
<1>7. ele_index \in Nat /\ PerPtxt \in Nat \ {0}
  BY <1>1, PerPtxtAssumption DEF RetrievalTypeOK
<1>8. /\ ele_index % PerPtxt \in Nat
      /\ (ele_index \div PerPtxt) * PerPtxt + (ele_index % PerPtxt) = ele_index
      /\ ele_index \div PerPtxt \in Nat
  <2> DEFINE q == ele_index \div PerPtxt
             r == ele_index % PerPtxt
  <2>1. /\ q \in Int /\ r \in 0 .. PerPtxt - 1
        /\ ele_index = PerPtxt * q + r
    BY <1>7, DivMod
  <2>2. q \in Nat
    BY <1>7, DivNat
  <2> HIDE DEF q, r
  <2>3. PerPtxt * q = q * PerPtxt
    BY <1>7, <2>1
  <2>4. r \in Nat /\ q * PerPtxt + r = ele_index
    BY <1>7, <2>1, <2>3
  <2>5. QED
    BY <2>2, <2>4 DEF q, r
<1>9. ASSUME NEW p \in Nat, cts[0] = {p}
      PROVE  answer' = Record(p, ele_index % PerPtxt)
  <2>1. p \in cts[0] \ {Noise}
    BY <1>9 DEF Noise
  <2>2. (CHOOSE x \in cts[0] : TRUE) = p
    BY <1>9
  <2>3. QED
    BY <1>6, <1>9, <2>1, <2>2
<1>10. answer' \in Nat \cup {Padding, Noise}
  <2>1. CASE \E p \in cts[0] \ {Noise} : cts[0] = {p}
    <3>1. PICK p \in Nat : cts[0] = {p}
      BY <1>5, <2>1
    <3>2. answer' = Record(p, ele_index % PerPtxt)
      BY <1>9, <3>1
    <3>3. p * PerPtxt + (ele_index % PerPtxt) \in Nat
      <4> DEFINE r == ele_index % PerPtxt
                 b == p * PerPtxt
      <4>1. r \in Nat /\ b \in Nat
        BY <1>7, <1>8
      <4> HIDE DEF r, b
      <4>2. b + r \in Nat
        BY <4>1
      <4>3. QED
        BY <4>2 DEF r, b
    <3>4. QED
      BY <3>2, <3>3 DEF Record
  <2>2. CASE ~ \E p \in cts[0] \ {Noise} : cts[0] = {p}
    BY <1>6, <2>2
  <2>3. QED
    BY <2>1, <2>2
<1>11. ASSUME SameLayout, ele_index < items
       PROVE  answer' = ele_index
  <2> DEFINE x == ele_index \div PerPtxt
             r == ele_index % PerPtxt
             S(d) == Sum(Parts(server_nvec, Indices), 1, d)
  <2>1. S(Len(server_nvec)) = x
    BY <1>1, <1>11, PartsAre
  <2>2. dim - 1 = Len(server_nvec) /\ 0 \in DOMAIN cts
    BY <1>2, <1>3, <1>4
  <2>3. cts[0] = {S(dim - 1) + 0}
    BY <1>1, <1>11, <2>2 DEF IInv, SumsArePlaintexts
  <2>4. x \in Nat
    BY <1>8
  <2> HIDE DEF x, r, S
  <2>5. cts[0] = {x}
    BY <2>1, <2>2, <2>3, <2>4
  <2>6. answer' = Record(x, r)
    BY <1>9, <2>4, <2>5 DEF r
  <2>7. x * PerPtxt + r = ele_index
    BY <1>8 DEF x, r
  <2>8. QED
    BY <1>11, <2>6, <2>7 DEF Record
<1>12. QED
  BY <1>10, <1>11

\* Decode.
LEMMA DecodeStep ==
    ASSUME IInv, Decode
    PROVE  IInv'
<1>1. RetrievalTypeOK
  BY DEF IInv
<1>2. /\ step' = "prompt" /\ query' = <<>> /\ cts' = <<>> /\ mux' = <<>> /\ dim' = 0
      /\ UNCHANGED <<items, known, ele_index, temp, iter>>
  BY DEF Decode
<1>3. server_nvec' = server_nvec
  BY <1>2, Stays
<1>4. 0 \in 0 .. Len(server_nvec) + 1
  BY <1>1, LayoutsFit DEF RetrievalTypeOK
<1>5. answer' \in Nat \cup {Padding, Noise}
  BY DecodeFinds
<1>6. RetrievalTypeOK'
  BY <1>1, <1>2, <1>3, <1>4, <1>5 DEF RetrievalTypeOK
<1>7. QueryInv' /\ ShapeInv' /\ ExpansionSplits' /\ MuxInv' /\ SumsArePlaintexts'
  BY <1>2 DEF QueryInv, ShapeInv, ExpansionSplits, MuxInv, SumsArePlaintexts, Expanding
<1>8. QED
  BY <1>6, <1>7 DEF IInv

\* Every step keeps the invariant.
LEMMA NextHolds ==
    IInv /\ [Next]_vars => IInv'
<1> SUFFICES ASSUME IInv, [Next]_vars PROVE IInv'
  OBVIOUS
<1>1. CASE \E e \in 0 .. known - 1 : Ask(e)
  BY <1>1, AskStep
<1>2. CASE Receive
  BY <1>2, ReceiveStep
<1>3. CASE ExpandStep
  BY <1>3, ExpandStepStep
<1>4. CASE FirstDimension
  BY <1>4, FirstDimensionStep
<1>5. CASE MuxBits
  BY <1>5, MuxBitsStep
<1>6. CASE FoldDimension
  BY <1>6, FoldDimensionStep
<1>7. CASE Decode
  BY <1>7, DecodeStep
<1>8. CASE UNCHANGED vars
  BY <1>8 DEF vars, IInv, RetrievalTypeOK, QueryInv, ShapeInv, ExpansionSplits, MuxInv,
              SumsArePlaintexts, Expanding, Slots, FirstSlots, RestSlots, SameLayout,
              Indices, server_nvec, client_nvec
<1>9. QED
  BY <1>1, <1>2, <1>3, <1>4, <1>5, <1>6, <1>7, <1>8 DEF Next

\* The inductive invariant holds of every state.
LEMMA Holds ==
    Spec => []IInv
<1>1. QED
  BY InitHolds, NextHolds, PTL DEF Spec

-----------------------------------------------------------------------------
(***************************************************************************)
(* The properties                                                           *)
(***************************************************************************)

\* Types: the query is two polynomials, and every sum of the server is made of
\* plaintexts, or noise.
THEOREM Types ==
    Spec => []RetrievalTypeOK
<1>1. IInv => RetrievalTypeOK
  BY DEF IInv
<1>2. QED
  BY <1>1, Holds, PTL

\* get_dimensions (src/pir.cpp) gives a matrix with room for every plaintext
\* of the group, which is what set_database asserts, and grows it by no row
\* too many: of every group, for every FIRST_DIM and DIM.
THEOREM LayoutHolds ==
    Spec => []DimensionsHold
<1>1. RetrievalTypeOK => DimensionsHold
  <2> SUFFICES ASSUME RetrievalTypeOK PROVE DimensionsHold
    OBVIOUS
  <2>1. items \in Nat \ {0}
    BY LayoutsFit DEF RetrievalTypeOK
  <2>2. QED
    BY <2>1, DimensionsAre DEF DimensionsHold, server_nvec, ProductFrom
<1>2. QED
  BY <1>1, Types, PTL

\* generate_query_combined (src/pir_client.cpp) writes inside its polynomials,
\* and every bit and row to a coefficient of its own.
THEOREM QueryHasRoom ==
    Spec => []QueryFits
<1>1. IInv => QueryFits
  <2> SUFFICES ASSUME IInv, step = "sent" PROVE QueryFits
    BY DEF QueryFits
  <2> DEFINE nvec == client_nvec
             one == {Indices[1]}
             bits == RestIndices(nvec, Indices)
             size == RestSize(nvec)
  <2>1. RetrievalTypeOK /\ QueryInv
    BY DEF IInv
  <2>2. /\ nvec[1] \in Nat \ {0} /\ nvec[1] * PlainSize <= N
        /\ one \in SUBSET (0 .. nvec[1] - 1)
        /\ size \in Nat \ {0} /\ size * GswSize <= N
        /\ bits \in SUBSET (0 .. size - 1)
        /\ IsFiniteSet(bits) /\ Cardinality(bits) = Len(nvec) - 1
    BY <2>1, AskedFits DEF Fits
  <2>3. IsFiniteSet(one) /\ Cardinality(one) = 1
    BY FS_Singleton
  <2>4. PlainSize \in Nat \ {0} /\ GswSize \in Nat \ {0}
    BY GswSizeAssumption DEF PlainSize
  <2>5. Len(nvec) \in Nat
    BY <2>1, LayoutsFit DEF RetrievalTypeOK
  <2>6. FirstMarks(nvec, Indices) = Marks(one, nvec[1], PlainSize)
        /\ RestMarks(nvec, Indices) = Marks(bits, size, GswSize)
    BY DEF FirstMarks, RestMarks
  <2> HIDE DEF nvec, one, bits, size
  <2>7. /\ \A m \in Marks(one, nvec[1], PlainSize) : m[1] \in Exponent
        /\ Cardinality({m[1] : m \in Marks(one, nvec[1], PlainSize)}) = 1 * PlainSize
    <3> DEFINE w == nvec[1]
    <3>1. w \in Nat \ {0} /\ w * PlainSize <= N /\ one \in SUBSET (0 .. w - 1)
      BY <2>2
    <3> HIDE DEF w
    <3>2. /\ \A m \in Marks(one, w, PlainSize) : m[1] \in Exponent
          /\ Cardinality({m[1] : m \in Marks(one, w, PlainSize)}) = 1 * PlainSize
      BY <2>3, <2>4, <3>1, MarksFit, ZenonT(40)
    <3>3. QED
      BY <3>2 DEF w
  <2>8. /\ \A m \in Marks(bits, size, GswSize) : m[1] \in Exponent
        /\ Cardinality({m[1] : m \in Marks(bits, size, GswSize)})
                = Cardinality(bits) * GswSize
    BY <2>2, <2>4, MarksFit
  <2>9. 1 * PlainSize = PlainSize /\ (Len(nvec) - 1) * GswSize = GswSize * (Len(nvec) - 1)
    BY <2>4, <2>5
  <2>10. QED
    BY <2>2, <2>6, <2>7, <2>8, <2>9 DEF QueryFits, nvec
<1>2. QED
  BY <1>1, Holds, PTL

\* After every iteration of poc_rlwe_expand (src/external_prod.cpp) the
\* polynomials hold the coefficients of the query that they should, for every
\* degree, modulus and number of slots.
THEOREM ExpansionIsRight ==
    Spec => []ExpansionSplits
<1>1. IInv => ExpansionSplits
  BY DEF IInv
<1>2. QED
  BY <1>1, Holds, PTL

\* After every dimension of generate_reply_combined (src/pir_server.cpp) the
\* sums are exactly the plaintexts whose first coordinates are the query's.
THEOREM SumsAreRight ==
    Spec => []SumsArePlaintexts
<1>1. IInv => SumsArePlaintexts
  BY DEF IInv
<1>2. QED
  BY <1>1, Holds, PTL

\* No query breaks the client or the server over a group of FIRST_DIM * DIM
\* plaintexts or more.
THEOREM OnlySmallGroupsBreak ==
    Spec => []BreaksOnlyWhenSmall
<1>1. IInv => BreaksOnlyWhenSmall
  <2> SUFFICES ASSUME IInv, step = "crashed"
               PROVE  \E n \in {items, known} : PlaintextsPerDb(n) < FirstDim * Dim
    BY DEF BreaksOnlyWhenSmall
  <2>1. items \in Nat \ {0} /\ known \in Nat \ {0}
    BY LayoutsFit DEF IInv, RetrievalTypeOK
  <2>2. PICK n \in {items, known} : Len(Dimensions(n)) = 1
    BY DEF IInv, QueryInv, server_nvec, client_nvec
  <2>3. PlaintextsPerDb(n) < FirstDim * Dim
    BY <2>1, <2>2, DimensionsAre
  <2>4. QED
    BY <2>3
<1>2. QED
  BY <1>1, Holds, PTL

\* A client whose layout is the server's gets the record that it asked for.
THEOREM ElementRetrieved ==
    Spec => RetrievesElement
<1> DEFINE Found ==
        step = "fold" /\ step' = "prompt" /\ SameLayout /\ ele_index < items =>
            answer' = ele_index
<1>1. IInv /\ [Next]_vars => [Found]_vars
  <2> SUFFICES ASSUME IInv, Next, step = "fold", step' = "prompt",
                      SameLayout, ele_index < items
               PROVE  answer' = ele_index
    BY DEF vars
  <2>1. Decode
    BY DEF Next, Ask, Receive, ExpandStep, Expanding, FirstDimension, MuxBits,
           FoldDimension
  <2>2. QED
    BY <2>1, DecodeFinds
<1>2. QED
  BY <1>1, Holds, PTL DEF Spec, RetrievesElement

=============================================================================
