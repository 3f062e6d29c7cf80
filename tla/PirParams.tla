------------------------------ MODULE PirParams ------------------------------
(***************************************************************************)
(* How the records of a group are laid out for a query (src/pir.cpp): a     *)
(* plaintext polynomial packs several records, and the plaintexts form a    *)
(* matrix of one, two or more dimensions.  Client and server each compute   *)
(* the layout from the number of records they know of.                      *)
(***************************************************************************)
EXTENDS Integers, Sequences

CONSTANTS
    FirstDim,   \* FIRST_DIM of pir.h (256)
    Dim,        \* DIM of pir.h (4)
    PerPtxt     \* elements_per_ptxt(logt, N, size_per_item) (1024)

ASSUME DimAssumption == FirstDim \in Nat \ {0} /\ Dim \in Nat \ {0, 1}
ASSUME PerPtxtAssumption == PerPtxt \in Nat \ {0}

CeilDiv(a, b) == (a + b - 1) \div b
Larger(a, b) == IF a < b THEN b ELSE a

\* b^k, by recursion: the provers do not know the operator of Integers.
Power(b, k) ==
    LET f[i \in Nat] == IF i = 0 THEN 1 ELSE b * f[i - 1]
    IN f[k]

\* The least k with 2^k >= n, for n > 0: ceil(log2(n)).
CeilLog2(n) ==
    CHOOSE k \in 0 .. n : Power(2, k) >= n /\ (k = 0 \/ Power(2, k - 1) < n)

\* The sum and the product of s[i], ..., s[j], for i > 0.
Sum(s, i, j) ==
    LET f[k \in 0 .. Len(s)] == IF k < i THEN 0 ELSE f[k - 1] + s[k]
    IN f[j]
Product(s, i, j) ==
    LET f[k \in 0 .. Len(s)] == IF k < i THEN 1 ELSE f[k - 1] * s[k]
    IN f[j]

PlaintextsPerDb(items) == CeilDiv(items, PerPtxt)

\* The product of the dimensions from the i-th on.
ProductFrom(nvec, i) == Product(nvec, i, Len(nvec))

\* Mutant of Pushed: one more division before another dimension is added.
PushedLate(q) ==
    LET f[i \in Nat] == IF i <= Dim THEN <<>> ELSE <<Dim>> \o f[i \div Dim]
    IN f[q]

\* The dimensions added behind the first: one for every time the quotient
\* still has a further dimension in it.
Pushed(q) ==
    LET f[i \in Nat] == IF i < Dim THEN <<>> ELSE <<Dim>> \o f[i \div Dim]
    IN f[q]

\* Mutant of GrowLast: a rest that does not fill a row is forgotten.
GrowLastDown(nvec, n) ==
    LET rows == n \div Product(nvec, 1, Len(nvec) - 1)
    IN  [nvec EXCEPT ![Len(nvec)] = Larger(@, rows)]

\* The while loop: the last dimension grows until the matrix holds n.
GrowLast(nvec, n) ==
    LET rows == CeilDiv(n, Product(nvec, 1, Len(nvec) - 1))
    IN  [nvec EXCEPT ![Len(nvec)] = Larger(@, rows)]

\* nvec of gen_params for a group with some items.
Dimensions(items) ==
    LET n == PlaintextsPerDb(items)
    IN  GrowLast(<<FirstDim>> \o Pushed(n \div FirstDim), n)

\* The coordinates of a plaintext in the matrix.
ComputeIndices(index, nvec) ==
    [i \in DOMAIN nvec |->
        (IF i = 1 THEN index ELSE index % ProductFrom(nvec, i))
            \div ProductFrom(nvec, i + 1)]

=============================================================================
