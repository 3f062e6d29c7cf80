------------------------------ MODULE Retrieval ------------------------------
(***************************************************************************)
(* One client's queries from the index of a record to the record: what      *)
(* generate_query_combined packs (src/pir_client.cpp), how the server       *)
(* expands it (poc_rlwe_expand, src/external_prod.cpp) and walks its matrix *)
(* (generate_reply_combined, src/pir_server.cpp), and where the client      *)
(* looks in the reply.                                                      *)
(*                                                                         *)
(* Encryption is left out: an RLWE ciphertext of the query is the           *)
(* polynomial inside it, over Z_T modulo X^N + 1, and the expansion does    *)
(* the real arithmetic on it.  The rows of a gadget ciphertext are right    *)
(* when they are the multiples Gadget of one bit; a product with it is then *)
(* that bit times the other factor, and otherwise noise.  The constant that *)
(* all rows of a GSW ciphertext share, the shifts by the sizes of the       *)
(* moduli, and the moduli of the ciphertexts are left out: Gadget has the   *)
(* powers of Base alone, modulo T.  A ciphertext of the reply is the set of *)
(* plaintexts added up in it.                                               *)
(***************************************************************************)
EXTENDS PirParams, FiniteSets

CONSTANTS
    N,          \* poly_modulus_degree, a power of 2 (4096)
    T,          \* a prime above it; plain_modulus (60 bits)
    Base,       \* 2^plain_base and 2^gsw_base
    GswSize,    \* gsw_decomp_size (5)
    Counts,     \* pairs of record counts, the server's and the client's
    Padding     \* what lies behind the last record

PlainSize == 2  \* decomp_size of the first dimension: 60 / 30
Exponent == 0 .. N - 1

ASSUME DegreeAssumption == N \in Nat \ {0} /\ Power(2, CeilLog2(N)) = N
ASSUME ModulusAssumption ==
    /\ T \in Nat /\ T > N
    /\ \A a \in 1 .. T - 1 : \E b \in 1 .. T - 1 : (a * b) % T = 1
ASSUME FirstDimAssumption == Power(2, CeilLog2(FirstDim)) = FirstDim
ASSUME BaseAssumption == Base \in 2 .. T - 1
ASSUME GswSizeAssumption == GswSize \in Nat \ {0}
ASSUME CountAssumption == Counts \subseteq (Nat \ {0}) \X (Nat \ {0})

VARIABLES
    items,      \* the server's count of records in the group
    known,      \* the client's
    step,       \* where the query is
    ele_index,  \* the index the client asks for
    query,      \* the polynomials of the query
    temp,       \* the expansion under way, as in poc_rlwe_expand
    iter,       \* iterations of it done
    cts,        \* first_dim_intermediate_cts
    dim,        \* the dimension that is folded next
    mux,        \* the bits in CtMuxBits
    answer      \* what the client found

vars == <<items, known, step, ele_index, query, temp, iter, cts, dim, mux, answer>>

server_nvec == Dimensions(items)
client_nvec == Dimensions(known)

-----------------------------------------------------------------------------
(***************************************************************************)
(* Polynomials modulo X^N + 1                                               *)
(***************************************************************************)

\* Mutant of Signed: the negated coefficient is not reduced.
SignedUnreduced(p, e) == IF e < N THEN p[e] ELSE T - p[e - N]

\* The coefficient at an exponent below 2 * N, where X^N = -1.
Signed(p, e) == IF e < N THEN p[e] ELSE (T - p[e - N]) % T

Polynomial == [Exponent -> 0 .. T - 1]

Plus(p, q) == [e \in Exponent |-> (p[e] + q[e]) % T]
Minus(p, q) == [e \in Exponent |-> (p[e] + T - q[e]) % T]
Const(a) == [e \in Exponent |-> IF e = 0 THEN a % T ELSE 0]

\* multiply_power_of_X, for 0 <= k <= 2 * N.
TimesPowerOfX(p, k) == [e \in Exponent |-> Signed(p, (e + 2 * N - k) % (2 * N))]

\* apply_galois: X becomes X^k, k odd.
ApplyGalois(p, k) ==
    LET r == CHOOSE r \in 1 .. 2 * N - 1 : (r * k) % (2 * N) = 1
    IN  [e \in Exponent |-> Signed(p, (e * r) % (2 * N))]

InverseMod(a) == CHOOSE b \in 1 .. T - 1 : (a * b) % T = 1

\* The factor of row p of a gadget of l rows.
Gadget(l, p) == Power(Base, l - 1 - p) % T

-----------------------------------------------------------------------------
(***************************************************************************)
(* The client                                                               *)
(***************************************************************************)

\* Mutant of Gap: the size is rounded down to a power of two.
GapDown(slots) ==
    LET k == CeilLog2(slots)
    IN  N \div (IF Power(2, k) = slots THEN slots ELSE Power(2, k - 1))

\* Slots are laid out at equal distances, a power of two apart.
Gap(slots) == N \div Power(2, CeilLog2(slots))

\* Where row p of the bit at an index goes, with size bits to a row.
Marks(indices, size, rows) ==
    {<<(i + p * size) * Gap(size * rows), p>> : i \in indices, p \in 0 .. rows - 1}

\* The first dimension: its bits in PlainSize rows.
FirstMarks(nvec, indices) == Marks({indices[1]}, nvec[1], PlainSize)

\* The other dimensions, one behind the other as if they were one.
RestSize(nvec) == Sum(nvec, 2, Len(nvec))
RestIndices(nvec, indices) ==
    {indices[i] + Sum(nvec, 2, i - 1) : i \in 2 .. Len(nvec)}
RestMarks(nvec, indices) ==
    Marks(RestIndices(nvec, indices), RestSize(nvec), GswSize)

\* Every slot has a coefficient: poc_rlwe_expand throws otherwise.
ASSUME FitAssumption ==
    \A c \in Counts, i \in 1 .. 2 :
        LET nvec == Dimensions(c[i])
        IN  PlainSize * nvec[1] <= N /\ GswSize * RestSize(nvec) <= N

\* The polynomial with these marks, divided by what expansion multiplies with.
Packed(marks, rows, scale) ==
    [e \in Exponent |->
        IF \E m \in marks : m[1] = e
        THEN LET m == CHOOSE m \in marks : m[1] = e
             IN  (Gadget(rows, m[2]) * InverseMod(scale % T)) % T
        ELSE 0]

Init ==
    /\ \E c \in Counts : items = c[1] /\ known = c[2]
    /\ step = "prompt"
    /\ ele_index = 0
    /\ query = <<>>
    /\ temp = <<>>
    /\ iter = 0
    /\ cts = <<>>
    /\ dim = 0
    /\ mux = <<>>
    /\ answer = Padding

\* The two polynomials of generate_query_combined for the coordinates of a
\* record.
QueryFor(nvec, indices) ==
    LET rest == Power(2, CeilLog2(RestSize(nvec) * GswSize))
    IN  <<Packed(FirstMarks(nvec, indices), PlainSize, 2 * nvec[1]),
          Packed(RestMarks(nvec, indices), GswSize, rest)>>

\* The query for the record with an index the client knows.  With one
\* dimension there is no second polynomial, and one_time_query reads a
\* ciphertext that does not exist.
Ask(e) ==
    /\ step = "prompt"
    /\ ele_index' = e
    /\ \/ /\ Len(client_nvec) = 1
          /\ step' = "crashed"
          /\ UNCHANGED query
       \/ /\ Len(client_nvec) > 1
          /\ query' = QueryFor(client_nvec, ComputeIndices(e \div PerPtxt, client_nvec))
          /\ step' = "sent"
    /\ answer' = Padding
    /\ UNCHANGED <<items, known, temp, iter, cts, dim, mux>>

-----------------------------------------------------------------------------
(***************************************************************************)
(* The server                                                               *)
(***************************************************************************)

FirstSlots == PlainSize * server_nvec[1]
RestSlots == RestSize(server_nvec) * GswSize
Slots == IF step = "expand_first" THEN FirstSlots ELSE RestSlots

\* poc_rlwe_expand starts from the first polynomial.
Receive ==
    /\ step = "sent"
    /\ step' = "expand_first"
    /\ temp' = [j \in {0} |-> query[1]]
    /\ iter' = 0
    /\ UNCHANGED <<items, known, ele_index, query, cts, dim, mux, answer>>

\* Mutant of Expanded: the power of the substitution does not count the
\* start index.
ExpandedFromZero(t, i, iters) ==
    LET s == CeilLog2(N) - iters + i
        power == N \div Power(2, i) + 1
        half == Power(2, i)
    IN  [j \in 0 .. 2 * half - 1 |->
            IF j < half
            THEN Plus(ApplyGalois(t[j], power), t[j])
            ELSE TimesPowerOfX(Minus(t[j - half], ApplyGalois(t[j - half], power)),
                               2 * N - Power(2, s))]

\* One iteration: every polynomial becomes two, with the coefficients at the
\* even and at the odd multiples of 2^s.
Expanded(t, i, iters) ==
    LET s == CeilLog2(N) - iters + i
        power == N \div Power(2, s) + 1
        half == Power(2, i)
    IN  [j \in 0 .. 2 * half - 1 |->
            IF j < half
            THEN Plus(ApplyGalois(t[j], power), t[j])
            ELSE TimesPowerOfX(Minus(t[j - half], ApplyGalois(t[j - half], power)),
                               2 * N - Power(2, s))]

Expanding == step \in {"expand_first", "expand_rest"}

ExpandStep ==
    /\ Expanding
    /\ iter < CeilLog2(Slots)
    /\ temp' = Expanded(temp, iter, CeilLog2(Slots))
    /\ iter' = iter + 1
    /\ UNCHANGED <<items, known, step, ele_index, query, cts, dim, mux, answer>>

\* The bit in the gadget ciphertext whose rows are at j, j + size, ...
BitAt(j, size, rows) ==
    IF \A p \in 0 .. rows - 1 : temp[j + p * size] = Const(Gadget(rows, p)) THEN "on"
    ELSE IF \A p \in 0 .. rows - 1 : temp[j + p * size] = Const(0) THEN "off"
    ELSE "noise"

Noise == -1
Times(bit, ct) ==
    CASE bit = "on" -> ct [] bit = "off" -> {} [] bit = "noise" -> {Noise}

\* Mutant of SplitDbAt: the matrix is read by columns.
SplitDbByColumn(k, j) == k * server_nvec[1] + j

\* The plaintext that bit j of the first dimension is multiplied with for the
\* k-th sum.
SplitDbAt(k, j) == k + j * ProductFrom(server_nvec, 2)

\* The first dimension; then the second polynomial is expanded.  A server
\* with one dimension takes the logarithm of zero: it stops, or nothing is
\* left to expand.
FirstDimension ==
    /\ step = "expand_first"
    /\ iter = CeilLog2(Slots)
    /\ cts' = [k \in 0 .. ProductFrom(server_nvec, 2) - 1 |->
                UNION {Times(BitAt(j, server_nvec[1], PlainSize), {SplitDbAt(k, j)}) :
                       j \in 0 .. server_nvec[1] - 1}]
    /\ iter' = 0
    /\ \/ /\ Len(server_nvec) > 1
          /\ step' = "expand_rest"
          /\ temp' = [j \in {0} |-> query[2]]
          /\ UNCHANGED dim
       \/ /\ Len(server_nvec) = 1
          /\ step' \in {"crashed", "fold"}
          /\ temp' = <<>>
          /\ dim' = 2
    /\ UNCHANGED <<items, known, ele_index, query, mux, answer>>

\* gsw_server_expand_combined.
MuxBits ==
    /\ step = "expand_rest"
    /\ iter = CeilLog2(Slots)
    /\ mux' = [j \in 0 .. RestSize(server_nvec) - 1 |->
                BitAt(j, RestSize(server_nvec), GswSize)]
    /\ step' = "fold"
    /\ temp' = <<>>
    /\ iter' = 0
    /\ dim' = 2
    /\ UNCHANGED <<items, known, ele_index, query, cts, answer>>

\* Mutant of PreviousDim: the second dimension's bits serve all the others.
NoPreviousDim(d) == 0

\* Bits of CtMuxBits before those of dimension d.
PreviousDim(d) == Sum(server_nvec, 2, d - 1)

\* One round of the loop over the remaining dimensions.
FoldDimension ==
    LET rest == ProductFrom(server_nvec, dim + 1) IN
    /\ step = "fold"
    /\ dim <= Len(server_nvec)
    /\ cts' = [k \in 0 .. rest - 1 |->
                UNION {Times(mux[j + PreviousDim(dim)], cts[k + j * rest]) :
                       j \in 0 .. server_nvec[dim] - 1}]
    /\ dim' = dim + 1
    /\ UNCHANGED <<items, known, step, ele_index, query, temp, iter, mux, answer>>

\* The record that set_database has put at an offset of a plaintext.
Record(ptxt, offset) ==
    LET e == ptxt * PerPtxt + offset IN IF e < items THEN e ELSE Padding

\* The first ciphertext of the reply goes back, and the client takes the
\* record at the offset.
Decode ==
    /\ step = "fold"
    /\ dim > Len(server_nvec)
    /\ answer' = IF \E p \in cts[0] \ {Noise} : cts[0] = {p}
                 THEN Record(CHOOSE p \in cts[0] : TRUE, ele_index % PerPtxt)
                 ELSE Noise
    /\ step' = "prompt"
    /\ query' = <<>>
    /\ cts' = <<>>
    /\ mux' = <<>>
    /\ dim' = 0
    /\ UNCHANGED <<items, known, ele_index, temp, iter>>

Next ==
    \/ \E e \in 0 .. known - 1 : Ask(e)
    \/ Receive
    \/ ExpandStep
    \/ FirstDimension
    \/ MuxBits
    \/ FoldDimension
    \/ Decode

Spec == Init /\ [][Next]_vars

-----------------------------------------------------------------------------
(***************************************************************************)
(* Properties                                                               *)
(***************************************************************************)

\* Types.
RetrievalTypeOK ==
    /\ <<items, known>> \in Counts
    /\ step \in {"prompt", "sent", "expand_first", "expand_rest", "fold", "crashed"}
    /\ ele_index \in Nat
    /\ query \in {<<>>} \cup (Polynomial \X Polynomial)
    /\ \A j \in DOMAIN temp : temp[j] \in Polynomial
    /\ iter \in 0 .. CeilLog2(N)
    /\ \A k \in DOMAIN cts : cts[k] \subseteq Nat \cup {Noise}
    /\ dim \in 0 .. Len(server_nvec) + 1
    /\ \A j \in DOMAIN mux : mux[j] \in {"on", "off", "noise"}
    /\ answer \in Nat \cup {Padding, Noise}

SameLayout == server_nvec = client_nvec

\* indices_ of the client.
Indices == ComputeIndices(ele_index \div PerPtxt, client_nvec)

\* What the coordinates of a plaintext contribute to its index.
Parts(nvec, indices) ==
    [i \in DOMAIN nvec |-> indices[i] * ProductFrom(nvec, i + 1)]

\* What set_database asserts (pir_server.cpp:50): the matrix has room for
\* every plaintext; and where get_dimensions has grown it, it has not grown it
\* by a row too many.
DimensionsHold ==
    LET n == PlaintextsPerDb(items)
        size == ProductFrom(server_nvec, 1)
        row == Product(server_nvec, 1, Len(server_nvec) - 1)
        start == IF Len(server_nvec) = 1 THEN FirstDim ELSE Dim
    IN  /\ size >= n
        /\ server_nvec[Len(server_nvec)] > start => size - row < n

\* The client writes inside its polynomials, and no two bits to one place.
QueryFits ==
    step = "sent" =>
        LET first == FirstMarks(client_nvec, Indices)
            rest == RestMarks(client_nvec, Indices)
        IN  /\ \A m \in first \cup rest : m[1] \in Exponent
            /\ Cardinality({m[1] : m \in first}) = PlainSize
            /\ Cardinality({m[1] : m \in rest}) = GswSize * (Len(client_nvec) - 1)

\* After i iterations of poc_rlwe_expand the j-th polynomial holds, 2^i-fold,
\* the coefficients of the query at every 2^i-th slot from the j-th on; at the
\* end, the one coefficient of slot j.
Splits(t, q, gap, i) ==
    \A j \in DOMAIN t, e \in Exponent :
        t[j][e] = IF e % (gap * Power(2, i)) = 0
                  THEN (Power(2, i) * q[e + j * gap]) % T
                  ELSE 0

\* The expansion under way splits the polynomial of the query that it began with.
ExpansionSplits ==
    Expanding /\ SameLayout =>
        Splits(temp, query[IF step = "expand_first" THEN 1 ELSE 2], Gap(Slots), iter)

\* After the first d dimensions the k-th sum is exactly the plaintext whose
\* first d coordinates are the query's and whose others are k.
SumsArePlaintexts ==
    step \in {"expand_rest", "fold"} /\ SameLayout =>
        LET d == IF step = "fold" THEN dim - 1 ELSE 1
            start == Sum(Parts(server_nvec, Indices), 1, d)
        IN  \A k \in DOMAIN cts : cts[k] = {start + k}

\* README.md:23, "the server will return its data": a client whose counts give
\* the layout of the server's gets the record it asked for, even when the
\* counts themselves differ.
RetrievesElement ==
    [][step = "fold" /\ step' = "prompt" /\ SameLayout /\ ele_index < items =>
        answer' = ele_index]_vars

\* Queries break the client or the server only over groups of fewer than
\* FIRST_DIM * DIM plaintexts; client.conf.sample:6 asks for "a million and
\* more" records in every group, which is not quite that many.
BreaksOnlyWhenSmall ==
    step = "crashed" =>
        \E n \in {items, known} : PlaintextsPerDb(n) < FirstDim * Dim

=============================================================================
