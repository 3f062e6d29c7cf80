------------------------------ MODULE NflScratch ------------------------------
(***************************************************************************)
(* The polynomial primitives of src/external_prod.cpp that go through       *)
(* NFLlib: each copies its operands into the process-wide scratch           *)
(* polynomials resa and resb, computes there (a transform in place in resa, *)
(* a product or a sum into resc) and copies the result out.  The scratch is *)
(* shared by the threads of all connections and there is no lock.           *)
(*                                                                         *)
(* What the operations compute is a parameter: the module is about which    *)
(* operands they are applied to.  Copying a polynomial is one step; real    *)
(* copies go coefficient by coefficient and can be torn as well.            *)
(***************************************************************************)
CONSTANTS
    Thread,
    Poly,           \* the values a polynomial may have
    Operand,        \* the ones the callers pass
    Ntt(_),         \* ntt_pow_phi
    Intt(_),        \* invntt_pow_invphi
    Mul(_, _),      \* nfl::mul, coefficient by coefficient
    Add(_, _)       \* nfl::add

ASSUME OperandAssumption == Operand \subseteq Poly
ASSUME ClosedAssumption ==
    \A p \in Poly : /\ Ntt(p) \in Poly
                    /\ Intt(p) \in Poly
                    /\ \A q \in Poly : Mul(p, q) \in Poly /\ Add(p, q) \in Poly

VARIABLES
    resa, resb, resc,   \* the global scratch polynomials
    pc,                 \* where a thread is in the primitive it runs
    op,                 \* the primitive, or "none" before the first
    x, y,               \* its operands, in memory of the caller
    res,                \* its destination: the caller's, overwritten at the end
    disturbed           \* history: another thread wrote to the scratch
                        \* between this primitive's first load and its store

scratch == <<resa, resb, resc>>
vars == <<resa, resb, resc, pc, op, x, y, res, disturbed>>

\* poc_nfllib_ntt_ct and poc_nfllib_ntt_rlwe_decomp; poc_nfllib_intt_ct.
Transforms == {"ntt", "intt"}
\* poly_nfllib_prod_with_no_ntt; poly_nfllib_add.
Products == {"mul", "add"}

Transformed(o, p) == IF o = "ntt" THEN Ntt(p) ELSE Intt(p)
Combined(o, p, q) == IF o = "mul" THEN Mul(p, q) ELSE Add(p, q)

\* What a primitive is for.
Apply(o, p, q) == IF o \in Transforms THEN Transformed(o, p)
                                      ELSE Combined(o, p, q)

Init ==
    /\ resa \in Operand
    /\ resb \in Operand
    /\ resc \in Operand
    /\ pc = [t \in Thread |-> "idle"]
    /\ op = [t \in Thread |-> "none"]
    /\ x \in [Thread -> Operand]
    /\ y = x
    /\ res = x
    /\ disturbed = [t \in Thread |-> FALSE]

\* Thread t writes to the scratch: the primitives under way elsewhere that
\* have loaded something no longer have it to themselves.
Disturb(t) ==
    disturbed' = [u \in Thread |->
                    \/ disturbed[u]
                    \/ u # t /\ pc[u] \in {"loadB", "compute", "store"}]

Call(t, o, p, q) ==
    /\ pc[t] = "idle"
    /\ pc' = [pc EXCEPT ![t] = "loadA"]
    /\ op' = [op EXCEPT ![t] = o]
    /\ x' = [x EXCEPT ![t] = p]
    /\ y' = [y EXCEPT ![t] = q]
    /\ res' = [res EXCEPT ![t] = p]
    /\ disturbed' = [disturbed EXCEPT ![t] = FALSE]
    /\ UNCHANGED scratch

\* Mutant of LoadA: a sum computes on what resb held before.
LoadAOnlyForAdd(t) ==
    /\ pc[t] = "loadA"
    /\ resa' = x[t]
    /\ pc' = [pc EXCEPT ![t] = IF op[t] = "mul" THEN "loadB" ELSE "compute"]
    /\ Disturb(t)
    /\ UNCHANGED <<resb, resc, op, x, y, res>>

LoadA(t) ==
    /\ pc[t] = "loadA"
    /\ resa' = x[t]
    /\ pc' = [pc EXCEPT ![t] = IF op[t] \in Transforms THEN "compute"
                                                       ELSE "loadB"]
    /\ Disturb(t)
    /\ UNCHANGED <<resb, resc, op, x, y, res>>

LoadB(t) ==
    /\ pc[t] = "loadB"
    /\ resb' = y[t]
    /\ pc' = [pc EXCEPT ![t] = "compute"]
    /\ Disturb(t)
    /\ UNCHANGED <<resa, resc, op, x, y, res>>

Transform(t) ==
    /\ pc[t] = "compute"
    /\ op[t] \in Transforms
    /\ resa' = Transformed(op[t], resa)
    /\ pc' = [pc EXCEPT ![t] = "store"]
    /\ Disturb(t)
    /\ UNCHANGED <<resb, resc, op, x, y, res>>

Combine(t) ==
    /\ pc[t] = "compute"
    /\ op[t] \in Products
    /\ resc' = Combined(op[t], resa, resb)
    /\ pc' = [pc EXCEPT ![t] = "store"]
    /\ Disturb(t)
    /\ UNCHANGED <<resa, resb, op, x, y, res>>

Store(t) ==
    /\ pc[t] = "store"
    /\ res' = [res EXCEPT ![t] = IF op[t] \in Transforms THEN resa ELSE resc]
    /\ pc' = [pc EXCEPT ![t] = "idle"]
    /\ UNCHANGED <<scratch, op, x, y, disturbed>>

Next ==
    \E t \in Thread :
        \/ \E o \in Transforms, p \in Operand : Call(t, o, p, p)
        \/ \E o \in Products, p, q \in Operand : Call(t, o, p, q)
        \/ LoadA(t)
        \/ LoadB(t)
        \/ Transform(t)
        \/ Combine(t)
        \/ Store(t)

Spec == Init /\ [][Next]_vars

-----------------------------------------------------------------------------

TypeOK ==
    /\ resa \in Poly /\ resb \in Poly /\ resc \in Poly
    /\ pc \in [Thread -> {"idle", "loadA", "loadB", "compute", "store"}]
    /\ op \in [Thread -> Transforms \cup Products \cup {"none"}]
    /\ x \in [Thread -> Operand] /\ y \in [Thread -> Operand]
    /\ res \in [Thread -> Poly]
    /\ disturbed \in [Thread -> BOOLEAN]

Returned(t) == pc[t] = "idle" /\ op[t] # "none"

\* A primitive whose scratch nobody else wrote to while it ran returns what
\* it is for, whatever the scratch held before and whatever the other threads
\* do between primitives.  The scratch carries nothing from one primitive to
\* the next, so a lock around each of them would make the replies of
\* concurrent connections right.
UndisturbedIsRight ==
    \A t \in Thread :
        Returned(t) /\ ~disturbed[t] => res[t] = Apply(op[t], x[t], y[t])

\* The server answers several clients at once (README.md:2, "The server will
\* provide PIR service for clients"; one thread per connection): a primitive
\* run for one of them returns what it is for.
PrimitivesAreRight ==
    \A t \in Thread : Returned(t) => res[t] = Apply(op[t], x[t], y[t])

=============================================================================
