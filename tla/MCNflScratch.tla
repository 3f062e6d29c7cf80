---------------------------- MODULE MCNflScratch ----------------------------
(* Polynomials of degree below 2 over Z_5: x^2 + 1 splits there, with 2 for   *)
(* the root that ntt_pow_phi uses, so all four operations are the real ones.  *)
EXTENDS NflScratch, Integers, TLC

Z5 == 0 .. 4
MCPoly == Z5 \X Z5
MCOperand == {<<1, 2>>, <<3, 1>>}

Symmetry == Permutations(Thread)

MCNtt(p) == <<(p[1] + 2 * p[2]) % 5, (p[1] + 3 * p[2]) % 5>>
MCIntt(p) == <<(3 * (p[1] + p[2])) % 5, (4 * (p[1] + 4 * p[2])) % 5>>
MCMul(p, q) == <<(p[1] * q[1]) % 5, (p[2] * q[2]) % 5>>
MCAdd(p, q) == <<(p[1] + q[1]) % 5, (p[2] + q[2]) % 5>>

\* The transforms are each other's inverses, and products of transforms are
\* transforms of products modulo x^2 + 1.
Negacyclic(p, q) == <<(p[1] * q[1] + 4 * p[2] * q[2]) % 5,
                      (p[1] * q[2] + p[2] * q[1]) % 5>>
ASSUME RingAssumption ==
    \A p, q \in MCPoly : /\ MCIntt(MCNtt(p)) = p
                         /\ MCIntt(MCMul(MCNtt(p), MCNtt(q))) = Negacyclic(p, q)

=============================================================================
