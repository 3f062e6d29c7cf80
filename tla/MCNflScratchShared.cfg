SPECIFICATION Spec
CONSTANTS
    Thread = {s1, s2}
    Poly <- MCPoly
    Operand <- MCOperand
    Ntt <- MCNtt
    Intt <- MCIntt
    Mul <- MCMul
    Add <- MCAdd
INVARIANTS
    PrimitivesAreRight
SYMMETRY Symmetry
