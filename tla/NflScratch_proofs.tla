-------------------------- MODULE NflScratch_proofs --------------------------
(***************************************************************************)
(* UndisturbedIsRight for any number of threads and any operations.  The    *)
(* inductive invariant says what the scratch of an undisturbed primitive    *)
(* holds after each of its steps.                                           *)
(***************************************************************************)
EXTENDS NflScratch, TLAPS

\* The scratch of a primitive that still has it to itself.
Progress(t) ==
    /\ pc[t] = "loadA" => op[t] \in Transforms \cup Products
    /\ pc[t] = "loadB" => op[t] \in Products /\ resa = x[t]
    /\ pc[t] = "compute" =>
        /\ resa = x[t]
        /\ op[t] \in Products => resb = y[t]
    /\ pc[t] = "store" =>
        IF op[t] \in Transforms THEN resa = Transformed(op[t], x[t])
                                ELSE resc = Combined(op[t], x[t], y[t])

IInv ==
    /\ TypeOK
    /\ UndisturbedIsRight
    /\ \A t \in Thread : pc[t] # "idle" => op[t] # "none"
    /\ \A t \in Thread : ~disturbed[t] => Progress(t)

\* The scratch and the locals of a thread keep their types: what the NFLlib
\* operations return is again a polynomial.
THEOREM ScratchTypeCorrect == Spec => []TypeOK
<1>1. Init => TypeOK
  BY OperandAssumption DEF Init, TypeOK
<1>2. TypeOK /\ [Next]_vars => TypeOK'
  <2> SUFFICES ASSUME TypeOK, [Next]_vars
               PROVE  TypeOK'
    OBVIOUS
  <2> USE DEF TypeOK
  <2>1. ASSUME NEW t \in Thread, NEW o \in Transforms \cup Products,
               NEW p \in Operand, NEW q \in Operand, Call(t, o, p, q)
        PROVE  TypeOK'
    BY <2>1, OperandAssumption DEF Call, scratch
  <2>2. ASSUME NEW t \in Thread, LoadA(t)
        PROVE  TypeOK'
    BY <2>2, OperandAssumption DEF LoadA, Disturb
  <2>3. ASSUME NEW t \in Thread, LoadB(t)
        PROVE  TypeOK'
    BY <2>3, OperandAssumption DEF LoadB, Disturb
  <2>4. ASSUME NEW t \in Thread, Transform(t)
        PROVE  TypeOK'
    BY <2>4, ClosedAssumption DEF Transform, Disturb, Transformed
  <2>5. ASSUME NEW t \in Thread, Combine(t)
        PROVE  TypeOK'
    BY <2>5, ClosedAssumption DEF Combine, Disturb, Combined
  <2>6. ASSUME NEW t \in Thread, Store(t)
        PROVE  TypeOK'
    BY <2>6 DEF Store, scratch
  <2>7. CASE UNCHANGED vars
    BY <2>7 DEF vars
  <2>8. QED
    BY <2>1, <2>2, <2>3, <2>4, <2>5, <2>6, <2>7 DEF Next
<1>3. QED
  BY <1>1, <1>2, PTL DEF Spec

\* A primitive that had the scratch to itself returned what it is for.
THEOREM UndisturbedPrimitives == Spec => []UndisturbedIsRight
<1>1. Init => IInv
  BY OperandAssumption
     DEF Init, IInv, TypeOK, UndisturbedIsRight, Returned, Progress
<1>2. TypeOK' /\ IInv /\ [Next]_vars => IInv'
  <2> SUFFICES ASSUME IInv, [Next]_vars, TypeOK'
               PROVE  IInv'
    OBVIOUS
  <2> USE DEF IInv, TypeOK, UndisturbedIsRight, Returned, Progress,
              Transforms, Products
  <2>1. ASSUME NEW t \in Thread, NEW o \in Transforms \cup Products,
               NEW p \in Operand, NEW q \in Operand, Call(t, o, p, q)
        PROVE  IInv'
    BY <2>1 DEF Call, scratch
  <2>2. ASSUME NEW t \in Thread, LoadA(t)
        PROVE  IInv'
    BY <2>2 DEF LoadA, Disturb
  <2>3. ASSUME NEW t \in Thread, LoadB(t)
        PROVE  IInv'
    BY <2>3 DEF LoadB, Disturb
  <2>4. ASSUME NEW t \in Thread, Transform(t)
        PROVE  IInv'
    BY <2>4 DEF Transform, Disturb
  <2>5. ASSUME NEW t \in Thread, Combine(t)
        PROVE  IInv'
    BY <2>5 DEF Combine, Disturb
  <2>6. ASSUME NEW t \in Thread, Store(t)
        PROVE  IInv'
    BY <2>6 DEF Store, scratch, Apply
  <2>7. CASE UNCHANGED vars
    BY <2>7 DEF vars
  <2>8. QED
    BY <2>1, <2>2, <2>3, <2>4, <2>5, <2>6, <2>7 DEF Next
<1>3. IInv => UndisturbedIsRight
  BY DEF IInv
<1>4. QED
  BY <1>1, <1>2, <1>3, ScratchTypeCorrect, PTL DEF Spec

=============================================================================
