------------------------------- MODULE Matrix -------------------------------
(***************************************************************************)
(* What a sparse matrix class promises, with no storage format in sight:   *)
(* a program with a matrix a and an operand b that it fills, and combines  *)
(* with a.  Module CSRMatrix implements this one (property MatrixSpec).    *)
(***************************************************************************)
EXTENDS Integers, Sequences

CONSTANTS Row, Col,    \* the dimensions
          Values,      \* the numbers that set() is given
          Scales,      \* the factors that rows and columns are scaled by
          Triplets     \* the lists of triplets that a matrix is made from

Rows == 0..Row-1
Cols == 0..Col-1

VARIABLES a, b         \* [Rows \X Cols -> Int]

vars == <<a, b>>

Zero == [c \in Rows \X Cols |-> 0]

\* Triplets for the same cell are added up.
FromTriplets(coo) ==
  LET sums[n \in 0..Len(coo)] ==
        IF n = 0 THEN Zero ELSE [sums[n - 1] EXCEPT ![<<coo[n].i, coo[n].j>>] = @ + coo[n].x]
  IN  sums[Len(coo)]

Init == a = Zero /\ b = Zero

\* Scaling stops, with an exception, at the first row with the factor zero:
\* the rows before it are scaled.  Columns are scaled all or none.
RowsScaled(m, X) ==
  LET Factor(i) == IF \A k \in 0..i : X[k] # 0 THEN X[i] ELSE 1
  IN  [c \in DOMAIN m |-> m[c] * Factor(c[1])]
ColumnsScaled(m, X) ==
  IF \E k \in Cols : X[k] = 0 THEN m ELSE [c \in DOMAIN m |-> m[c] * X[c[2]]]

\* An operation that uses the operand up.
UseOperand ==
  /\ b' = Zero
  /\ \/ a' = b
     \/ a' = [c \in Rows \X Cols |-> a[c] + b[c]]
     \/ a' = [c \in Rows \X Cols |-> a[c] - b[c]]
     \/ a' = [c \in Rows \X Cols |-> a[c] * b[c]]

ChangeMatrix ==
  /\ UNCHANGED b
  /\ \/ \E c \in Rows \X Cols, v \in Values : a' = [a EXCEPT ![c] = v]
     \/ \E X \in [Rows -> Scales] : a' = RowsScaled(a, X)
     \/ \E X \in [Cols -> Scales] : a' = ColumnsScaled(a, X)

FillOperand ==
  /\ UNCHANGED a
  /\ \E coo \in Triplets : b' = FromTriplets(coo)

Next == UseOperand \/ ChangeMatrix \/ FillOperand

Spec == Init /\ [][Next]_vars
=============================================================================
