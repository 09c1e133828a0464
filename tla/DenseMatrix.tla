---------------------------- MODULE DenseMatrix ----------------------------
(***************************************************************************)
(* The functions of src/src/dense_matrix.cpp, for matrices of numbers.  A  *)
(* matrix is a record of its dimensions and a function from the cells      *)
(* <<row, column>>, counted from 0; the vector m_ holds them row by row.   *)
(* An output parameter is the result.  A cell read outside of the vector   *)
(* is Garbage: the callers of the model stay away from it where the code   *)
(* does not check.                                                         *)
(***************************************************************************)
EXTENDS Numbers, Sequences, SequencesExt

Fill(row, col, Cell(_, _)) ==
  [row |-> row, col |-> col,
   m |-> [c \in (0..row-1) \X (0..col-1) |-> Cell(c[1], c[2])]]
With(A, cells) == [A EXCEPT !.m = cells]
Upto(n) == [i \in 1..n |-> i - 1]               \* 0, ..., n - 1
Downfrom(n) == [i \in 1..n |-> n - i]           \* n - 1, ..., 0
Identity(n) == Fill(n, n, LAMBDA i, j : IF i = j THEN one ELSE zero)
ZeroColumn(n) == Fill(n, 1, LAMBDA i, j : zero)
-----------------------------------------------------------------------------
(* Arithmetic of the elements *)

neg(x) == mulnum(minus_one, x)
sub(x, y) == addnum(x, neg(y))
\* The product with the power -1, which of zero is zero.
div(x, y) == IF is_zero(y) THEN zero ELSE divnum(x, y)

RECURSIVE IsSquare(_, _)
IsSquare(n, i) == i * i = n \/ (i * i < n /\ IsSquare(n, i + 1))
SquareRoot(n) == CHOOSE i \in 0..n : i * i = n
\* The power 1/2 of the square of an integer; another root is no number.
Surd == [t |-> "Surd"]
root(x) ==
  IF x.n < 0 \/ ~is_Integer(x) \/ ~IsSquare(x.n, 0) THEN Surd
  ELSE Integer(SquareRoot(x.n))

\* zero + t(0) + ... + t(n - 1), from the left.
SumTo(n, T(_)) == FoldLeft(LAMBDA s, k : addnum(s, T(k)), zero, Upto(n))
-----------------------------------------------------------------------------
(* Constructors and element-wise operations *)

add_dense_dense(A, B) == Fill(A.row, A.col, LAMBDA i, j : addnum(A.m[i, j], B.m[i, j]))
add_dense_scalar(A, k) == Fill(A.row, A.col, LAMBDA i, j : addnum(A.m[i, j], k))
mul_dense_scalar(A, k) == Fill(A.row, A.col, LAMBDA i, j : mulnum(A.m[i, j], k))
mul_dense_dense(A, B) ==
  Fill(A.row, B.col, LAMBDA r, c : SumTo(A.col, LAMBDA k : mulnum(A.m[r, k], B.m[k, c])))
transpose_dense(A) == Fill(A.col, A.row, LAMBDA i, j : A.m[j, i])
submatrix_dense(A, row_start, row_end, col_start, col_end) ==
  Fill(row_end - row_start + 1, col_end - col_start + 1,
       LAMBDA i, j : A.m[row_start + i, col_start + j])
is_symmetric_dense(A) ==
  A.row = A.col /\ \A c \in DOMAIN A.m : A.m[c] = A.m[c[2], c[1]]

\* The k-th diagonal above the main one, or below it for k < 0.
diag(v, k) ==
  LET n == Len(v) + Abs(k)
  IN  Fill(n, n, LAMBDA i, j : IF j = i + k THEN v[(IF k >= 0 THEN i ELSE j) + 1] ELSE zero)
\* The number of rows decides, or the number of columns for k > 0: the result
\* is always square.
eye(n, cols, k) ==
  LET M == IF cols = 0 THEN n ELSE cols
  IN  diag([i \in 1..(IF k > 0 THEN M - k ELSE n + k) |-> one], k)
ones(row, col) == Fill(row, col, LAMBDA i, j : one)
zeros(row, col) == Fill(row, col, LAMBDA i, j : zero)
-----------------------------------------------------------------------------
(* Rows *)

row_exchange_dense(A, i, j) ==
  With(A, [c \in DOMAIN A.m |->
             A.m[IF c[1] = i THEN j ELSE IF c[1] = j THEN i ELSE c[1], c[2]]])
row_mul_scalar_dense(A, i, x) ==
  With(A, [c \in DOMAIN A.m |-> IF c[1] = i THEN mulnum(x, A.m[c]) ELSE A.m[c]])
row_add_row_dense(A, i, j, x) ==
  With(A, [c \in DOMAIN A.m |->
             IF c[1] = i THEN addnum(A.m[c], mulnum(x, A.m[j, c[2]])) ELSE A.m[c]])

\* The first row from r on whose element in column c is not zero, or the
\* number of rows.
pivot(B, r, c) ==
  LET rows == {k \in r..(B.row - 1) : ~is_zero(B.m[k, c])}
  IN  IF rows = {} THEN B.row ELSE CHOOSE k \in rows : \A h \in rows : k <= h
-----------------------------------------------------------------------------
(* Elimination *)

\* Mutant of CrossStep: the pivot of the column before is not divided out.
CrossStepUndivided(B, i, rows, from, d) ==
  LET Cross(j, k) == sub(mulnum(B.m[i, i], B.m[j, k]), mulnum(B.m[j, i], B.m[i, k]))
  IN  With(B, [c \in DOMAIN B.m |->
                 IF c[1] \notin rows \/ c[2] < from THEN B.m[c]
                 ELSE IF c[2] = i THEN zero ELSE Cross(c[1], c[2])])
\* The step of the fraction-free eliminations at the pivot <<i, i>>: the rows of
\* "rows", from column "from" on; zeros under (or over) the pivot.
CrossStep(B, i, rows, from, d) ==
  LET Cross(j, k) == sub(mulnum(B.m[i, i], B.m[j, k]), mulnum(B.m[j, i], B.m[i, k]))
  IN  With(B, [c \in DOMAIN B.m |->
                 IF c[1] \notin rows \/ c[2] < from THEN B.m[c]
                 ELSE IF c[2] = i THEN zero
                 ELSE IF i > 0 THEN div(Cross(c[1], c[2]), d) ELSE Cross(c[1], c[2])])
\* The pivot of the column before.
Previous(B, i) == IF i > 0 THEN B.m[i - 1, i - 1] ELSE one
Below(B, i) == (i + 1)..(B.row - 1)
Others(B, i) == (0..(B.row - 1)) \ {i}

GaussStep(B, i) == CrossStep(B, i, Below(B, i), i, Previous(B, i))
\* With more columns than rows, a column without rows below changes nothing.
fraction_free_gaussian_elimination(A) ==
  FoldLeft(LAMBDA B, i : IF Below(B, i) = {} THEN B ELSE GaussStep(B, i), A, Upto(A.col - 1))

JordanStep(B, i) == CrossStep(B, i, Others(B, i), 0, Previous(B, i))
fraction_free_gauss_jordan_elimination(A) == FoldLeft(JordanStep, A, Upto(A.col))

\* The loop of the eliminations with pivots: st has the matrix, the row of the
\* next pivot and the order of the rows.
WithPivot(st, i, Step(_, _, _)) ==
  LET k == pivot(st.B, st.index, i)
      B == IF k = st.index THEN st.B ELSE row_exchange_dense(st.B, k, st.index)
      list == [st.list EXCEPT ![k] = st.list[st.index], ![st.index] = st.list[k]]
  IN  IF st.index = st.B.row \/ k = st.B.row THEN st
      ELSE [B |-> Step(B, st.index, i), index |-> st.index + 1, list |-> list]
Pivoting(A, cols, Step(_, _, _)) ==
  FoldLeft(LAMBDA st, i : WithPivot(st, i, Step),
           [B |-> A, index |-> 0, list |-> [r \in 0..(A.row - 1) |-> r]], Upto(cols))

\* The rows after row i, of the pivot's column, are reduced with row i; the
\* pivot is in row index.
EliminateBelow(B, index, i) ==
  LET S == row_mul_scalar_dense(B, index, div(one, B.m[index, i]))
  IN  With(S, [c \in DOMAIN S.m |->
                 IF c[1] <= i \/ c[2] < i THEN S.m[c]
                 ELSE IF c[2] = i THEN zero
                 ELSE sub(S.m[c], mulnum(S.m[c[1], i], S.m[i, c[2]]))])
pivoted_gaussian_elimination(A) == Pivoting(A, A.col - 1, EliminateBelow)

pivoted_fraction_free_gaussian_elimination(A) ==
  Pivoting(A, A.col - 1, LAMBDA B, index, i : IF Below(B, i) = {} THEN B ELSE GaussStep(B, i))

EliminateOthers(B, index, i) ==
  LET S == row_mul_scalar_dense(B, index, div(one, B.m[index, i]))
  IN  FoldLeft(LAMBDA T, j : IF j = index THEN T
                             ELSE row_add_row_dense(T, j, index, neg(T.m[j, i])),
               S, Upto(B.row))
pivoted_gauss_jordan_elimination(A) == Pivoting(A, A.col, EliminateOthers)

pivoted_fraction_free_gauss_jordan_elimination(A) ==
  Pivoting(A, A.col, LAMBDA B, index, i : JordanStep(B, i))
-----------------------------------------------------------------------------
(* Solutions of A x = b *)

diagonal_solve(A, b) == Fill(A.col, 1, LAMBDA i, j : div(b.m[i, 0], A.m[i, i]))

\* Column k of the right side, from the last row up.
BackColumn(U, b, k) ==
  FoldLeft(LAMBDA x, i :
             With(x, [x.m EXCEPT ![i, k] =
               div(FoldLeft(LAMBDA s, j : sub(s, mulnum(U.m[i, j], x.m[j, k])), x.m[i, k],
                            [h \in 1..(U.col - 1 - i) |-> i + h]),
                   U.m[i, i])]),
           b, Downfrom(U.col))
back_substitution(U, b) == BackColumn(U, b, 0)

\* The elimination's steps on the right side, with what the factor A kept.
ForwardStep(A, x, i) ==
  With(x, [c \in DOMAIN x.m |->
             LET t == sub(mulnum(A.m[i, i], x.m[c]), mulnum(A.m[c[1], i], x.m[i, c[2]]))
             IN  IF c[1] <= i THEN x.m[c] ELSE IF i > 0 THEN div(t, A.m[i - 1, i - 1]) ELSE t])
forward_substitution(A, b) ==
  FoldLeft(LAMBDA x, i : ForwardStep(A, x, i), b, Upto(A.col - 1))

\* Both sides take a step before the next one.
fraction_free_gaussian_elimination_solve(A, b) ==
  LET done == FoldLeft(LAMBDA st, i : <<GaussStep(st[1], i), ForwardStep(st[1], st[2], i)>>,
                       <<A, b>>, Upto(A.col - 1))
  IN  FoldLeft(LAMBDA x, k : BackColumn(done[1], x, k), done[2], Upto(b.col))

JordanRight(A, b, i) ==
  With(b, [c \in DOMAIN b.m |->
             LET t == sub(mulnum(A.m[i, i], b.m[c]), mulnum(A.m[c[1], i], b.m[i, c[2]]))
             IN  IF c[1] = i THEN b.m[c] ELSE IF i > 0 THEN div(t, Previous(A, i)) ELSE t])
fraction_free_gauss_jordan_solve(A, b) ==
  LET done == FoldLeft(LAMBDA st, i : <<JordanStep(st[1], i), JordanRight(st[1], st[2], i)>>,
                       <<A, b>>, Upto(A.col))
  IN  With(b, [c \in DOMAIN b.m |-> div(done[2].m[c], done[1].m[c[1], c[1]])])
-----------------------------------------------------------------------------
(* Decompositions *)

\* The elements under the diagonal stay.
fraction_free_LU(A) ==
  FoldLeft(LAMBDA B, i : LET S == CrossStep(B, i, Below(B, i), i, Previous(B, i))
                         IN  With(S, [c \in DOMAIN S.m |-> IF c[2] = i THEN B.m[c] ELSE S.m[c]]),
           A, Upto(A.row - 1))
fraction_free_LU_solve(A, b) ==
  LET F == fraction_free_LU(A) IN back_substitution(F, forward_substitution(F, b))

\* Column j of both factors in one matrix, from the top down.
LUColumn(U, j) ==
  LET Reduced == FoldLeft(LAMBDA V, i :
                   With(V, [V.m EXCEPT ![i, j] =
                     FoldLeft(LAMBDA s, k : sub(s, mulnum(V.m[i, k], V.m[k, j])), V.m[i, j],
                              Upto(IF i < j THEN i ELSE j))]),
                   U, Upto(U.row))
  IN  With(U, [c \in DOMAIN U.m |->
                 IF c[2] = j /\ c[1] > j THEN mulnum(Reduced.m[c], div(one, Reduced.m[j, j]))
                 ELSE Reduced.m[c]])
LU(A) ==
  LET B == FoldLeft(LUColumn, A, Upto(A.row))
  IN  [L |-> Fill(A.row, A.row, LAMBDA i, j : IF j < i THEN B.m[i, j] ELSE IF i = j THEN one ELSE zero),
       U |-> Fill(A.row, A.row, LAMBDA i, j : IF j < i THEN zero ELSE B.m[i, j])]
LU_solve(A, b) ==
  LET F == LU(A) IN back_substitution(F.U, forward_substitution(F.L, b))

\* A step at k of the decomposition of a square matrix: the pivots before it
\* are divided out.
LDUStep(st, k) ==
  [L   |-> With(st.L, [c \in DOMAIN st.L.m |->
                 IF c[2] = k /\ c[1] >= k THEN st.U.m[c] ELSE st.L.m[c]]),
   D   |-> With(st.D, [st.D.m EXCEPT ![k, k] = mulnum(st.old, st.U.m[k, k])]),
   U   |-> With(st.U, [c \in DOMAIN st.U.m |->
                 IF c[1] <= k \/ c[2] < k THEN st.U.m[c]
                 ELSE IF c[2] = k THEN zero
                 ELSE div(sub(mulnum(st.U.m[k, k], st.U.m[c]),
                              mulnum(st.U.m[k, c[2]], st.U.m[c[1], k])), st.old)]),
   old |-> st.U.m[k, k]]
fraction_free_LDU(A) ==
  LET n == A.row
      st == FoldLeft(LDUStep, [L |-> Identity(n), D |-> zeros(n, n), U |-> A, old |-> one], Upto(n - 1))
  IN  [L |-> st.L, D |-> With(st.D, [st.D.m EXCEPT ![n - 1, n - 1] = st.old]), U |-> st.U]

\* Row i of L, from the left, and the diagonal.
LDLEntry(A, st, i, j) ==
  LET s == SumTo(j, LAMBDA k : mulnum(mulnum(st.L.m[i, k], st.L.m[j, k]), st.D.m[k, k]))
  IN  [st EXCEPT !.L.m[i, j] = mulnum(div(one, st.D.m[j, j]), sub(A.m[i, j], s))]
LDLRow(A, st, i) ==
  LET row == FoldLeft(LAMBDA r, j : LDLEntry(A, r, i, j), st, Upto(i))
      s == SumTo(i, LAMBDA k : mulnum(mulnum(row.L.m[i, k], row.L.m[i, k]), row.D.m[k, k]))
  IN  [row EXCEPT !.D.m[i, i] = sub(A.m[i, i], s)]
LDL(A) ==
  FoldLeft(LAMBDA st, i : LDLRow(A, st, i),
           [L |-> Identity(A.row), D |-> zeros(A.row, A.row)], Upto(A.row))
NotSymmetric == [error |-> "Matrix must be symmetric"]
LDL_solve(A, b) ==
  LET F == LDL(A)
  IN  IF ~is_symmetric_dense(A) THEN NotSymmetric
      ELSE back_substitution(transpose_dense(F.L),
                             diagonal_solve(F.D, forward_substitution(F.L, b)))

CholeskyRow(A, L, i) ==
  LET Entry(M, j) ==
        LET s == SumTo(j, LAMBDA k : mulnum(M.m[i, k], M.m[j, k]))
        IN  [M EXCEPT !.m[i, j] = mulnum(div(one, M.m[j, j]), sub(A.m[i, j], s))]
      row == FoldLeft(Entry, L, Upto(i))
      s == SumTo(i, LAMBDA k : mulnum(row.m[i, k], row.m[i, k]))
  IN  [row EXCEPT !.m[i, i] = root(sub(A.m[i, i], s))]
cholesky(A) == FoldLeft(LAMBDA L, i : CholeskyRow(A, L, i), zeros(A.row, A.row), Upto(A.row))

\* Gram and Schmidt: column j of both factors.
QRColumn(A, st, j) ==
  LET Column(k) == A.m[k, j]
      Along(i) == SumTo(A.row, LAMBDA k : mulnum(Column(k), st.Q.m[k, i]))
      Rest(k) == FoldLeft(LAMBDA s, i : sub(s, mulnum(st.Q.m[k, i], Along(i))), Column(k), Upto(j))
      tmp == [k \in 0..(A.row - 1) |-> Rest(k)]
      norm == root(SumTo(A.row, LAMBDA k : mulnum(tmp[k], tmp[k])))
  IN  [Q |-> With(st.Q, [c \in DOMAIN st.Q.m |-> IF c[2] = j THEN div(tmp[c[1]], norm) ELSE st.Q.m[c]]),
       R |-> With(st.R, [c \in DOMAIN st.R.m |->
                   IF c = <<j, j>> THEN norm
                   ELSE IF c[2] = j /\ c[1] < j THEN Along(c[1]) ELSE st.R.m[c]])]
QR(A) ==
  FoldLeft(LAMBDA st, j : QRColumn(A, st, j),
           [Q |-> zeros(A.row, A.col), R |-> zeros(A.col, A.col)], Upto(A.col))
-----------------------------------------------------------------------------
(* Determinants and inverses *)

\* Mutant of BareisStep: an exchange of rows leaves the sign alone.
BareisStepUnsigned(st, k) ==
  LET p == pivot(st.B, k, k)
      B == IF p = k THEN st.B ELSE row_exchange_dense(st.B, p, k)
  IN  IF st.sign = 0 \/ p = st.B.row THEN [B |-> st.B, sign |-> 0]
      ELSE [B |-> CrossStep(B, k, Below(B, k), k, Previous(B, k)), sign |-> st.sign]
\* The elimination of Bareiss; st has the sign of the row exchanges, 0 when a
\* column has no pivot.
BareisStep(st, k) ==
  LET p == pivot(st.B, k, k)
      B == IF p = k THEN st.B ELSE row_exchange_dense(st.B, p, k)
      S == CrossStep(B, k, Below(B, k), k, Previous(B, k))
  IN  IF st.sign = 0 \/ p = st.B.row THEN [B |-> st.B, sign |-> 0]
      ELSE [B |-> S, sign |-> IF p = k THEN st.sign ELSE -st.sign]
det_bareis(A) ==
  LET a(i, j) == A.m[i, j]
      Times3(x, y, z) == mulnum(mulnum(x, y), z)
      n == A.row
      done == FoldLeft(BareisStep, [B |-> A, sign |-> 1], Upto(n - 1))
  IN  IF n = 1 THEN a(0, 0)
      ELSE IF n = 2 THEN sub(mulnum(a(0, 0), a(1, 1)), mulnum(a(0, 1), a(1, 0)))
      ELSE IF n = 3
      THEN sub(addnum(addnum(Times3(a(0, 0), a(1, 1), a(2, 2)), Times3(a(0, 1), a(1, 2), a(2, 0))),
                      Times3(a(0, 2), a(1, 0), a(2, 1))),
               addnum(addnum(Times3(a(0, 2), a(1, 1), a(2, 0)), Times3(a(0, 1), a(1, 0), a(2, 2))),
                      Times3(a(0, 0), a(1, 2), a(2, 1))))
      ELSE IF done.sign = 0 THEN zero
      ELSE IF done.sign = 1 THEN done.B.m[n - 1, n - 1] ELSE neg(done.B.m[n - 1, n - 1])

\* The entries of Toeplitz matrix n: 1, -a, -R C, -R M C, ... for the minor M of
\* order n - 1 with the column C on its right and the row R under it.
ToeplitzItems(A, n) ==
  LET k == n - 1
      M == submatrix_dense(A, 0, k - 1, 0, k - 1)
      C == submatrix_dense(A, 0, k - 1, k, k)
      R == submatrix_dense(A, k, k, 0, k - 1)
      Times(j) == FoldLeft(LAMBDA v, i : mul_dense_dense(M, v), C, Upto(j))
  IN  <<one, neg(A.m[k, k])>> \o [i \in 1..(n - 1) |-> neg(mul_dense_dense(R, Times(i - 1)).m[0, 0])]
Toeplitz(A, n) ==
  LET items == ToeplitzItems(A, n)
  IN  Fill(n + 1, n, LAMBDA i, j : IF i >= j THEN items[i - j + 1] ELSE zero)
\* The characteristic polynomials of the leading minors, as columns.
berkowitz(A) ==
  FoldLeft(LAMBDA polys, n : Append(polys, mul_dense_dense(Toeplitz(A, n), Last(polys))),
           <<Fill(2, 1, LAMBDA i, j : IF i = 0 THEN one ELSE neg(A.m[0, 0]))>>,
           [i \in 1..(A.row - 1) |-> i + 1])
det_berkowitz(A) ==
  LET poly == Last(berkowitz(A))
      c == poly.m[poly.row - 1, 0]
  IN  IF Len(berkowitz(A)) % 2 = 1 THEN neg(c) ELSE c
char_poly(A) == Last(berkowitz(A))

\* The columns that solve A x = e for the columns e of the identity.
ByColumns(n, Solve(_)) ==
  LET column == [j \in 0..(n - 1) |-> Solve(Fill(n, 1, LAMBDA i, k : IF i = j THEN one ELSE zero))]
  IN  Fill(n, n, LAMBDA i, j : column[j].m[i, 0])
inverse_fraction_free_LU(A) ==
  LET F == fraction_free_LU(A)
  IN  ByColumns(A.row, LAMBDA e : back_substitution(F, forward_substitution(F, e)))
inverse_LU(A) ==
  LET F == LU(A)
  IN  ByColumns(A.row, LAMBDA e : back_substitution(F.U, forward_substitution(F.L, e)))
inverse_gauss_jordan(A) == fraction_free_gauss_jordan_solve(A, Identity(A.row))
=============================================================================
