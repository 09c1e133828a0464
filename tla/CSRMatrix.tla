------------------------------ MODULE CSRMatrix ------------------------------
(***************************************************************************)
(* Sparse matrices in compressed row format: class CSRMatrix and the       *)
(* csr_ functions of src/src/sparse_matrix.cpp.                            *)
(*                                                                         *)
(* A matrix is a record: p is the vector p_ (where each row starts), e the *)
(* vectors j_ and x_, which are always read and written together: e[k+1]   *)
(* is the pair of j_[k] and x_[k].  Rows, columns and p count from 0, as   *)
(* in the code.  The elements are integers.                                *)
(***************************************************************************)
EXTENDS Integers, Sequences, SequencesExt, FiniteSetsExt

CONSTANTS Row, Col,    \* the dimensions of all matrices: row_ and col_
          Values,      \* the numbers that set() is given
          Scales,      \* the factors that rows and columns are scaled by
          Triplets,    \* the lists of triplets that from_coo is given
          MaxValue,    \* bound on the elements of A
          MaxStored    \* bound on the number of stored elements of A

ASSUME SizeAssumption == Row \in Nat \ {0} /\ Col \in Nat \ {0}
ASSUME ElementAssumption == Values \subseteq Int /\ Scales \subseteq Int
ASSUME TripletAssumption == Triplets \subseteq Seq([i : 0..Row-1, j : 0..Col-1, x : Int])

VARIABLES A, B,        \* the matrix of the program, and an operand
          crashed      \* it has read memory outside of a vector, and is gone

vars == <<A, B, crashed>>

Rows == 0..Row-1
Cols == 0..Col-1

Entry(j, x) == [j |-> j, x |-> x]
Zero == [p |-> [i \in 0..Row |-> 0], e |-> <<>>]   \* CSRMatrix(row, col)

\* The matrix whose rows hold the given entries: p_ is a running total.
FromRows(rows) ==
  LET p[i \in 0..Row] == IF i = 0 THEN 0 ELSE p[i - 1] + Len(rows[i])
      e[i \in 0..Row] == IF i = 0 THEN <<>> ELSE e[i - 1] \o rows[i]
  IN  [p |-> p, e |-> e[Row]]
RowEntries(M, i) == SubSeq(M.e, M.p[i] + 1, M.p[i + 1])
MapRows(M, Op(_)) == FromRows([i \in 1..Row |-> Op(RowEntries(M, i - 1))])
-----------------------------------------------------------------------------
(* get and set *)

\* Where the scan of row i for column j ends: the first entry not before j.
Position(M, i, j) ==
  Min({k \in M.p[i]..M.p[i + 1] : k < M.p[i + 1] => M.e[k + 1].j >= j})

get(M, i, j) ==
  LET k == Position(M, i, j)
  IN  IF k < M.p[i + 1] /\ M.e[k + 1].j = j THEN M.e[k + 1].x ELSE 0

\* The rows after row i start n entries later.
Shift(p, i, n) == [l \in DOMAIN p |-> IF l > i THEN p[l] + n ELSE p[l]]

set(M, i, j, v) ==
  LET k == Position(M, i, j)
      stored == k < M.p[i + 1] /\ M.e[k + 1].j = j
  IN  CASE v # 0 /\ stored  -> [M EXCEPT !.e[k + 1].x = v]
        [] v # 0 /\ ~stored ->
             [p |-> Shift(M.p, i, 1), e |-> InsertAt(M.e, k + 1, Entry(j, v))]
        [] v = 0 /\ stored  ->
             [p |-> Shift(M.p, i, -1), e |-> RemoveAt(M.e, k + 1)]
        [] OTHER                     -> M

\* Mutant of eq: compares the row starts and the columns only.
eq_no_values(M, N) ==
  M.p = N.p /\ \A k \in 1..M.p[Row] : M.e[k].j = N.e[k].j
eq(M, N) == M.p = N.p /\ \A k \in 1..M.p[Row] : M.e[k] = N.e[k]
-----------------------------------------------------------------------------
(* The format tests.  Both compare neighbours in a row, up to p_[i+1] - 1; *)
(* that is unsigned, so where p_[i+1] is 0 (the first rows are empty) the  *)
(* scan runs over all rows and then out of the vectors.                    *)

WildScan(M) == \E i \in Rows : M.p[i + 1] = 0
Scanned(M) ==
  UNION {IF M.p[i + 1] = 0 THEN 1..(Len(M.e) - 1) ELSE (M.p[i] + 1)..(M.p[i + 1] - 1) : i \in Rows}

\* The answers of a scan that finds the neighbours it looks for, or does not.
Answers(M, found) == IF ~found /\ WildScan(M) THEN BOOLEAN ELSE {found}

csr_has_duplicates(M) == Answers(M, \E k \in Scanned(M) : M.e[k].j = M.e[k + 1].j)
\* not csr_has_sorted_indices
Unsorted(M) == Answers(M, \E k \in Scanned(M) : M.e[k].j > M.e[k + 1].j)

is_canonical(M) ==
  IF M.p[Row] = 0 THEN {TRUE}
  ELSE {~u /\ ~d : u \in Unsorted(M), d \in csr_has_duplicates(M)}
-----------------------------------------------------------------------------
(* from_coo *)

\* The triplets in the rows they are for.
Buckets(coo) ==
  LET rows[n \in 0..Len(coo)] ==
        IF n = 0 THEN [i \in 1..Row |-> <<>>]
        ELSE [rows[n - 1] EXCEPT ![coo[n].i + 1] = Append(@, Entry(coo[n].j, coo[n].x))]
  IN  rows[Len(coo)]

\* An ascending row with one entry more, after those of its column.
InOrder(row, entry) ==
  InsertAt(row, Max({0} \cup {k \in DOMAIN row : row[k].j <= entry.j}) + 1, entry)

\* What std::sort makes of a row.  It may also leave the entries of a column in
\* another order, which is the same to who adds them up.
SortedRow(row) ==
  LET sorted[n \in 0..Len(row)] == IF n = 0 THEN <<>> ELSE InOrder(sorted[n - 1], row[n])
  IN  sorted[Len(row)]
csr_sort_indices(M) == MapRows(M, SortedRow)

\* An entry comes to a row whose runs are summed.
AddEntry(row, entry) ==
  IF row # <<>> /\ row[Len(row)].j = entry.j
    THEN [row EXCEPT ![Len(row)].x = @ + entry.x]
    ELSE Append(row, entry)
SumRuns(row) ==
  LET summed[n \in 0..Len(row)] == IF n = 0 THEN <<>> ELSE AddEntry(summed[n - 1], row[n])
  IN  summed[Len(row)]
csr_sum_duplicates(M) == MapRows(M, SumRuns)

\* Mutant of from_coo: relies on the order of the triplets.
from_coo_unsorted(coo) == csr_sum_duplicates(FromRows(Buckets(coo)))
from_coo(coo) == csr_sum_duplicates(csr_sort_indices(FromRows(Buckets(coo))))
-----------------------------------------------------------------------------
(* csr_binop_csr_canonical *)

\* The function bin_op: add, sub or mul.
Apply(op, x, y) ==
  CASE op = "add" -> x + y
    [] op = "sub" -> x - y
    [] op = "mul" -> x * y

\* Mutant of Merge: stores the results that are zero.
MergeKeepZeros(op, r, s, w) ==
  LET left == w.m <= Len(r) /\ (w.n <= Len(s) => r[w.m].j <= s[w.n].j)
      right == w.n <= Len(s) /\ (w.m <= Len(r) => s[w.n].j <= r[w.m].j)
      v == Apply(op, IF left THEN r[w.m].x ELSE 0, IF right THEN s[w.n].x ELSE 0)
  IN  [m |-> IF left THEN w.m + 1 ELSE w.m,
       n |-> IF right THEN w.n + 1 ELSE w.n,
       row |-> IF ~left /\ ~right THEN w.row
               ELSE Append(w.row, Entry(IF left THEN r[w.m].j ELSE s[w.n].j, v))]

\* One step of a walk through two rows: m and n are the next places in them,
\* row is what has been stored.  After the end of both, nothing happens.
Merge(op, r, s, w) ==
  LET left == w.m <= Len(r) /\ (w.n <= Len(s) => r[w.m].j <= s[w.n].j)
      right == w.n <= Len(s) /\ (w.m <= Len(r) => s[w.n].j <= r[w.m].j)
      v == Apply(op, IF left THEN r[w.m].x ELSE 0, IF right THEN s[w.n].x ELSE 0)
  IN  [m |-> IF left THEN w.m + 1 ELSE w.m,
       n |-> IF right THEN w.n + 1 ELSE w.n,
       row |-> IF v = 0 THEN w.row
               ELSE Append(w.row, Entry(IF left THEN r[w.m].j ELSE s[w.n].j, v))]

\* Two rows walked side by side, to the end of the longer one.
MergeRows(op, r, s) ==
  LET walk[k \in 0..Len(r) + Len(s)] ==
        IF k = 0 THEN [m |-> 1, n |-> 1, row |-> <<>>] ELSE Merge(op, r, s, walk[k - 1])
  IN  walk[Len(r) + Len(s)].row

\* The row starts are counted from 0, the entries are appended to those that
\* the vectors of C had before.
Appended(C, M) == [p |-> M.p, e |-> C.e \o M.e]

csr_binop(op, M, N, C) ==
  LET R == Appended(C, FromRows([i \in 1..Row |->
             MergeRows(op, RowEntries(M, i - 1), RowEntries(N, i - 1))]))
  IN  {IF d THEN csr_sum_duplicates(R) ELSE R : d \in csr_has_duplicates(R)}

\* Its last test runs out of the vectors, and nothing there stops it: always
\* when they are empty.
BinopReads(op, M, N) ==
  LET R == FromRows([i \in 1..Row |->
             MergeRows(op, RowEntries(M, i - 1), RowEntries(N, i - 1))])
  IN  CASE R.e = <<>>                        -> "outside"
        [] R.e # <<>> /\ csr_has_duplicates(R) = BOOLEAN -> "both"
        [] OTHER                             -> "inside"
-----------------------------------------------------------------------------
(* Scaling in place, with an exception for a factor of zero. *)

\* Multiplies every element by the factor at its place.
Scaled(M, factor) ==
  [M EXCEPT !.e = [k \in DOMAIN M.e |->
     LET i == CHOOSE r \in Rows : M.p[r] < k /\ k <= M.p[r + 1]
     IN  [M.e[k] EXCEPT !.x = @ * factor[<<i, M.e[k].j>>]]]]

\* The rows before the first factor of zero are scaled.
csr_scale_rows(M, X) ==
  Scaled(M, [c \in Rows \X Cols |-> IF \A k \in 0..c[1] : X[k] # 0 THEN X[c[1]] ELSE 1])

\* Mutant of csr_scale_columns: scales the columns before a factor of zero.
csr_scale_columns_partly(M, X) ==
  Scaled(M, [c \in Rows \X Cols |-> IF \A k \in 0..c[2] : X[k] # 0 THEN X[c[2]] ELSE 1])
csr_scale_columns(M, X) ==
  IF \E j \in Cols : X[j] = 0 THEN M ELSE Scaled(M, [c \in Rows \X Cols |-> X[c[2]]])

csr_diagonal(M) ==
  [i \in 0..Min({Row, Col}) - 1 |->
     LET hits == {k \in 1..Len(RowEntries(M, i)) : RowEntries(M, i)[k].j = i}
     IN  IF hits = {} THEN 0 ELSE RowEntries(M, i)[Min(hits)].x]
-----------------------------------------------------------------------------
(* A program with two matrices *)

Small(M) == Len(M.e) <= MaxStored /\ \A k \in DOMAIN M.e : M.e[k].x \in -MaxValue..MaxValue

Init == A = Zero /\ B = Zero /\ crashed = FALSE

\* The operand is filled and then used up by the operation that follows.
NoOperand == ~crashed /\ B = Zero

Set(i, j, v) ==
  /\ NoOperand
  /\ A' = set(A, i, j, v)
  /\ Small(A')
  /\ UNCHANGED <<B, crashed>>

Load(coo) ==
  /\ NoOperand
  /\ B' = from_coo(coo)
  /\ UNCHANGED <<A, crashed>>

\* CSRMatrix A = B, which is the compiler's.
Take ==
  /\ ~crashed
  /\ A' = B
  /\ B' = Zero
  /\ Small(A')
  /\ UNCHANGED crashed

\* A = A op B: the result is built in a new matrix.
Binop(op) ==
  /\ ~crashed
  /\ \/ /\ BinopReads(op, A, B) # "outside"
        /\ A' \in csr_binop(op, A, B, Zero)
        /\ B' = Zero
        /\ Small(A')
        /\ UNCHANGED crashed
     \/ /\ BinopReads(op, A, B) # "inside"
        /\ crashed' = TRUE
        /\ UNCHANGED <<A, B>>

ScaleRows(X) ==
  /\ NoOperand
  /\ A' = csr_scale_rows(A, X)
  /\ UNCHANGED <<B, crashed>>
ScaleColumns(X) ==
  /\ NoOperand
  /\ A' = csr_scale_columns(A, X)
  /\ UNCHANGED <<B, crashed>>

Next ==
  \/ \E i \in Rows, j \in Cols, v \in Values : Set(i, j, v)
  \/ \E coo \in Triplets : Load(coo)
  \/ Take
  \/ \E op \in {"add", "sub", "mul"} : Binop(op)
  \/ \E X \in [Rows -> Scales] : ScaleRows(X)
  \/ \E X \in [Cols -> Scales] : ScaleColumns(X)

Spec == Init /\ [][Next]_vars
-----------------------------------------------------------------------------
(* Properties *)

\* The rows follow one another, and nothing else is stored.
RowsFollow(M) ==
  /\ M \in [p : [0..Row -> Nat], e : Seq([j : Cols, x : Int])]
  /\ M.p[0] = 0 /\ M.p[Row] = Len(M.e)
  /\ \A i \in Rows : M.p[i] <= M.p[i + 1]

\* Canonical format: the columns of each row are in strictly ascending order.
CanonicalFormat(M) ==
  /\ RowsFollow(M)
  /\ \A i \in Rows : \A k \in (M.p[i] + 1)..(M.p[i + 1] - 1) : M.e[k].j < M.e[k + 1].j

TypeOK == CanonicalFormat(A) /\ CanonicalFormat(B) /\ crashed \in BOOLEAN

\* The matrix that a storage stands for, element by element through get.
Elements(M) == [c \in Rows \X Cols |-> get(M, c[1], c[2])]
Abstract == INSTANCE Matrix WITH a <- Elements(A), b <- Elements(B)

\* Every operation does to the storage what it should do to the matrix.
MatrixSpec == Abstract!Spec

StoredZeros(M) == {k \in DOMAIN M.e : M.e[k].x = 0}

\* The functions that read the storage and not the elements.  Equal storage
\* means equal matrices; and equal matrices compare equal, as long as neither of
\* them stores a zero.  The diagonal read off the rows is that of the matrix.
ReadersSound ==
  /\ eq(A, B) => Elements(A) = Elements(B)
  /\ StoredZeros(A) = {} /\ StoredZeros(B) = {} /\ Elements(A) = Elements(B) => eq(A, B)
  /\ csr_diagonal(A) = [i \in 0..Min({Row, Col}) - 1 |-> Elements(A)[<<i, i>>]]

\* Only from_coo stores a zero (for triplets that cancel): no other operation
\* adds one to a matrix, not even where the sum or product of elements is 0.
ZerosFromTriplets ==
  [][StoredZeros(A') # {} => StoredZeros(A) # {} \/ A' = B]_vars

\* sparse_matrix.cpp:25, the assertion of the constructor with which from_coo
\* ends: what it has built passes is_canonical.
ConstructorAssertion == TRUE \in is_canonical(B)
=============================================================================
