-------------------------- MODULE CSRMatrix_refinement -----------------------
(***************************************************************************)
(* That class CSRMatrix implements a matrix.  Module CSRMatrix_proofs has  *)
(* what set and the scalings do; here is what from_coo and the             *)
(* element-wise operations do, and the theorems about the whole program.   *)
(*                                                                         *)
(* All of these functions go row by row and join the rows they have made   *)
(* (FromRows), so most of the work is about one row: what stands in it     *)
(* (Stands), and what the entries of a column add up to (Adds).            *)
(***************************************************************************)
EXTENDS CSRMatrix_proofs

Entries == [j : Cols, x : Int]

\* The two vectors of FromRows, as functions of the number of rows joined.
Joins(rows, p, e) ==
  /\ FromRows(rows) = [p |-> p, e |-> e[Row]]
  /\ p[0] = 0 /\ e[0] = <<>>
  /\ \A i \in 1..Row : p[i] = p[i - 1] + Len(rows[i]) /\ e[i] = e[i - 1] \o rows[i]

\* The numbers from 1, with the ones before them.
LEMMA Counts ==
  ASSUME NEW n \in Nat
  PROVE  /\ 0 \in 0..n /\ n \in 0..n
         /\ \A k \in 0..n : k = 0 \/ k \in 1..n
         /\ \A k \in 1..n : k \in 0..n /\ k # 0 /\ k - 1 \in 0..n
OBVIOUS

\* FromRows joins rows one by one.
LEMMA RowsJoin ==
  ASSUME NEW rows, \A i \in 1..Row : rows[i] \in Seq(Entries)
  PROVE  \E p \in [0..Row -> Nat], e \in [0..Row -> Seq(Entries)] : Joins(rows, p, e)
<1> DEFINE IsP(f) == f = [i \in 0..Row |-> IF i = 0 THEN 0 ELSE f[i - 1] + Len(rows[i])]
           IsE(f) == f = [i \in 0..Row |-> IF i = 0 THEN <<>> ELSE f[i - 1] \o rows[i]]
           p == CHOOSE f : IsP(f)
           e == CHOOSE f : IsE(f)
           more == [z \in (1..Row) \X Nat |-> z[2] + Len(rows[z[1]])]
           rest == [z \in (1..Row) \X Seq(Entries) |-> z[2] \o rows[z[1]]]
<1>0. Row \in Nat /\ Row \in 0..Row /\ \A i \in 1..Row : i - 1 \in 0..Row /\ Len(rows[i]) \in Nat
  BY SizeAssumption, LenProperties
<1>1. \A k \in 1..Row, s \in Nat : more[<<k, s>>] = s + Len(rows[k]) /\ more[<<k, s>>] \in Nat
  BY <1>0
<1>2. \A k \in 1..Row, s \in Seq(Entries) :
        rest[<<k, s>>] = s \o rows[k] /\ rest[<<k, s>>] \in Seq(Entries)
  BY ConcatProperties
<1> HIDE DEF more, rest
<1>3. PICK f \in [0..Row -> Nat] : Recurs(f, Row, 0, more)
  BY <1>0, <1>1, Recursion DEF Steps
<1>4. IsP(f)
  <2>1. f[0] = 0 /\ \A k \in 1..Row : f[k] = f[k - 1] + Len(rows[k])
    BY <1>0, <1>1, <1>3 DEF Recurs
  <2> QED
    BY <1>0, <2>1, Counts
<1>5. IsP(p)
  BY <1>4
<1>6. PICK h \in [0..Row -> Seq(Entries)] : Recurs(h, Row, <<>>, rest)
  BY <1>0, <1>2, Recursion, EmptySeq DEF Steps
<1>7. IsE(h)
  <2>1. h[0] = <<>> /\ \A k \in 1..Row : h[k] = h[k - 1] \o rows[k]
    BY <1>0, <1>2, <1>6 DEF Recurs
  <2> QED
    BY <1>0, <2>1, Counts
<1>8. IsE(e)
  BY <1>7
<1>9. FromRows(rows) = [p |-> p, e |-> e[Row]]
  BY DEF FromRows
<1> HIDE DEF p, e
<1>10. p[0] = 0 /\ \A k \in 1..Row : p[k] = p[k - 1] + Len(rows[k])
  BY <1>0, <1>5, Counts
<1>11. e[0] = <<>> /\ \A k \in 1..Row : e[k] = e[k - 1] \o rows[k]
  BY <1>0, <1>8, Counts
<1>12. \A k \in 0..Row : p[k] \in Nat
  <2> DEFINE T == {k \in 0..Row : p[k] \in Nat}
  <2>0. 0 \in T
    BY <1>0, <1>10
  <2>1. ASSUME NEW k \in 1..Row, k - 1 \in T
        PROVE  k \in T
    <3>1. p[k - 1] \in Nat /\ Len(rows[k]) \in Nat /\ p[k] = p[k - 1] + Len(rows[k])
      BY <1>0, <1>10, <2>1
    <3>2. k \in 0..Row
      OBVIOUS
    <3> QED
      BY <3>1, <3>2
  <2> HIDE DEF T
  <2>2. \A k \in 0..Row : k \in T
    BY <1>0, <2>0, <2>1, CountUp
  <2> QED
    BY <2>2 DEF T
<1>13. \A k \in 0..Row : e[k] \in Seq(Entries)
  <2> DEFINE T == {k \in 0..Row : e[k] \in Seq(Entries)}
  <2>1. 0 \in T /\ \A k \in 1..Row : k - 1 \in T => k \in T
    BY <1>0, <1>11, Counts, EmptySeq, ConcatProperties
  <2> HIDE DEF T
  <2>2. \A k \in 0..Row : k \in T
    BY <1>0, <2>1, CountUp
  <2> QED
    BY <2>2 DEF T
<1>14. p \in [0..Row -> Nat] /\ e \in [0..Row -> Seq(Entries)]
  BY <1>5, <1>8, <1>12, <1>13
<1> QED
  BY <1>9, <1>10, <1>11, <1>14 DEF Joins

\* The vectors end where the next row starts.
LEMMA JoinedLengths ==
  ASSUME NEW rows, \A i \in 1..Row : rows[i] \in Seq(Entries),
         NEW p \in [0..Row -> Nat], NEW e \in [0..Row -> Seq(Entries)], Joins(rows, p, e)
  PROVE  \A m \in 0..Row : Len(e[m]) = p[m]
<1> DEFINE T == {m \in 0..Row : Len(e[m]) = p[m]}
<1>0. Row \in Nat
  BY SizeAssumption
<1>1. 0 \in T
  BY <1>0, EmptySeq DEF Joins
<1>2. ASSUME NEW m \in 1..Row, m - 1 \in T
      PROVE  m \in T
  <2>1. m \in 0..Row /\ m - 1 \in 0..Row
    BY <1>0
  <2>2. e[m] = e[m - 1] \o rows[m] /\ p[m] = p[m - 1] + Len(rows[m])
    BY DEF Joins
  <2>3. e[m - 1] \in Seq(Entries)
    BY <2>1
  <2>4. Len(e[m]) = Len(e[m - 1]) + Len(rows[m])
    BY <2>2, <2>3, ConcatProperties
  <2>5. Len(e[m - 1]) = p[m - 1]
    BY <1>2
  <2> QED
    BY <2>1, <2>2, <2>4, <2>5
<1> HIDE DEF T
<1>3. \A m \in 0..Row : m \in T
  BY <1>0, <1>1, <1>2, CountUp
<1> QED
  BY <1>3 DEF T

\* Joined rows follow one another.
LEMMA JoinedFollow ==
  ASSUME NEW rows, \A i \in 1..Row : rows[i] \in Seq(Entries)
  PROVE  RowsFollow(FromRows(rows))
<1> DEFINE M == FromRows(rows)
<1>1. PICK p \in [0..Row -> Nat], e \in [0..Row -> Seq(Entries)] : Joins(rows, p, e)
  BY RowsJoin
<1>2. Row \in Nat /\ Row \in 0..Row
  BY SizeAssumption
<1>3. Len(e[Row]) = p[Row]
  BY <1>1, <1>2, JoinedLengths
<1>4. ASSUME NEW i \in Rows PROVE p[i] <= p[i + 1]
  <2>1. i + 1 \in 1..Row /\ i \in 0..Row /\ i + 1 \in 0..Row /\ (i + 1) - 1 = i
    BY <1>2 DEF Rows
  <2>2. p[i + 1] = p[i] + Len(rows[i + 1]) /\ Len(rows[i + 1]) \in Nat
    BY <1>1, <2>1, LenProperties DEF Joins
  <2> QED
    BY <2>1, <2>2
<1>5. M = [p |-> p, e |-> e[Row]] /\ p[0] = 0
  BY <1>1 DEF Joins
<1> HIDE DEF M
<1>6. M.p = p /\ M.e = e[Row] /\ M \in [p : [0..Row -> Nat], e : Seq(Entries)]
  BY <1>2, <1>5
<1>7. RowsFollow(M)
  BY <1>3, <1>4, <1>5, <1>6 DEF RowsFollow, Entries
<1> QED
  BY <1>7 DEF M

\* Joined rows are where they start.
LEMMA JoinedPlaces ==
  ASSUME NEW rows, \A i \in 1..Row : rows[i] \in Seq(Entries),
         NEW i \in 1..Row
  PROVE  LET M == FromRows(rows)
         IN  /\ M.p[i] = M.p[i - 1] + Len(rows[i])
             /\ \A k \in 1..Len(rows[i]) : M.e[M.p[i - 1] + k] = rows[i][k]
<1> DEFINE M == FromRows(rows)
<1>1. PICK p \in [0..Row -> Nat], e \in [0..Row -> Seq(Entries)] : Joins(rows, p, e)
  BY RowsJoin
<1>2. M = [p |-> p, e |-> e[Row]]
  BY <1>1 DEF Joins
<1>3. RowsFollow(M)
  BY JoinedFollow
<1> HIDE DEF M
<1>4. M.p = p /\ M.e = e[Row]
  BY <1>2
<1>5. /\ Row \in Nat /\ i \in Nat /\ i <= Row /\ i - 1 \in 0..Row /\ i \in 0..Row
      /\ p[i] \in Nat /\ p[i - 1] \in Nat /\ Len(rows[i]) \in Nat
  BY SizeAssumption, LenProperties
<1>6. p[i] = p[i - 1] + Len(rows[i])
  BY <1>1 DEF Joins
<1> DEFINE T == {m \in 0..Row : i <= m =>
                   \A k \in 1..Len(rows[i]) : e[m][p[i - 1] + k] = rows[i][k]}
<1>7. 0 \in T
  BY <1>5
<1>8. ASSUME NEW m \in 1..Row, m - 1 \in T, i <= m, NEW k \in 1..Len(rows[i])
      PROVE  e[m][p[i - 1] + k] = rows[i][k]
  <2>1. m \in 0..Row /\ m - 1 \in 0..Row
    BY <1>5
  <2>2. e[m] = e[m - 1] \o rows[m] /\ p[m] = p[m - 1] + Len(rows[m])
    BY <1>1 DEF Joins
  <2>3. e[m - 1] \in Seq(Entries) /\ Len(e[m - 1]) = p[m - 1] /\ Len(rows[m]) \in Nat
        /\ p[m - 1] \in Nat
    BY <1>1, <2>1, JoinedLengths, LenProperties
  <2> DEFINE n == p[i - 1] + k
  <2>4. CASE i = m
    <3>1. n \in 1..(Len(e[m - 1]) + Len(rows[m])) /\ n - Len(e[m - 1]) = k /\ ~ (n <= Len(e[m - 1]))
      <4> DEFINE a == Len(e[m - 1])
                 b == Len(rows[m])
      <4>1. a \in Nat /\ b \in Nat /\ n = a + k /\ k \in 1..b
        BY <2>3, <2>4
      <4> HIDE DEF a, b, n
      <4>2. n \in 1..(a + b) /\ n - a = k /\ ~ (n <= a)
        BY <4>1
      <4> QED
        BY <4>2 DEF a, b
    <3>2. (e[m - 1] \o rows[m])[n] = rows[m][n - Len(e[m - 1])]
      <4> HIDE DEF n
      <4> QED
        BY <2>3, <3>1, ConcatProperties
    <3>3. e[m][n] = rows[m][k]
      <4> HIDE DEF n
      <4> QED
        BY <2>2, <3>1, <3>2
    <3> QED
      BY <2>4, <3>3
  <2>5. CASE i # m
    <3>1. i <= m - 1
      BY <1>5, <1>8, <2>5
    <3>2. p[i] <= p[m - 1]
      BY <1>3, <1>4, <1>5, <2>1, <3>1, RowsInOrder
    <3>3. n \in 1..(Len(e[m - 1]) + Len(rows[m])) /\ n <= Len(e[m - 1])
      <4>1. n \in Nat /\ 1 <= n /\ n <= p[m - 1]
        <5> DEFINE a == p[i - 1]
                   b == p[i]
                   l == Len(rows[i])
                   d == p[m - 1]
        <5>1. a \in Nat /\ l \in Nat /\ d \in Nat
          BY <1>5, <2>3
        <5>2. b = a + l /\ b <= d /\ k \in 1..l
          BY <1>6, <3>2
        <5>3. n = a + k
          OBVIOUS
        <5> HIDE DEF a, b, l, d, n
        <5>4. n \in Nat /\ 1 <= n /\ n <= d
          BY <5>1, <5>2, <5>3
        <5> QED
          BY <5>4 DEF d
      <4> HIDE DEF n
      <4> QED
        BY <2>3, <4>1
    <3>4. (e[m - 1] \o rows[m])[n] = e[m - 1][n]
      BY <2>3, <3>3, ConcatProperties
    <3>5. e[m - 1][n] = rows[i][k]
      BY <1>8, <3>1
    <3> QED
      BY <2>2, <3>4, <3>5
  <2> QED
    BY <2>4, <2>5
<1>9. ASSUME NEW m \in 1..Row, m - 1 \in T PROVE m \in T
  <2>1. m \in 0..Row
    OBVIOUS
  <2> QED
    BY <1>8, <1>9, <2>1
<1> HIDE DEF T
<1>10. \A m \in 0..Row : m \in T
  BY <1>5, <1>7, <1>9, CountUp
<1>11. Row \in T
  BY <1>5, <1>10
<1>12. \A k \in 1..Len(rows[i]) : e[Row][p[i - 1] + k] = rows[i][k]
  BY <1>5, <1>11 DEF T
<1> QED
  BY <1>4, <1>6, <1>12 DEF M

-----------------------------------------------------------------------------
(* Rows: what is in one, and what is in the matrix that joins them.        *)

\* The columns of a row ascend; they do not descend.
Ascends(row) == \A k, l \in 1..Len(row) : k < l => row[k].j < row[l].j
Climbs(row) == \A k, l \in 1..Len(row) : k < l => row[k].j <= row[l].j

\* v is the element in column j of a row.
Stands(row, j, v) ==
  \/ \E k \in 1..Len(row) : row[k].j = j /\ row[k].x = v
  \/ v = 0 /\ \A k \in 1..Len(row) : row[k].j # j

\* The entries of one row.
LEMMA RowCut ==
  ASSUME NEW M, RowsFollow(M), NEW i \in Rows
  PROVE  LET row == RowEntries(M, i)
         IN  /\ row \in Seq(Entries) /\ Len(row) = M.p[i + 1] - M.p[i]
             /\ \A k \in 1..Len(row) : row[k] = M.e[M.p[i] + k]
<1> DEFINE row == RowEntries(M, i)
<1>1. /\ M.p[i] \in Nat /\ M.p[i + 1] \in Nat /\ Len(M.e) \in Nat
      /\ M.p[i] <= M.p[i + 1] /\ M.p[i + 1] <= Len(M.e)
  BY RowBounds
<1>2. M.e \in Seq(Entries)
  BY Parts DEF Entries
<1>3. row = SubSeq(M.e, M.p[i] + 1, M.p[i + 1])
  BY DEF RowEntries
<1> HIDE DEF row
<1>4. /\ Len(row) = M.p[i + 1] - M.p[i]
      /\ \A k \in 1..(M.p[i + 1] - M.p[i]) : row[k] = M.e[M.p[i] + k]
  <2> DEFINE e == M.e
             a == M.p[i]
             b == M.p[i + 1]
  <2>1. e \in Seq(Entries) /\ a \in Nat /\ b \in Nat /\ a <= b /\ b <= Len(e)
        /\ row = SubSeq(e, a + 1, b)
    BY <1>1, <1>2, <1>3
  <2> HIDE DEF e, a, b
  <2>2. Len(row) = b - a /\ \A k \in 1..(b - a) : row[k] = e[a + k]
    BY <2>1, Slice
  <2> QED
    BY <2>2 DEF e, a, b
<1>5. \A k \in (M.p[i] + 1)..M.p[i + 1] : M.e[k] \in Entries
  <2>1. \A k \in (M.p[i] + 1)..M.p[i + 1] : k \in 1..Len(M.e)
    BY <1>1
  <2>2. \A k \in 1..Len(M.e) : M.e[k] \in Entries
    BY <1>2, ElementOfSeq
  <2> QED
    BY <2>1, <2>2
<1>6. row \in Seq(Entries)
  BY <1>1, <1>3, <1>5, SubSeqProperties
<1> QED
  BY <1>4, <1>6 DEF row

\* In the canonical format they ascend.
LEMMA CanonicalRow ==
  ASSUME NEW M, CanonicalFormat(M), NEW i \in Rows
  PROVE  Ascends(RowEntries(M, i))
<1> DEFINE row == RowEntries(M, i)
<1>0. RowsFollow(M)
  BY DEF CanonicalFormat
<1>1. /\ Len(row) = M.p[i + 1] - M.p[i]
      /\ \A k \in 1..Len(row) : row[k] = M.e[M.p[i] + k]
      /\ M.p[i] \in Nat /\ M.p[i + 1] \in Nat
  BY <1>0, RowCut, RowBounds
<1> HIDE DEF row
<1>2. ASSUME NEW k \in 1..Len(row), NEW l \in 1..Len(row), k < l
      PROVE  row[k].j < row[l].j
  <2> DEFINE a == M.p[i] + k - 1
             b == M.p[i] + l - 1
  <2>1. /\ a \in M.p[i]..(M.p[i + 1] - 1) /\ b \in M.p[i]..(M.p[i + 1] - 1) /\ a < b
        /\ a + 1 = M.p[i] + k /\ b + 1 = M.p[i] + l
    <3>1. a \in M.p[i]..(M.p[i + 1] - 1)
      BY <1>1
    <3>2. b \in M.p[i]..(M.p[i + 1] - 1)
      BY <1>1
    <3>3. a < b /\ a + 1 = M.p[i] + k /\ b + 1 = M.p[i] + l
      BY <1>1, <1>2
    <3> QED
      BY <3>1, <3>2, <3>3
  <2> HIDE DEF a, b
  <2>2. M.e[a + 1].j < M.e[b + 1].j
    BY <2>1, ColumnsAscend
  <2> QED
    BY <1>1, <2>1, <2>2
<1>3. Ascends(row)
  BY <1>2 DEF Ascends
<1> QED
  BY <1>3 DEF row

\* What is in the rows is in the matrix that joins them.
LEMMA JoinedRows ==
  ASSUME NEW rows, \A i \in 1..Row : rows[i] \in Seq(Entries), NEW i \in Rows
  PROVE  RowEntries(FromRows(rows), i) = rows[i + 1]
<1> DEFINE M == FromRows(rows)
           row == RowEntries(M, i)
<1>0. i + 1 \in 1..Row /\ (i + 1) - 1 = i
  BY SizeAssumption DEF Rows
<1>1. /\ row \in Seq(Entries) /\ Len(row) = M.p[i + 1] - M.p[i]
      /\ \A k \in 1..Len(row) : row[k] = M.e[M.p[i] + k]
  BY JoinedFollow, RowCut
<1>2. /\ M.p[i + 1] = M.p[i] + Len(rows[i + 1])
      /\ \A k \in 1..Len(rows[i + 1]) : M.e[M.p[i] + k] = rows[i + 1][k]
  BY <1>0, JoinedPlaces
<1>3. M.p[i] \in Nat /\ Len(rows[i + 1]) \in Nat /\ rows[i + 1] \in Seq(Entries)
  BY <1>0, JoinedFollow, RowBounds, LenProperties
<1> HIDE DEF row, M
<1>4. Len(row) = Len(rows[i + 1])
  BY <1>1, <1>2, <1>3
<1>5. \A k \in 1..Len(row) : row[k] = rows[i + 1][k]
  BY <1>1, <1>2, <1>4
<1>6. row = rows[i + 1]
  BY <1>1, <1>3, <1>4, <1>5, SeqEqual
<1> QED
  BY <1>6 DEF row, M

\* Ascending rows make a canonical matrix.
LEMMA JoinedCanonical ==
  ASSUME NEW rows, \A i \in 1..Row : rows[i] \in Seq(Entries) /\ Ascends(rows[i])
  PROVE  CanonicalFormat(FromRows(rows))
<1> DEFINE M == FromRows(rows)
<1>1. RowsFollow(M)
  BY JoinedFollow
<1>2. ASSUME NEW i \in Rows, NEW k \in (M.p[i] + 1)..(M.p[i + 1] - 1)
      PROVE  M.e[k].j < M.e[k + 1].j
  <2>0. i + 1 \in 1..Row /\ (i + 1) - 1 = i
    BY SizeAssumption DEF Rows
  <2>1. /\ M.p[i + 1] = M.p[i] + Len(rows[i + 1])
        /\ \A n \in 1..Len(rows[i + 1]) : M.e[M.p[i] + n] = rows[i + 1][n]
    BY <2>0, JoinedPlaces
  <2>2. M.p[i] \in Nat /\ Len(rows[i + 1]) \in Nat
    BY <1>1, <2>0, RowBounds, LenProperties
  <2> HIDE DEF M
  <2> DEFINE n == k - M.p[i]
  <2>3. n \in 1..Len(rows[i + 1]) /\ n + 1 \in 1..Len(rows[i + 1]) /\ n < n + 1
    <3> DEFINE a == M.p[i]
               b == M.p[i + 1]
               l == Len(rows[i + 1])
    <3>1. a \in Nat /\ l \in Nat /\ b = a + l /\ k \in (a + 1)..(b - 1)
      BY <2>1, <2>2
    <3> HIDE DEF a, b, l
    <3>2. k - a \in 1..l /\ (k - a) + 1 \in 1..l /\ k - a < (k - a) + 1
      BY <3>1
    <3> QED
      BY <3>2 DEF a, l
  <2>4. M.p[i] + n = k /\ M.p[i] + (n + 1) = k + 1
    BY <2>2
  <2>5. rows[i + 1][n].j < rows[i + 1][n + 1].j
    BY <2>0, <2>3 DEF Ascends
  <2> QED
    BY <2>1, <2>3, <2>4, <2>5
<1> HIDE DEF M
<1>3. CanonicalFormat(M)
  BY <1>1, <1>2 DEF CanonicalFormat
<1> QED
  BY <1>3 DEF M

\* A matrix is made of its rows.
LEMMA Rejoined ==
  ASSUME NEW M, RowsFollow(M)
  PROVE  FromRows([i \in 1..Row |-> RowEntries(M, i - 1)]) = M
<1> DEFINE rows == [i \in 1..Row |-> RowEntries(M, i - 1)]
           N == FromRows(rows)
<1>0. Row \in Nat /\ 0 \in 0..Row /\ Row \in 0..Row
  BY SizeAssumption
<1>1. \A i \in 1..Row : i - 1 \in Rows /\ (i - 1) + 1 = i /\ rows[i] = RowEntries(M, i - 1)
  BY <1>0 DEF Rows
<1>2. \A i \in Rows : i + 1 \in 1..Row /\ (i + 1) - 1 = i
  BY <1>0 DEF Rows
<1> HIDE DEF rows
<1>3. \A i \in 1..Row : rows[i] \in Seq(Entries)
  BY <1>1, RowCut
<1>4. RowsFollow(N)
  BY <1>3, JoinedFollow
<1>5. ASSUME NEW i \in Rows
      PROVE  /\ RowEntries(N, i) = RowEntries(M, i)
             /\ N.p[i + 1] = N.p[i] + (M.p[i + 1] - M.p[i])
  <2>1. rows[i + 1] = RowEntries(M, i)
    BY <1>1, <1>2
  <2>2. RowEntries(N, i) = rows[i + 1]
    BY <1>3, JoinedRows
  <2>3. N.p[i + 1] = N.p[i] + Len(rows[i + 1])
    BY <1>2, <1>3, JoinedPlaces
  <2> QED
    BY <2>1, <2>2, <2>3, RowCut
<1> HIDE DEF N
<1>6. \A b \in 0..Row : M.p[b] = N.p[b]
  <2> DEFINE T == {b \in 0..Row : M.p[b] = N.p[b]}
  <2>1. 0 \in T
    BY <1>0, <1>4 DEF RowsFollow
  <2>2. ASSUME NEW b \in 1..Row, b - 1 \in T
        PROVE  b \in T
    <3>1. b \in 0..Row /\ b - 1 \in Rows /\ (b - 1) + 1 = b /\ M.p[b - 1] = N.p[b - 1]
      BY <1>0, <2>2 DEF Rows
    <3>2. M.p[b] \in Nat /\ M.p[b - 1] \in Nat
      BY <3>1, RowBounds
    <3>3. N.p[b] = N.p[b - 1] + (M.p[b] - M.p[b - 1])
      BY <1>5, <3>1
    <3> QED
      BY <3>1, <3>2, <3>3
  <2> HIDE DEF T
  <2>3. \A b \in 0..Row : b \in T
    BY <1>0, <2>1, <2>2, CountUp
  <2> QED
    BY <2>3 DEF T
<1>7. M.p = N.p
  BY <1>4, <1>6, SameStarts
<1>8. Len(M.e) = Len(N.e) /\ M.e \in Seq(Entries) /\ N.e \in Seq(Entries)
  BY <1>0, <1>4, <1>6, Parts DEF RowsFollow, Entries
<1>9. ASSUME NEW k \in 1..Len(M.e)
      PROVE  M.e[k] = N.e[k]
  <2>1. PICK i \in Rows : InRowOf(M, i, k)
    BY EntryInARow
  <2>2. M.p[i] < k /\ k <= M.p[i + 1]
    BY <2>1 DEF InRowOf
  <2>3. M.p[i] \in Nat /\ M.p[i + 1] \in Nat /\ Len(M.e) \in Nat
    BY RowBounds
  <2> DEFINE n == k - M.p[i]
  <2>4. Len(RowEntries(M, i)) = M.p[i + 1] - M.p[i] /\ Len(RowEntries(N, i)) = M.p[i + 1] - M.p[i]
    BY <1>5, RowCut
  <2>5. n \in 1..(M.p[i + 1] - M.p[i]) /\ M.p[i] + n = k
    BY <2>2, <2>3
  <2> HIDE DEF n
  <2>6. RowEntries(M, i)[n] = M.e[k]
    BY <2>4, <2>5, RowCut
  <2>7. RowEntries(N, i)[n] = N.e[k]
    BY <1>4, <1>7, <2>4, <2>5, RowCut
  <2> QED
    BY <1>5, <2>6, <2>7
<1>10. M.e = N.e
  BY <1>8, <1>9, SeqEqual
<1>11. M = [p |-> M.p, e |-> M.e] /\ N = [p |-> N.p, e |-> N.e]
  BY <1>4, Parts
<1>12. N = M
  BY <1>7, <1>10, <1>11
<1> QED
  BY <1>12 DEF N, rows

-----------------------------------------------------------------------------
(* The elements of a row.                                                  *)

\* There is one element in a column.
LEMMA OneElement ==
  ASSUME NEW row, row \in Seq(Entries), Ascends(row), NEW j,
         NEW v, Stands(row, j, v), NEW w, Stands(row, j, w)
  PROVE  v = w
<1>0. Len(row) \in Nat
  BY LenProperties
<1>1. \A k \in 1..Len(row) : row[k].j \in Int
  <2>1. \A k \in 1..Len(row) : row[k] \in Entries
    BY ElementOfSeq
  <2> QED
    BY <2>1, SizeAssumption DEF Entries, Cols
<1>2. ASSUME NEW k \in 1..Len(row), NEW l \in 1..Len(row), row[k].j = j, row[l].j = j
      PROVE  k = l
  BY <1>0, <1>1, <1>2 DEF Ascends
<1> QED
  BY <1>2 DEF Stands

\* get finds the element of its row.
LEMMA GetStands ==
  ASSUME NEW M, CanonicalFormat(M), NEW i \in Rows, NEW j \in Cols
  PROVE  Stands(RowEntries(M, i), j, get(M, i, j))
<1> DEFINE row == RowEntries(M, i)
<1>0. RowsFollow(M)
  BY DEF CanonicalFormat
<1>1. /\ Len(row) = M.p[i + 1] - M.p[i]
      /\ \A k \in 1..Len(row) : row[k] = M.e[M.p[i] + k]
  BY <1>0, RowCut
<1>2. M.p[i] \in Nat /\ M.p[i + 1] \in Nat
  BY <1>0, RowBounds
<1> SUFFICES Stands(row, j, get(M, i, j))
  OBVIOUS
<1> HIDE DEF row
<1>3. CASE \E k : Stores(M, i, j, k)
  <2>1. PICK k : Stores(M, i, j, k)
    BY <1>3
  <2>2. k \in M.p[i]..(M.p[i + 1] - 1) /\ M.e[k + 1].j = j /\ get(M, i, j) = M.e[k + 1].x
    BY <2>1, GetStored DEF Stores
  <2> DEFINE a == M.p[i]
             b == M.p[i + 1]
             n == k + 1 - a
  <2>3. a \in Nat /\ b \in Nat /\ k \in a..(b - 1)
    BY <1>2, <2>2
  <2>4. Len(row) = b - a /\ \A l \in 1..Len(row) : row[l] = M.e[a + l]
    BY <1>1
  <2> HIDE DEF a, b
  <2>5. n \in 1..Len(row) /\ a + n = k + 1
    BY <2>3, <2>4
  <2> HIDE DEF n
  <2> QED
    BY <2>2, <2>4, <2>5 DEF Stands
<1>4. CASE ~ \E k : Stores(M, i, j, k)
  <2>1. get(M, i, j) = 0
    BY <1>4, GetNothing
  <2>2. ASSUME NEW n \in 1..Len(row) PROVE row[n].j # j
    <3> DEFINE k == M.p[i] + n - 1
    <3>1. k \in M.p[i]..(M.p[i + 1] - 1)
      BY <1>1, <1>2
    <3>2. k + 1 = M.p[i] + n
      BY <1>2
    <3> HIDE DEF k
    <3> QED
      BY <1>1, <1>4, <3>1, <3>2 DEF Stores
  <2> QED
    BY <2>1, <2>2 DEF Stands
<1> QED
  BY <1>3, <1>4

\* So the element of a matrix that is joined from rows is the one of the row.
LEMMA GetJoined ==
  ASSUME NEW rows, \A r \in 1..Row : rows[r] \in Seq(Entries) /\ Ascends(rows[r]),
         NEW i \in Rows, NEW j \in Cols, NEW v, Stands(rows[i + 1], j, v)
  PROVE  get(FromRows(rows), i, j) = v
<1>1. Stands(RowEntries(FromRows(rows), i), j, get(FromRows(rows), i, j))
  BY JoinedCanonical, GetStands
<1>2. RowEntries(FromRows(rows), i) = rows[i + 1]
  BY JoinedRows
<1>3. i + 1 \in 1..Row
  BY SizeAssumption DEF Rows
<1> QED
  BY <1>1, <1>2, <1>3, OneElement

-----------------------------------------------------------------------------
(* MergeRows: two rows walked side by side.  What is stored is the result  *)
(* for the columns behind the walk; one step takes one column more.        *)

\* v is the element in column j of the first c entries of a row.
StandsIn(row, c, j, v) ==
  \/ \E k \in 1..c : row[k].j = j /\ row[k].x = v
  \/ v = 0 /\ \A k \in 1..c : row[k].j # j

NoZeros(row) == \A k \in 1..Len(row) : row[k].x # 0

\* Column j is before what the walk through a row finds next.
Under(j, row, m) == m <= Len(row) => j < row[m].j

\* The types of a row.
LEMMA RowTypes ==
  ASSUME NEW row \in Seq(Entries)
  PROVE  /\ Len(row) \in Nat
         /\ \A k \in 1..Len(row) : /\ row[k] \in Entries
                                   /\ row[k].j \in Cols /\ row[k].j \in Int /\ row[k].x \in Int
<1>1. Len(row) \in Nat /\ \A k \in 1..Len(row) : row[k] \in Entries
  BY LenProperties, ElementOfSeq
<1> QED
  BY <1>1, SizeAssumption DEF Entries, Cols

\* One side of a step: from the place m in a row the walk goes to q, and finds x
\* in column h, the next one.  It takes the entry of that column, or leaves one
\* behind it where it is.
OneSide(row, m, h, takes, q, x) ==
  /\ row \in Seq(Entries) /\ Ascends(row) /\ m \in 1..(Len(row) + 1) /\ h \in Int
  /\ takes \in BOOLEAN
  /\ takes => m <= Len(row) /\ row[m].j = h
  /\ ~takes => Under(h, row, m)
  /\ \A k \in 1..(m - 1) : row[k].j < h
  /\ q = IF takes THEN m + 1 ELSE m
  /\ x = IF takes THEN row[m].x ELSE 0

\* So everything up to column h is behind the walk.
LEMMA SideTaken ==
  ASSUME NEW row, NEW m, NEW h, NEW takes, NEW q, NEW x, OneSide(row, m, h, takes, q, x)
  PROVE  /\ q \in 1..(Len(row) + 1) /\ Under(h, row, q) /\ x \in Int
         /\ \A k \in 1..(q - 1) : row[k].j <= h
         /\ \A j, a : StandsIn(row, q - 1, j, a) => IF j = h THEN a = x ELSE StandsIn(row, m - 1, j, a)
<1> USE DEF OneSide
<1>0. /\ Len(row) \in Nat /\ m \in Nat
      /\ \A k \in 1..Len(row) : row[k].j \in Int /\ row[k].x \in Int
  BY RowTypes
<1>1. CASE takes
  <2>1. m \in 1..Len(row) /\ q = m + 1 /\ x = row[m].x /\ row[m].j = h /\ q - 1 = m
    BY <1>0, <1>1
  <2>2. q \in 1..(Len(row) + 1) /\ x \in Int
    BY <1>0, <2>1
  <2>3. Under(h, row, q)
    BY <1>0, <2>1 DEF Under, Ascends
  <2>4. \A k \in 1..m : k = m \/ k \in 1..(m - 1)
    BY <1>0
  <2>5. \A k \in 1..m : row[k].j <= h
    BY <1>0, <2>1, <2>4
  <2>6. ASSUME NEW j, NEW a, StandsIn(row, m, j, a)
        PROVE  IF j = h THEN a = x ELSE StandsIn(row, m - 1, j, a)
    <3>1. m \in 1..m /\ \A k \in 1..(m - 1) : k \in 1..m /\ row[k].j # h
      BY <1>0
    <3>2. CASE j = h
      BY <2>1, <2>4, <2>6, <3>1, <3>2 DEF StandsIn
    <3>3. CASE j # h
      <4>1. StandsIn(row, m - 1, j, a)
        BY <2>1, <2>4, <2>6, <3>1, <3>3 DEF StandsIn
      <4> QED
        BY <3>3, <4>1
    <3> QED
      BY <3>2, <3>3
  <2> QED
    BY <2>1, <2>2, <2>3, <2>5, <2>6
<1>2. CASE ~takes
  <2>1. q = m /\ x = 0 /\ Under(h, row, m)
    BY <1>2
  <2>2. \A k \in 1..(m - 1) : row[k].j <= h /\ row[k].j # h
    <3>1. \A k \in 1..(m - 1) : k \in 1..Len(row)
      BY <1>0
    <3> QED
      BY <1>0, <3>1
  <2>3. ASSUME NEW j, NEW a, StandsIn(row, m - 1, j, a)
        PROVE  IF j = h THEN a = x ELSE StandsIn(row, m - 1, j, a)
    BY <2>1, <2>2, <2>3 DEF StandsIn
  <2> QED
    BY <1>0, <2>1, <2>2, <2>3
<1> QED
  BY <1>1, <1>2

\* What is stored: an entry behind the others, or nothing for zero.
StoresNext(row, h, v, new) ==
  /\ row \in Seq(Entries) /\ Ascends(row) /\ NoZeros(row) /\ h \in Cols /\ v \in Int
  /\ \A k \in 1..Len(row) : row[k].j < h
  /\ new = IF v = 0 THEN row ELSE Append(row, Entry(h, v))

\* The row stays ascending and without zeros, and gains the element of column h.
LEMMA StoredNext ==
  ASSUME NEW row, NEW h, NEW v, NEW new, StoresNext(row, h, v, new)
  PROVE  /\ new \in Seq(Entries) /\ Ascends(new) /\ NoZeros(new)
         /\ \A k \in 1..Len(new) : new[k].j <= h
         /\ Stands(new, h, v)
         /\ \A j, a : j # h /\ Stands(row, j, a) => Stands(new, j, a)
<1> USE DEF StoresNext
<1>0. /\ Len(row) \in Nat /\ h \in Int
      /\ \A k \in 1..Len(row) : row[k].j \in Int
  BY RowTypes, SizeAssumption DEF Cols
<1>1. CASE v = 0
  BY <1>0, <1>1 DEF Stands
<1>2. CASE v # 0
  <2> DEFINE e == Entry(h, v)
  <2>1. e \in Entries /\ e.j = h /\ e.x = v
    BY DEF Entry, Entries
  <2>2. new = Append(row, e)
    BY <1>2
  <2> HIDE DEF e
  <2>3. /\ new \in Seq(Entries) /\ Len(new) = Len(row) + 1
        /\ new[Len(row) + 1] = e
        /\ \A k \in 1..Len(row) : new[k] = row[k]
    BY <2>1, <2>2, AppendProperties
  <2>4. \A k \in 1..Len(new) : k = Len(row) + 1 \/ k \in 1..Len(row)
    BY <1>0, <2>3
  <2>5. Len(row) + 1 \in 1..Len(new) /\ \A k \in 1..Len(row) : k \in 1..Len(new)
    BY <1>0, <2>3
  <2>6. \A k \in 1..Len(new) : new[k].j <= h
    BY <1>0, <2>1, <2>3, <2>4
  <2>7. ASSUME NEW k \in 1..Len(new), NEW l \in 1..Len(new), k < l
        PROVE  new[k].j < new[l].j
    <3>1. k \in 1..Len(row)
      BY <1>0, <2>3, <2>7
    <3>2. CASE l \in 1..Len(row)
      BY <2>3, <2>7, <3>1, <3>2 DEF Ascends
    <3>3. CASE l = Len(row) + 1
      BY <2>1, <2>3, <3>1, <3>3
    <3> QED
      BY <2>4, <3>2, <3>3
  <2>8. NoZeros(new)
    BY <1>2, <2>1, <2>3, <2>4 DEF NoZeros
  <2>9. Stands(new, h, v)
    BY <2>1, <2>3, <2>5 DEF Stands
  <2>10. \A j, a : j # h /\ Stands(row, j, a) => Stands(new, j, a)
    BY <2>1, <2>3, <2>4, <2>5 DEF Stands
  <2> QED
    BY <2>3, <2>6, <2>7, <2>8, <2>9, <2>10 DEF Ascends
<1> QED
  BY <1>1, <1>2

Operations == {"add", "sub", "mul"}

\* A walk through two rows, and that it has merged what is behind it.
Walks(r, s) == [m : 1..(Len(r) + 1), n : 1..(Len(s) + 1), row : Seq(Entries)]
Merged(op, r, s, w) ==
  /\ w \in Walks(r, s)
  /\ Ascends(w.row) /\ NoZeros(w.row)
  /\ \A k \in 1..Len(w.row) : Under(w.row[k].j, r, w.m) /\ Under(w.row[k].j, s, w.n)
  /\ \A k \in 1..(w.m - 1) : Under(r[k].j, s, w.n)
  /\ \A k \in 1..(w.n - 1) : Under(s[k].j, r, w.m)
  /\ \A j \in Cols : \A a, b :
       StandsIn(r, w.m - 1, j, a) /\ StandsIn(s, w.n - 1, j, b) => Stands(w.row, j, Apply(op, a, b))
AtEnd(r, s, w) == w.m > Len(r) /\ w.n > Len(s)

\* The result is a number, and nothing comes of nothing.
LEMMA ApplyType ==
  ASSUME NEW op \in Operations
  PROVE  /\ \A x, y \in Int : Apply(op, x, y) \in Int
         /\ Apply(op, 0, 0) = 0
<1>1. ASSUME NEW x \in Int, NEW y \in Int
      PROVE  x + y \in Int /\ x - y \in Int /\ x * y \in Int
  OBVIOUS
<1>2. \A x, y \in Int : Apply(op, x, y) \in Int
  BY <1>1 DEF Apply, Operations
<1> QED
  BY <1>2 DEF Apply, Operations

\* One step of the walk merges one column more, up to the end.
LEMMA MergeStep ==
  ASSUME NEW op \in Operations, NEW r \in Seq(Entries), NEW s \in Seq(Entries),
         Ascends(r), Ascends(s), NEW w, Merged(op, r, s, w), NEW u, u = Merge(op, r, s, w)
  PROVE  /\ Merged(op, r, s, u)
         /\ IF AtEnd(r, s, w) THEN u = w ELSE u.m + u.n >= w.m + w.n + 1
<1> DEFINE left == w.m <= Len(r) /\ (w.n <= Len(s) => r[w.m].j <= s[w.n].j)
           right == w.n <= Len(s) /\ (w.m <= Len(r) => s[w.n].j <= r[w.m].j)
           x == IF left THEN r[w.m].x ELSE 0
           y == IF right THEN s[w.n].x ELSE 0
           h == IF left THEN r[w.m].j ELSE s[w.n].j
           v == Apply(op, x, y)
<1>1. /\ u = [m |-> IF left THEN w.m + 1 ELSE w.m, n |-> IF right THEN w.n + 1 ELSE w.n,
              row |-> IF v = 0 THEN w.row ELSE Append(w.row, Entry(h, v))]
      /\ left \in BOOLEAN /\ right \in BOOLEAN
  BY DEF Merge
<1>2. /\ w.m \in 1..(Len(r) + 1) /\ w.n \in 1..(Len(s) + 1) /\ w.row \in Seq(Entries)
      /\ w = [m |-> w.m, n |-> w.n, row |-> w.row]
  BY DEF Merged, Walks
<1>3. /\ Len(r) \in Nat /\ Len(s) \in Nat /\ w.m \in Nat /\ w.n \in Nat
      /\ \A k \in 1..Len(r) : r[k].j \in Cols /\ r[k].j \in Int /\ r[k].x \in Int
      /\ \A k \in 1..Len(s) : s[k].j \in Cols /\ s[k].j \in Int /\ s[k].x \in Int
      /\ w.m <= Len(r) => w.m \in 1..Len(r)
      /\ w.n <= Len(s) => w.n \in 1..Len(s)
  BY <1>2, RowTypes
<1>4. CASE ~left /\ ~right
  <2>1. AtEnd(r, s, w)
    BY <1>3, <1>4 DEF AtEnd
  <2>2. v = 0
    BY <1>4, ApplyType
  <2>3. u = w
    BY <1>1, <1>2, <1>4, <2>2
  <2> QED
    BY <2>1, <2>3
<1>5. CASE left \/ right
  <2>1. /\ left => w.m <= Len(r) /\ r[w.m].j = h
        /\ ~left => Under(h, r, w.m)
        /\ right => w.n <= Len(s) /\ s[w.n].j = h
        /\ ~right => Under(h, s, w.n)
        /\ h \in Cols /\ h \in Int
    BY <1>3, <1>5 DEF Under
  <2>2. \A k \in 1..(w.m - 1) : r[k].j < h
    <3>1. \A k \in 1..(w.m - 1) : k \in 1..Len(r) /\ k < w.m
      BY <1>2, <1>3
    <3>2. CASE left
      BY <1>3, <2>1, <3>1, <3>2 DEF Ascends
    <3>3. CASE right
      BY <2>1, <3>3 DEF Merged, Under
    <3> QED
      BY <1>5, <3>2, <3>3
  <2>3. \A k \in 1..(w.n - 1) : s[k].j < h
    <3>1. \A k \in 1..(w.n - 1) : k \in 1..Len(s) /\ k < w.n
      BY <1>2, <1>3
    <3>2. CASE right
      BY <1>3, <2>1, <3>1, <3>2 DEF Ascends
    <3>3. CASE left
      BY <2>1, <3>3 DEF Merged, Under
    <3> QED
      BY <1>5, <3>2, <3>3
  <2>4. \A k \in 1..Len(w.row) : w.row[k].j < h
    BY <1>5, <2>1 DEF Merged, Under
  <2>5. /\ u.m = IF left THEN w.m + 1 ELSE w.m
        /\ u.n = IF right THEN w.n + 1 ELSE w.n
        /\ u.row = IF v = 0 THEN w.row ELSE Append(w.row, Entry(h, v))
        /\ u = [m |-> u.m, n |-> u.n, row |-> u.row]
        /\ x = IF left THEN r[w.m].x ELSE 0
        /\ y = IF right THEN s[w.n].x ELSE 0
        /\ v = Apply(op, x, y)
    BY <1>1
  <2>0. left \in BOOLEAN /\ right \in BOOLEAN
    BY <1>1
  <2> HIDE DEF left, right, x, y, h, v
  <2>6. /\ u.m \in 1..(Len(r) + 1) /\ Under(h, r, u.m) /\ x \in Int
        /\ \A k \in 1..(u.m - 1) : r[k].j <= h
        /\ \A j, a : StandsIn(r, u.m - 1, j, a) =>
             IF j = h THEN a = x ELSE StandsIn(r, w.m - 1, j, a)
    <3>1. OneSide(r, w.m, h, left, u.m, x)
      BY <2>0, <1>2, <2>1, <2>2, <2>5 DEF OneSide
    <3> QED
      BY <3>1, SideTaken
  <2>7. /\ u.n \in 1..(Len(s) + 1) /\ Under(h, s, u.n) /\ y \in Int
        /\ \A k \in 1..(u.n - 1) : s[k].j <= h
        /\ \A j, a : StandsIn(s, u.n - 1, j, a) =>
             IF j = h THEN a = y ELSE StandsIn(s, w.n - 1, j, a)
    <3>1. OneSide(s, w.n, h, right, u.n, y)
      BY <2>0, <1>2, <2>1, <2>3, <2>5 DEF OneSide
    <3> QED
      BY <3>1, SideTaken
  <2>8. v \in Int
    BY <2>5, <2>6, <2>7, ApplyType
  <2>9. /\ u.row \in Seq(Entries) /\ Ascends(u.row) /\ NoZeros(u.row)
        /\ \A k \in 1..Len(u.row) : u.row[k].j <= h
        /\ Stands(u.row, h, v)
        /\ \A j, a : j # h /\ Stands(w.row, j, a) => Stands(u.row, j, a)
    <3>1. StoresNext(w.row, h, v, u.row)
      BY <1>2, <2>1, <2>4, <2>5, <2>8 DEF Merged, StoresNext
    <3> QED
      BY <3>1, StoredNext
  <2>10. u \in Walks(r, s)
    BY <2>5, <2>6, <2>7, <2>9 DEF Walks
  <2>11. ASSUME NEW c \in Int, c <= h
         PROVE  Under(c, r, u.m) /\ Under(c, s, u.n)
    <3>1. u.m <= Len(r) => r[u.m].j \in Int /\ h < r[u.m].j
      BY <1>3, <2>6 DEF Under
    <3>2. u.n <= Len(s) => s[u.n].j \in Int /\ h < s[u.n].j
      BY <1>3, <2>7 DEF Under
    <3> QED
      BY <2>1, <2>11, <3>1, <3>2 DEF Under
  <2>12. /\ \A k \in 1..Len(u.row) : u.row[k].j \in Int
         /\ \A k \in 1..(u.m - 1) : r[k].j \in Int
         /\ \A k \in 1..(u.n - 1) : s[k].j \in Int
    <3>1. /\ \A k \in 1..(u.m - 1) : k \in 1..Len(r)
          /\ \A k \in 1..(u.n - 1) : k \in 1..Len(s)
      BY <1>3, <2>6, <2>7
    <3>2. /\ \A k \in 1..Len(r) : r[k].j \in Int
          /\ \A k \in 1..Len(s) : s[k].j \in Int
      BY RowTypes
    <3>3. \A k \in 1..Len(u.row) : u.row[k].j \in Int
      BY <2>9, RowTypes
    <3> QED
      BY <3>1, <3>2, <3>3
  <2>13. ASSUME NEW j \in Cols, NEW a, NEW b,
                StandsIn(r, u.m - 1, j, a), StandsIn(s, u.n - 1, j, b)
         PROVE  Stands(u.row, j, Apply(op, a, b))
    <3>1. CASE j = h
      <4>1. a = x /\ b = y
        BY <2>6, <2>7, <2>13, <3>1
      <4> QED
        BY <2>5, <2>9, <3>1, <4>1
    <3>2. CASE j # h
      <4>1. StandsIn(r, w.m - 1, j, a) /\ StandsIn(s, w.n - 1, j, b)
        BY <2>6, <2>7, <2>13, <3>2
      <4>2. Stands(w.row, j, Apply(op, a, b))
        BY <4>1 DEF Merged
      <4> QED
        BY <2>9, <3>2, <4>2
    <3> QED
      BY <3>1, <3>2
  <2>14. Merged(op, r, s, u)
    BY <2>6, <2>7, <2>9, <2>10, <2>11, <2>12, <2>13 DEF Merged
  <2>15. u.m + u.n >= w.m + w.n + 1
    BY <1>3, <1>5, <2>5
  <2>16. ~AtEnd(r, s, w)
    BY <1>5, <1>3, <2>5 DEF AtEnd, left, right
  <2> QED
    BY <2>14, <2>15, <2>16
<1> QED
  BY <1>4, <1>5

\* An element of the whole row.
LEMMA StandsWhole ==
  ASSUME NEW row, NEW j, NEW v
  PROVE  Stands(row, j, v) <=> StandsIn(row, Len(row), j, v)
BY DEF Stands, StandsIn

\* The walk has begun, and ends after as many steps as there are entries.
LEMMA MergeExact ==
  ASSUME NEW op \in Operations, NEW r \in Seq(Entries), NEW s \in Seq(Entries),
         Ascends(r), Ascends(s)
  PROVE  LET row == MergeRows(op, r, s)
         IN  /\ row \in Seq(Entries) /\ Ascends(row) /\ NoZeros(row)
             /\ \A j \in Cols : \A a, b :
                  Stands(r, j, a) /\ Stands(s, j, b) => Stands(row, j, Apply(op, a, b))
<1> DEFINE n == Len(r) + Len(s)
           start == [m |-> 1, n |-> 1, row |-> <<>>]
           IsWalk(f) == f = [k \in 0..n |-> IF k = 0 THEN start ELSE Merge(op, r, s, f[k - 1])]
           walk == CHOOSE f : IsWalk(f)
           S == {w \in Walks(r, s) : Merged(op, r, s, w)}
           g == [z \in (1..n) \X S |-> Merge(op, r, s, z[2])]
<1>0. Len(r) \in Nat /\ Len(s) \in Nat /\ n \in Nat
  BY LenProperties
<1>1. MergeRows(op, r, s) = walk[n].row
  BY DEF MergeRows
<1>2. Merged(op, r, s, start)
  <2>1. /\ start.m = 1 /\ start.n = 1 /\ start.row = <<>> /\ Len(start.row) = 0
        /\ start.row \in Seq(Entries) /\ 1 - 1 = 0
    BY EmptySeq
  <2>2. start \in Walks(r, s)
    BY <1>0, <2>1 DEF Walks
  <2> HIDE DEF start
  <2>3. \A k \in 1..0 : FALSE
    OBVIOUS
  <2>4. Ascends(start.row) /\ NoZeros(start.row)
    BY <2>1, <2>3 DEF Ascends, NoZeros
  <2>5. \A j, a : StandsIn(r, 0, j, a) \/ StandsIn(s, 0, j, a) => a = 0
    BY <2>3 DEF StandsIn
  <2>6. \A j : Stands(start.row, j, 0)
    BY <2>1, <2>3 DEF Stands
  <2> QED
    BY <2>1, <2>2, <2>3, <2>4, <2>5, <2>6, ApplyType DEF Merged
<1>3. \A w \in S : Merge(op, r, s, w) \in S
  <2>1. ASSUME NEW w \in S PROVE Merge(op, r, s, w) \in S
    <3>1. Merged(op, r, s, Merge(op, r, s, w))
      BY MergeStep
    <3> QED
      BY <3>1 DEF Merged
  <2> QED
    BY <2>1
<1>4. start \in S
  BY <1>2 DEF Merged
<1> HIDE DEF S, start
<1>5. \A k \in 1..n, w \in S : g[<<k, w>>] = Merge(op, r, s, w)
  OBVIOUS
<1> HIDE DEF g
<1>6. Steps(g, n, S)
  BY <1>3, <1>5 DEF Steps
<1> HIDE DEF n
<1>7. PICK f \in [0..n -> S] : Recurs(f, n, start, g)
  BY <1>0, <1>4, <1>6, Recursion
<1>8. IsWalk(f)
  <2>1. f[0] = start /\ \A k \in 1..n : f[k] = Merge(op, r, s, f[k - 1])
    BY <1>0, <1>5, <1>7, Counts DEF Recurs
  <2> QED
    BY <1>0, <2>1, Counts
<1>9. IsWalk(walk)
  BY <1>8
<1> HIDE DEF walk
<1>10. walk[0] = start /\ \A k \in 1..n : walk[k] = Merge(op, r, s, walk[k - 1])
  BY <1>0, <1>9, Counts
<1> HIDE DEF IsWalk
<1> DEFINE Far(k, w) == AtEnd(r, s, w) \/ w.m + w.n >= k + 2
           T == {k \in 0..n : walk[k] \in S /\ Far(k, walk[k])}
<1>11. 0 \in T
  <2>1. Far(0, start)
    BY DEF start
  <2> QED
    BY <1>0, <1>4, <1>10, <2>1
<1>12. ASSUME NEW k \in 1..n, k - 1 \in T
       PROVE  k \in T
  <2> DEFINE w == walk[k - 1]
  <2>1. k \in Nat /\ k \in 0..n
    BY <1>0
  <2>2. w \in S /\ Far(k - 1, w) /\ walk[k] = Merge(op, r, s, w)
    BY <1>10, <1>12
  <2> HIDE DEF w
  <2>3. walk[k] \in S
    BY <1>3, <2>2
  <2>4. IF AtEnd(r, s, w) THEN walk[k] = w ELSE walk[k].m + walk[k].n >= w.m + w.n + 1
    BY <2>2, MergeStep DEF S
  <2>5. w.m \in Nat /\ w.n \in Nat /\ walk[k].m \in Nat /\ walk[k].n \in Nat
    <3>1. \A z \in S : z.m \in Nat /\ z.n \in Nat
      BY <1>0 DEF S, Walks
    <3> QED
      BY <2>2, <2>3, <3>1
  <2>6. Far(k, walk[k])
    <3>1. CASE AtEnd(r, s, w)
      BY <2>4, <3>1
    <3>2. CASE ~AtEnd(r, s, w)
      BY <2>1, <2>2, <2>4, <2>5, <3>2
    <3> QED
      BY <3>1, <3>2
  <2> QED
    BY <2>1, <2>3, <2>6
<1> HIDE DEF T
<1>13. \A k \in 0..n : k \in T
  BY <1>0, <1>11, <1>12, CountUp
<1>14. walk[n] \in S /\ Far(n, walk[n])
  BY <1>0, <1>13 DEF T
<1> DEFINE w == walk[n]
<1>15. w \in Walks(r, s) /\ Merged(op, r, s, w)
  BY <1>14 DEF S
<1>16. w.m = Len(r) + 1 /\ w.n = Len(s) + 1
  <2>1. w.m \in 1..(Len(r) + 1) /\ w.n \in 1..(Len(s) + 1)
    BY <1>15 DEF Walks
  <2>2. AtEnd(r, s, w) \/ w.m + w.n >= Len(r) + Len(s) + 2
    BY <1>14 DEF n
  <2> HIDE DEF w
  <2> QED
    BY <1>0, <2>1, <2>2 DEF AtEnd
<1>17. w.m - 1 = Len(r) /\ w.n - 1 = Len(s) /\ w.row \in Seq(Entries)
  BY <1>0, <1>15, <1>16 DEF Walks
<1> HIDE DEF w
<1>18. \A j \in Cols : \A a, b :
         Stands(r, j, a) /\ Stands(s, j, b) => Stands(w.row, j, Apply(op, a, b))
  BY <1>15, <1>17, StandsWhole DEF Merged
<1>19. MergeRows(op, r, s) = w.row
  BY <1>1 DEF w
<1> QED
  BY <1>15, <1>17, <1>18, <1>19 DEF Merged

-----------------------------------------------------------------------------
(* Rows that are not in order, or have a column twice: its element is the  *)
(* sum of its entries.                                                     *)

\* What an entry adds to column j, and that v is the sum of the first c entries.
Part(e, j) == IF e.j = j THEN e.x ELSE 0
AddsIn(row, c, j, v) ==
  \E t \in [0..c -> Int] : /\ t[0] = 0 /\ v = t[c]
                           /\ \A k \in 1..c : t[k] = t[k - 1] + Part(row[k], j)
Adds(row, j, v) == AddsIn(row, Len(row), j, v)

\* The entries are added one after the other.
LEMMA AddsBefore ==
  ASSUME NEW row, NEW c \in Nat \ {0}, NEW j, NEW v, AddsIn(row, c, j, v)
  PROVE  \E u \in Int : AddsIn(row, c - 1, j, u) /\ v = u + Part(row[c], j)
<1>1. PICK t \in [0..c -> Int] : /\ t[0] = 0 /\ v = t[c]
                                 /\ \A k \in 1..c : t[k] = t[k - 1] + Part(row[k], j)
  BY DEF AddsIn
<1> DEFINE q == [k \in 0..(c - 1) |-> t[k]]
<1>2. /\ c - 1 \in Nat /\ c - 1 \in 0..(c - 1) /\ 0 \in 0..(c - 1) /\ c \in 1..c /\ c - 1 \in 0..c
      /\ \A k \in 0..(c - 1) : k \in 0..c
      /\ \A k \in 1..(c - 1) : k \in 1..c /\ k \in 0..(c - 1) /\ k - 1 \in 0..(c - 1)
  OBVIOUS
<1>3. q \in [0..(c - 1) -> Int] /\ \A k \in 0..(c - 1) : q[k] = t[k]
  BY <1>2
<1> HIDE DEF q
<1>4. AddsIn(row, c - 1, j, t[c - 1])
  <2>1. q[0] = 0 /\ t[c - 1] = q[c - 1]
    BY <1>1, <1>2, <1>3
  <2>2. \A k \in 1..(c - 1) : q[k] = q[k - 1] + Part(row[k], j)
    BY <1>1, <1>2, <1>3
  <2> QED
    BY <1>3, <2>1, <2>2 DEF AddsIn
<1>5. t[c - 1] \in Int /\ v = t[c - 1] + Part(row[c], j)
  BY <1>1, <1>2
<1> QED
  BY <1>4, <1>5

\* Of no entries, the sum is 0.
LEMMA AddsNothing ==
  ASSUME NEW row, NEW j
  PROVE  /\ AddsIn(row, 0, j, 0)
         /\ \A v : AddsIn(row, 0, j, v) => v = 0
<1> DEFINE t == [k \in 0..0 |-> 0]
<1>1. t \in [0..0 -> Int] /\ t[0] = 0
  OBVIOUS
<1> HIDE DEF t
<1>2. \A k \in 1..0 : FALSE
  OBVIOUS
<1> QED
  BY <1>1, <1>2 DEF AddsIn

\* And one more of them at the end of the row.
LEMMA AddsAppended ==
  ASSUME NEW row \in Seq(Entries), NEW e \in Entries, NEW j, NEW v, Adds(row, j, v)
  PROVE  Adds(Append(row, e), j, v + Part(e, j))
<1> DEFINE n == Len(row)
           new == Append(row, e)
<1>1. PICK t \in [0..n -> Int] : /\ t[0] = 0 /\ v = t[n]
                                 /\ \A k \in 1..n : t[k] = t[k - 1] + Part(row[k], j)
  BY DEF Adds, AddsIn
<1>2. n \in Nat /\ Len(new) = n + 1 /\ new[n + 1] = e /\ \A k \in 1..n : new[k] = row[k]
  BY AppendProperties, LenProperties
<1>3. Part(e, j) \in Int
  BY DEF Part, Entries
<1> HIDE DEF n, new
<1> DEFINE q == [k \in 0..(n + 1) |-> IF k = n + 1 THEN t[n] + Part(e, j) ELSE t[k]]
<1>4. /\ n + 1 \in 0..(n + 1) /\ n \in 0..n /\ 0 \in 0..n /\ n + 1 # 0 /\ (n + 1) - 1 = n
      /\ \A k \in 0..(n + 1) : k = n + 1 \/ k \in 0..n
      /\ \A k \in 0..n : k \in 0..(n + 1) /\ k # n + 1
      /\ \A k \in 1..(n + 1) : k = n + 1 \/ k \in 1..n
      /\ \A k \in 1..n : k \in 0..n /\ k - 1 \in 0..n
  BY <1>2
<1>5. /\ q \in [0..(n + 1) -> Int]
      /\ q[n + 1] = t[n] + Part(e, j) /\ \A k \in 0..n : q[k] = t[k]
  BY <1>3, <1>4
<1> HIDE DEF q
<1>6. \A k \in 1..(n + 1) : q[k] = q[k - 1] + Part(new[k], j)
  BY <1>1, <1>2, <1>4, <1>5
<1>7. AddsIn(new, n + 1, j, v + Part(e, j))
  BY <1>1, <1>4, <1>5, <1>6 DEF AddsIn
<1> QED
  BY <1>2, <1>7 DEF Adds, new
-----------------------------------------------------------------------------
(* csr_sum_duplicates.                                                     *)

\* An entry comes to an ascending row that ends at its column or before.
LEMMA EntryAdded ==
  ASSUME NEW row \in Seq(Entries), Ascends(row), NEW e \in Entries,
         row # <<>> => row[Len(row)].j <= e.j,
         NEW new, new = AddEntry(row, e)
  PROVE  /\ new \in Seq(Entries) /\ Ascends(new)
         /\ new # <<>> /\ new[Len(new)].j = e.j
         /\ \A j : \A v \in Int : Stands(row, j, v) => Stands(new, j, v + Part(e, j))
<1> DEFINE n == Len(row)
<1>0. /\ n \in Nat /\ (row = <<>> <=> n = 0)
      /\ e.j \in Cols /\ e.j \in Int /\ e.x \in Int
      /\ \A k \in 1..n : row[k] \in Entries /\ row[k].j \in Int /\ row[k].x \in Int
  <2>1. row = <<>> <=> n = 0
    BY EmptySeq
  <2>2. e.j \in Cols /\ e.x \in Int
    BY DEF Entries
  <2>3. e.j \in Int
    BY <2>2, SizeAssumption DEF Cols
  <2> QED
    BY RowTypes, <2>1, <2>2, <2>3
<1>1. CASE row # <<>> /\ row[n].j = e.j
  <2> DEFINE last == [row[n] EXCEPT !.x = @ + e.x]
  <2>1. n \in 1..n
    BY <1>0, <1>1
  <2>2. last \in Entries /\ last.j = e.j /\ last.x = row[n].x + e.x
    BY <1>0, <1>1, <2>1 DEF Entries
  <2>3. new = [row EXCEPT ![n] = last]
    BY <1>1 DEF AddEntry
  <2> HIDE DEF last, n
  <2>4. /\ new \in Seq(Entries) /\ Len(new) = n
        /\ new[n] = last /\ \A k \in 1..n : k # n => new[k] = row[k]
    BY <2>1, <2>2, <2>3, ExceptSeq DEF n
  <2>5. \A k \in 1..n : new[k].j = row[k].j
    BY <1>1, <2>2, <2>4
  <2>6. Ascends(new)
    BY <2>4, <2>5 DEF Ascends, n
  <2>7. \A k \in 1..n : k # n => row[k].j # e.j
    BY <1>0, <1>1, <2>1 DEF Ascends, n
  <2>8. ASSUME NEW j, NEW v \in Int, Stands(row, j, v)
        PROVE  Stands(new, j, v + Part(e, j))
    <3>1. CASE j = e.j
      <4>1. v = row[n].x
        BY <1>1, <2>1, <2>7, <2>8, <3>1 DEF Stands, n
      <4> QED
        BY <2>1, <2>2, <2>4, <3>1, <4>1 DEF Stands, Part
    <3>2. CASE j # e.j
      <4>1. v + Part(e, j) = v
        BY <3>2 DEF Part
      <4>2. Stands(new, j, v)
        BY <1>1, <2>2, <2>4, <2>5, <2>8, <3>2 DEF Stands, n
      <4> QED
        BY <4>1, <4>2
    <3> QED
      BY <3>1, <3>2
  <2>9. new # <<>>
    BY <1>0, <1>1, <2>4, EmptySeq
  <2> QED
    BY <2>2, <2>4, <2>6, <2>8, <2>9
<1>2. CASE row # <<>> => row[n].j # e.j
  <2>1. new = Append(row, e)
    BY <1>2 DEF AddEntry
  <2>2. /\ new \in Seq(Entries) /\ Len(new) = n + 1 /\ new # <<>>
        /\ new[n + 1] = e
        /\ \A k \in 1..n : new[k] = row[k]
    BY <2>1, AppendProperties
  <2>3. /\ \A k \in 1..Len(new) : k = n + 1 \/ k \in 1..n
        /\ n + 1 \in 1..Len(new) /\ \A k \in 1..n : k \in 1..Len(new)
    BY <1>0, <2>2
  <2>4. \A k \in 1..n : row[k].j < e.j
    <3>1. ASSUME NEW k \in 1..n PROVE row[k].j < e.j
      <4>1. n \in 1..n /\ n # 0 /\ (k = n \/ k < n)
        BY <1>0
      <4>2. row[n].j < e.j
        BY <1>0, <1>2, <4>1
      <4>3. k < n => row[k].j < row[n].j
        BY <4>1 DEF Ascends
      <4> QED
        BY <1>0, <4>1, <4>2, <4>3
    <3> QED
      BY <3>1
  <2> HIDE DEF n
  <2>5. ASSUME NEW k \in 1..Len(new), NEW l \in 1..Len(new), k < l
        PROVE  new[k].j < new[l].j
    <3>1. k \in 1..n
      BY <1>0, <2>2, <2>5
    <3>2. CASE l \in 1..n
      BY <2>2, <2>5, <3>1, <3>2 DEF Ascends, n
    <3>3. CASE l = n + 1
      BY <2>2, <2>4, <3>1, <3>3
    <3> QED
      BY <2>3, <3>2, <3>3
  <2>6. ASSUME NEW j, NEW v \in Int, Stands(row, j, v)
        PROVE  Stands(new, j, v + Part(e, j))
    <3>1. CASE j = e.j
      <4>1. v = 0
        BY <1>0, <2>4, <2>6, <3>1 DEF Stands, n
      <4>2. v + Part(e, j) = e.x
        BY <1>0, <3>1, <4>1 DEF Part
      <4> QED
        BY <2>2, <2>3, <3>1, <4>2 DEF Stands
    <3>2. CASE j # e.j
      <4>1. v + Part(e, j) = v
        BY <3>2 DEF Part
      <4>2. Stands(new, j, v)
        BY <2>2, <2>3, <2>6, <3>2 DEF Stands, n
      <4> QED
        BY <4>1, <4>2
    <3> QED
      BY <3>1, <3>2
  <2> QED
    BY <2>2, <2>5, <2>6 DEF Ascends
<1> QED
  BY <1>1, <1>2

\* An entry is added to any row.
LEMMA AddEntryType ==
  ASSUME NEW row \in Seq(Entries), NEW e \in Entries
  PROVE  AddEntry(row, e) \in Seq(Entries)
<1> DEFINE n == Len(row)
           last == [row[n] EXCEPT !.x = @ + e.x]
<1>1. CASE row # <<>> /\ row[n].j = e.j
  <2>1. n \in 1..n /\ row[n] \in Entries
    BY <1>1, EmptySeq, ElementOfSeq
  <2>2. last \in Entries
    BY <2>1 DEF Entries
  <2>3. AddEntry(row, e) = [row EXCEPT ![n] = last]
    BY <1>1 DEF AddEntry
  <2> HIDE DEF last, n
  <2> QED
    BY <2>1, <2>2, <2>3, ExceptSeq DEF n
<1>2. CASE ~ (row # <<>> /\ row[n].j = e.j)
  BY <1>2, AppendProperties DEF AddEntry
<1> QED
  BY <1>1, <1>2

\* The steps of SumRuns.
LEMMA SumWalk ==
  ASSUME NEW row \in Seq(Entries)
  PROVE  \E f \in [0..Len(row) -> Seq(Entries)] :
           /\ SumRuns(row) = f[Len(row)]
           /\ f[0] = <<>> /\ \A k \in 1..Len(row) : f[k] = AddEntry(f[k - 1], row[k])
<1> DEFINE n == Len(row)
           IsWalk(f) == f = [k \in 0..n |-> IF k = 0 THEN <<>> ELSE AddEntry(f[k - 1], row[k])]
           walk == CHOOSE f : IsWalk(f)
           g == [z \in (1..n) \X Seq(Entries) |-> AddEntry(z[2], row[z[1]])]
<1>0. n \in Nat /\ <<>> \in Seq(Entries) /\ \A k \in 1..n : row[k] \in Entries
  BY RowTypes, EmptySeq
<1>1. SumRuns(row) = walk[n]
  BY DEF SumRuns
<1> HIDE DEF n
<1>2. \A k \in 1..n, s \in Seq(Entries) :
        g[<<k, s>>] = AddEntry(s, row[k]) /\ g[<<k, s>>] \in Seq(Entries)
  BY <1>0, AddEntryType
<1> HIDE DEF g
<1>3. PICK f \in [0..n -> Seq(Entries)] : Recurs(f, n, <<>>, g)
  BY <1>0, <1>2, Recursion DEF Steps
<1>4. IsWalk(f)
  <2>1. f[0] = <<>> /\ \A k \in 1..n : f[k] = AddEntry(f[k - 1], row[k])
    BY <1>0, <1>2, <1>3, Counts DEF Recurs
  <2> QED
    BY <1>0, <2>1, Counts
<1>5. IsWalk(walk)
  BY <1>4
<1> HIDE DEF walk
<1>6. walk[0] = <<>> /\ \A k \in 1..n : walk[k] = AddEntry(walk[k - 1], row[k])
  BY <1>0, <1>5, Counts
<1> DEFINE T == {k \in 0..n : walk[k] \in Seq(Entries)}
<1>7. 0 \in T
  <2>1. 0 \in 0..n /\ walk[0] \in Seq(Entries)
    BY <1>0, <1>6
  <2> QED
    BY <2>1
<1>8. ASSUME NEW k \in 1..n, k - 1 \in T PROVE k \in T
  <2>1. k \in 0..n
    BY <1>0
  <2>2. walk[k] = AddEntry(walk[k - 1], row[k]) /\ walk[k - 1] \in Seq(Entries)
    BY <1>6, <1>8
  <2>3. walk[k] \in Seq(Entries)
    BY <1>0, <2>2, AddEntryType
  <2> QED
    BY <2>1, <2>3
<1> HIDE DEF T
<1>9. \A k \in 0..n : k \in T
  BY <1>0, <1>7, <1>8, CountUp
<1>10. walk \in [0..n -> Seq(Entries)]
  BY <1>5, <1>9 DEF T
<1> QED
  BY <1>1, <1>6, <1>10 DEF n

\* A row whose columns climb becomes one whose columns ascend, and the element
\* of a column is the sum of the entries that the column had.
LEMMA RunsSummed ==
  ASSUME NEW row \in Seq(Entries), Climbs(row)
  PROVE  LET new == SumRuns(row)
         IN  /\ new \in Seq(Entries) /\ Ascends(new)
             /\ \A j, v : Adds(row, j, v) => Stands(new, j, v)
<1> DEFINE n == Len(row)
<1>1. PICK f \in [0..n -> Seq(Entries)] :
           /\ SumRuns(row) = f[n]
           /\ f[0] = <<>> /\ \A k \in 1..n : f[k] = AddEntry(f[k - 1], row[k])
  BY SumWalk
<1>2. n \in Nat /\ \A k \in 1..n : row[k] \in Entries /\ row[k].j \in Int
  BY RowTypes
<1> DEFINE Sums(k, s) == \A j : \A v \in Int : AddsIn(row, k, j, v) => Stands(s, j, v)
           Summed(k, s) == /\ s \in Seq(Entries) /\ Ascends(s)
                           /\ s = <<>> \/ (k \in 1..n /\ s[Len(s)].j = row[k].j)
                           /\ Sums(k, s)
           T == {k \in 0..n : Summed(k, f[k])}
<1>3. 0 \in T
  <2>1. <<>> \in Seq(Entries) /\ Len(<<>>) = 0 /\ \A k \in 1..0 : FALSE
    BY EmptySeq
  <2>2. Ascends(<<>>) /\ \A j : Stands(<<>>, j, 0)
    BY <2>1 DEF Ascends, Stands
  <2>3. Sums(0, <<>>)
    BY <2>2, AddsNothing
  <2> HIDE DEF Sums
  <2> QED
    BY <1>1, <1>2, <2>1, <2>2, <2>3
<1>4. ASSUME NEW k \in 1..n, k - 1 \in T PROVE k \in T
  <2> DEFINE s == f[k - 1]
             new == f[k]
  <2>1. k \in 0..n /\ k \in Nat \ {0} /\ new = AddEntry(s, row[k]) /\ Summed(k - 1, s)
    BY <1>1, <1>2, <1>4
  <2> HIDE DEF s, new
  <2>2. s # <<>> => s[Len(s)].j <= row[k].j
    <3>1. CASE s # <<>>
      <4>1. k - 1 \in 1..n /\ k - 1 < k /\ s[Len(s)].j = row[k - 1].j
        BY <1>2, <2>1, <3>1
      <4> QED
        BY <4>1 DEF Climbs
    <3> QED
      BY <3>1
  <2>3. /\ new \in Seq(Entries) /\ Ascends(new)
        /\ new # <<>> /\ new[Len(new)].j = row[k].j
        /\ \A j : \A v \in Int : Stands(s, j, v) => Stands(new, j, v + Part(row[k], j))
    <3> HIDE DEF Sums, n
    <3> QED
      BY <1>2, <2>1, <2>2, EntryAdded
  <2>4. Sums(k, new)
    <3>1. ASSUME NEW j, NEW v \in Int, AddsIn(row, k, j, v) PROVE Stands(new, j, v)
      <4>1. PICK u \in Int : AddsIn(row, k - 1, j, u) /\ v = u + Part(row[k], j)
        BY <2>1, <3>1, AddsBefore
      <4>2. Stands(s, j, u)
        BY <2>1, <4>1
      <4> QED
        BY <2>3, <4>1, <4>2
    <3> QED
      BY <3>1
  <2> HIDE DEF Sums
  <2> QED
    BY <2>1, <2>3, <2>4 DEF new
<1> HIDE DEF T
<1>5. \A k \in 0..n : k \in T
  BY <1>2, <1>3, <1>4, CountUp
<1>6. Summed(n, f[n])
  BY <1>2, <1>5 DEF T
<1>7. \A j, v : Adds(row, j, v) => v \in Int
  <2>1. n \in 0..n
    BY <1>2
  <2> QED
    BY <2>1 DEF Adds, AddsIn
<1> QED
  BY <1>1, <1>6, <1>7 DEF Adds

\* An ascending row has no runs.
LEMMA NoRuns ==
  ASSUME NEW row \in Seq(Entries), Ascends(row)
  PROVE  SumRuns(row) = row
<1> DEFINE n == Len(row)
<1>1. PICK f \in [0..n -> Seq(Entries)] :
           /\ SumRuns(row) = f[n]
           /\ f[0] = <<>> /\ \A k \in 1..n : f[k] = AddEntry(f[k - 1], row[k])
  BY SumWalk
<1>2. n \in Nat /\ \A k \in 1..n : row[k] \in Entries /\ row[k].j \in Int
  BY RowTypes
<1> DEFINE Begins(k, s) == Len(s) = k /\ \A l \in 1..k : s[l] = row[l]
           T == {k \in 0..n : Begins(k, f[k])}
<1>3. 0 \in T
  <2>1. 0 \in 0..n /\ Len(f[0]) = 0 /\ \A l \in 1..0 : FALSE
    BY <1>1, <1>2, EmptySeq
  <2> QED
    BY <2>1
<1>4. ASSUME NEW k \in 1..n, k - 1 \in T PROVE k \in T
  <2> DEFINE s == f[k - 1]
             new == f[k]
  <2>1. k \in 0..n /\ k \in Nat \ {0} /\ new = AddEntry(s, row[k]) /\ Begins(k - 1, s)
        /\ s \in Seq(Entries)
    <3>1. k \in 0..n /\ k \in Nat \ {0} /\ k - 1 \in 0..n
      BY <1>2
    <3>2. Begins(k - 1, s)
      BY <1>4
    <3> QED
      BY <1>1, <3>1, <3>2
  <2> HIDE DEF s, new
  <2>2. s # <<>> => s[Len(s)].j # row[k].j
    <3>1. CASE s # <<>>
      <4>1. k - 1 # 0
        BY <2>1, <3>1, EmptySeq
      <4>2. k - 1 \in 1..n /\ k - 1 \in 1..(k - 1) /\ k - 1 < k
        BY <1>2, <2>1, <4>1
      <4>3. s[Len(s)] = row[k - 1] /\ row[k - 1].j < row[k].j
        BY <2>1, <4>2 DEF Ascends
      <4> QED
        BY <1>2, <4>2, <4>3
    <3> QED
      BY <3>1
  <2>3. new = Append(s, row[k])
    BY <2>1, <2>2 DEF AddEntry
  <2>4. Len(new) = (k - 1) + 1 /\ new[(k - 1) + 1] = row[k]
        /\ \A l \in 1..(k - 1) : new[l] = s[l]
    BY <1>2, <2>1, <2>3, AppendProperties
  <2>5. (k - 1) + 1 = k /\ \A l \in 1..k : l = k \/ l \in 1..(k - 1)
    BY <2>1
  <2>6. Begins(k, new)
    BY <2>1, <2>4, <2>5
  <2> HIDE DEF Begins
  <2> QED
    BY <2>1, <2>6 DEF new
<1> HIDE DEF T
<1>5. \A k \in 0..n : k \in T
  BY <1>2, <1>3, <1>4, CountUp
<1>6. f[n] \in Seq(Entries) /\ Len(f[n]) = Len(row) /\ \A l \in 1..n : f[n][l] = row[l]
  BY <1>2, <1>5 DEF T
<1>7. f[n] = row
  BY <1>6, SeqEqual
<1> QED
  BY <1>1, <1>7

\* csr_sum_duplicates on a matrix whose columns climb.
LEMMA DuplicatesSummed ==
  ASSUME NEW rows, \A i \in 1..Row : rows[i] \in Seq(Entries) /\ Climbs(rows[i])
  PROVE  LET M == csr_sum_duplicates(FromRows(rows))
         IN  /\ CanonicalFormat(M)
             /\ \A i \in Rows, j \in Cols :
                  \A v : Adds(rows[i + 1], j, v) => get(M, i, j) = v
<1> DEFINE new == [i \in 1..Row |-> SumRuns(RowEntries(FromRows(rows), i - 1))]
<1>0. Row \in Nat /\ (\A i \in 1..Row : i - 1 \in Rows /\ (i - 1) + 1 = i)
      /\ \A i \in Rows : i + 1 \in 1..Row
  BY SizeAssumption DEF Rows
<1>1. csr_sum_duplicates(FromRows(rows)) = FromRows(new)
  BY DEF csr_sum_duplicates, MapRows
<1>2. \A i \in 1..Row : new[i] = SumRuns(rows[i])
  BY <1>0, JoinedRows
<1> HIDE DEF new
<1>3. \A i \in 1..Row : /\ new[i] \in Seq(Entries) /\ Ascends(new[i])
                        /\ \A j, v : Adds(rows[i], j, v) => Stands(new[i], j, v)
  BY <1>2, RunsSummed
<1>4. CanonicalFormat(FromRows(new))
  BY <1>3, JoinedCanonical
<1>5. \A i \in Rows, j \in Cols :
        \A v : Adds(rows[i + 1], j, v) => get(FromRows(new), i, j) = v
  <2>1. ASSUME NEW i \in Rows, NEW j \in Cols, NEW v, Adds(rows[i + 1], j, v)
        PROVE  get(FromRows(new), i, j) = v
    <3>1. Stands(new[i + 1], j, v)
      BY <1>0, <1>3, <2>1
    <3> QED
      BY <1>3, <3>1, GetJoined
  <2> QED
    BY <2>1
<1> QED
  BY <1>1, <1>4, <1>5

\* In a canonical matrix it has nothing to do.
LEMMA NoDuplicates ==
  ASSUME NEW M, CanonicalFormat(M)
  PROVE  csr_sum_duplicates(M) = M
<1> DEFINE old == [i \in 1..Row |-> RowEntries(M, i - 1)]
           new == [i \in 1..Row |-> SumRuns(RowEntries(M, i - 1))]
<1>1. csr_sum_duplicates(M) = FromRows(new)
  BY DEF csr_sum_duplicates, MapRows
<1>2. RowsFollow(M)
  BY DEF CanonicalFormat
<1>3. \A i \in 1..Row : i - 1 \in Rows
  BY SizeAssumption DEF Rows
<1>4. \A i \in 1..Row : SumRuns(RowEntries(M, i - 1)) = RowEntries(M, i - 1)
  <2>1. ASSUME NEW i \in 1..Row PROVE SumRuns(RowEntries(M, i - 1)) = RowEntries(M, i - 1)
    <3>1. i - 1 \in Rows
      BY <1>3
    <3>2. RowEntries(M, i - 1) \in Seq(Entries) /\ Ascends(RowEntries(M, i - 1))
      BY <1>2, <3>1, RowCut, CanonicalRow
    <3> QED
      BY <3>2, NoRuns
  <2> QED
    BY <2>1
<1>5. new = old
  BY <1>4
<1>6. FromRows(old) = M
  BY <1>2, Rejoined
<1> QED
  BY <1>1, <1>5, <1>6
-----------------------------------------------------------------------------
(* csr_sort_indices.                                                       *)

\* Max of the community modules, for a set of places.
LEMMA MaxIsGreatest ==
  ASSUME NEW n \in Nat, NEW T \in SUBSET (0..n), T # {}
  PROVE  Max(T) \in T /\ \A y \in T : y <= Max(T)
<1> DEFINE D == {d \in Nat : n - d \in T}
<1>1. PICK t \in T : TRUE
  OBVIOUS
<1>2. n - t \in D
  <2>1. t \in 0..n /\ n - t \in Nat /\ n - (n - t) = t
    OBVIOUS
  <2> QED
    BY <2>1
<1>3. PICK d \in D : \A l \in D : d <= l
  BY <1>2, LeastNumber
<1>4. \A y \in T : y <= n - d
  <2>1. ASSUME NEW y \in T PROVE y <= n - d
    <3>1. y \in 0..n /\ n - y \in Nat /\ n - (n - y) = y
      OBVIOUS
    <3>2. d <= n - y
      BY <1>3, <3>1
    <3> QED
      BY <1>3, <3>1, <3>2
  <2> QED
    BY <2>1
<1>5. n - d \in T /\ \A y \in T : n - d >= y
  BY <1>3, <1>4
<1>6. \E x \in T : \A y \in T : x >= y
  BY <1>5
<1>7. Max(T) \in T /\ \A y \in T : Max(T) >= y
  BY <1>6 DEF Max
<1> QED
  BY <1>7

\* An entry comes to its place in a row whose columns climb.
LEMMA EntryInserted ==
  ASSUME NEW row \in Seq(Entries), Climbs(row), NEW e \in Entries,
         NEW new, new = InOrder(row, e)
  PROVE  /\ new \in Seq(Entries) /\ Climbs(new)
         /\ \A j, v : Adds(row, j, v) => Adds(new, j, v + Part(e, j))
<1> DEFINE n == Len(row)
           before == {k \in DOMAIN row : row[k].j <= e.j}
           k == Max({0} \cup before)
<1>0. /\ n \in Nat /\ DOMAIN row = 1..n
      /\ \A l \in 1..n : row[l] \in Entries /\ row[l].j \in Int
  BY RowTypes
<1>1. e.j \in Int
  <2>1. e.j \in Cols
    BY DEF Entries
  <2> QED
    BY <2>1, SizeAssumption DEF Cols
<1>2. {0} \cup before \in SUBSET (0..n) /\ {0} \cup before # {}
  BY <1>0
<1>3. k \in {0} \cup before /\ \A y \in {0} \cup before : y <= k
  <2> HIDE DEF before, n
  <2> QED
    BY <1>0, <1>2, MaxIsGreatest
<1>4. new = InsertAt(row, k + 1, e)
  BY DEF InOrder
<1> HIDE DEF k
<1>5. k \in 0..n /\ (k = 0 \/ row[k].j <= e.j)
  BY <1>0, <1>2, <1>3
<1>6. \A l \in 1..n : l <= k => row[l].j <= e.j
  <2>1. ASSUME NEW l \in 1..n, l <= k PROVE row[l].j <= e.j
    <3>1. k \in 1..n /\ (l = k \/ l < k)
      BY <1>0, <1>5, <2>1
    <3>2. l < k => row[l].j <= row[k].j
      BY <3>1 DEF Climbs
    <3> QED
      BY <1>0, <1>1, <1>5, <3>1, <3>2
  <2> QED
    BY <2>1
<1>7. \A l \in 1..n : l > k => e.j <= row[l].j
  <2>1. ASSUME NEW l \in 1..n, l > k PROVE e.j <= row[l].j
    <3>1. l \notin before
      BY <1>0, <1>3, <1>5, <2>1
    <3>2. ~(row[l].j <= e.j)
      BY <1>0, <3>1
    <3> QED
      BY <1>0, <1>1, <3>2
  <2> QED
    BY <2>1
<1> HIDE DEF before
<1>8. new \in Seq(Entries) /\ Len(new) = n + 1
      /\ \A m \in 1..(n + 1) : /\ m <= k => new[m] = row[m]
                               /\ m = k + 1 => new[m] = e
                               /\ m > k + 1 => new[m] = row[m - 1]
  <2>1. 1 \in 1..(n + 1)
    BY <1>0
  <2>2. new \in Seq(Entries) /\ Len(new) = n + 1
    BY <1>4, <1>5, <2>1, Inserted
  <2>3. ASSUME NEW m \in 1..(n + 1)
        PROVE  /\ m <= k => new[m] = row[m]
               /\ m = k + 1 => new[m] = e
               /\ m > k + 1 => new[m] = row[m - 1]
    BY <1>4, <1>5, Inserted
  <2> QED
    BY <2>2, <2>3
<1>9. Climbs(new)
  <2>1. ASSUME NEW a \in 1..(n + 1), NEW b \in 1..(n + 1), a < b
        PROVE  new[a].j <= new[b].j
    <3>1. CASE b <= k
      <4>1. a \in 1..n /\ b \in 1..n /\ a <= k
        BY <1>0, <1>5, <2>1, <3>1
      <4> QED
        BY <1>8, <2>1, <3>1, <4>1 DEF Climbs
    <3>2. CASE b = k + 1
      <4>1. a \in 1..n /\ a <= k
        BY <1>0, <1>5, <2>1, <3>2
      <4> QED
        BY <1>6, <1>8, <3>2, <4>1
    <3>3. CASE b > k + 1
      <4>1. b - 1 \in 1..n /\ b - 1 > k /\ new[b] = row[b - 1]
        BY <1>0, <1>5, <1>8, <3>3
      <4>2. CASE a <= k
        <5>1. a \in 1..n /\ a < b - 1 /\ new[a] = row[a]
          BY <1>0, <1>5, <1>8, <3>3, <4>2
        <5> QED
          BY <4>1, <5>1 DEF Climbs
      <4>3. CASE a = k + 1
        BY <1>7, <1>8, <4>1, <4>3
      <4>4. CASE a > k + 1
        <5>1. a - 1 \in 1..n /\ a - 1 < b - 1 /\ new[a] = row[a - 1]
          BY <1>0, <1>5, <1>8, <2>1, <4>4
        <5> QED
          BY <4>1, <5>1 DEF Climbs
      <4> QED
        BY <1>0, <1>5, <4>2, <4>3, <4>4
    <3> QED
      BY <1>0, <1>5, <3>1, <3>2, <3>3
  <2> QED
    BY <1>8, <2>1 DEF Climbs
<1>10. ASSUME NEW j, NEW v, Adds(row, j, v)
       PROVE  Adds(new, j, v + Part(e, j))
  <2> DEFINE d == Part(e, j)
  <2>1. PICK t \in [0..n -> Int] : /\ t[0] = 0 /\ v = t[n]
                                   /\ \A l \in 1..n : t[l] = t[l - 1] + Part(row[l], j)
    BY <1>10 DEF Adds, AddsIn
  <2>2. d \in Int /\ \A l \in 1..n : Part(row[l], j) \in Int
    BY <1>0 DEF Part, Entries
  <2> HIDE DEF d, n
  <2> DEFINE q == [m \in 0..(n + 1) |-> IF m <= k THEN t[m] ELSE t[m - 1] + d]
  <2>3. \A m \in 0..(n + 1) : (m <= k => m \in 0..n) /\ (~ (m <= k) => m - 1 \in 0..n)
    BY <1>0, <1>5
  <2>4. q \in [0..(n + 1) -> Int]
    BY <2>2, <2>3
  <2>5. \A m \in 0..(n + 1) : q[m] = IF m <= k THEN t[m] ELSE t[m - 1] + d
    OBVIOUS
  <2> HIDE DEF q
  <2>6. q[0] = 0 /\ q[n + 1] = v + d
    <3>1. 0 \in 0..(n + 1) /\ n + 1 \in 0..(n + 1) /\ 0 <= k /\ ~ (n + 1 <= k) /\ (n + 1) - 1 = n
      BY <1>0, <1>5
    <3> QED
      BY <2>1, <2>5, <3>1
  <2>7. ASSUME NEW m \in 1..(n + 1)
        PROVE  q[m] = q[m - 1] + Part(new[m], j)
    <3>1. m \in 0..(n + 1) /\ m - 1 \in 0..(n + 1)
      BY <1>0
    <3>2. CASE m <= k
      <4>1. m \in 1..n /\ m - 1 <= k
        BY <1>0, <1>5, <3>2
      <4> QED
        BY <1>8, <2>1, <2>5, <3>1, <3>2, <4>1
    <3>3. CASE m = k + 1
      <4>1. ~ (m <= k) /\ m - 1 <= k
        BY <1>5, <3>3
      <4>2. q[m] = t[m - 1] + d /\ q[m - 1] = t[m - 1]
        BY <2>5, <3>1, <4>1
      <4>3. new[m] = e
        BY <1>8, <3>3
      <4> QED
        BY <4>2, <4>3 DEF d
    <3>4. CASE m > k + 1
      <4>1. ~ (m <= k) /\ ~ (m - 1 <= k) /\ m - 1 \in 1..n /\ m - 1 \in 0..n /\ m - 2 \in 0..n
            /\ (m - 1) - 1 = m - 2
        BY <1>0, <1>5, <3>4
      <4>2. q[m] = t[m - 1] + d /\ q[m - 1] = t[m - 2] + d
        BY <2>5, <3>1, <4>1
      <4>3. t[m - 1] = t[m - 2] + Part(row[m - 1], j)
        BY <2>1, <4>1
      <4>4. new[m] = row[m - 1]
        BY <1>8, <3>4
      <4>5. t[m - 1] \in Int /\ t[m - 2] \in Int /\ Part(row[m - 1], j) \in Int
        BY <2>2, <4>1
      <4> QED
        BY <2>2, <4>2, <4>3, <4>4, <4>5
    <3> QED
      BY <1>0, <1>5, <3>2, <3>3, <3>4
  <2>8. AddsIn(new, n + 1, j, v + d)
    BY <2>4, <2>6, <2>7 DEF AddsIn
  <2> QED
    BY <1>8, <2>8 DEF Adds, d
<1> QED
  BY <1>8, <1>9, <1>10

\* The steps of SortedRow.
LEMMA SortWalk ==
  ASSUME NEW row \in Seq(Entries)
  PROVE  \E f \in [0..Len(row) -> {s \in Seq(Entries) : Climbs(s)}] :
           /\ SortedRow(row) = f[Len(row)]
           /\ f[0] = <<>> /\ \A k \in 1..Len(row) : f[k] = InOrder(f[k - 1], row[k])
<1> DEFINE n == Len(row)
           S == {s \in Seq(Entries) : Climbs(s)}
           IsWalk(f) == f = [k \in 0..n |-> IF k = 0 THEN <<>> ELSE InOrder(f[k - 1], row[k])]
           walk == CHOOSE f : IsWalk(f)
           g == [z \in (1..n) \X S |-> InOrder(z[2], row[z[1]])]
<1>0. n \in Nat /\ \A k \in 1..n : row[k] \in Entries
  BY RowTypes
<1>1. SortedRow(row) = walk[n]
  BY DEF SortedRow
<1>2. <<>> \in S
  <2>1. <<>> \in Seq(Entries) /\ Len(<<>>) = 0 /\ \A k \in 1..0 : FALSE
    BY EmptySeq
  <2> QED
    BY <2>1 DEF Climbs
<1>3. \A s \in S, e \in Entries : InOrder(s, e) \in S
  BY EntryInserted
<1> HIDE DEF n, S
<1>4. \A k \in 1..n, s \in S : g[<<k, s>>] = InOrder(s, row[k]) /\ g[<<k, s>>] \in S
  BY <1>0, <1>3
<1> HIDE DEF g
<1>5. PICK f \in [0..n -> S] : Recurs(f, n, <<>>, g)
  BY <1>0, <1>2, <1>4, Recursion DEF Steps
<1>6. IsWalk(f)
  <2>1. f[0] = <<>> /\ \A k \in 1..n : f[k] = InOrder(f[k - 1], row[k])
    BY <1>0, <1>4, <1>5, Counts DEF Recurs
  <2> QED
    BY <1>0, <2>1, Counts
<1>7. IsWalk(walk)
  BY <1>6
<1> HIDE DEF walk
<1>8. walk[0] = <<>> /\ \A k \in 1..n : walk[k] = InOrder(walk[k - 1], row[k])
  BY <1>0, <1>7, Counts
<1> DEFINE T == {k \in 0..n : walk[k] \in S}
<1>9. 0 \in T
  <2>1. 0 \in 0..n /\ walk[0] \in S
    BY <1>0, <1>2, <1>8
  <2> QED
    BY <2>1
<1>10. ASSUME NEW k \in 1..n, k - 1 \in T PROVE k \in T
  <2>1. k \in 0..n
    BY <1>0
  <2>2. walk[k] = InOrder(walk[k - 1], row[k]) /\ walk[k - 1] \in S
    BY <1>8, <1>10
  <2>3. walk[k] \in S
    BY <1>0, <1>3, <2>2
  <2> QED
    BY <2>1, <2>3
<1> HIDE DEF T
<1>11. \A k \in 0..n : k \in T
  BY <1>0, <1>9, <1>10, CountUp
<1>12. walk \in [0..n -> S]
  BY <1>7, <1>11 DEF T
<1> QED
  BY <1>1, <1>8, <1>12 DEF n, S

\* A sorted row climbs, and its columns have the sums they had.
LEMMA RowSorted ==
  ASSUME NEW row \in Seq(Entries)
  PROVE  LET new == SortedRow(row)
         IN  /\ new \in Seq(Entries) /\ Climbs(new)
             /\ \A j, v : Adds(row, j, v) => Adds(new, j, v)
<1> DEFINE n == Len(row)
           S == {s \in Seq(Entries) : Climbs(s)}
<1>1. PICK f \in [0..n -> S] :
           /\ SortedRow(row) = f[n]
           /\ f[0] = <<>> /\ \A k \in 1..n : f[k] = InOrder(f[k - 1], row[k])
  BY SortWalk
<1>2. n \in Nat /\ \A k \in 1..n : row[k] \in Entries
  BY RowTypes
<1> DEFINE Keeps(k, s) == \A j, v : AddsIn(row, k, j, v) => Adds(s, j, v)
           T == {k \in 0..n : Keeps(k, f[k])}
<1>3. 0 \in T
  <2>1. Len(<<>>) = 0
    BY EmptySeq
  <2>2. Keeps(0, <<>>)
    BY <2>1, AddsNothing DEF Adds
  <2>3. 0 \in 0..n
    BY <1>2
  <2> QED
    BY <1>1, <2>2, <2>3
<1>4. ASSUME NEW k \in 1..n, k - 1 \in T PROVE k \in T
  <2>1. k \in 0..n /\ k - 1 \in 0..n /\ k \in Nat \ {0}
    BY <1>2
  <2>2. f[k - 1] \in S /\ Keeps(k - 1, f[k - 1]) /\ f[k] = InOrder(f[k - 1], row[k])
    BY <1>1, <1>4, <2>1
  <2>3. ASSUME NEW j, NEW v, AddsIn(row, k, j, v) PROVE Adds(f[k], j, v)
    <3>1. PICK u \in Int : AddsIn(row, k - 1, j, u) /\ v = u + Part(row[k], j)
      BY <2>1, <2>3, AddsBefore
    <3>2. Adds(f[k - 1], j, u)
      BY <2>2, <3>1
    <3> HIDE DEF n
    <3>3. Adds(f[k], j, u + Part(row[k], j))
      BY <1>2, <2>2, <3>2, EntryInserted
    <3> QED
      BY <3>1, <3>3
  <2> QED
    BY <2>1, <2>3
<1> HIDE DEF T
<1>5. \A k \in 0..n : k \in T
  BY <1>2, <1>3, <1>4, CountUp
<1>6. n \in 0..n
  BY <1>2
<1>7. f[n] \in S /\ Keeps(n, f[n])
  BY <1>1, <1>5, <1>6 DEF T
<1> QED
  BY <1>1, <1>7 DEF Adds
-----------------------------------------------------------------------------
(* from_coo.                                                               *)

Triples == [i : Rows, j : Cols, x : Int]

\* A triplet comes to the rows, and to the sums of the cells.
Bucketed(rows, t) == [rows EXCEPT ![t.i + 1] = Append(@, Entry(t.j, t.x))]
Summed(cells, t) == [cells EXCEPT ![<<t.i, t.j>>] = @ + t.x]

\* The steps of Buckets.
LEMMA BucketWalk ==
  ASSUME NEW coo \in Seq(Triples)
  PROVE  \E f \in [0..Len(coo) -> [1..Row -> Seq(Entries)]] :
           /\ Buckets(coo) = f[Len(coo)]
           /\ f[0] = [i \in 1..Row |-> <<>>]
           /\ \A k \in 1..Len(coo) : f[k] = Bucketed(f[k - 1], coo[k])
<1> DEFINE n == Len(coo)
           S == [1..Row -> Seq(Entries)]
           start == [i \in 1..Row |-> <<>>]
           IsWalk(f) == f = [k \in 0..n |->
             IF k = 0 THEN start
             ELSE [f[k - 1] EXCEPT ![coo[k].i + 1] = Append(@, Entry(coo[k].j, coo[k].x))]]
           walk == CHOOSE f : IsWalk(f)
           g == [z \in (1..n) \X S |-> Bucketed(z[2], coo[z[1]])]
<1>0. n \in Nat /\ \A k \in 1..n : coo[k] \in Triples
  BY LenProperties, ElementOfSeq
<1>1. Buckets(coo) = walk[n]
  BY DEF Buckets
<1>2. start \in S
  <2>1. <<>> \in Seq(Entries)
    BY EmptySeq
  <2> QED
    BY <2>1
<1>3. \A s \in S, t \in Triples : Bucketed(s, t) \in S
  <2>1. ASSUME NEW s \in S, NEW t \in Triples PROVE Bucketed(s, t) \in S
    <3>1. t.i + 1 \in 1..Row /\ Entry(t.j, t.x) \in Entries
      BY SizeAssumption DEF Triples, Rows, Entry, Entries
    <3>2. Append(s[t.i + 1], Entry(t.j, t.x)) \in Seq(Entries)
      BY <3>1, AppendProperties
    <3> QED
      BY <3>1, <3>2 DEF Bucketed
  <2> QED
    BY <2>1
<1> HIDE DEF n, S, start
<1>4. \A k \in 1..n, s \in S : g[<<k, s>>] = Bucketed(s, coo[k]) /\ g[<<k, s>>] \in S
  BY <1>0, <1>3
<1> HIDE DEF g
<1>5. PICK f \in [0..n -> S] : Recurs(f, n, start, g)
  BY <1>0, <1>2, <1>4, Recursion DEF Steps
<1>6. IsWalk(f)
  <2>1. f[0] = start /\ \A k \in 1..n : f[k] = Bucketed(f[k - 1], coo[k])
    BY <1>0, <1>4, <1>5, Counts DEF Recurs
  <2> QED
    BY <1>0, <2>1, Counts DEF Bucketed
<1>7. IsWalk(walk)
  BY <1>6
<1> HIDE DEF walk
<1>8. walk[0] = start /\ \A k \in 1..n : walk[k] = Bucketed(walk[k - 1], coo[k])
  BY <1>0, <1>7, Counts DEF Bucketed
<1> DEFINE T == {k \in 0..n : walk[k] \in S}
<1>9. 0 \in T
  <2>1. 0 \in 0..n /\ walk[0] \in S
    BY <1>0, <1>2, <1>8
  <2> QED
    BY <2>1
<1>10. ASSUME NEW k \in 1..n, k - 1 \in T PROVE k \in T
  <2>1. k \in 0..n
    BY <1>0
  <2>2. walk[k] = Bucketed(walk[k - 1], coo[k]) /\ walk[k - 1] \in S
    BY <1>8, <1>10
  <2>3. walk[k] \in S
    BY <1>0, <1>3, <2>2
  <2> QED
    BY <2>1, <2>3
<1> HIDE DEF T
<1>11. \A k \in 0..n : k \in T
  BY <1>0, <1>9, <1>10, CountUp
<1>12. walk \in [0..n -> S]
  BY <1>7, <1>11 DEF T
<1> QED
  BY <1>1, <1>8, <1>12 DEF n, S, start

\* And those of FromTriplets.
LEMMA TripletWalk ==
  ASSUME NEW coo \in Seq(Triples)
  PROVE  \E f \in [0..Len(coo) -> [Rows \X Cols -> Int]] :
           /\ Abstract!FromTriplets(coo) = f[Len(coo)]
           /\ f[0] = Abstract!Zero
           /\ \A k \in 1..Len(coo) : f[k] = Summed(f[k - 1], coo[k])
<1> DEFINE n == Len(coo)
           S == [Rows \X Cols -> Int]
           start == Abstract!Zero
           IsWalk(f) == f = [k \in 0..n |->
             IF k = 0 THEN start
             ELSE [f[k - 1] EXCEPT ![<<coo[k].i, coo[k].j>>] = @ + coo[k].x]]
           walk == CHOOSE f : IsWalk(f)
           g == [z \in (1..n) \X S |-> Summed(z[2], coo[z[1]])]
<1>0. n \in Nat /\ \A k \in 1..n : coo[k] \in Triples
  BY LenProperties, ElementOfSeq
<1>1. Abstract!FromTriplets(coo) = walk[n]
  BY DEF Abstract!FromTriplets
<1>2. start \in S
  BY DEF Abstract!Zero, Abstract!Rows, Abstract!Cols, Rows, Cols
<1>3. \A s \in S, t \in Triples : Summed(s, t) \in S
  <2>1. ASSUME NEW s \in S, NEW t \in Triples PROVE Summed(s, t) \in S
    <3>1. <<t.i, t.j>> \in Rows \X Cols /\ t.x \in Int
      BY DEF Triples
    <3>2. s[<<t.i, t.j>>] + t.x \in Int
      BY <3>1
    <3> QED
      BY <3>1, <3>2 DEF Summed
  <2> QED
    BY <2>1
<1> HIDE DEF n, S, start
<1>4. \A k \in 1..n, s \in S : g[<<k, s>>] = Summed(s, coo[k]) /\ g[<<k, s>>] \in S
  BY <1>0, <1>3
<1> HIDE DEF g
<1>5. PICK f \in [0..n -> S] : Recurs(f, n, start, g)
  BY <1>0, <1>2, <1>4, Recursion DEF Steps
<1>6. IsWalk(f)
  <2>1. f[0] = start /\ \A k \in 1..n : f[k] = Summed(f[k - 1], coo[k])
    BY <1>0, <1>4, <1>5, Counts DEF Recurs
  <2> QED
    BY <1>0, <2>1, Counts DEF Summed
<1>7. IsWalk(walk)
  BY <1>6
<1> HIDE DEF walk
<1>8. walk[0] = start /\ \A k \in 1..n : walk[k] = Summed(walk[k - 1], coo[k])
  BY <1>0, <1>7, Counts DEF Summed
<1> DEFINE T == {k \in 0..n : walk[k] \in S}
<1>9. 0 \in T
  <2>1. 0 \in 0..n /\ walk[0] \in S
    BY <1>0, <1>2, <1>8
  <2> QED
    BY <2>1
<1>10. ASSUME NEW k \in 1..n, k - 1 \in T PROVE k \in T
  <2>1. k \in 0..n
    BY <1>0
  <2>2. walk[k] = Summed(walk[k - 1], coo[k]) /\ walk[k - 1] \in S
    BY <1>8, <1>10
  <2>3. walk[k] \in S
    BY <1>0, <1>3, <2>2
  <2> QED
    BY <2>1, <2>3
<1> HIDE DEF T
<1>11. \A k \in 0..n : k \in T
  BY <1>0, <1>9, <1>10, CountUp
<1>12. walk \in [0..n -> S]
  BY <1>7, <1>11 DEF T
<1> QED
  BY <1>1, <1>8, <1>12 DEF n, S, start

\* What is in the buckets of a row adds up to the elements of the matrix.
LEMMA TripletsKept ==
  ASSUME NEW coo \in Seq(Triples)
  PROVE  /\ Buckets(coo) \in [1..Row -> Seq(Entries)]
         /\ Abstract!FromTriplets(coo) \in [Rows \X Cols -> Int]
         /\ \A i \in Rows, j \in Cols :
              Adds(Buckets(coo)[i + 1], j, Abstract!FromTriplets(coo)[<<i, j>>])
<1> DEFINE n == Len(coo)
<1>0. /\ n \in Nat /\ n \in 0..n /\ (\A k \in 1..n : coo[k] \in Triples)
      /\ (\A k \in 1..n : k \in 0..n /\ k - 1 \in 0..n) /\ 0 \in 0..n
  BY LenProperties, ElementOfSeq
<1>1. PICK f \in [0..n -> [1..Row -> Seq(Entries)]] :
           /\ Buckets(coo) = f[n]
           /\ f[0] = [i \in 1..Row |-> <<>>]
           /\ \A k \in 1..n : f[k] = Bucketed(f[k - 1], coo[k])
  BY BucketWalk
<1>2. PICK h \in [0..n -> [Rows \X Cols -> Int]] :
           /\ Abstract!FromTriplets(coo) = h[n]
           /\ h[0] = Abstract!Zero
           /\ \A k \in 1..n : h[k] = Summed(h[k - 1], coo[k])
  BY TripletWalk
<1> DEFINE Alike(rows, cells) ==
             \A i \in Rows, j \in Cols : Adds(rows[i + 1], j, cells[<<i, j>>])
           T == {k \in 0..n : Alike(f[k], h[k])}
<1>3. \A i \in Rows : i + 1 \in 1..Row /\ i \in Int
  BY SizeAssumption DEF Rows
<1>4. 0 \in T
  <2>1. ASSUME NEW i \in Rows, NEW j \in Cols
        PROVE  Adds(f[0][i + 1], j, h[0][<<i, j>>])
    <3>1. f[0][i + 1] = <<>>
      BY <1>1, <1>3
    <3>2. h[0][<<i, j>>] = 0
      BY <1>2 DEF Abstract!Zero, Abstract!Rows, Abstract!Cols, Rows, Cols
    <3>3. Len(<<>>) = 0
      BY EmptySeq
    <3> QED
      BY <3>1, <3>2, <3>3, AddsNothing DEF Adds
  <2> QED
    BY <1>0, <2>1
<1>5. ASSUME NEW k \in 1..n, k - 1 \in T PROVE k \in T
  <2> DEFINE t == coo[k]
             rows == f[k - 1]
             cells == h[k - 1]
  <2>1. /\ t \in Triples /\ rows \in [1..Row -> Seq(Entries)] /\ cells \in [Rows \X Cols -> Int]
        /\ Alike(rows, cells) /\ f[k] = Bucketed(rows, t) /\ h[k] = Summed(cells, t)
    BY <1>0, <1>1, <1>2, <1>5
  <2> HIDE DEF t, rows, cells
  <2>2. t.i \in Rows /\ t.j \in Cols /\ t.x \in Int /\ Entry(t.j, t.x) \in Entries
    BY <2>1 DEF Triples, Entry, Entries
  <2>3. ASSUME NEW i \in Rows, NEW j \in Cols
        PROVE  Adds(f[k][i + 1], j, h[k][<<i, j>>])
    <3>0. /\ <<i, j>> \in Rows \X Cols /\ i + 1 \in 1..Row /\ t.i + 1 \in 1..Row
          /\ rows[i + 1] \in Seq(Entries) /\ cells[<<i, j>>] \in Int
          /\ Adds(rows[i + 1], j, cells[<<i, j>>])
      BY <1>3, <2>1, <2>2
    <3>1. CASE i # t.i
      <4>1. i + 1 # t.i + 1 /\ <<i, j>> # <<t.i, t.j>>
        BY <1>3, <2>2, <3>1
      <4>2. f[k][i + 1] = rows[i + 1] /\ h[k][<<i, j>>] = cells[<<i, j>>]
        BY <2>1, <3>0, <4>1 DEF Bucketed, Summed
      <4> QED
        BY <3>0, <4>2
    <3>2. CASE i = t.i
      <4>1. f[k][i + 1] = Append(rows[i + 1], Entry(t.j, t.x))
        BY <2>1, <3>0, <3>2 DEF Bucketed
      <4>2. h[k][<<i, j>>] = cells[<<i, j>>] + Part(Entry(t.j, t.x), j)
        <5>1. CASE j = t.j
          BY <2>1, <2>2, <3>0, <3>2, <5>1 DEF Summed, Part, Entry
        <5>2. CASE j # t.j
          <6>1. <<i, j>> # <<t.i, t.j>>
            BY <5>2
          <6>2. h[k][<<i, j>>] = cells[<<i, j>>]
            BY <2>1, <3>0, <6>1 DEF Summed
          <6>3. Part(Entry(t.j, t.x), j) = 0
            BY <5>2 DEF Part, Entry
          <6> QED
            BY <3>0, <6>2, <6>3
        <5> QED
          BY <5>1, <5>2
      <4>3. Adds(Append(rows[i + 1], Entry(t.j, t.x)), j,
                 cells[<<i, j>>] + Part(Entry(t.j, t.x), j))
        BY <2>2, <3>0, AddsAppended
      <4> QED
        BY <4>1, <4>2, <4>3
    <3> QED
      BY <3>1, <3>2
  <2>4. k \in 0..n
    BY <1>0
  <2> QED
    BY <2>3, <2>4
<1> HIDE DEF T
<1>6. \A k \in 0..n : k \in T
  BY <1>0, <1>4, <1>5, CountUp
<1>7. \A i \in Rows, j \in Cols : Adds(f[n][i + 1], j, h[n][<<i, j>>])
  BY <1>0, <1>6 DEF T
<1> HIDE DEF n
<1>8. f[n] \in [1..Row -> Seq(Entries)] /\ h[n] \in [Rows \X Cols -> Int]
  BY <1>0
<1> QED
  BY <1>1, <1>2, <1>7, <1>8

\* from_coo builds the matrix of the triplets.
LEMMA FromCooSound ==
  ASSUME NEW coo \in Seq(Triples)
  PROVE  /\ CanonicalFormat(from_coo(coo))
         /\ Elements(from_coo(coo)) = Abstract!FromTriplets(coo)
<1> DEFINE rows == Buckets(coo)
           cells == Abstract!FromTriplets(coo)
           new == [i \in 1..Row |-> SortedRow(RowEntries(FromRows(rows), i - 1))]
           M == csr_sum_duplicates(FromRows(new))
<1>0. (\A i \in 1..Row : i - 1 \in Rows /\ (i - 1) + 1 = i) /\ \A i \in Rows : i + 1 \in 1..Row
  BY SizeAssumption DEF Rows
<1>1. from_coo(coo) = M
  BY DEF from_coo, csr_sort_indices, MapRows
<1>2. /\ rows \in [1..Row -> Seq(Entries)] /\ cells \in [Rows \X Cols -> Int]
      /\ \A i \in Rows, j \in Cols : Adds(rows[i + 1], j, cells[<<i, j>>])
  BY TripletsKept
<1> HIDE DEF rows, cells
<1>3. \A i \in 1..Row : new[i] = SortedRow(rows[i])
  BY <1>0, <1>2, JoinedRows
<1> HIDE DEF new
<1>4. \A i \in 1..Row : /\ new[i] \in Seq(Entries) /\ Climbs(new[i])
                        /\ \A j, v : Adds(rows[i], j, v) => Adds(new[i], j, v)
  BY <1>2, <1>3, RowSorted
<1>5. CanonicalFormat(M) /\ \A i \in Rows, j \in Cols :
                              \A v : Adds(new[i + 1], j, v) => get(M, i, j) = v
  BY <1>4, DuplicatesSummed
<1> HIDE DEF M
<1>6. \A i \in Rows, j \in Cols : get(M, i, j) = cells[<<i, j>>]
  BY <1>0, <1>2, <1>4, <1>5
<1>7. Elements(M) = cells
  <2>1. \A c \in Rows \X Cols : c[1] \in Rows /\ c[2] \in Cols /\ c = <<c[1], c[2]>>
    OBVIOUS
  <2>2. \A c \in Rows \X Cols : get(M, c[1], c[2]) = cells[c]
    BY <1>6, <2>1
  <2> QED
    BY <1>2, <2>2 DEF Elements
<1> QED
  BY <1>1, <1>5, <1>7 DEF cells
-----------------------------------------------------------------------------
(* csr_binop_csr_canonical.                                                *)

\* The matrix of the results.
LEMMA RowsMerged ==
  ASSUME NEW op \in Operations, NEW M, NEW N, CanonicalFormat(M), CanonicalFormat(N)
  PROVE  LET R == FromRows([i \in 1..Row |->
                    MergeRows(op, RowEntries(M, i - 1), RowEntries(N, i - 1))])
         IN  /\ CanonicalFormat(R)
             /\ \A i \in Rows : NoZeros(RowEntries(R, i))
             /\ \A i \in Rows, j \in Cols :
                  get(R, i, j) = Apply(op, get(M, i, j), get(N, i, j))
<1> DEFINE rows == [i \in 1..Row |-> MergeRows(op, RowEntries(M, i - 1), RowEntries(N, i - 1))]
<1>0. /\ \A i \in 1..Row : i - 1 \in Rows /\ (i - 1) + 1 = i
      /\ \A i \in Rows : i + 1 \in 1..Row /\ (i + 1) - 1 = i
  BY SizeAssumption DEF Rows
<1>1. /\ \A i \in Rows : RowEntries(M, i) \in Seq(Entries) /\ Ascends(RowEntries(M, i))
      /\ \A i \in Rows : RowEntries(N, i) \in Seq(Entries) /\ Ascends(RowEntries(N, i))
  BY RowCut, CanonicalRow DEF CanonicalFormat
<1>2. \A i \in Rows : rows[i + 1] = MergeRows(op, RowEntries(M, i), RowEntries(N, i))
  BY <1>0
<1> HIDE DEF rows
<1>3. \A i \in Rows :
        /\ rows[i + 1] \in Seq(Entries) /\ Ascends(rows[i + 1]) /\ NoZeros(rows[i + 1])
        /\ \A j \in Cols : \A a, b :
             Stands(RowEntries(M, i), j, a) /\ Stands(RowEntries(N, i), j, b)
               => Stands(rows[i + 1], j, Apply(op, a, b))
  <2>1. ASSUME NEW i \in Rows
        PROVE  /\ rows[i + 1] \in Seq(Entries) /\ Ascends(rows[i + 1]) /\ NoZeros(rows[i + 1])
               /\ \A j \in Cols : \A a, b :
                    Stands(RowEntries(M, i), j, a) /\ Stands(RowEntries(N, i), j, b)
                      => Stands(rows[i + 1], j, Apply(op, a, b))
    BY <1>1, <1>2, MergeExact
  <2> QED
    BY <2>1
<1>4. \A i \in 1..Row : rows[i] \in Seq(Entries) /\ Ascends(rows[i])
  <2>1. ASSUME NEW i \in 1..Row PROVE rows[i] \in Seq(Entries) /\ Ascends(rows[i])
    <3>1. i - 1 \in Rows /\ (i - 1) + 1 = i
      BY <1>0
    <3> QED
      BY <1>3, <3>1
  <2> QED
    BY <2>1
<1>5. CanonicalFormat(FromRows(rows))
  BY <1>4, JoinedCanonical
<1>6. \A i \in Rows : NoZeros(RowEntries(FromRows(rows), i))
  <2>1. \A i \in Rows : RowEntries(FromRows(rows), i) = rows[i + 1]
    BY <1>4, JoinedRows
  <2> QED
    BY <1>3, <2>1
<1>7. \A i \in Rows, j \in Cols :
        get(FromRows(rows), i, j) = Apply(op, get(M, i, j), get(N, i, j))
  <2>1. ASSUME NEW i \in Rows, NEW j \in Cols
        PROVE  get(FromRows(rows), i, j) = Apply(op, get(M, i, j), get(N, i, j))
    <3>1. Stands(RowEntries(M, i), j, get(M, i, j)) /\ Stands(RowEntries(N, i), j, get(N, i, j))
      BY GetStands
    <3>2. Stands(rows[i + 1], j, Apply(op, get(M, i, j), get(N, i, j)))
      BY <1>3, <3>1
    <3> QED
      BY <1>4, <3>2, GetJoined
  <2> QED
    BY <2>1
<1> QED
  BY <1>5, <1>6, <1>7 DEF rows

\* csr_binop_csr_canonical makes one matrix, whatever its last test reads.
LEMMA BinopSound ==
  ASSUME NEW op \in Operations, NEW M, NEW N, CanonicalFormat(M), CanonicalFormat(N),
         NEW C \in csr_binop(op, M, N, Zero)
  PROVE  /\ CanonicalFormat(C) /\ StoredZeros(C) = {}
         /\ \A i \in Rows, j \in Cols :
              get(C, i, j) = Apply(op, get(M, i, j), get(N, i, j))
<1> DEFINE R == FromRows([i \in 1..Row |->
                  MergeRows(op, RowEntries(M, i - 1), RowEntries(N, i - 1))])
<1>1. /\ CanonicalFormat(R)
      /\ \A i \in Rows : NoZeros(RowEntries(R, i))
      /\ \A i \in Rows, j \in Cols : get(R, i, j) = Apply(op, get(M, i, j), get(N, i, j))
  BY RowsMerged
<1>2. C \in {IF d THEN csr_sum_duplicates(Appended(Zero, R)) ELSE Appended(Zero, R) :
               d \in csr_has_duplicates(Appended(Zero, R))}
  BY DEF csr_binop
<1> HIDE DEF R
<1>3. RowsFollow(R)
  BY <1>1 DEF CanonicalFormat
<1>4. Appended(Zero, R) = R
  <2>1. R = [p |-> R.p, e |-> R.e] /\ R.e \in Seq([j : Cols, x : Int])
    BY <1>3, Parts
  <2>2. <<>> \o R.e = R.e
    BY <2>1, ConcatEmptySeq
  <2>3. Zero.e = <<>>
    BY DEF Zero
  <2> QED
    BY <2>1, <2>2, <2>3 DEF Appended
<1>5. C = R
  BY <1>1, <1>2, <1>4, NoDuplicates
<1>6. StoredZeros(R) = {}
  <2>1. ASSUME NEW k \in 1..Len(R.e) PROVE R.e[k].x # 0
    <3> DEFINE i == RowOf(R, k)
               l == k - R.p[i]
    <3>1. i \in Rows /\ R.p[i] < k /\ k <= R.p[i + 1]
      BY <1>3, EntryInARow DEF InRowOf
    <3> HIDE DEF i
    <3>2. R.p[i] \in Nat /\ R.p[i + 1] \in Nat
      BY <1>3, <3>1, RowBounds
    <3>3. /\ Len(RowEntries(R, i)) = R.p[i + 1] - R.p[i]
          /\ \A m \in 1..Len(RowEntries(R, i)) : RowEntries(R, i)[m] = R.e[R.p[i] + m]
      BY <1>3, <3>1, RowCut
    <3>4. l \in 1..Len(RowEntries(R, i)) /\ R.p[i] + l = k
      BY <3>1, <3>2, <3>3
    <3> HIDE DEF l
    <3>5. RowEntries(R, i)[l].x # 0
      BY <1>1, <3>1, <3>4 DEF NoZeros
    <3> QED
      BY <3>3, <3>4, <3>5
  <2>2. DOMAIN R.e = 1..Len(R.e)
    BY <1>3, Parts, LenProperties
  <2> QED
    BY <2>1, <2>2 DEF StoredZeros
<1> QED
  BY <1>1, <1>5, <1>6
-----------------------------------------------------------------------------
(* Where no zero is stored, set and the scalings store none.               *)

\* The entries are counted from 1.
LEMMA StoresNoZero ==
  ASSUME NEW M, RowsFollow(M)
  PROVE  StoredZeros(M) = {} <=> \A k \in 1..Len(M.e) : M.e[k].x # 0
<1>1. DOMAIN M.e = 1..Len(M.e)
  BY Parts, LenProperties
<1> QED
  BY <1>1 DEF StoredZeros

\* set stores a number that is not 0, or takes an entry out.
LEMMA SetStoresNoZero ==
  ASSUME NEW M, CanonicalFormat(M), NEW i \in Rows, NEW j \in Cols, NEW v \in Int,
         StoredZeros(M) = {}
  PROVE  StoredZeros(set(M, i, j, v)) = {}
<1> DEFINE N == set(M, i, j, v)
           k == Position(M, i, j)
           stored == k < M.p[i + 1] /\ M.e[k + 1].j = j
<1>0. RowsFollow(M) /\ RowsFollow(N)
  BY SetSound DEF CanonicalFormat
<1>1. \A n \in 1..Len(M.e) : M.e[n].x # 0
  BY <1>0, StoresNoZero
<1>2. /\ M = [p |-> M.p, e |-> M.e] /\ M.e \in Seq(Entries) /\ Len(M.e) \in Nat
      /\ \A n \in 1..Len(M.e) : M.e[n] \in Entries
  BY <1>0, Parts, LenProperties DEF Entries
<1>3. k \in M.p[i]..M.p[i + 1]
  BY <1>0, ScanEnds
<1>4. M.p[i] \in Nat /\ M.p[i + 1] \in Nat /\ M.p[i + 1] <= Len(M.e)
  BY <1>0, RowBounds
<1>5. N = CASE v # 0 /\ stored  -> [M EXCEPT !.e[k + 1].x = v]
            [] v # 0 /\ ~stored ->
                 [p |-> Shift(M.p, i, 1), e |-> InsertAt(M.e, k + 1, Entry(j, v))]
            [] v = 0 /\ stored  ->
                 [p |-> Shift(M.p, i, -1), e |-> RemoveAt(M.e, k + 1)]
            [] OTHER                     -> M
  BY DEF set
<1> HIDE DEF k, N
<1>6. k \in 0..Len(M.e) /\ (stored => k \in 0..(Len(M.e) - 1) /\ k + 1 \in 1..Len(M.e))
  BY <1>2, <1>3, <1>4
<1> HIDE DEF stored
<1>7. CASE v # 0 /\ stored
  <2> DEFINE y == [M.e[k + 1] EXCEPT !.x = v]
             E == [M.e EXCEPT ![k + 1] = y]
  <2>1. N = [M EXCEPT !.e = E]
    BY <1>5, <1>7
  <2>2. N.e = E
    BY <1>2, <2>1, FieldReplaced
  <2>3. y \in Entries /\ y.x = v
    BY <1>2, <1>6, <1>7 DEF Entries
  <2> HIDE DEF y
  <2>4. Len(E) = Len(M.e) /\ E[k + 1] = y /\ \A n \in 1..Len(M.e) : n # k + 1 => E[n] = M.e[n]
    BY <1>2, <1>6, <1>7, <2>3, ExceptSeq
  <2> HIDE DEF E
  <2> QED
    BY <1>0, <1>1, <1>7, <2>2, <2>3, <2>4, StoresNoZero DEF N
<1>8. CASE v # 0 /\ ~ stored
  <2> DEFINE E == InsertAt(M.e, k + 1, Entry(j, v))
  <2>1. N.e = E
    BY <1>5, <1>8
  <2>2. Entry(j, v) \in Entries /\ Entry(j, v).x = v
    BY DEF Entry, Entries
  <2>3. ASSUME NEW m \in 1..(Len(M.e) + 1)
        PROVE  E[m].x # 0
    <3>1. /\ m <= k => E[m] = M.e[m]
          /\ m = k + 1 => E[m] = Entry(j, v)
          /\ m > k + 1 => E[m] = M.e[m - 1]
      BY <1>2, <1>6, <2>2, Inserted
    <3>2. /\ m <= k \/ m = k + 1 \/ m > k + 1
          /\ m <= k => m \in 1..Len(M.e)
          /\ m > k + 1 => m - 1 \in 1..Len(M.e)
      BY <1>2, <1>6
    <3> HIDE DEF E
    <3> QED
      BY <1>1, <1>8, <2>2, <3>1, <3>2
  <2>4. Len(E) = Len(M.e) + 1
    <3>1. 1 \in 1..(Len(M.e) + 1)
      BY <1>2
    <3> QED
      BY <1>2, <1>6, <2>2, <3>1, Inserted
  <2> HIDE DEF E
  <2> QED
    BY <1>0, <2>1, <2>3, <2>4, StoresNoZero DEF N
<1>9. CASE v = 0 /\ stored
  <2> DEFINE E == RemoveAt(M.e, k + 1)
  <2>1. N.e = E
    BY <1>5, <1>9
  <2>2. /\ Len(E) = Len(M.e) - 1
        /\ \A n \in 1..k : E[n] = M.e[n]
        /\ \A n \in (k + 1)..(Len(M.e) - 1) : E[n] = M.e[n + 1]
    BY <1>2, <1>6, <1>9, Removed
  <2> HIDE DEF E
  <2>3. ASSUME NEW m \in 1..(Len(M.e) - 1)
        PROVE  E[m].x # 0
    <3>1. m \in 1..Len(M.e) /\ m + 1 \in 1..Len(M.e)
          /\ (m \in 1..k \/ m \in (k + 1)..(Len(M.e) - 1))
      BY <1>2, <1>6, <1>9
    <3> QED
      BY <1>1, <2>2, <3>1
  <2> QED
    BY <1>0, <2>1, <2>2, <2>3, StoresNoZero DEF N
<1>10. CASE v = 0 /\ ~ stored
  <2>1. N = M
    BY <1>5, <1>10
  <2> QED
    BY <2>1 DEF N
<1> QED
  BY <1>7, <1>8, <1>9, <1>10

\* Two numbers that are not 0 have a product that is not 0.
LEMMA ProductNotZero ==
  ASSUME NEW x \in Int, NEW y \in Int, x # 0, y # 0
  PROVE  x * y # 0
OBVIOUS

\* The factors that are used are not 0.
LEMMA ScaledStoresNoZero ==
  ASSUME NEW M, CanonicalFormat(M), NEW factor \in [Rows \X Cols -> Int],
         \A c \in Rows \X Cols : factor[c] # 0, StoredZeros(M) = {}
  PROVE  StoredZeros(Scaled(M, factor)) = {}
<1> DEFINE N == Scaled(M, factor)
           New(k) == [M.e[k] EXCEPT !.x = @ * factor[<<RowOf(M, k), M.e[k].j>>]]
           E == [k \in DOMAIN M.e |-> New(k)]
<1>0. RowsFollow(M)
  BY DEF CanonicalFormat
<1>1. /\ M = [p |-> M.p, e |-> M.e]
      /\ \A k \in 1..Len(M.e) : M.e[k] \in Entries
      /\ DOMAIN M.e = 1..Len(M.e)
  BY <1>0, Parts, LenProperties DEF Entries
<1>2. N = [M EXCEPT !.e = E]
  BY DEF Scaled, RowOf
<1>3. N.e = E
  BY <1>1, <1>2, FieldReplaced
<1>4. \A k \in 1..Len(M.e) : M.e[k].x # 0
  BY <1>0, StoresNoZero
<1>5. ASSUME NEW k \in DOMAIN M.e PROVE New(k).x # 0
  <2> DEFINE f == factor[<<RowOf(M, k), M.e[k].j>>]
  <2>1. RowOf(M, k) \in Rows /\ M.e[k].j \in Cols /\ M.e[k].x \in Int
    BY <1>0, <1>1, EntryInARow DEF Entries
  <2>2. f \in Int /\ f # 0
    BY <2>1
  <2>3. M.e[k] = [j |-> M.e[k].j, x |-> M.e[k].x]
    BY <1>1 DEF Entries
  <2>4. New(k) = [j |-> M.e[k].j, x |-> M.e[k].x * f]
    BY <2>3
  <2> HIDE DEF New, f
  <2>5. M.e[k].x * f # 0
    BY <1>1, <1>4, <2>1, <2>2, ProductNotZero
  <2> QED
    BY <2>4, <2>5
<1> HIDE DEF New, N
<1>6. DOMAIN N.e = DOMAIN M.e /\ \A k \in DOMAIN M.e : N.e[k].x # 0
  BY <1>3, <1>5
<1> QED
  BY <1>6 DEF StoredZeros, N

-----------------------------------------------------------------------------
(* The steps of the program.                                               *)

\* Load: the operand becomes the matrix of the triplets.
LEMMA LoadRefines ==
  ASSUME TypeOK, NEW coo \in Triplets, Load(coo)
  PROVE  TypeOK' /\ Abstract!FillOperand
<1>1. coo \in Seq(Triples)
  BY TripletAssumption DEF Triples, Rows, Cols
<1>2. A' = A /\ B' = from_coo(coo) /\ crashed' = crashed
  BY DEF Load
<1>3. CanonicalFormat(from_coo(coo)) /\ Elements(from_coo(coo)) = Abstract!FromTriplets(coo)
  BY <1>1, FromCooSound
<1>4. TypeOK'
  BY <1>2, <1>3 DEF TypeOK
<1>5. Elements(A)' = Elements(A) /\ Elements(B)' = Abstract!FromTriplets(coo)
  BY <1>2, <1>3
<1> QED
  BY <1>4, <1>5 DEF Abstract!FillOperand

\* Binop: the sum, difference or product of the elements, or the end.
LEMMA BinopRefines ==
  ASSUME TypeOK, NEW op \in Operations, Binop(op)
  PROVE  TypeOK' /\ (Abstract!UseOperand \/ UNCHANGED Abstract!vars)
<1>0. CanonicalFormat(A) /\ CanonicalFormat(B) /\ crashed \in BOOLEAN
  BY DEF TypeOK
<1>1. CASE A' \in csr_binop(op, A, B, Zero) /\ B' = Zero /\ UNCHANGED crashed
  <2>1. /\ CanonicalFormat(A')
        /\ \A i \in Rows, j \in Cols : get(A', i, j) = Apply(op, get(A, i, j), get(B, i, j))
    BY <1>0, <1>1, BinopSound
  <2>2. TypeOK'
    BY <1>0, <1>1, <2>1, ZeroSound DEF TypeOK
  <2>3. Elements(A)' = [c \in Rows \X Cols |-> Apply(op, Elements(A)[c], Elements(B)[c])]
    <3>1. \A c \in Rows \X Cols :
            get(A', c[1], c[2]) = Apply(op, get(A, c[1], c[2]), get(B, c[1], c[2]))
      BY <2>1
    <3>2. \A c \in Rows \X Cols : /\ Elements(A)[c] = get(A, c[1], c[2])
                                  /\ Elements(B)[c] = get(B, c[1], c[2])
      BY DEF Elements
    <3> QED
      BY <3>1, <3>2 DEF Elements
  <2>4. Elements(B)' = Abstract!Zero
    BY <1>1, ZeroSound
  <2>5. Rows \X Cols = Abstract!Rows \X Abstract!Cols
    BY DEF Rows, Cols, Abstract!Rows, Abstract!Cols
  <2>6. CASE op = "add"
    <3>1. Elements(A)' = [c \in Abstract!Rows \X Abstract!Cols |-> Elements(A)[c] + Elements(B)[c]]
      BY <2>3, <2>5, <2>6 DEF Apply
    <3> QED
      BY <2>2, <2>4, <3>1 DEF Abstract!UseOperand
  <2>7. CASE op = "sub"
    <3>1. Elements(A)' = [c \in Abstract!Rows \X Abstract!Cols |-> Elements(A)[c] - Elements(B)[c]]
      BY <2>3, <2>5, <2>7 DEF Apply
    <3> QED
      BY <2>2, <2>4, <3>1 DEF Abstract!UseOperand
  <2>8. CASE op = "mul"
    <3>1. Elements(A)' = [c \in Abstract!Rows \X Abstract!Cols |-> Elements(A)[c] * Elements(B)[c]]
      BY <2>3, <2>5, <2>8 DEF Apply
    <3> QED
      BY <2>2, <2>4, <3>1 DEF Abstract!UseOperand
  <2> QED
    BY <2>6, <2>7, <2>8 DEF Operations
<1>2. CASE crashed' = TRUE /\ UNCHANGED <<A, B>>
  <2>1. TypeOK'
    BY <1>0, <1>2 DEF TypeOK
  <2>2. Elements(A)' = Elements(A) /\ Elements(B)' = Elements(B)
    BY <1>2
  <2> QED
    BY <2>1, <2>2 DEF Abstract!vars
<1> QED
  BY <1>1, <1>2 DEF Binop

\* Every step keeps the format, and is one of module Matrix or none.
LEMMA StepRefines == TypeOK /\ [Next]_vars => TypeOK' /\ [Abstract!Next]_(Abstract!vars)
<1> SUFFICES ASSUME TypeOK, [Next]_vars
             PROVE  TypeOK' /\ [Abstract!Next]_(Abstract!vars)
  OBVIOUS
<1>1. CASE InPlace
  BY <1>1, InPlaceRefines
<1>2. ASSUME NEW coo \in Triplets, Load(coo)
      PROVE  TypeOK' /\ [Abstract!Next]_(Abstract!vars)
  BY <1>2, LoadRefines DEF Abstract!Next
<1>3. ASSUME NEW op \in Operations, Binop(op)
      PROVE  TypeOK' /\ [Abstract!Next]_(Abstract!vars)
  BY <1>3, BinopRefines DEF Abstract!Next
<1>4. CASE UNCHANGED vars
  <2>1. A' = A /\ B' = B /\ crashed' = crashed
    BY <1>4 DEF vars
  <2>2. TypeOK'
    BY <2>1 DEF TypeOK
  <2>3. Elements(A)' = Elements(A) /\ Elements(B)' = Elements(B)
    BY <2>1
  <2> QED
    BY <2>2, <2>3 DEF Abstract!vars
<1> QED
  BY <1>1, <1>2, <1>3, <1>4 DEF Next, InPlace, Operations

\* The program begins with matrices without entries.
LEMMA InitRefines == Init => TypeOK /\ Abstract!Init
BY ZeroSound DEF Init, TypeOK, Abstract!Init

\* No step but the assignment of an operand stores a zero where none was.
LEMMA StepStoresNoZero ==
  ASSUME TypeOK, Next, StoredZeros(A) = {}, A' # B
  PROVE  StoredZeros(A') = {}
<1>0. CanonicalFormat(A) /\ CanonicalFormat(B)
  BY DEF TypeOK
<1>1. ASSUME NEW i \in Rows, NEW j \in Cols, NEW v \in Values, Set(i, j, v)
      PROVE  StoredZeros(A') = {}
  <2>1. v \in Int /\ A' = set(A, i, j, v)
    BY <1>1, ElementAssumption DEF Set
  <2> QED
    BY <1>0, <2>1, SetStoresNoZero
<1>2. ASSUME NEW op \in Operations, Binop(op)
      PROVE  StoredZeros(A') = {}
  <2>1. A' \in csr_binop(op, A, B, Zero) \/ A' = A
    BY <1>2 DEF Binop
  <2> QED
    BY <1>0, <1>2, <2>1, BinopSound
<1>3. ASSUME NEW X \in [Rows -> Scales], ScaleRows(X)
      PROVE  StoredZeros(A') = {}
  <2> DEFINE factor == [c \in Rows \X Cols |->
                          IF \A k \in 0..c[1] : X[k] # 0 THEN X[c[1]] ELSE 1]
  <2>1. X \in [Rows -> Int]
    BY ElementAssumption
  <2>2. ASSUME NEW c \in Rows \X Cols
        PROVE  factor[c] \in Int /\ factor[c] # 0
    <3>1. c[1] \in Rows /\ c[1] \in 0..c[1]
      BY SizeAssumption DEF Rows
    <3>2. CASE \A k \in 0..c[1] : X[k] # 0
      BY <2>1, <3>1, <3>2
    <3>3. CASE ~ (\A k \in 0..c[1] : X[k] # 0)
      BY <3>3
    <3> QED
      BY <3>2, <3>3
  <2>3. A' = Scaled(A, factor)
    BY <1>3 DEF ScaleRows, csr_scale_rows
  <2>4. factor \in [Rows \X Cols -> Int]
    BY <2>2
  <2> HIDE DEF factor
  <2> QED
    BY <1>0, <2>2, <2>3, <2>4, ScaledStoresNoZero
<1>4. ASSUME NEW X \in [Cols -> Scales], ScaleColumns(X)
      PROVE  StoredZeros(A') = {}
  <2> DEFINE factor == [c \in Rows \X Cols |-> X[c[2]]]
  <2>1. X \in [Cols -> Int]
    BY ElementAssumption
  <2>2. CASE \E j \in Cols : X[j] = 0
    <3>1. A' = A
      BY <1>4, <2>2 DEF ScaleColumns, csr_scale_columns
    <3> QED
      BY <3>1
  <2>3. CASE \A j \in Cols : X[j] # 0
    <3>1. A' = Scaled(A, factor)
      BY <1>4, <2>3 DEF ScaleColumns, csr_scale_columns
    <3>2. factor \in [Rows \X Cols -> Int] /\ \A c \in Rows \X Cols : factor[c] # 0
      BY <2>1, <2>3
    <3> HIDE DEF factor
    <3> QED
      BY <1>0, <3>1, <3>2, ScaledStoresNoZero
  <2> QED
    BY <2>2, <2>3
<1>5. ASSUME NEW coo \in Triplets, Load(coo)
      PROVE  StoredZeros(A') = {}
  BY <1>5 DEF Load
<1>6. ~ Take
  BY DEF Take
<1> QED
  BY <1>1, <1>2, <1>3, <1>4, <1>5, <1>6 DEF Next, Operations
-----------------------------------------------------------------------------

\* Every operation of class CSRMatrix and of the csr_ functions leaves both
\* matrices in canonical format (the columns of each row strictly ascending, the
\* rows one after the other), for every size of the matrices, every list of
\* triplets, and every order of operations.
THEOREM Invariance == Spec => []TypeOK
<1>1. Init => TypeOK
  BY InitRefines
<1>2. TypeOK /\ [Next]_vars => TypeOK'
  BY StepRefines
<1> QED
  BY <1>1, <1>2, PTL DEF Spec

\* So CSRMatrix::eq and csr_diagonal give what the elements of the matrices say,
\* at any time.
THEOREM ReadersAlwaysExact == Spec => []ReadersSound
BY Invariance, ReadersExact, PTL

\* And every operation (set, from_coo, the element-wise operations and the
\* scalings) does to the storage what it should do to the matrix: read element
\* by element through get, the program behaves as module Matrix says.
THEOREM Implementation == Spec => MatrixSpec
<1>1. Init => Abstract!Init
  BY InitRefines
<1>2. TypeOK /\ [Next]_vars => [Abstract!Next]_(Abstract!vars)
  BY StepRefines
<1> QED
  BY <1>1, <1>2, Invariance, PTL DEF Spec, MatrixSpec, Abstract!Spec

\* Only from_coo stores zeros: the element-wise operations, set and the scalings
\* store none where there was none, whatever cancels.
THEOREM ZerosStayOut == Spec => ZerosFromTriplets
<1>1. TypeOK /\ [Next]_vars =>
        [StoredZeros(A') # {} => StoredZeros(A) # {} \/ A' = B]_vars
  BY StepStoresNoZero
<1> QED
  BY <1>1, Invariance, PTL DEF Spec, ZerosFromTriplets
=============================================================================
