-------------------------- MODULE CSRMatrix_proofs --------------------------
(***************************************************************************)
(* Proofs about the storage of module CSRMatrix, for matrices of every     *)
(* size: what set, the scalings and the readers of the storage do.         *)
(***************************************************************************)
EXTENDS CSRMatrix, BasicLemmas

LEMMA MinIsLeast ==
  ASSUME NEW T \in SUBSET Nat, T # {}
  PROVE  Min(T) \in T /\ \A y \in T : Min(T) <= y
BY LeastNumber DEF Min

-----------------------------------------------------------------------------
(* The rows of a matrix.                                                   *)

\* The entry after the first k is in row i, and in column j.
Stores(M, i, j, k) == k \in M.p[i]..(M.p[i + 1] - 1) /\ M.e[k + 1].j = j

\* The parts of a matrix and their types.
LEMMA Parts ==
  ASSUME NEW M, RowsFollow(M)
  PROVE  /\ M = [p |-> M.p, e |-> M.e]
         /\ M.p \in [0..Row -> Nat]
         /\ M.e \in Seq([j : Cols, x : Int])
         /\ \A k \in 1..Len(M.e) : M.e[k] \in [j : Cols, x : Int]
<1>1. M.p \in [0..Row -> Nat] /\ M.e \in Seq([j : Cols, x : Int])
  BY DEF RowsFollow
<1>2. M = [p |-> M.p, e |-> M.e]
  BY DEF RowsFollow
<1> QED
  BY <1>1, <1>2, ElementOfSeq

\* Rows start in the order of their numbers.
LEMMA RowsInOrder ==
  ASSUME NEW M, RowsFollow(M), NEW r \in 0..Row, NEW s \in 0..Row, r <= s
  PROVE  M.p[r] <= M.p[s]
<1> DEFINE Fails == {b \in Nat : r <= b /\ b <= Row /\ ~ (M.p[r] <= M.p[b])}
<1>0. Row \in Nat /\ \A a \in 0..Row : M.p[a] \in Nat
  BY Parts, SizeAssumption
<1>1. SUFFICES ASSUME Fails # {} PROVE FALSE
  BY <1>0
<1>2. PICK b \in Fails : \A c \in Fails : b <= c
  BY <1>1, LeastNumber
<1>3. b # r /\ b \in 0..Row
  BY <1>2, <1>0
<1>4. b - 1 \in Nat /\ r <= b - 1 /\ b - 1 \in Rows /\ b - 1 \notin Fails
  BY <1>2, <1>3, <1>0 DEF Rows
<1>5. M.p[r] <= M.p[b - 1]
  BY <1>3, <1>4, <1>0 DEF Rows
<1>6. M.p[b - 1] <= M.p[(b - 1) + 1]
  BY <1>4 DEF RowsFollow
<1>7. (b - 1) + 1 = b /\ b - 1 \in 0..Row
  BY <1>3, <1>4, <1>0 DEF Rows
<1> QED
  BY <1>2, <1>3, <1>5, <1>6, <1>7, <1>0

\* Where a row begins and ends, in numbers.
LEMMA RowBounds ==
  ASSUME NEW M, RowsFollow(M), NEW i \in Rows
  PROVE  /\ i \in Nat /\ i + 1 \in Nat /\ i \in 0..Row /\ i + 1 \in 0..Row
         /\ M.p[i] \in Nat /\ M.p[i + 1] \in Nat /\ Len(M.e) \in Nat
         /\ M.p[i] <= M.p[i + 1] /\ M.p[i + 1] <= Len(M.e)
<1>1. /\ i \in Nat /\ i + 1 \in Nat /\ i \in 0..Row /\ i + 1 \in 0..Row
      /\ Row \in 0..Row /\ i + 1 <= Row
  BY SizeAssumption DEF Rows
<1>2. M.p[i] \in Nat /\ M.p[i + 1] \in Nat /\ Len(M.e) \in Nat
  BY <1>1, Parts, LenProperties
<1>3. M.p[i] <= M.p[i + 1] /\ M.p[i + 1] <= M.p[Row]
  BY <1>1, RowsInOrder DEF RowsFollow
<1> QED
  BY <1>1, <1>2, <1>3 DEF RowsFollow

\* A place in a row is a place in the vectors.
LEMMA InRow ==
  ASSUME NEW M, RowsFollow(M), NEW i \in Rows,
         NEW k \in M.p[i]..(M.p[i + 1] - 1)
  PROVE  /\ k \in Nat /\ M.p[i] <= k /\ k < M.p[i + 1]
         /\ k + 1 \in 1..Len(M.e)
         /\ M.e[k + 1].j \in Cols /\ M.e[k + 1].j \in Int /\ M.e[k + 1].x \in Int
<1>1. k \in Nat /\ M.p[i] <= k /\ k < M.p[i + 1] /\ k + 1 \in 1..Len(M.e)
  BY RowBounds
<1>2. M.e[k + 1] \in [j : Cols, x : Int]
  BY <1>1, Parts
<1> QED
  BY <1>1, <1>2 DEF Cols

\* Not only neighbours: the columns of a row ascend.
LEMMA ColumnsAscend ==
  ASSUME NEW M, CanonicalFormat(M), NEW i \in Rows,
         NEW k \in M.p[i]..(M.p[i + 1] - 1), NEW l \in M.p[i]..(M.p[i + 1] - 1),
         k < l
  PROVE  M.e[k + 1].j < M.e[l + 1].j
<1> DEFINE Fails == {m \in Nat : k < m /\ m <= M.p[i + 1] - 1 /\ ~ (M.e[k + 1].j < M.e[m + 1].j)}
<1>0. RowsFollow(M)
  BY DEF CanonicalFormat
<1>1. M.p[i] \in Nat /\ M.p[i + 1] \in Nat /\ k \in Nat /\ l \in Nat /\ M.p[i] <= k
  BY <1>0, RowBounds
<1>2. SUFFICES ASSUME l \in Fails PROVE FALSE
  BY <1>1
<1>3. PICK m \in Fails : \A n \in Fails : m <= n
  BY <1>2, LeastNumber
<1>4. m \in (M.p[i] + 1)..(M.p[i + 1] - 1) /\ (m - 1) + 1 = m
  BY <1>1, <1>3
<1>5. M.e[m].j < M.e[m + 1].j
  BY <1>4 DEF CanonicalFormat
<1>6. m # k + 1
  BY <1>3, <1>5
<1>7. m - 1 \in Nat /\ m - 1 \notin Fails /\ k < m - 1
  BY <1>1, <1>3, <1>6
<1>8. M.e[k + 1].j < M.e[m].j
  BY <1>1, <1>3, <1>4, <1>7
<1>9. M.e[k + 1].j \in Int /\ M.e[m].j \in Int /\ M.e[m + 1].j \in Int
  <2>1. m \in M.p[i]..(M.p[i + 1] - 1) /\ m - 1 \in M.p[i]..(M.p[i + 1] - 1)
    BY <1>1, <1>3, <1>4
  <2>2. M.e[(m - 1) + 1].j \in Int /\ M.e[m + 1].j \in Int /\ M.e[k + 1].j \in Int
    BY <1>0, <2>1, InRow
  <2> QED
    BY <2>2, <1>4
<1> QED
  BY <1>3, <1>5, <1>8, <1>9

\* A column is stored at most once in a row.
LEMMA StoredOnce ==
  ASSUME NEW M, CanonicalFormat(M), NEW i \in Rows, NEW j,
         NEW k, NEW l, Stores(M, i, j, k), Stores(M, i, j, l)
  PROVE  k = l
<1>1. k \in Nat /\ l \in Nat /\ j \in Int
  BY InRow DEF Stores, CanonicalFormat
<1>2. ~ (k < l) /\ ~ (l < k)
  BY <1>1, ColumnsAscend DEF Stores
<1> QED
  BY <1>1, <1>2

-----------------------------------------------------------------------------
(* The scan of a row, and get.                                             *)

\* The scan ends at the first entry that is not before the column.
LEMMA ScanEnds ==
  ASSUME NEW M, RowsFollow(M), NEW i \in Rows, NEW j \in Cols
  PROVE  LET k == Position(M, i, j)
         IN  /\ k \in M.p[i]..M.p[i + 1]
             /\ \A l \in M.p[i]..(k - 1) : M.e[l + 1].j < j
             /\ k < M.p[i + 1] => M.e[k + 1].j >= j
<1> DEFINE Ends == {k \in M.p[i]..M.p[i + 1] : k < M.p[i + 1] => M.e[k + 1].j >= j}
<1>0. M.p[i] \in Nat /\ M.p[i + 1] \in Nat /\ M.p[i] <= M.p[i + 1]
  BY RowBounds
<1>1. M.p[i + 1] \in Ends /\ Ends \in SUBSET Nat
  BY <1>0
<1>2. Position(M, i, j) = Min(Ends)
  BY DEF Position
<1> HIDE DEF Ends
<1>3. Min(Ends) \in Ends /\ \A l \in Ends : Min(Ends) <= l
  BY <1>1, MinIsLeast
<1> DEFINE k == Position(M, i, j)
<1>4. k \in Ends /\ \A l \in Ends : k <= l
  BY <1>2, <1>3
<1> HIDE DEF k
<1>5. k \in M.p[i]..M.p[i + 1] /\ (k < M.p[i + 1] => M.e[k + 1].j >= j)
  BY <1>4 DEF Ends
<1>6. ASSUME NEW l \in M.p[i]..(k - 1)
      PROVE  M.e[l + 1].j < j
  <2>1. l \in M.p[i]..(M.p[i + 1] - 1) /\ ~ (k <= l)
    BY <1>0, <1>5
  <2>2. l \notin Ends
    BY <1>4, <2>1
  <2>3. ~ (M.e[l + 1].j >= j)
    BY <2>1, <2>2, <1>0 DEF Ends
  <2>4. M.e[l + 1].j \in Int
    BY <2>1, InRow
  <2> QED
    BY <2>3, <2>4 DEF Cols
<1> QED
  BY <1>5, <1>6 DEF k

\* get finds the element that is stored.
LEMMA GetStored ==
  ASSUME NEW M, CanonicalFormat(M), NEW i \in Rows, NEW j \in Cols,
         NEW k, Stores(M, i, j, k)
  PROVE  get(M, i, j) = M.e[k + 1].x /\ Position(M, i, j) = k
<1> DEFINE f == Position(M, i, j)
<1>0. RowsFollow(M)
  BY DEF CanonicalFormat
<1>1. /\ f \in M.p[i]..M.p[i + 1]
      /\ \A l \in M.p[i]..(f - 1) : M.e[l + 1].j < j
      /\ f < M.p[i + 1] => M.e[f + 1].j >= j
  BY <1>0, ScanEnds
<1> HIDE DEF f
<1>2. M.p[i] \in Nat /\ M.p[i + 1] \in Nat /\ k \in M.p[i]..(M.p[i + 1] - 1)
  BY <1>0, RowBounds DEF Stores
<1>3. k \in Nat /\ M.p[i] <= k /\ k < M.p[i + 1] /\ M.e[k + 1].j = j /\ j \in Int
  BY <1>0, <1>2, InRow DEF Stores
<1>4. ~ (k < f)
  <2>1. SUFFICES ASSUME k < f PROVE FALSE
    OBVIOUS
  <2>2. k \in M.p[i]..(f - 1)
    BY <1>1, <1>2, <1>3, <2>1
  <2> QED
    BY <1>1, <1>3, <2>2
<1>5. ~ (f < k)
  <2>1. SUFFICES ASSUME f < k PROVE FALSE
    OBVIOUS
  <2>2. f \in M.p[i]..(M.p[i + 1] - 1) /\ f < M.p[i + 1]
    BY <1>1, <1>2, <1>3, <2>1
  <2>3. M.e[f + 1].j < j /\ M.e[f + 1].j \in Int
    BY <1>0, <1>2, <1>3, <2>1, <2>2, ColumnsAscend, InRow
  <2> QED
    BY <1>1, <1>3, <2>2, <2>3
<1>6. f = k
  BY <1>1, <1>2, <1>3, <1>4, <1>5
<1> QED
  BY <1>3, <1>6 DEF get, f

\* get is zero where nothing is stored.
LEMMA GetNothing ==
  ASSUME NEW M, CanonicalFormat(M), NEW i \in Rows, NEW j \in Cols,
         \A k : ~ Stores(M, i, j, k)
  PROVE  get(M, i, j) = 0
<1>1. RowsFollow(M)
  BY DEF CanonicalFormat
<1>2. /\ Position(M, i, j) \in M.p[i]..M.p[i + 1]
      /\ M.p[i] \in Nat /\ M.p[i + 1] \in Nat
  BY <1>1, ScanEnds, RowBounds
<1> QED
  BY <1>2 DEF get, Stores

LEMMA GetNumber ==
  ASSUME NEW M, CanonicalFormat(M), NEW i \in Rows, NEW j \in Cols
  PROVE  get(M, i, j) \in Int
<1>1. CASE \E k : Stores(M, i, j, k)
  BY <1>1, GetStored, InRow DEF Stores, CanonicalFormat
<1>2. CASE ~ \E k : Stores(M, i, j, k)
  BY <1>2, GetNothing
<1> QED
  BY <1>1, <1>2

\* Two matrices have the same element where what one stores the other does.
LEMMA SameElement ==
  ASSUME NEW M, NEW N, CanonicalFormat(M), CanonicalFormat(N),
         NEW i \in Rows, NEW j \in Cols,
         \A k : Stores(M, i, j, k) =>
                  \E l : Stores(N, i, j, l) /\ N.e[l + 1].x = M.e[k + 1].x,
         \A l : Stores(N, i, j, l) => \E k : Stores(M, i, j, k)
  PROVE  get(N, i, j) = get(M, i, j)
<1>1. CASE \E k : Stores(M, i, j, k)
  BY <1>1, GetStored
<1>2. CASE ~ \E k : Stores(M, i, j, k)
  BY <1>2, GetNothing
<1> QED
  BY <1>1, <1>2

-----------------------------------------------------------------------------
(* set.  An entry goes in or comes out at the end of the scan, and the rows *)
(* after it start one entry later or earlier.                              *)

\* vector::insert: the entries from the place on move up.
LEMMA Inserted ==
  ASSUME NEW S, NEW s \in Seq(S), NEW k \in 0..Len(s), NEW e \in S,
         NEW r, r = InsertAt(s, k + 1, e), NEW m \in 1..(Len(s) + 1)
  PROVE  /\ r \in Seq(S) /\ Len(r) = Len(s) + 1
         /\ m <= k => r[m] = s[m]
         /\ m = k + 1 => r[m] = e
         /\ m > k + 1 => r[m] = s[m - 1]
<1> DEFINE u == SubSeq(s, 1, k)
           v == SubSeq(s, k + 1, Len(s))
<1>0. Len(s) \in Nat /\ k \in Nat /\ k <= Len(s) /\ \A n \in 1..Len(s) : s[n] \in S
  BY LenProperties, ElementOfSeq
<1>1. /\ u \in Seq(S) /\ Len(u) = k
      /\ \A n \in 1..k : u[n] = s[n]
  BY <1>0, SubSeqProperties
<1>2. /\ v \in Seq(S) /\ Len(v) = Len(s) - k
      /\ \A n \in 1..(Len(s) - k) : v[n] = s[k + n]
  BY <1>0, SubSeqProperties
<1>3. r = (u \o <<e>>) \o v
  <2>1. (k + 1) - 1 = k
    BY <1>0
  <2> QED
    BY <2>1, Zenon DEF InsertAt
<1> HIDE DEF u, v
<1>4. <<e>> \in Seq(S) /\ Len(<<e>>) = 1 /\ <<e>>[1] = e
  OBVIOUS
<1> DEFINE w == u \o <<e>>
<1>5. /\ w \in Seq(S) /\ Len(w) = k + 1
      /\ \A n \in 1..(k + 1) : w[n] = IF n <= k THEN u[n] ELSE <<e>>[n - k]
  BY <1>0, <1>1, <1>4, ConcatProperties
<1> HIDE DEF w
<1> DEFINE t == w \o v
<1>6. /\ t \in Seq(S) /\ Len(t) = Len(s) + 1
      /\ \A n \in 1..(Len(s) + 1) : t[n] = IF n <= k + 1 THEN w[n] ELSE v[n - (k + 1)]
  <2>1. /\ t \in Seq(S) /\ Len(t) = Len(w) + Len(v)
        /\ \A n \in 1..(Len(w) + Len(v)) :
             t[n] = IF n <= Len(w) THEN w[n] ELSE v[n - Len(w)]
    BY <1>2, <1>5, ConcatProperties
  <2>2. Len(w) = k + 1 /\ Len(w) + Len(v) = Len(s) + 1
    BY <1>0, <1>2, <1>5
  <2> HIDE DEF t
  <2> QED
    BY <2>1, <2>2
<1> HIDE DEF t
<1>7. r = t
  BY <1>3 DEF t, w
<1>8. CASE m <= k
  <2>1. m \in 1..k /\ m \in 1..(k + 1) /\ ~ (m = k + 1) /\ ~ (m > k + 1) /\ m <= k + 1
    BY <1>0, <1>8
  <2>2. t[m] = w[m] /\ w[m] = u[m] /\ u[m] = s[m]
    BY <2>1, <1>1, <1>5, <1>6, <1>8
  <2> QED
    BY <2>1, <2>2, <1>6, <1>7
<1>9. CASE m = k + 1
  <2>1. m \in 1..(k + 1) /\ m - k = 1
    BY <1>0, <1>9
  <2>2. t[m] = w[m] /\ w[m] = <<e>>[1]
    BY <2>1, <1>0, <1>5, <1>6, <1>9
  <2> QED
    BY <2>2, <1>0, <1>4, <1>6, <1>9, <1>7
<1>10. CASE m > k + 1
  <2>1. m - (k + 1) \in 1..(Len(s) - k) /\ k + (m - (k + 1)) = m - 1
    BY <1>0, <1>10
  <2>2. t[m] = v[m - (k + 1)]
    BY <1>0, <1>6, <1>10
  <2>3. v[m - (k + 1)] = s[k + (m - (k + 1))]
    BY <1>2, <2>1
  <2> QED
    BY <2>1, <2>2, <2>3, <1>0, <1>6, <1>10, <1>7
<1> QED
  BY <1>0, <1>6, <1>8, <1>9, <1>10, <1>7

\* vector::erase: the entries after the place move down.
LEMMA Removed ==
  ASSUME NEW S, NEW s \in Seq(S), NEW k \in 0..(Len(s) - 1)
  PROVE  LET t == RemoveAt(s, k + 1)
         IN  /\ t \in Seq(S) /\ Len(t) = Len(s) - 1
             /\ \A n \in 1..k : t[n] = s[n]
             /\ \A n \in (k + 1)..(Len(s) - 1) : t[n] = s[n + 1]
<1> DEFINE u == SubSeq(s, 1, k)
           v == SubSeq(s, k + 2, Len(s))
<1>0. Len(s) \in Nat /\ k \in Nat /\ k < Len(s) /\ \A n \in 1..Len(s) : s[n] \in S
  BY LenProperties, ElementOfSeq
<1>1. /\ u \in Seq(S) /\ Len(u) = k
      /\ \A n \in 1..k : u[n] = s[n]
  BY <1>0, SubSeqProperties
<1>2. /\ v \in Seq(S) /\ Len(v) = Len(s) - k - 1
      /\ \A n \in 1..(Len(s) - k - 1) : v[n] = s[k + 1 + n]
  BY <1>0, SubSeqProperties
<1>3. RemoveAt(s, k + 1) = u \o v
  <2>1. (k + 1) - 1 = k /\ (k + 1) + 1 = k + 2
    BY <1>0
  <2> QED
    BY <2>1, Zenon DEF RemoveAt
<1> HIDE DEF u, v
<1> DEFINE t == u \o v
<1>4. /\ t \in Seq(S) /\ Len(t) = Len(s) - 1
      /\ \A n \in 1..(Len(s) - 1) : t[n] = IF n <= k THEN u[n] ELSE v[n - k]
  <2>1. /\ t \in Seq(S) /\ Len(t) = Len(u) + Len(v)
        /\ \A n \in 1..(Len(u) + Len(v)) :
             t[n] = IF n <= Len(u) THEN u[n] ELSE v[n - Len(u)]
    BY <1>1, <1>2, ConcatProperties
  <2>2. Len(u) = k /\ Len(u) + Len(v) = Len(s) - 1
    BY <1>0, <1>1, <1>2
  <2> HIDE DEF t
  <2> QED
    BY <2>1, <2>2
<1> HIDE DEF t
<1>5. \A n \in 1..k : t[n] = s[n]
  BY <1>0, <1>1, <1>4
<1>6. ASSUME NEW n \in (k + 1)..(Len(s) - 1)
      PROVE  t[n] = s[n + 1]
  <2>1. n \in 1..(Len(s) - 1) /\ ~ (n <= k) /\ n - k \in 1..(Len(s) - k - 1)
    BY <1>0
  <2>2. t[n] = v[n - k]
    BY <1>4, <2>1
  <2>3. v[n - k] = s[k + 1 + (n - k)] /\ k + 1 + (n - k) = n + 1
    BY <1>0, <1>2, <2>1
  <2> QED
    BY <2>2, <2>3
<1> QED
  BY <1>3, <1>4, <1>5, <1>6 DEF t

\* Row r of N is row r of M, d places further on.
Moved(M, N, r, d) ==
  /\ N.p[r] = M.p[r] + d /\ N.p[r + 1] = M.p[r + 1] + d
  /\ \A l \in M.p[r]..(M.p[r + 1] - 1) : N.e[(l + d) + 1] = M.e[l + 1]

LEMMA MovedBack ==
  ASSUME NEW M, NEW N, RowsFollow(M), NEW r \in Rows, NEW d \in Int,
         Moved(M, N, r, d)
  PROVE  Moved(N, M, r, -d)
<1>1. M.p[r] \in Int /\ M.p[r + 1] \in Int
  BY RowBounds
<1>2. M.p[r] = N.p[r] + (-d) /\ M.p[r + 1] = N.p[r + 1] + (-d)
  BY <1>1 DEF Moved
<1>3. ASSUME NEW l \in N.p[r]..(N.p[r + 1] - 1)
      PROVE  M.e[(l + (-d)) + 1] = N.e[l + 1]
  <2>1. l + (-d) \in M.p[r]..(M.p[r + 1] - 1) /\ (l + (-d)) + d = l
    BY <1>1 DEF Moved
  <2> QED
    BY <2>1 DEF Moved
<1> QED
  BY <1>2, <1>3 DEF Moved

\* A row that is moved ascends as before.
LEMMA MovedAscends ==
  ASSUME NEW M, NEW N, CanonicalFormat(M), NEW r \in Rows, NEW d \in Int,
         Moved(M, N, r, d), NEW n \in (N.p[r] + 1)..(N.p[r + 1] - 1)
  PROVE  N.e[n].j < N.e[n + 1].j
<1>1. M.p[r] \in Int /\ M.p[r + 1] \in Int
  BY RowBounds DEF CanonicalFormat
<1>2. /\ n - d \in (M.p[r] + 1)..(M.p[r + 1] - 1)
      /\ n - d \in M.p[r]..(M.p[r + 1] - 1) /\ n - d - 1 \in M.p[r]..(M.p[r + 1] - 1)
      /\ (n - d) + d = n /\ ((n - d - 1) + d) + 1 = n /\ (n - d - 1) + 1 = n - d
  BY <1>1 DEF Moved
<1>3. N.e[n + 1] = M.e[(n - d) + 1] /\ N.e[n] = M.e[n - d]
  <2>1. N.e[((n - d) + d) + 1] = M.e[(n - d) + 1]
    BY <1>2 DEF Moved
  <2>2. N.e[((n - d - 1) + d) + 1] = M.e[(n - d - 1) + 1]
    BY <1>2 DEF Moved
  <2> QED
    BY <1>2, <2>1, <2>2
<1>4. M.e[n - d].j < M.e[(n - d) + 1].j
  BY <1>2 DEF CanonicalFormat
<1> QED
  BY <1>3, <1>4

\* A row that is moved has the elements it had.
LEMMA MovedElements ==
  ASSUME NEW M, NEW N, CanonicalFormat(M), CanonicalFormat(N),
         NEW r \in Rows, NEW d \in Int, Moved(M, N, r, d), NEW c \in Cols
  PROVE  get(N, r, c) = get(M, r, c)
<1>1. M.p[r] \in Int /\ M.p[r + 1] \in Int /\ N.p[r] \in Int /\ N.p[r + 1] \in Int
  BY RowBounds DEF CanonicalFormat
<1>2. ASSUME NEW l, Stores(M, r, c, l)
      PROVE  Stores(N, r, c, l + d) /\ N.e[(l + d) + 1].x = M.e[l + 1].x
  BY <1>1, <1>2 DEF Stores, Moved
<1>3. ASSUME NEW m, Stores(N, r, c, m)
      PROVE  Stores(M, r, c, m - d)
  <2>1. m - d \in M.p[r]..(M.p[r + 1] - 1) /\ ((m - d) + d) + 1 = m + 1
    BY <1>1, <1>3 DEF Stores, Moved
  <2>2. N.e[((m - d) + d) + 1] = M.e[(m - d) + 1]
    BY <2>1 DEF Moved
  <2> QED
    BY <1>3, <2>1, <2>2 DEF Stores
<1> QED
  BY <1>2, <1>3, SameElement

\* N is M with one entry more, in row i after the first k entries.
OneMore(M, N, i, k) ==
  /\ k \in M.p[i]..M.p[i + 1]
  /\ \A r \in 0..Row : N.p[r] = IF r > i THEN M.p[r] + 1 ELSE M.p[r]
  /\ \A n \in 1..k : N.e[n] = M.e[n]
  /\ \A n \in (k + 1)..Len(M.e) : N.e[n + 1] = M.e[n]

\* The rows before it stay where they are, the rows after it move up.
LEMMA OtherRows ==
  ASSUME NEW M, NEW N, RowsFollow(M), NEW i \in Rows, NEW k, OneMore(M, N, i, k),
         NEW r \in Rows
  PROVE  /\ r < i => Moved(M, N, r, 0)
         /\ r > i => Moved(M, N, r, 1)
<1>0. /\ M.p[i] \in Nat /\ M.p[i + 1] \in Nat /\ k \in Nat
      /\ M.p[i] <= k /\ k <= M.p[i + 1]
  BY RowBounds DEF OneMore
<1>1. /\ M.p[r] \in Nat /\ M.p[r + 1] \in Nat /\ Len(M.e) \in Nat
      /\ M.p[r + 1] <= Len(M.e)
      /\ r \in Nat /\ i \in Nat /\ r \in 0..Row /\ r + 1 \in 0..Row
      /\ i \in 0..Row /\ i + 1 \in 0..Row
  BY RowBounds
<1>2. CASE r < i
  <2>1. M.p[r + 1] <= k
    <3>1. M.p[r + 1] <= M.p[i]
      BY <1>1, <1>2, RowsInOrder
    <3> QED
      BY <1>0, <1>1, <3>1
  <2>2. N.p[r] = M.p[r] + 0 /\ N.p[r + 1] = M.p[r + 1] + 0
    BY <1>1, <1>2 DEF OneMore
  <2>3. ASSUME NEW l \in M.p[r]..(M.p[r + 1] - 1)
        PROVE  N.e[(l + 0) + 1] = M.e[l + 1]
    <3>1. l + 1 \in 1..k /\ (l + 0) + 1 = l + 1
      BY <1>0, <1>1, <2>1
    <3> QED
      BY <3>1 DEF OneMore
  <2> QED
    BY <1>1, <1>2, <2>2, <2>3 DEF Moved
<1>3. CASE r > i
  <2>1. k <= M.p[r]
    <3>1. M.p[i + 1] <= M.p[r]
      BY <1>1, <1>3, RowsInOrder
    <3> QED
      BY <1>0, <1>1, <3>1
  <2>2. N.p[r] = M.p[r] + 1 /\ N.p[r + 1] = M.p[r + 1] + 1
    BY <1>1, <1>3 DEF OneMore
  <2>3. ASSUME NEW l \in M.p[r]..(M.p[r + 1] - 1)
        PROVE  N.e[(l + 1) + 1] = M.e[l + 1]
    <3>1. l + 1 \in (k + 1)..Len(M.e)
      BY <1>0, <1>1, <2>1, SMTT(30)
    <3> QED
      BY <3>1 DEF OneMore
  <2> QED
    BY <1>1, <1>3, <2>2, <2>3 DEF Moved
<1> QED
  BY <1>1, <1>2, <1>3

\* In row i, what was stored still is, and nothing else but the entry.
LEMMA RowWithOneMore ==
  ASSUME NEW M, NEW N, CanonicalFormat(M), CanonicalFormat(N),
         NEW i \in Rows, NEW k, OneMore(M, N, i, k),
         NEW c \in Cols, c # N.e[k + 1].j
  PROVE  get(N, i, c) = get(M, i, c)
<1>0. /\ M.p[i] \in Nat /\ M.p[i + 1] \in Nat /\ k \in Nat
      /\ M.p[i] <= k /\ k <= M.p[i + 1]
      /\ M.p[i + 1] <= Len(M.e) /\ Len(M.e) \in Nat
  BY RowBounds DEF OneMore, CanonicalFormat
<1>1. N.p[i] = M.p[i] /\ N.p[i + 1] = M.p[i + 1] + 1
  <2>1. i \in 0..Row /\ i + 1 \in 0..Row /\ i \in Nat
    BY RowBounds DEF CanonicalFormat
  <2> QED
    BY <2>1 DEF OneMore
<1>2. ASSUME NEW l, Stores(M, i, c, l)
      PROVE  \E m : Stores(N, i, c, m) /\ N.e[m + 1].x = M.e[l + 1].x
  <2>1. l \in Nat /\ M.p[i] <= l /\ l < M.p[i + 1] /\ M.e[l + 1].j = c
    BY <1>0, <1>2 DEF Stores
  <2>2. CASE l < k
    <3>1. l + 1 \in 1..k /\ l \in N.p[i]..(N.p[i + 1] - 1)
      BY <1>0, <1>1, <2>1, <2>2
    <3> QED
      BY <2>1, <3>1 DEF OneMore, Stores
  <2>3. CASE l >= k
    <3>1. l + 1 \in (k + 1)..Len(M.e) /\ l + 1 \in N.p[i]..(N.p[i + 1] - 1)
      BY <1>0, <1>1, <2>1, <2>3
    <3>2. N.e[(l + 1) + 1] = M.e[l + 1]
      BY <3>1 DEF OneMore
    <3> QED
      BY <2>1, <3>1, <3>2 DEF Stores
  <2> QED
    BY <1>0, <2>1, <2>2, <2>3
<1>3. ASSUME NEW m, Stores(N, i, c, m)
      PROVE  \E l : Stores(M, i, c, l)
  <2>1. m \in Nat /\ M.p[i] <= m /\ m <= M.p[i + 1] /\ N.e[m + 1].j = c
    BY <1>0, <1>1, <1>3 DEF Stores
  <2>2. CASE m < k
    <3>1. m + 1 \in 1..k /\ m \in M.p[i]..(M.p[i + 1] - 1)
      BY <1>0, <2>1, <2>2
    <3> QED
      BY <2>1, <3>1 DEF OneMore, Stores
  <2>3. CASE m > k
    <3>1. m \in (k + 1)..Len(M.e) /\ m - 1 \in M.p[i]..(M.p[i + 1] - 1) /\ (m - 1) + 1 = m
      BY <1>0, <2>1, <2>3
    <3>2. N.e[m + 1] = M.e[(m - 1) + 1]
      BY <3>1 DEF OneMore
    <3> QED
      BY <2>1, <3>1, <3>2 DEF Stores
  <2> QED
    BY <1>0, <2>1, <2>2, <2>3
<1> QED
  BY <1>2, <1>3, SameElement

\* An entry more in one row changes no other element.
LEMMA OtherElementsStay ==
  ASSUME NEW M, NEW N, CanonicalFormat(M), CanonicalFormat(N),
         NEW i \in Rows, NEW k, OneMore(M, N, i, k),
         NEW r \in Rows, NEW c \in Cols, r # i \/ c # N.e[k + 1].j
  PROVE  get(N, r, c) = get(M, r, c)
<1>1. CASE r = i
  BY <1>1, RowWithOneMore
<1>2. CASE r # i
  <2>1. r < i \/ r > i
    BY <1>2 DEF Rows
  <2>2. Moved(M, N, r, 0) \/ Moved(M, N, r, 1)
    BY <2>1, OtherRows DEF CanonicalFormat
  <2> QED
    BY <2>2, MovedElements
<1> QED
  BY <1>1, <1>2

\* A column that is not stored yet goes in.
LEMMA InsertionSound ==
  ASSUME NEW M, CanonicalFormat(M), NEW i \in Rows, NEW j \in Cols, NEW v \in Int,
         NEW k \in M.p[i]..M.p[i + 1],
         \A l \in M.p[i]..(k - 1) : M.e[l + 1].j < j,
         k < M.p[i + 1] => M.e[k + 1].j > j
  PROVE  LET N == [p |-> Shift(M.p, i, 1), e |-> InsertAt(M.e, k + 1, Entry(j, v))]
         IN  /\ CanonicalFormat(N)
             /\ get(N, i, j) = v
             /\ \A r \in Rows, c \in Cols :
                  r # i \/ c # j => get(N, r, c) = get(M, r, c)
<1> DEFINE N == [p |-> Shift(M.p, i, 1), e |-> InsertAt(M.e, k + 1, Entry(j, v))]
           Entries == [j : Cols, x : Int]
<1>0. RowsFollow(M)
  BY DEF CanonicalFormat
<1>1. /\ M.p[i] \in Nat /\ M.p[i + 1] \in Nat /\ k \in Nat
      /\ M.p[i] <= k /\ k <= M.p[i + 1]
      /\ M.p[i + 1] <= Len(M.e) /\ Len(M.e) \in Nat
      /\ i \in Nat /\ i \in 0..Row /\ i + 1 \in 0..Row
  BY <1>0, RowBounds
<1>2. /\ N.p \in [0..Row -> Nat]
      /\ \A r \in 0..Row : N.p[r] = IF r > i THEN M.p[r] + 1 ELSE M.p[r]
  <2>1. /\ DOMAIN M.p = 0..Row
        /\ \A r \in 0..Row : M.p[r] \in Nat
    BY <1>0, Parts
  <2>2. N.p = [r \in 0..Row |-> IF r > i THEN M.p[r] + 1 ELSE M.p[r]]
    BY <2>1 DEF Shift
  <2> HIDE DEF N
  <2> QED
    BY <2>1, <2>2
<1>3. /\ N.e \in Seq(Entries) /\ Len(N.e) = Len(M.e) + 1
      /\ \A n \in 1..k : N.e[n] = M.e[n]
      /\ N.e[k + 1] = Entry(j, v)
      /\ \A n \in (k + 1)..Len(M.e) : N.e[n + 1] = M.e[n]
  <2> DEFINE old == M.e
             all == N.e
             new == Entry(j, v)
  <2>1. k \in 0..Len(old)
    BY <1>1
  <2>2. old \in Seq(Entries)
    BY <1>0, Parts
  <2>3. new \in Entries /\ all = InsertAt(old, k + 1, new)
    BY DEF Entry
  <2> HIDE DEF Entries, old, all, new
  <2>4. Len(old) \in Nat
    BY <2>2, LenProperties
  <2>5. ASSUME NEW m \in 1..(Len(old) + 1)
        PROVE  /\ all \in Seq(Entries) /\ Len(all) = Len(old) + 1
               /\ m <= k => all[m] = old[m]
               /\ m = k + 1 => all[m] = new
               /\ m > k + 1 => all[m] = old[m - 1]
    BY <2>1, <2>2, <2>3, Inserted
  <2>6. all \in Seq(Entries) /\ Len(all) = Len(old) + 1 /\ all[k + 1] = new
    <3>1. k + 1 \in 1..(Len(old) + 1)
      BY <1>1, <2>1, <2>4
    <3> QED
      BY <2>5, <3>1
  <2>7. ASSUME NEW n \in 1..k PROVE all[n] = old[n]
    BY <2>1, <2>4, <2>5
  <2>8. ASSUME NEW n \in (k + 1)..Len(old) PROVE all[n + 1] = old[n]
    <3>1. n + 1 \in 1..(Len(old) + 1) /\ n + 1 > k + 1 /\ (n + 1) - 1 = n
      BY <1>1, <2>4
    <3> QED
      BY <2>5, <3>1
  <2> QED
    BY <2>6, <2>7, <2>8 DEF old, all, new
<1>4. N \in [p : [0..Row -> Nat], e : Seq(Entries)]
  BY <1>2, <1>3
<1> HIDE DEF N
<1>5. OneMore(M, N, i, k)
  BY <1>2, <1>3 DEF OneMore
<1>6. RowsFollow(N)
  <2>1. 0 \in 0..Row /\ Row \in 0..Row /\ ~ (0 > i) /\ Row > i
    BY <1>1, SizeAssumption DEF Rows
  <2>2. N.p[0] = 0 /\ N.p[Row] = Len(N.e)
    BY <1>0, <1>2, <1>3, <2>1 DEF RowsFollow
  <2>3. ASSUME NEW r \in Rows
        PROVE  N.p[r] <= N.p[r + 1]
    <3>1. /\ r \in 0..Row /\ r + 1 \in 0..Row /\ r \in Nat
          /\ M.p[r] \in Nat /\ M.p[r + 1] \in Nat /\ M.p[r] <= M.p[r + 1]
      BY <1>0, RowBounds
    <3>2. /\ N.p[r] = IF r > i THEN M.p[r] + 1 ELSE M.p[r]
          /\ N.p[r + 1] = IF r + 1 > i THEN M.p[r + 1] + 1 ELSE M.p[r + 1]
      BY <1>2, <3>1
    <3> QED
      BY <1>1, <3>1, <3>2
  <2> QED
    BY <1>4, <2>2, <2>3 DEF RowsFollow
<1>7. ASSUME NEW n \in (N.p[i] + 1)..(N.p[i + 1] - 1)
      PROVE  N.e[n].j < N.e[n + 1].j
  <2>0. N.p[i] = M.p[i] /\ N.p[i + 1] = M.p[i + 1] + 1
    BY <1>1, <1>2
  <2>1. n \in Nat /\ M.p[i] + 1 <= n /\ n <= M.p[i + 1]
    BY <1>1, <2>0
  <2>2. N.e[k + 1].j = j /\ j \in Int
    BY <1>3 DEF Entry, Cols
  <2>3. CASE n < k
    <3>1. n \in 1..k /\ n + 1 \in 1..k /\ n \in (M.p[i] + 1)..(M.p[i + 1] - 1)
      BY <1>1, <2>1, <2>3
    <3> QED
      BY <1>3, <3>1 DEF CanonicalFormat
  <2>4. CASE n = k
    <3>1. n \in 1..k /\ n - 1 \in M.p[i]..(k - 1) /\ (n - 1) + 1 = n
      BY <1>1, <2>1, <2>4
    <3>2. M.e[n].j < j
      BY <3>1
    <3> QED
      BY <1>3, <2>2, <2>4, <3>1, <3>2
  <2>5. CASE n = k + 1
    <3>1. k + 1 \in (k + 1)..Len(M.e) /\ k \in M.p[i]..(M.p[i + 1] - 1) /\ k < M.p[i + 1]
      BY <1>1, <2>1, <2>5
    <3>2. N.e[n + 1] = M.e[k + 1]
      BY <1>3, <2>5, <3>1
    <3>3. M.e[k + 1].j > j /\ M.e[k + 1].j \in Int
      BY <1>0, <3>1, InRow
    <3> QED
      BY <2>2, <2>5, <3>2, <3>3
  <2>6. CASE n > k + 1
    <3>1. /\ n \in (k + 1)..Len(M.e) /\ n - 1 \in (k + 1)..Len(M.e)
          /\ n - 1 \in (M.p[i] + 1)..(M.p[i + 1] - 1) /\ (n - 1) + 1 = n
      <4>1. n \in Int /\ k \in Int /\ Len(M.e) \in Int /\ k + 2 <= n /\ n <= Len(M.e)
        BY <1>1, <2>1, <2>6
      <4>2. n \in (k + 1)..Len(M.e) /\ n - 1 \in (k + 1)..Len(M.e) /\ (n - 1) + 1 = n
        BY <4>1
      <4>3. n - 1 \in (M.p[i] + 1)..(M.p[i + 1] - 1)
        BY <1>1, <2>1, <2>6
      <4> QED
        BY <4>2, <4>3
    <3>2. N.e[n + 1] = M.e[n] /\ N.e[n] = M.e[n - 1]
      BY <1>3, <3>1
    <3> QED
      BY <3>1, <3>2 DEF CanonicalFormat
  <2> QED
    BY <1>1, <2>1, <2>3, <2>4, <2>5, <2>6
<1>8. ASSUME NEW r \in Rows, NEW n \in (N.p[r] + 1)..(N.p[r + 1] - 1)
      PROVE  N.e[n].j < N.e[n + 1].j
  <2>1. CASE r = i
    BY <1>7, <2>1
  <2>2. CASE r # i
    <3>1. r < i \/ r > i
      BY <2>2 DEF Rows
    <3>2. Moved(M, N, r, 0) \/ Moved(M, N, r, 1)
      BY <1>0, <1>5, <3>1, OtherRows
    <3> QED
      BY <3>2, MovedAscends
  <2> QED
    BY <2>1, <2>2
<1>9. CanonicalFormat(N)
  BY <1>6, <1>8 DEF CanonicalFormat
<1>10. get(N, i, j) = v
  <2>1. N.p[i] = M.p[i] /\ N.p[i + 1] = M.p[i + 1] + 1
    BY <1>1, <1>2
  <2>2. Stores(N, i, j, k)
    BY <1>1, <1>3, <2>1 DEF Stores, Entry
  <2> QED
    BY <1>3, <1>9, <2>2, GetStored DEF Entry
<1>11. ASSUME NEW r \in Rows, NEW c \in Cols, r # i \/ c # j
       PROVE  get(N, r, c) = get(M, r, c)
  <2>1. r # i \/ c # N.e[k + 1].j
    BY <1>3, <1>11 DEF Entry
  <2> QED
    BY <1>5, <1>9, <2>1, OtherElementsStay
<1> QED
  BY <1>9, <1>10, <1>11 DEF N

\* A column that is stored comes out.
LEMMA RemovalSound ==
  ASSUME NEW M, CanonicalFormat(M), NEW i \in Rows, NEW j \in Cols,
         NEW k, Stores(M, i, j, k)
  PROVE  LET N == [p |-> Shift(M.p, i, -1), e |-> RemoveAt(M.e, k + 1)]
         IN  /\ CanonicalFormat(N)
             /\ get(N, i, j) = 0
             /\ \A r \in Rows, c \in Cols :
                  r # i \/ c # j => get(N, r, c) = get(M, r, c)
<1> DEFINE N == [p |-> Shift(M.p, i, -1), e |-> RemoveAt(M.e, k + 1)]
           Entries == [j : Cols, x : Int]
<1>0. RowsFollow(M)
  BY DEF CanonicalFormat
<1>1. /\ M.p[i] \in Nat /\ M.p[i + 1] \in Nat /\ k \in Nat
      /\ M.p[i] <= k /\ k < M.p[i + 1] /\ k \in M.p[i]..(M.p[i + 1] - 1)
      /\ M.p[i + 1] <= Len(M.e) /\ Len(M.e) \in Nat
      /\ i \in Nat /\ i \in 0..Row /\ i + 1 \in 0..Row
  BY <1>0, RowBounds DEF Stores
<1>2. ASSUME NEW r \in 0..Row, r > i
      PROVE  M.p[r] \in Nat /\ M.p[r] >= 1
  <2>1. i + 1 <= r
    BY <1>1, <1>2
  <2>2. M.p[i + 1] <= M.p[r] /\ M.p[r] \in Nat
    BY <1>0, <1>1, <2>1, RowsInOrder, Parts
  <2> QED
    BY <1>1, <2>2
<1>3. /\ N.p \in [0..Row -> Nat]
      /\ \A r \in 0..Row : N.p[r] = IF r > i THEN M.p[r] - 1 ELSE M.p[r]
  <2>1. /\ DOMAIN M.p = 0..Row
        /\ \A r \in 0..Row : M.p[r] \in Nat
    BY <1>0, Parts
  <2>2. N.p = [r \in 0..Row |-> IF r > i THEN M.p[r] + (-1) ELSE M.p[r]]
    BY <2>1 DEF Shift
  <2> HIDE DEF N
  <2>3. ASSUME NEW r \in 0..Row
        PROVE  (IF r > i THEN M.p[r] + (-1) ELSE M.p[r]) \in Nat
    BY <1>2, <2>1
  <2> QED
    BY <2>1, <2>2, <2>3
<1>4. /\ N.e \in Seq(Entries) /\ Len(N.e) = Len(M.e) - 1
      /\ \A n \in 1..k : N.e[n] = M.e[n]
      /\ \A n \in (k + 1)..(Len(M.e) - 1) : N.e[n] = M.e[n + 1]
  <2>1. k \in 0..(Len(M.e) - 1)
    BY <1>1
  <2>2. M.e \in Seq(Entries)
    BY <1>0, Parts
  <2> HIDE DEF Entries
  <2> QED
    BY <2>1, <2>2, Removed
<1>5. N \in [p : [0..Row -> Nat], e : Seq(Entries)]
  BY <1>3, <1>4
<1> HIDE DEF N
<1>6. RowsFollow(N)
  <2>1. 0 \in 0..Row /\ Row \in 0..Row /\ ~ (0 > i) /\ Row > i
    BY <1>1, SizeAssumption DEF Rows
  <2>2. N.p[0] = 0 /\ N.p[Row] = Len(N.e)
    BY <1>0, <1>3, <1>4, <2>1 DEF RowsFollow
  <2>3. ASSUME NEW r \in Rows
        PROVE  N.p[r] <= N.p[r + 1]
    <3>1. /\ r \in 0..Row /\ r + 1 \in 0..Row /\ r \in Nat
          /\ M.p[r] \in Nat /\ M.p[r + 1] \in Nat /\ M.p[r] <= M.p[r + 1]
      BY <1>0, RowBounds
    <3>2. /\ N.p[r] = IF r > i THEN M.p[r] - 1 ELSE M.p[r]
          /\ N.p[r + 1] = IF r + 1 > i THEN M.p[r + 1] - 1 ELSE M.p[r + 1]
      BY <1>3, <3>1
    <3> QED
      BY <1>1, <3>1, <3>2
  <2> QED
    BY <1>5, <2>2, <2>3 DEF RowsFollow
<1>7. N.p[i] = M.p[i] /\ N.p[i + 1] = M.p[i + 1] - 1
  BY <1>1, <1>3
<1>8. OneMore(N, M, i, k)
  <2>1. k \in N.p[i]..N.p[i + 1]
    BY <1>1, <1>7
  <2>2. ASSUME NEW r \in 0..Row
        PROVE  M.p[r] = IF r > i THEN N.p[r] + 1 ELSE N.p[r]
    BY <1>2, <1>3
  <2>3. ASSUME NEW n \in (k + 1)..Len(N.e)
        PROVE  M.e[n + 1] = N.e[n]
    BY <1>4
  <2> QED
    BY <1>4, <2>1, <2>2, <2>3 DEF OneMore
<1>9. ASSUME NEW n \in (N.p[i] + 1)..(N.p[i + 1] - 1)
      PROVE  N.e[n].j < N.e[n + 1].j
  <2>1. n \in Nat /\ M.p[i] + 1 <= n /\ n <= M.p[i + 1] - 2
    BY <1>1, <1>7
  <2>2. CASE n < k
    <3>1. n \in 1..k /\ n + 1 \in 1..k /\ n \in (M.p[i] + 1)..(M.p[i + 1] - 1)
      BY <1>1, <2>1, <2>2
    <3> QED
      BY <1>4, <3>1 DEF CanonicalFormat
  <2>3. CASE n = k
    <3>1. /\ n \in 1..k /\ n + 1 \in (k + 1)..(Len(M.e) - 1)
          /\ n - 1 \in M.p[i]..(M.p[i + 1] - 1) /\ n + 1 \in M.p[i]..(M.p[i + 1] - 1)
          /\ n - 1 < n + 1 /\ (n - 1) + 1 = n
      <4>1. /\ n \in Int /\ M.p[i] \in Int /\ M.p[i + 1] \in Int /\ Len(M.e) \in Int
            /\ 0 <= M.p[i] /\ M.p[i] + 1 <= n /\ n <= M.p[i + 1] - 2 /\ M.p[i + 1] <= Len(M.e)
        BY <1>1, <2>1
      <4> QED
        BY <2>3, <4>1, SMTT(30)
    <3>2. M.e[(n - 1) + 1].j < M.e[(n + 1) + 1].j
      BY <3>1, ColumnsAscend
    <3> QED
      BY <1>4, <3>1, <3>2
  <2>4. CASE n > k
    <3>1. /\ n \in (k + 1)..(Len(M.e) - 1) /\ n + 1 \in (k + 1)..(Len(M.e) - 1)
          /\ n + 1 \in (M.p[i] + 1)..(M.p[i + 1] - 1)
      <4>1. n \in Int /\ k \in Int /\ Len(M.e) \in Int /\ k + 1 <= n /\ n + 2 <= Len(M.e)
        BY <1>1, <2>1, <2>4
      <4>2. n \in (k + 1)..(Len(M.e) - 1)
        BY <4>1
      <4>3. n + 1 \in (k + 1)..(Len(M.e) - 1)
        BY <4>1
      <4>4. n + 1 \in (M.p[i] + 1)..(M.p[i + 1] - 1)
        BY <1>1, <2>1
      <4> QED
        BY <4>2, <4>3, <4>4
    <3> QED
      BY <1>4, <3>1 DEF CanonicalFormat
  <2> QED
    BY <1>1, <2>1, <2>2, <2>3, <2>4
<1>10. ASSUME NEW r \in Rows, NEW n \in (N.p[r] + 1)..(N.p[r + 1] - 1)
       PROVE  N.e[n].j < N.e[n + 1].j
  <2>1. CASE r = i
    BY <1>9, <2>1
  <2>2. CASE r # i
    <3>1. r < i \/ r > i
      BY <2>2 DEF Rows
    <3>2. Moved(N, M, r, 0) \/ Moved(N, M, r, 1)
      BY <1>6, <1>8, <3>1, OtherRows
    <3>3. Moved(M, N, r, -0) \/ Moved(M, N, r, -1)
      BY <1>6, <3>2, MovedBack
    <3> QED
      BY <3>3, MovedAscends
  <2> QED
    BY <2>1, <2>2
<1>11. CanonicalFormat(N)
  BY <1>6, <1>10 DEF CanonicalFormat
<1>12. M.e[k + 1].j = j
  BY DEF Stores
<1>13. ASSUME NEW m, Stores(N, i, j, m)
       PROVE  FALSE
  <2>1. m \in Nat /\ M.p[i] <= m /\ m < M.p[i + 1] - 1 /\ N.e[m + 1].j = j
    BY <1>1, <1>7, <1>13 DEF Stores
  <2>2. CASE m < k
    <3>1. m + 1 \in 1..k /\ m \in M.p[i]..(M.p[i + 1] - 1)
      BY <1>1, <2>1, <2>2
    <3>2. Stores(M, i, j, m)
      BY <1>4, <2>1, <3>1 DEF Stores
    <3> QED
      BY <1>1, <2>1, <2>2, <3>2, StoredOnce
  <2>3. CASE m >= k
    <3>1. m + 1 \in (k + 1)..(Len(M.e) - 1) /\ m + 1 \in M.p[i]..(M.p[i + 1] - 1)
      BY <1>1, <2>1, <2>3
    <3>2. Stores(M, i, j, m + 1)
      BY <1>4, <2>1, <3>1 DEF Stores
    <3>3. m + 1 = k
      BY <3>2, StoredOnce
    <3> QED
      BY <1>1, <2>1, <2>3, <3>3
  <2> QED
    BY <1>1, <2>1, <2>2, <2>3
<1>14. get(N, i, j) = 0
  BY <1>11, <1>13, GetNothing
<1>15. ASSUME NEW r \in Rows, NEW c \in Cols, r # i \/ c # j
       PROVE  get(N, r, c) = get(M, r, c)
  BY <1>8, <1>11, <1>12, <1>15, OtherElementsStay
<1> QED
  BY <1>11, <1>14, <1>15 DEF N

-----------------------------------------------------------------------------
(* Operations that change numbers and nothing else.                        *)

\* Every entry keeps its place and its column.
Renumbered(M, N) ==
  /\ N \in [p : [0..Row -> Nat], e : Seq([j : Cols, x : Int])]
  /\ N.p = M.p /\ Len(N.e) = Len(M.e)
  /\ \A k \in 1..Len(M.e) : N.e[k].j = M.e[k].j

LEMMA NewNumbers ==
  ASSUME NEW M, CanonicalFormat(M), NEW N, Renumbered(M, N)
  PROVE  /\ CanonicalFormat(N)
         /\ \A r \in Rows, c \in Cols :
              /\ \A k : Stores(M, r, c, k) => get(N, r, c) = N.e[k + 1].x
              /\ (\A k : ~ Stores(M, r, c, k)) => get(N, r, c) = 0
<1>0. RowsFollow(M)
  BY DEF CanonicalFormat
<1>1. RowsFollow(N)
  BY <1>0 DEF RowsFollow, Renumbered
<1>2. ASSUME NEW r \in Rows, NEW n \in (N.p[r] + 1)..(N.p[r + 1] - 1)
      PROVE  N.e[n].j < N.e[n + 1].j
  <2>1. n \in (M.p[r] + 1)..(M.p[r + 1] - 1)
    BY DEF Renumbered
  <2>2. n \in 1..Len(M.e) /\ n + 1 \in 1..Len(M.e)
    BY <1>0, <2>1, RowBounds
  <2> QED
    BY <2>1, <2>2 DEF CanonicalFormat, Renumbered
<1>3. CanonicalFormat(N)
  BY <1>1, <1>2 DEF CanonicalFormat
<1>4. ASSUME NEW r \in Rows, NEW c \in Cols, NEW k
      PROVE  Stores(N, r, c, k) <=> Stores(M, r, c, k)
  BY <1>0, InRow DEF Stores, Renumbered
<1>5. ASSUME NEW r \in Rows, NEW c \in Cols, NEW k, Stores(M, r, c, k)
      PROVE  get(N, r, c) = N.e[k + 1].x
  BY <1>3, <1>4, <1>5, GetStored
<1>6. ASSUME NEW r \in Rows, NEW c \in Cols, \A k : ~ Stores(M, r, c, k)
      PROVE  get(N, r, c) = 0
  BY <1>3, <1>4, <1>6, GetNothing
<1> QED
  BY <1>3, <1>5, <1>6

LEMMA FieldReplaced ==
  ASSUME NEW M, NEW P, NEW E, M = [p |-> P, e |-> E], NEW y
  PROVE  [M EXCEPT !.e = y] = [p |-> P, e |-> y]
OBVIOUS

\* A column that is stored gets another number.
LEMMA OverwriteSound ==
  ASSUME NEW M, CanonicalFormat(M), NEW i \in Rows, NEW j \in Cols, NEW v \in Int,
         NEW k, Stores(M, i, j, k), NEW N, Renumbered(M, N), N.e[k + 1].x = v,
         \A n \in 1..Len(M.e) : n # k + 1 => N.e[n].x = M.e[n].x
  PROVE  /\ CanonicalFormat(N)
         /\ get(N, i, j) = v
         /\ \A r \in Rows, c \in Cols :
              r # i \/ c # j => get(N, r, c) = get(M, r, c)
<1>0. RowsFollow(M)
  BY DEF CanonicalFormat
<1>1. k \in Nat /\ k + 1 \in 1..Len(M.e)
  BY <1>0, InRow DEF Stores
<1>2. /\ CanonicalFormat(N)
      /\ \A r \in Rows, c \in Cols :
           /\ \A l : Stores(M, r, c, l) => get(N, r, c) = N.e[l + 1].x
           /\ (\A l : ~ Stores(M, r, c, l)) => get(N, r, c) = 0
  BY NewNumbers
<1>3. get(N, i, j) = v
  BY <1>2
<1>4. ASSUME NEW r \in Rows, NEW c \in Cols, r # i \/ c # j
      PROVE  get(N, r, c) = get(M, r, c)
  <2>1. ASSUME NEW l, Stores(M, r, c, l)
        PROVE  get(N, r, c) = get(M, r, c)
    <3>1. /\ l + 1 \in 1..Len(M.e) /\ M.e[l + 1].j = c
          /\ l \in Nat /\ M.p[r] <= l /\ l < M.p[r + 1]
      BY <1>0, <2>1, InRow DEF Stores
    <3>2. l # k
      <4>1. SUFFICES ASSUME l = k PROVE FALSE
        OBVIOUS
      <4>2. c = j /\ r # i
        BY <1>4, <3>1, <4>1 DEF Stores
      <4>3. /\ r \in Nat /\ i \in Nat /\ M.p[i] \in Nat /\ M.p[i + 1] \in Nat
            /\ M.p[r] \in Nat /\ M.p[r + 1] \in Nat
            /\ M.p[i] <= k /\ k < M.p[i + 1]
        BY <1>0, RowBounds, InRow DEF Stores
      <4>4. CASE r < i
        <5>1. M.p[r + 1] <= M.p[i]
          BY <1>0, <4>3, <4>4, RowBounds, RowsInOrder
        <5> QED
          BY <1>1, <3>1, <4>1, <4>3, <5>1
      <4>5. CASE i < r
        <5>1. M.p[i + 1] <= M.p[r]
          BY <1>0, <4>3, <4>5, RowBounds, RowsInOrder
        <5> QED
          BY <1>1, <3>1, <4>1, <4>3, <5>1
      <4> QED
        BY <4>2, <4>3, <4>4, <4>5
    <3>3. get(N, r, c) = N.e[l + 1].x /\ get(M, r, c) = M.e[l + 1].x
      BY <1>2, <2>1, GetStored
    <3> QED
      BY <1>1, <3>1, <3>2, <3>3
  <2>2. CASE \A l : ~ Stores(M, r, c, l)
    BY <1>2, <2>2, GetNothing
  <2> QED
    BY <2>1, <2>2
<1> QED
  BY <1>2, <1>3, <1>4

\* set: afterwards the element is the number that was given, no other element
\* has changed, and the storage is canonical again.  (CSRMatrix::set,
\* sparse_matrix.cpp, in each of its cases: overwrite, insert, erase, nothing.)
THEOREM SetSound ==
  ASSUME NEW M, CanonicalFormat(M), NEW i \in Rows, NEW j \in Cols, NEW v \in Int
  PROVE  /\ CanonicalFormat(set(M, i, j, v))
         /\ \A r \in Rows, c \in Cols :
              get(set(M, i, j, v), r, c) = IF r = i /\ c = j THEN v ELSE get(M, r, c)
<1> DEFINE k == Position(M, i, j)
<1>0. RowsFollow(M) /\ M.p[i] \in Nat /\ M.p[i + 1] \in Nat /\ j \in Int
  BY RowBounds DEF CanonicalFormat, Cols
<1>1. /\ k \in M.p[i]..M.p[i + 1]
      /\ \A l \in M.p[i]..(k - 1) : M.e[l + 1].j < j
      /\ k < M.p[i + 1] => M.e[k + 1].j >= j
  BY <1>0, ScanEnds
<1> HIDE DEF k
<1> DEFINE stored == k < M.p[i + 1] /\ M.e[k + 1].j = j
<1>2. stored => Stores(M, i, j, k)
  BY <1>0, <1>1 DEF Stores
<1>3. ASSUME ~ stored
      PROVE  \A l : ~ Stores(M, i, j, l)
  <2>1. SUFFICES ASSUME NEW l, Stores(M, i, j, l) PROVE FALSE
    OBVIOUS
  <2>2. k = l /\ l \in M.p[i]..(M.p[i + 1] - 1) /\ M.e[l + 1].j = j
    BY <2>1, GetStored DEF k, Stores
  <2> QED
    BY <1>0, <1>3, <2>2
<1>4. CASE v # 0 /\ stored
  <2> DEFINE N == set(M, i, j, v)
             E == [M.e EXCEPT ![k + 1].x = v]
  <2>1. Stores(M, i, j, k)
    BY <1>2, <1>4
  <2>2. /\ M = [p |-> M.p, e |-> M.e] /\ M.p \in [0..Row -> Nat]
        /\ M.e \in Seq([j : Cols, x : Int])
        /\ \A n \in 1..Len(M.e) : M.e[n] \in [j : Cols, x : Int]
        /\ k \in Nat /\ k + 1 \in 1..Len(M.e)
    BY <1>0, <2>1, Parts, InRow DEF Stores
  <2>3. N = [M EXCEPT !.e = E]
    BY <1>4 DEF set, k
  <2>4. E \in Seq([j : Cols, x : Int])
    <3>1. [M.e[k + 1] EXCEPT !.x = v] \in [j : Cols, x : Int]
      BY <2>2
    <3> QED
      BY <2>2, <3>1, ExceptSeq
  <2>5. /\ Len(E) = Len(M.e)
        /\ E[k + 1] = [M.e[k + 1] EXCEPT !.x = v]
        /\ \A n \in 1..Len(M.e) : n # k + 1 => E[n] = M.e[n]
    <3>1. DOMAIN M.e = 1..Len(M.e)
      BY <2>2, LenProperties
    <3>2. [M.e[k + 1] EXCEPT !.x = v] \in [j : Cols, x : Int]
      BY <2>2
    <3>3. Len(E) = Len(M.e)
      BY <2>2, <3>2, ExceptSeq
    <3> QED
      BY <2>2, <3>1, <3>3
  <2>6. E[k + 1].j = M.e[k + 1].j /\ E[k + 1].x = v
    BY <2>2, <2>5
  <2> HIDE DEF N, E
  <2>7. N.p = M.p /\ N.e = E /\ N \in [p : [0..Row -> Nat], e : Seq([j : Cols, x : Int])]
    BY <2>2, <2>3, <2>4, FieldReplaced
  <2>8. Renumbered(M, N)
    BY <2>5, <2>6, <2>7 DEF Renumbered
  <2>9. /\ CanonicalFormat(N)
        /\ get(N, i, j) = v
        /\ \A r \in Rows, c \in Cols : r # i \/ c # j => get(N, r, c) = get(M, r, c)
    <3>1. N.e[k + 1].x = v /\ \A n \in 1..Len(M.e) : n # k + 1 => N.e[n].x = M.e[n].x
      BY <2>5, <2>6, <2>7
    <3> QED
      BY <2>1, <2>8, <3>1, OverwriteSound
  <2>10. \A r \in Rows, c \in Cols :
           get(N, r, c) = IF r = i /\ c = j THEN v ELSE get(M, r, c)
    BY <2>9
  <2> QED
    BY <2>9, <2>10 DEF N
<1>5. CASE v # 0 /\ ~ stored
  <2>1. set(M, i, j, v) =
          [p |-> Shift(M.p, i, 1), e |-> InsertAt(M.e, k + 1, Entry(j, v))]
    BY <1>5 DEF set, k
  <2>2. k < M.p[i + 1] => M.e[k + 1].j > j
    <3>1. SUFFICES ASSUME k < M.p[i + 1] PROVE M.e[k + 1].j > j
      OBVIOUS
    <3>2. k \in M.p[i]..(M.p[i + 1] - 1)
      BY <1>0, <1>1, <3>1
    <3>3. M.e[k + 1].j \in Int
      BY <1>0, <3>2, InRow
    <3> QED
      BY <1>0, <1>1, <1>5, <3>1, <3>3
  <2> QED
    BY <1>1, <2>1, <2>2, InsertionSound
<1>6. CASE v = 0 /\ stored
  <2>1. set(M, i, j, v) = [p |-> Shift(M.p, i, -1), e |-> RemoveAt(M.e, k + 1)]
    BY <1>6 DEF set, k
  <2> QED
    BY <1>2, <1>6, <2>1, RemovalSound
<1>7. CASE v = 0 /\ ~ stored
  <2>1. set(M, i, j, v) = M
    BY <1>7 DEF set, k
  <2>2. get(M, i, j) = 0
    BY <1>3, <1>7, GetNothing
  <2> QED
    BY <1>7, <2>1, <2>2
<1> QED
  BY <1>4, <1>5, <1>6, <1>7

-----------------------------------------------------------------------------
(* Scaling.  Every entry is in one row, whose factor it is multiplied by.  *)

InRowOf(M, r, k) == M.p[r] < k /\ k <= M.p[r + 1]
RowOf(M, k) == CHOOSE r \in Rows : M.p[r] < k /\ k <= M.p[r + 1]

LEMMA FunctionIsSeq ==
  ASSUME NEW S, NEW n \in Nat, NEW f \in [1..n -> S]
  PROVE  f \in Seq(S)
BY SeqDef

LEMMA EntryInARow ==
  ASSUME NEW M, RowsFollow(M), NEW k \in 1..Len(M.e)
  PROVE  RowOf(M, k) \in Rows /\ InRowOf(M, RowOf(M, k), k)
<1> DEFINE Ends == {b \in 0..Row : k <= M.p[b]}
<1>0. Row \in Nat /\ k \in Nat /\ k >= 1 /\ \A a \in 0..Row : M.p[a] \in Nat
  BY Parts, LenProperties, SizeAssumption
<1>1. Row \in Ends /\ Ends \in SUBSET Nat
  BY <1>0 DEF RowsFollow
<1>2. PICK b \in Ends : \A c \in Ends : b <= c
  BY <1>1, LeastNumber
<1>3. b \in 0..Row /\ b # 0
  BY <1>0 DEF RowsFollow
<1>4. b - 1 \in Rows /\ b - 1 \in 0..Row /\ b - 1 \notin Ends /\ (b - 1) + 1 = b
  BY <1>0, <1>2, <1>3 DEF Rows
<1>5. M.p[b - 1] < k /\ k <= M.p[(b - 1) + 1]
  BY <1>0, <1>4
<1>6. \E r \in Rows : M.p[r] < k /\ k <= M.p[r + 1]
  BY <1>4, <1>5
<1> QED
  BY <1>6 DEF RowOf, InRowOf

LEMMA EntryInOneRow ==
  ASSUME NEW M, RowsFollow(M), NEW k \in Int, NEW r \in Rows, NEW s \in Rows,
         InRowOf(M, r, k), InRowOf(M, s, k)
  PROVE  r = s
<1>1. /\ r \in Nat /\ s \in Nat /\ r \in 0..Row /\ r + 1 \in 0..Row
      /\ s \in 0..Row /\ s + 1 \in 0..Row
      /\ M.p[r] \in Nat /\ M.p[r + 1] \in Nat /\ M.p[s] \in Nat /\ M.p[s + 1] \in Nat
  BY RowBounds
<1>2. M.p[r] < k /\ k <= M.p[r + 1] /\ M.p[s] < k /\ k <= M.p[s + 1]
  BY DEF InRowOf
<1>3. CASE r < s
  <2>1. M.p[r + 1] <= M.p[s]
    BY <1>1, <1>3, RowsInOrder
  <2> QED
    BY <1>1, <1>2, <2>1
<1>4. CASE s < r
  <2>1. M.p[s + 1] <= M.p[r]
    BY <1>1, <1>4, RowsInOrder
  <2> QED
    BY <1>1, <1>2, <2>1
<1> QED
  BY <1>1, <1>3, <1>4

LEMMA ScaledSound ==
  ASSUME NEW M, CanonicalFormat(M), NEW factor \in [Rows \X Cols -> Int]
  PROVE  /\ CanonicalFormat(Scaled(M, factor))
         /\ \A r \in Rows, c \in Cols :
              get(Scaled(M, factor), r, c) = get(M, r, c) * factor[<<r, c>>]
<1> DEFINE N == Scaled(M, factor)
           New(k) == [M.e[k] EXCEPT !.x = @ * factor[<<RowOf(M, k), M.e[k].j>>]]
           E == [k \in DOMAIN M.e |-> New(k)]
<1>0. RowsFollow(M)
  BY DEF CanonicalFormat
<1>1. /\ M = [p |-> M.p, e |-> M.e] /\ M.p \in [0..Row -> Nat]
      /\ M.e \in Seq([j : Cols, x : Int])
      /\ \A k \in 1..Len(M.e) : M.e[k] \in [j : Cols, x : Int]
      /\ Len(M.e) \in Nat /\ DOMAIN M.e = 1..Len(M.e)
  BY <1>0, Parts, LenProperties
<1>2. N = [M EXCEPT !.e = E]
  BY DEF Scaled, RowOf
<1>3. ASSUME NEW k \in 1..Len(M.e)
      PROVE  /\ New(k) \in [j : Cols, x : Int]
             /\ New(k).j = M.e[k].j
             /\ New(k).x = M.e[k].x * factor[<<RowOf(M, k), M.e[k].j>>]
  <2>1. RowOf(M, k) \in Rows /\ M.e[k].j \in Cols /\ M.e[k].x \in Int
    BY <1>0, <1>1, EntryInARow
  <2>2. factor[<<RowOf(M, k), M.e[k].j>>] \in Int
    BY <2>1
  <2>3. M.e[k] = [j |-> M.e[k].j, x |-> M.e[k].x]
    BY <1>1
  <2>4. New(k) = [j |-> M.e[k].j, x |-> M.e[k].x * factor[<<RowOf(M, k), M.e[k].j>>]]
    BY <2>3
  <2> HIDE DEF New
  <2>5. M.e[k].x * factor[<<RowOf(M, k), M.e[k].j>>] \in Int
    BY <2>1, <2>2
  <2> QED
    BY <2>1, <2>4, <2>5
<1> HIDE DEF New
<1>4. E \in Seq([j : Cols, x : Int]) /\ Len(E) = Len(M.e)
  <2>1. E = [k \in 1..Len(M.e) |-> New(k)]
    BY <1>1
  <2>2. E \in [1..Len(M.e) -> [j : Cols, x : Int]]
    BY <1>3, <2>1
  <2> HIDE DEF E
  <2>3. E \in Seq([j : Cols, x : Int])
    BY <1>1, <2>2, FunctionIsSeq
  <2> QED
    BY <1>1, <2>2, <2>3, LenProperties
<1>5. \A k \in 1..Len(M.e) : E[k] = New(k)
  BY <1>1
<1> HIDE DEF N, E
<1>6. N.p = M.p /\ N.e = E /\ N \in [p : [0..Row -> Nat], e : Seq([j : Cols, x : Int])]
  BY <1>1, <1>2, <1>4, FieldReplaced
<1>7. Renumbered(M, N)
  BY <1>3, <1>4, <1>5, <1>6 DEF Renumbered
<1>8. /\ CanonicalFormat(N)
      /\ \A r \in Rows, c \in Cols :
           /\ \A k : Stores(M, r, c, k) => get(N, r, c) = N.e[k + 1].x
           /\ (\A k : ~ Stores(M, r, c, k)) => get(N, r, c) = 0
  BY <1>7, NewNumbers
<1>9. ASSUME NEW r \in Rows, NEW c \in Cols
      PROVE  get(N, r, c) = get(M, r, c) * factor[<<r, c>>]
  <2>1. ASSUME NEW k, Stores(M, r, c, k)
        PROVE  get(N, r, c) = get(M, r, c) * factor[<<r, c>>]
    <3>1. /\ k \in Nat /\ M.p[r] <= k /\ k < M.p[r + 1]
          /\ k + 1 \in 1..Len(M.e) /\ M.e[k + 1].j = c
      BY <1>0, <2>1, InRow DEF Stores
    <3>2. InRowOf(M, r, k + 1)
      BY <1>0, <3>1, RowBounds DEF InRowOf
    <3>3. RowOf(M, k + 1) = r
      <4>1. RowOf(M, k + 1) \in Rows /\ InRowOf(M, RowOf(M, k + 1), k + 1)
        BY <1>0, <3>1, EntryInARow
      <4> QED
        BY <1>0, <3>1, <3>2, <4>1, EntryInOneRow
    <3>4. N.e[k + 1].x = M.e[k + 1].x * factor[<<r, c>>]
      BY <1>3, <1>5, <1>6, <3>1, <3>3
    <3>5. get(N, r, c) = N.e[k + 1].x /\ get(M, r, c) = M.e[k + 1].x
      BY <1>8, <2>1, GetStored
    <3> QED
      BY <3>4, <3>5
  <2>2. CASE \A k : ~ Stores(M, r, c, k)
    <3>1. get(N, r, c) = 0 /\ get(M, r, c) = 0
      BY <1>8, <2>2, GetNothing
    <3>2. factor[<<r, c>>] \in Int
      OBVIOUS
    <3> QED
      BY <3>1, <3>2
  <2> QED
    BY <2>1, <2>2
<1> QED
  BY <1>8, <1>9 DEF N

-----------------------------------------------------------------------------
(* The steps of the program that work in place, and what they do to the    *)
(* elements: each is a step of module Matrix.                              *)

LEMMA ZeroSound == CanonicalFormat(Zero) /\ Elements(Zero) = Abstract!Zero
<1>1. Row \in Nat /\ 0 \in 0..Row /\ Row \in 0..Row
  BY SizeAssumption
<1>2. <<>> \in Seq([j : Cols, x : Int]) /\ Len(<<>>) = 0
  BY EmptySeq
<1>3. \A i \in Rows : i \in 0..Row /\ i + 1 \in 0..Row
  BY <1>1 DEF Rows
<1>4. /\ Zero.p = [i \in 0..Row |-> 0] /\ Zero.e = <<>>
      /\ Zero \in [p : [0..Row -> Nat], e : Seq([j : Cols, x : Int])]
  BY <1>2 DEF Zero
<1>5. RowsFollow(Zero)
  BY <1>1, <1>2, <1>3, <1>4 DEF RowsFollow
<1>6. CanonicalFormat(Zero)
  BY <1>3, <1>4, <1>5 DEF CanonicalFormat
<1>7. ASSUME NEW i \in Rows, NEW j \in Cols
      PROVE  get(Zero, i, j) = 0
  <2>1. ASSUME NEW k PROVE ~ Stores(Zero, i, j, k)
    BY <1>3, <1>4 DEF Stores
  <2> QED
    BY <1>6, <2>1, GetNothing
<1>8. Elements(Zero) = Abstract!Zero
  BY <1>7 DEF Elements, Abstract!Zero, Abstract!Rows, Abstract!Cols, Rows, Cols
<1> QED
  BY <1>6, <1>8

LEMMA SetElements ==
  ASSUME NEW M, CanonicalFormat(M), NEW i \in Rows, NEW j \in Cols, NEW v \in Int
  PROVE  Elements(set(M, i, j, v)) = [Elements(M) EXCEPT ![<<i, j>>] = v]
<1> DEFINE N == set(M, i, j, v)
<1>1. \A r \in Rows, c \in Cols :
        get(N, r, c) = IF r = i /\ c = j THEN v ELSE get(M, r, c)
  BY SetSound
<1> HIDE DEF N
<1>2. \A c \in Rows \X Cols :
        get(N, c[1], c[2]) = IF c = <<i, j>> THEN v ELSE get(M, c[1], c[2])
  BY <1>1
<1> QED
  BY <1>2 DEF Elements, N

\* The rows before the first factor of zero are scaled.
LEMMA ScaleRowsSound ==
  ASSUME NEW M, CanonicalFormat(M), NEW X \in [Rows -> Int]
  PROVE  /\ CanonicalFormat(csr_scale_rows(M, X))
         /\ Elements(csr_scale_rows(M, X)) = Abstract!RowsScaled(Elements(M), X)
<1> DEFINE factor == [c \in Rows \X Cols |->
                        IF \A k \in 0..c[1] : X[k] # 0 THEN X[c[1]] ELSE 1]
           N == csr_scale_rows(M, X)
<1>1. factor \in [Rows \X Cols -> Int]
  OBVIOUS
<1>2. N = Scaled(M, factor)
  BY DEF csr_scale_rows
<1>3. \A r \in Rows, c \in Cols :
        factor[<<r, c>>] = IF \A k \in 0..r : X[k] # 0 THEN X[r] ELSE 1
  OBVIOUS
<1> HIDE DEF factor, N
<1>4. /\ CanonicalFormat(N)
      /\ \A r \in Rows, c \in Cols : get(N, r, c) = get(M, r, c) * factor[<<r, c>>]
  BY <1>1, <1>2, ScaledSound
<1>5. \A c \in Rows \X Cols :
        get(N, c[1], c[2]) =
          Elements(M)[c] * (IF \A k \in 0..c[1] : X[k] # 0 THEN X[c[1]] ELSE 1)
  BY <1>3, <1>4 DEF Elements
<1>6. DOMAIN Elements(M) = Rows \X Cols
  BY DEF Elements
<1>7. Elements(N) = Abstract!RowsScaled(Elements(M), X)
  BY <1>5, <1>6 DEF Elements, Abstract!RowsScaled
<1> QED
  BY <1>4, <1>7 DEF N

\* All columns are scaled, or none.
LEMMA ScaleColumnsSound ==
  ASSUME NEW M, CanonicalFormat(M), NEW X \in [Cols -> Int]
  PROVE  /\ CanonicalFormat(csr_scale_columns(M, X))
         /\ Elements(csr_scale_columns(M, X)) = Abstract!ColumnsScaled(Elements(M), X)
<1>1. CASE \E j \in Cols : X[j] = 0
  BY <1>1 DEF csr_scale_columns, Abstract!ColumnsScaled, Abstract!Cols, Cols
<1>2. CASE ~ \E j \in Cols : X[j] = 0
  <2> DEFINE factor == [c \in Rows \X Cols |-> X[c[2]]]
             N == csr_scale_columns(M, X)
  <2>1. factor \in [Rows \X Cols -> Int] /\ \A r \in Rows, c \in Cols : factor[<<r, c>>] = X[c]
    OBVIOUS
  <2>2. N = Scaled(M, factor)
    BY <1>2 DEF csr_scale_columns
  <2> HIDE DEF factor, N
  <2>3. /\ CanonicalFormat(N)
        /\ \A r \in Rows, c \in Cols : get(N, r, c) = get(M, r, c) * factor[<<r, c>>]
    BY <2>1, <2>2, ScaledSound
  <2>4. \A c \in Rows \X Cols : get(N, c[1], c[2]) = Elements(M)[c] * X[c[2]]
    BY <2>1, <2>3 DEF Elements
  <2>5. DOMAIN Elements(M) = Rows \X Cols
    BY DEF Elements
  <2>6. Elements(N) = Abstract!ColumnsScaled(Elements(M), X)
    BY <1>2, <2>4, <2>5 DEF Elements, Abstract!ColumnsScaled, Abstract!Cols, Cols
  <2> QED
    BY <2>3, <2>6 DEF N
<1> QED
  BY <1>1, <1>2

InPlace ==
  \/ \E i \in Rows, j \in Cols, v \in Values : Set(i, j, v)
  \/ Take
  \/ \E X \in [Rows -> Scales] : ScaleRows(X)
  \/ \E X \in [Cols -> Scales] : ScaleColumns(X)

\* Every step that works in place (CSRMatrix::set, the assignment, and the
\* functions csr_scale_rows and csr_scale_columns of sparse_matrix.cpp) keeps
\* the format of both matrices and is a step of the abstract matrices: what it
\* does to the storage is what it should do to the elements.
THEOREM InPlaceRefines == TypeOK /\ InPlace => TypeOK' /\ Abstract!Next
<1> SUFFICES ASSUME TypeOK, InPlace
             PROVE  TypeOK' /\ Abstract!Next
  OBVIOUS
<1>0. CanonicalFormat(A) /\ CanonicalFormat(B) /\ crashed \in BOOLEAN
  BY DEF TypeOK
<1>1. ASSUME NEW i \in Rows, NEW j \in Cols, NEW v \in Values, Set(i, j, v)
      PROVE  TypeOK' /\ Abstract!Next
  <2>1. v \in Int
    BY ElementAssumption
  <2>2. A' = set(A, i, j, v) /\ B' = B /\ crashed' = crashed
    BY <1>1 DEF Set
  <2>3. CanonicalFormat(set(A, i, j, v))
    BY <1>0, <2>1, SetSound
  <2>4. TypeOK'
    BY <1>0, <2>2, <2>3 DEF TypeOK
  <2>5. Elements(A)' = [Elements(A) EXCEPT ![<<i, j>>] = v] /\ Elements(B)' = Elements(B)
    BY <1>0, <2>1, <2>2, SetElements
  <2>6. <<i, j>> \in Abstract!Rows \X Abstract!Cols
    BY DEF Rows, Cols, Abstract!Rows, Abstract!Cols
  <2>7. Abstract!ChangeMatrix
    BY <2>5, <2>6 DEF Abstract!ChangeMatrix
  <2> QED
    BY <2>4, <2>7 DEF Abstract!Next
<1>2. CASE Take
  <2>1. A' = B /\ B' = Zero /\ crashed' = crashed
    BY <1>2 DEF Take
  <2>2. TypeOK'
    BY <1>0, <2>1, ZeroSound DEF TypeOK
  <2>3. Elements(A)' = Elements(B) /\ Elements(B)' = Abstract!Zero
    BY <2>1, ZeroSound
  <2>4. Abstract!UseOperand
    BY <2>3 DEF Abstract!UseOperand
  <2> QED
    BY <2>2, <2>4 DEF Abstract!Next
<1>3. ASSUME NEW X \in [Rows -> Scales], ScaleRows(X)
      PROVE  TypeOK' /\ Abstract!Next
  <2>1. X \in [Rows -> Int] /\ X \in [Abstract!Rows -> Scales]
    BY ElementAssumption DEF Rows, Abstract!Rows
  <2>2. A' = csr_scale_rows(A, X) /\ B' = B /\ crashed' = crashed
    BY <1>3 DEF ScaleRows
  <2>3. TypeOK'
    BY <1>0, <2>1, <2>2, ScaleRowsSound DEF TypeOK
  <2>4. Elements(A)' = Abstract!RowsScaled(Elements(A), X) /\ Elements(B)' = Elements(B)
    BY <1>0, <2>1, <2>2, ScaleRowsSound
  <2>5. Abstract!ChangeMatrix
    BY <2>1, <2>4 DEF Abstract!ChangeMatrix
  <2> QED
    BY <2>3, <2>5 DEF Abstract!Next
<1>4. ASSUME NEW X \in [Cols -> Scales], ScaleColumns(X)
      PROVE  TypeOK' /\ Abstract!Next
  <2>1. X \in [Cols -> Int] /\ X \in [Abstract!Cols -> Scales]
    BY ElementAssumption DEF Cols, Abstract!Cols
  <2>2. A' = csr_scale_columns(A, X) /\ B' = B /\ crashed' = crashed
    BY <1>4 DEF ScaleColumns
  <2>3. TypeOK'
    BY <1>0, <2>1, <2>2, ScaleColumnsSound DEF TypeOK
  <2>4. Elements(A)' = Abstract!ColumnsScaled(Elements(A), X) /\ Elements(B)' = Elements(B)
    BY <1>0, <2>1, <2>2, ScaleColumnsSound
  <2>5. Abstract!ChangeMatrix
    BY <2>1, <2>4 DEF Abstract!ChangeMatrix
  <2> QED
    BY <2>3, <2>5 DEF Abstract!Next
<1> QED
  BY <1>1, <1>2, <1>3, <1>4 DEF InPlace

-----------------------------------------------------------------------------
(* The readers of the storage.                                             *)

LEMMA SameStarts ==
  ASSUME NEW M, NEW N, RowsFollow(M), RowsFollow(N),
         \A b \in 0..Row : M.p[b] = N.p[b]
  PROVE  M.p = N.p
<1> DEFINE s == M.p
           u == N.p
<1>1. s \in [0..Row -> Nat] /\ u \in [0..Row -> Nat]
  BY Parts
<1>2. \A b \in 0..Row : s[b] = u[b]
  OBVIOUS
<1> HIDE DEF s, u
<1>3. s = [b \in 0..Row |-> s[b]] /\ u = [b \in 0..Row |-> u[b]]
  BY <1>1
<1>4. [b \in 0..Row |-> s[b]] = [b \in 0..Row |-> u[b]]
  BY <1>2
<1>5. s = u
  BY <1>3, <1>4, Zenon
<1> QED
  BY <1>5 DEF s, u

LEMMA Slice ==
  ASSUME NEW S, NEW s \in Seq(S), NEW a \in Nat, NEW b \in Nat, a <= b, b <= Len(s)
  PROVE  LET t == SubSeq(s, a + 1, b)
         IN  /\ Len(t) = b - a
             /\ \A n \in 1..(b - a) : t[n] = s[a + n]
<1> DEFINE t == SubSeq(s, a + 1, b)
<1>1. \A n \in (a + 1)..b : s[n] \in S
  BY ElementOfSeq, LenProperties
<1>2. /\ Len(t) = IF a + 1 <= b THEN b - (a + 1) + 1 ELSE 0
      /\ \A n \in 1..(b - (a + 1) + 1) : t[n] = s[(a + 1) + n - 1]
  BY <1>1, SubSeqProperties
<1> HIDE DEF t
<1>3. Len(t) = b - a
  BY <1>2
<1>4. ASSUME NEW n \in 1..(b - a) PROVE t[n] = s[a + n]
  <2>1. n \in 1..(b - (a + 1) + 1) /\ (a + 1) + n - 1 = a + n
    OBVIOUS
  <2> QED
    BY <1>2, <2>1
<1> QED
  BY <1>3, <1>4 DEF t

\* Equal storage means equal elements.
LEMMA EqualStorage ==
  ASSUME NEW M, NEW N, CanonicalFormat(M), CanonicalFormat(N), eq(M, N)
  PROVE  Elements(M) = Elements(N)
<1>0. RowsFollow(M) /\ RowsFollow(N)
  BY DEF CanonicalFormat
<1>1. M.p = N.p /\ \A k \in 1..Len(M.e) : M.e[k] = N.e[k]
  BY <1>0 DEF eq, RowsFollow
<1>2. ASSUME NEW r \in Rows, NEW c \in Cols
      PROVE  get(M, r, c) = get(N, r, c)
  <2>1. ASSUME NEW k, Stores(M, r, c, k)
        PROVE  Stores(N, r, c, k) /\ N.e[k + 1].x = M.e[k + 1].x
    BY <1>0, <1>1, <2>1, InRow DEF Stores
  <2>2. ASSUME NEW k, Stores(N, r, c, k)
        PROVE  Stores(M, r, c, k)
    <3>1. k \in M.p[r]..(M.p[r + 1] - 1) /\ N.e[k + 1].j = c
      BY <1>1, <2>2 DEF Stores
    <3> QED
      BY <1>0, <1>1, <3>1, InRow DEF Stores
  <2> QED
    BY <2>1, <2>2, SameElement
<1> QED
  BY <1>2 DEF Elements

\* Row r of N has a place for what row r of M has, up to the place k.
LEMMA NextPlace ==
  ASSUME NEW M, NEW N, CanonicalFormat(M), CanonicalFormat(N), NEW r \in Rows,
         M.p[r] = N.p[r],
         \A c \in Cols : (\E n : Stores(M, r, c, n)) => \E n : Stores(N, r, c, n),
         NEW k \in M.p[r]..(M.p[r + 1] - 1),
         \A l \in M.p[r]..(k - 1) : l < N.p[r + 1] /\ M.e[l + 1] = N.e[l + 1]
  PROVE  k < N.p[r + 1] /\ N.e[k + 1].j <= M.e[k + 1].j
<1>0. RowsFollow(M) /\ RowsFollow(N)
  BY DEF CanonicalFormat
<1>1. /\ M.p[r] \in Nat /\ M.p[r + 1] \in Nat /\ N.p[r + 1] \in Nat
      /\ k \in Nat /\ M.p[r] <= k /\ k < M.p[r + 1]
      /\ M.e[k + 1].j \in Cols /\ M.e[k + 1].j \in Int
  BY <1>0, RowBounds, InRow
<1>2. Stores(M, r, M.e[k + 1].j, k)
  BY DEF Stores
<1>3. PICK l : Stores(N, r, M.e[k + 1].j, l)
  BY <1>1, <1>2
<1>4. /\ l \in Nat /\ M.p[r] <= l /\ l < N.p[r + 1] /\ N.e[l + 1].j = M.e[k + 1].j
      /\ l \in N.p[r]..(N.p[r + 1] - 1)
  BY <1>0, <1>3, InRow DEF Stores
<1>5. ~ (l < k)
  <2>1. SUFFICES ASSUME l < k PROVE FALSE
    OBVIOUS
  <2>2. l \in M.p[r]..(k - 1) /\ l \in M.p[r]..(M.p[r + 1] - 1)
    BY <1>1, <1>4, <2>1
  <2>3. M.e[l + 1].j < M.e[k + 1].j
    BY <2>1, <2>2, ColumnsAscend
  <2>4. M.e[l + 1].j = M.e[k + 1].j
    BY <1>4, <2>2
  <2> QED
    BY <1>1, <2>3, <2>4
<1>6. k < N.p[r + 1] /\ k \in N.p[r]..(N.p[r + 1] - 1)
  BY <1>1, <1>4, <1>5
<1>7. CASE l = k
  BY <1>1, <1>4, <1>6, <1>7
<1>8. CASE k < l
  <2>1. N.e[k + 1].j < N.e[l + 1].j /\ N.e[k + 1].j \in Int
    BY <1>0, <1>4, <1>6, <1>8, ColumnsAscend, InRow
  <2> QED
    BY <1>1, <1>4, <1>6, <2>1
<1> QED
  BY <1>1, <1>4, <1>5, <1>7, <1>8

\* Rows that start at the same place and have the same elements are stored alike.
LEMMA SameRow ==
  ASSUME NEW M, NEW N, CanonicalFormat(M), CanonicalFormat(N), NEW r \in Rows,
         M.p[r] = N.p[r],
         \A c \in Cols : (\E n : Stores(M, r, c, n)) <=> \E n : Stores(N, r, c, n),
         \A c \in Cols : get(M, r, c) = get(N, r, c)
  PROVE  /\ M.p[r + 1] = N.p[r + 1]
         /\ \A k \in M.p[r]..(M.p[r + 1] - 1) : M.e[k + 1] = N.e[k + 1]
<1> DEFINE Alike(k) == k < M.p[r + 1] /\ k < N.p[r + 1] /\ M.e[k + 1] = N.e[k + 1]
           Past(k) == k >= M.p[r + 1] /\ k >= N.p[r + 1]
           Fails == {k \in Nat : M.p[r] <= k /\ ~ Alike(k) /\ ~ Past(k)}
<1>0. RowsFollow(M) /\ RowsFollow(N)
  BY DEF CanonicalFormat
<1>1. /\ M.p[r] \in Nat /\ M.p[r + 1] \in Nat /\ N.p[r + 1] \in Nat
      /\ M.p[r] <= M.p[r + 1] /\ M.p[r] <= N.p[r + 1]
  BY <1>0, RowBounds
<1>2. Fails = {}
  <2>1. SUFFICES ASSUME Fails # {} PROVE FALSE
    OBVIOUS
  <2>2. PICK k \in Fails : \A l \in Fails : k <= l
    BY <2>1, LeastNumber
  <2>3. k \in Nat /\ M.p[r] <= k /\ ~ Alike(k) /\ ~ Past(k)
    BY <2>2
  <2>4. ASSUME NEW l \in M.p[r]..(k - 1)
        PROVE  l < M.p[r + 1] /\ l < N.p[r + 1] /\ M.e[l + 1] = N.e[l + 1]
    <3>1. l \in Nat /\ M.p[r] <= l /\ l < k /\ l \notin Fails
      BY <1>1, <2>2, <2>3
    <3>2. Alike(l) \/ Past(l)
      BY <3>1
    <3>3. ~ Past(l)
      BY <1>1, <2>3, <3>1
    <3> QED
      BY <3>2, <3>3
  <2>5. k < M.p[r + 1] => k < N.p[r + 1] /\ N.e[k + 1].j <= M.e[k + 1].j
    <3>1. SUFFICES ASSUME k < M.p[r + 1]
                   PROVE  k < N.p[r + 1] /\ N.e[k + 1].j <= M.e[k + 1].j
      OBVIOUS
    <3>2. k \in M.p[r]..(M.p[r + 1] - 1)
      BY <1>1, <2>3, <3>1
    <3> QED
      BY <2>4, <3>2, NextPlace
  <2>6. k < N.p[r + 1] => k < M.p[r + 1] /\ M.e[k + 1].j <= N.e[k + 1].j
    <3>1. SUFFICES ASSUME k < N.p[r + 1]
                   PROVE  k < M.p[r + 1] /\ M.e[k + 1].j <= N.e[k + 1].j
      OBVIOUS
    <3>2. k \in N.p[r]..(N.p[r + 1] - 1)
      BY <1>1, <2>3, <3>1
    <3>3. \A l \in N.p[r]..(k - 1) : l < M.p[r + 1] /\ N.e[l + 1] = M.e[l + 1]
      BY <2>4
    <3> QED
      BY <3>2, <3>3, NextPlace
  <2>7. k < M.p[r + 1] /\ k < N.p[r + 1]
    BY <1>1, <2>3, <2>5, <2>6
  <2>8. /\ k \in M.p[r]..(M.p[r + 1] - 1) /\ k \in N.p[r]..(N.p[r + 1] - 1)
        /\ k + 1 \in 1..Len(M.e) /\ k + 1 \in 1..Len(N.e)
        /\ M.e[k + 1].j \in Int /\ N.e[k + 1].j \in Int /\ M.e[k + 1].j \in Cols
    BY <1>0, <1>1, <2>3, <2>7, InRow
  <2>9. M.e[k + 1].j = N.e[k + 1].j
    BY <2>5, <2>6, <2>7, <2>8
  <2>10. M.e[k + 1].x = N.e[k + 1].x
    <3>1. Stores(M, r, M.e[k + 1].j, k) /\ Stores(N, r, M.e[k + 1].j, k)
      BY <2>8, <2>9 DEF Stores
    <3>2. /\ get(M, r, M.e[k + 1].j) = M.e[k + 1].x
          /\ get(N, r, M.e[k + 1].j) = N.e[k + 1].x
      BY <2>8, <3>1, GetStored
    <3> QED
      BY <2>8, <3>2
  <2>11. M.e[k + 1] = N.e[k + 1]
    <3>1. M.e[k + 1] \in [j : Cols, x : Int] /\ N.e[k + 1] \in [j : Cols, x : Int]
      BY <1>0, <2>8, Parts
    <3> QED
      BY <2>9, <2>10, <3>1
  <2> QED
    BY <2>3, <2>7, <2>11
<1>3. M.p[r + 1] = N.p[r + 1]
  <2>1. ASSUME M.p[r + 1] < N.p[r + 1] PROVE FALSE
    <3>1. M.p[r + 1] \in Fails
      BY <1>1, <2>1
    <3> QED
      BY <1>2, <3>1
  <2>2. ASSUME N.p[r + 1] < M.p[r + 1] PROVE FALSE
    <3>1. N.p[r + 1] \in Fails
      BY <1>1, <2>2
    <3> QED
      BY <1>2, <3>1
  <2> QED
    BY <1>1, <2>1, <2>2
<1>4. ASSUME NEW k \in M.p[r]..(M.p[r + 1] - 1)
      PROVE  M.e[k + 1] = N.e[k + 1]
  <2>1. k \in Nat /\ M.p[r] <= k /\ ~ Past(k) /\ k \notin Fails
    BY <1>1, <1>2
  <2> QED
    BY <2>1
<1> QED
  BY <1>3, <1>4

\* Equal elements mean equal storage, if no zero is stored.
LEMMA EqualElements ==
  ASSUME NEW M, NEW N, CanonicalFormat(M), CanonicalFormat(N),
         StoredZeros(M) = {}, StoredZeros(N) = {}, Elements(M) = Elements(N)
  PROVE  eq(M, N)
<1>0. RowsFollow(M) /\ RowsFollow(N) /\ Row \in Nat
  BY SizeAssumption DEF CanonicalFormat
<1>1. ASSUME NEW r \in Rows, NEW c \in Cols
      PROVE  get(M, r, c) = get(N, r, c)
  <2>1. Elements(M)[<<r, c>>] = get(M, r, c) /\ Elements(N)[<<r, c>>] = get(N, r, c)
    BY DEF Elements
  <2> QED
    BY <2>1
<1>2. ASSUME NEW L, CanonicalFormat(L), StoredZeros(L) = {},
             NEW r \in Rows, NEW c \in Cols
      PROVE  (\E n : Stores(L, r, c, n)) <=> get(L, r, c) # 0
  <2>1. ASSUME NEW n, Stores(L, r, c, n)
        PROVE  get(L, r, c) # 0
    <3>1. n + 1 \in 1..Len(L.e) /\ L.e \in Seq([j : Cols, x : Int])
      BY <1>2, <2>1, InRow, Parts DEF Stores, CanonicalFormat
    <3>2. n + 1 \in DOMAIN L.e
      BY <3>1, LenProperties
    <3>3. L.e[n + 1].x # 0
      BY <1>2, <3>2 DEF StoredZeros
    <3> QED
      BY <1>2, <2>1, <3>3, GetStored
  <2> QED
    BY <1>2, <2>1, GetNothing
<1>3. ASSUME NEW r \in Rows, M.p[r] = N.p[r]
      PROVE  /\ M.p[r + 1] = N.p[r + 1]
             /\ \A k \in M.p[r]..(M.p[r + 1] - 1) : M.e[k + 1] = N.e[k + 1]
  <2>1. ASSUME NEW c \in Cols
        PROVE  (\E n : Stores(M, r, c, n)) <=> \E n : Stores(N, r, c, n)
    BY <1>1, <1>2
  <2> QED
    BY <1>1, <1>3, <2>1, SameRow
<1>4. ASSUME NEW b \in 0..Row
      PROVE  M.p[b] = N.p[b]
  <2> DEFINE Fails == {a \in 0..Row : M.p[a] # N.p[a]}
  <2>1. SUFFICES ASSUME Fails # {} PROVE FALSE
    OBVIOUS
  <2>2. PICK a \in Fails : \A d \in Fails : a <= d
    <3>1. Fails \in SUBSET Nat
      BY <1>0
    <3> HIDE DEF Fails
    <3> QED
      BY <2>1, <3>1, LeastNumber
  <2>3. a \in 0..Row /\ a # 0
    BY <1>0, <2>2 DEF RowsFollow
  <2>4. a - 1 \in Rows /\ a - 1 \in 0..Row /\ a - 1 \notin Fails /\ (a - 1) + 1 = a
    BY <1>0, <2>2, <2>3 DEF Rows
  <2>5. M.p[a - 1] = N.p[a - 1]
    BY <2>4
  <2>6. M.p[(a - 1) + 1] = N.p[(a - 1) + 1]
    BY <1>3, <2>4, <2>5
  <2> QED
    BY <2>2, <2>4, <2>6
<1>5. M.p = N.p
  BY <1>0, <1>4, SameStarts
<1>6. ASSUME NEW k \in 1..Len(M.e)
      PROVE  M.e[k] = N.e[k]
  <2>1. PICK r \in Rows : InRowOf(M, r, k)
    BY <1>0, EntryInARow
  <2>2. k - 1 \in M.p[r]..(M.p[r + 1] - 1) /\ (k - 1) + 1 = k /\ r \in 0..Row
    BY <1>0, <2>1, RowBounds DEF InRowOf
  <2> QED
    BY <1>3, <1>4, <2>2
<1> QED
  BY <1>0, <1>5, <1>6 DEF eq, RowsFollow

\* The diagonal that is read off the rows is that of the matrix.
LEMMA DiagonalExact ==
  ASSUME NEW M, CanonicalFormat(M)
  PROVE  csr_diagonal(M) = [i \in 0..Min({Row, Col}) - 1 |-> Elements(M)[<<i, i>>]]
<1>0. RowsFollow(M)
  BY DEF CanonicalFormat
<1>1. Min({Row, Col}) \in Nat /\ Min({Row, Col}) <= Row /\ Min({Row, Col}) <= Col
  <2>1. {Row, Col} \in SUBSET Nat /\ {Row, Col} # {}
    BY SizeAssumption
  <2>2. Min({Row, Col}) \in {Row, Col} /\ \A y \in {Row, Col} : Min({Row, Col}) <= y
    BY <2>1, MinIsLeast
  <2> QED
    BY <2>1, <2>2
<1>2. ASSUME NEW i \in 0..Min({Row, Col}) - 1
      PROVE  csr_diagonal(M)[i] = Elements(M)[<<i, i>>]
  <2> DEFINE row == RowEntries(M, i)
             hits == {k \in 1..Len(row) : row[k].j = i}
             m == Min(hits)
  <2>1. i \in Rows /\ i \in Cols
    BY <1>1, SizeAssumption DEF Rows, Cols
  <2>2. /\ M.p[i] \in Nat /\ M.p[i + 1] \in Nat /\ M.p[i] <= M.p[i + 1]
        /\ M.p[i + 1] <= Len(M.e) /\ Len(M.e) \in Nat
        /\ M.e \in Seq([j : Cols, x : Int])
    BY <1>0, <2>1, RowBounds, Parts
  <2>3. /\ Len(row) = M.p[i + 1] - M.p[i]
        /\ \A n \in 1..(M.p[i + 1] - M.p[i]) : row[n] = M.e[M.p[i] + n]
    BY <2>2, Slice DEF RowEntries
  <2>4. csr_diagonal(M)[i] = IF hits = {} THEN 0 ELSE row[m].x
    BY DEF csr_diagonal
  <2>5. Elements(M)[<<i, i>>] = get(M, i, i)
    BY <2>1 DEF Elements
  <2> HIDE DEF row
  <2>6. CASE hits = {}
    <3>1. ASSUME NEW k, Stores(M, i, i, k) PROVE FALSE
      <4>1. /\ k \in Nat /\ M.p[i] \in Nat /\ M.p[i + 1] \in Nat
            /\ M.p[i] <= k /\ k < M.p[i + 1] /\ M.e[k + 1].j = i
        BY <2>2, <3>1 DEF Stores
      <4>2. /\ k + 1 - M.p[i] \in 1..(M.p[i + 1] - M.p[i])
            /\ M.p[i] + (k + 1 - M.p[i]) = k + 1
        BY <4>1
      <4>3. k + 1 - M.p[i] \in hits
        BY <2>3, <4>1, <4>2
      <4> QED
        BY <2>6, <4>3
    <3> QED
      BY <2>1, <2>4, <2>5, <2>6, <3>1, GetNothing
  <2>7. CASE hits # {}
    <3>1. m \in hits
      <4>1. hits \in SUBSET Nat
        BY <2>2, <2>3
      <4> HIDE DEF hits
      <4> QED
        BY <2>7, <4>1, MinIsLeast
    <3>2. m \in 1..(M.p[i + 1] - M.p[i]) /\ row[m].j = i /\ row[m] = M.e[M.p[i] + m]
      BY <2>3, <3>1
    <3> HIDE DEF hits, m
    <3>3. M.p[i] \in Int /\ M.p[i + 1] \in Int /\ m \in Int /\ 1 <= m /\ m <= M.p[i + 1] - M.p[i]
      BY <2>2, <3>2
    <3>4. Stores(M, i, i, M.p[i] + m - 1) /\ (M.p[i] + m - 1) + 1 = M.p[i] + m
      <4>1. /\ M.p[i] + m - 1 \in M.p[i]..(M.p[i + 1] - 1)
            /\ (M.p[i] + m - 1) + 1 = M.p[i] + m
        BY <3>3
      <4> QED
        BY <3>2, <4>1 DEF Stores
    <3>5. get(M, i, i) = M.e[M.p[i] + m].x
      BY <2>1, <3>4, GetStored
    <3> QED
      BY <2>4, <2>5, <2>7, <3>2, <3>5
  <2> QED
    BY <2>6, <2>7
<1> QED
  BY <1>2 DEF csr_diagonal

\* The functions that read the storage (CSRMatrix::eq and csr_diagonal of
\* sparse_matrix.cpp) give what the elements say, for canonical matrices of
\* every size: equality of the storage decides equality of the matrices where
\* no zero is stored, and never claims it wrongly where one is.
THEOREM ReadersExact == TypeOK => ReadersSound
<1> SUFFICES ASSUME TypeOK PROVE ReadersSound
  OBVIOUS
<1>1. CanonicalFormat(A) /\ CanonicalFormat(B)
  BY DEF TypeOK
<1>2. eq(A, B) => Elements(A) = Elements(B)
  BY <1>1, EqualStorage
<1>3. StoredZeros(A) = {} /\ StoredZeros(B) = {} /\ Elements(A) = Elements(B) => eq(A, B)
  BY <1>1, EqualElements
<1>4. csr_diagonal(A) = [i \in 0..Min({Row, Col}) - 1 |-> Elements(A)[<<i, i>>]]
  BY <1>1, DiagonalExact
<1> QED
  BY <1>2, <1>3, <1>4 DEF ReadersSound
=============================================================================
