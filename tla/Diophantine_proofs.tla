------------------------ MODULE Diophantine_proofs ------------------------
(***************************************************************************)
(* Proofs about the search of module Diophantine, for every system of      *)
(* equations: the stack stays within the table of frozen components, and   *)
(* the basis is that of the minimal solutions.                             *)
(***************************************************************************)
EXTENDS Diophantine, BasicLemmas, FiniteSetTheorems

-----------------------------------------------------------------------------
(* Sums.                                                                   *)

\* The first n + 1 sums of a loop over f.
IsSum(f, g, n) == g = [k \in 0..n |-> IF k = 0 THEN 0 ELSE g[k - 1] + f[k - 1]]

\* There are such sums ...
LEMMA SumExists ==
  ASSUME NEW f, NEW n \in Nat
  PROVE  \E g : IsSum(f, g, n)
<1> DEFINE None == {m \in Nat : ~ \E g : IsSum(f, g, m)}
<1>1. SUFFICES ASSUME None # {} PROVE FALSE
  OBVIOUS
<1>2. PICK m \in None : \A l \in None : m <= l
  BY <1>1, LeastNumber
<1>3. m # 0
  <2>1. IsSum(f, [k \in 0..0 |-> 0], 0)
    BY DEF IsSum
  <2> QED
    BY <2>1, <1>2
<1>4. PICK g : IsSum(f, g, m - 1)
  BY <1>2, <1>3
<1> DEFINE h == [k \in 0..m |-> IF k = m THEN g[m - 1] + f[m - 1] ELSE g[k]]
<1>5. IsSum(f, h, m)
  <2>1. ASSUME NEW k \in 0..m
        PROVE  h[k] = IF k = 0 THEN 0 ELSE h[k - 1] + f[k - 1]
    <3>1. CASE k = m
      BY <1>3, <3>1
    <3>2. CASE k # m
      <4>1. k \in 0..(m - 1)
        BY <3>2
      <4>2. g[k] = IF k = 0 THEN 0 ELSE g[k - 1] + f[k - 1]
        BY <1>4, <4>1 DEF IsSum
      <4> QED
        BY <3>2, <4>1, <4>2
    <3> QED
      BY <3>1, <3>2
  <2> QED
    BY <2>1 DEF IsSum
<1> QED
  BY <1>2, <1>5

\* ... and a longer loop begins with the sums of a shorter one ...
LEMMA SumUnique ==
  ASSUME NEW f, NEW n \in Nat, NEW m \in Nat, n <= m,
         NEW g, IsSum(f, g, n), NEW h, IsSum(f, h, m), NEW k \in 0..n
  PROVE  g[k] = h[k]
<1> DEFINE Differ == {l \in Nat : l <= n /\ g[l] # h[l]}
<1>1. SUFFICES ASSUME Differ # {} PROVE FALSE
  OBVIOUS
<1>2. PICK l \in Differ : \A j \in Differ : l <= j
  BY <1>1, LeastNumber
<1>3. l \in 0..n /\ l \in 0..m
  BY <1>2
<1>4. /\ g[l] = IF l = 0 THEN 0 ELSE g[l - 1] + f[l - 1]
      /\ h[l] = IF l = 0 THEN 0 ELSE h[l - 1] + f[l - 1]
  BY <1>3 DEF IsSum
<1>5. l # 0 => g[l - 1] = h[l - 1]
  BY <1>2
<1> QED
  BY <1>2, <1>4, <1>5

\* ... so that SumTo does what its recursive definition says.
LEMMA SumSteps ==
  ASSUME NEW f
  PROVE  /\ SumTo(f, 0) = 0
         /\ \A n \in Nat : SumTo(f, n + 1) = SumTo(f, n) + f[n]
<1> DEFINE upTo == [n \in Nat |-> CHOOSE g : IsSum(f, g, n)]
           s == [n \in Nat |-> upTo[n][n]]
           e(g) == [k \in Nat |-> IF k = 0 THEN 0 ELSE g[k - 1] + f[k - 1]]
           sum == CHOOSE g : g = e(g)
<1>1. \A n \in Nat : IsSum(f, upTo[n], n)
  BY SumExists
<1> HIDE DEF upTo
<1>2. ASSUME NEW n \in Nat
      PROVE  s[n] = IF n = 0 THEN 0 ELSE s[n - 1] + f[n - 1]
  <2>1. upTo[n][n] = IF n = 0 THEN 0 ELSE upTo[n][n - 1] + f[n - 1]
    <3> DEFINE g == upTo[n]
    <3>1. g = [k \in 0..n |-> IF k = 0 THEN 0 ELSE g[k - 1] + f[k - 1]]
      BY <1>1 DEF IsSum
    <3> HIDE DEF g
    <3>2. g[n] = IF n = 0 THEN 0 ELSE g[n - 1] + f[n - 1]
      BY <3>1
    <3> QED
      BY <3>2 DEF g
  <2>2. ASSUME n # 0
        PROVE  upTo[n - 1][n - 1] = upTo[n][n - 1]
    <3> DEFINE m == n - 1
               g == upTo[m]
               h == upTo[n]
    <3>1. m \in Nat /\ m <= n /\ m \in 0..m
      BY <2>2
    <3>2. IsSum(f, g, m) /\ IsSum(f, h, n)
      BY <1>1, <3>1
    <3> HIDE DEF m, g, h
    <3>3. g[m] = h[m]
      BY <3>1, <3>2, SumUnique
    <3> QED
      BY <3>3 DEF m, g, h
  <2> QED
    BY <2>1, <2>2
<1>3. s = e(s)
  BY <1>2
<1> HIDE DEF s
<1>4. sum = e(sum)
  BY <1>3
<1>5. \A n \in Nat : SumTo(f, n) = sum[n]
  BY DEF SumTo
<1> HIDE DEF sum
<1>6. sum[0] = 0 /\ \A n \in Nat : sum[n + 1] = sum[n] + f[n]
  BY <1>4
<1> QED
  BY <1>5, <1>6

\* A sum of integers is an integer.
LEMMA SumType ==
  ASSUME NEW n \in Nat, NEW f, \A k \in 0..(n - 1) : f[k] \in Int
  PROVE  \A m \in 0..n : SumTo(f, m) \in Int
<1> DEFINE Fails == {m \in Nat : m <= n /\ SumTo(f, m) \notin Int}
<1>1. SUFFICES ASSUME Fails # {} PROVE FALSE
  OBVIOUS
<1>2. PICK m \in Fails : \A l \in Fails : m <= l
  BY <1>1, LeastNumber
<1>3. m # 0
  BY <1>2, SumSteps
<1> DEFINE l == m - 1
<1>4. l \in Nat /\ m = l + 1 /\ SumTo(f, l) \in Int /\ f[l] \in Int
  BY <1>2, <1>3
<1> HIDE DEF l
<1>5. SumTo(f, l + 1) = SumTo(f, l) + f[l]
  BY <1>4, SumSteps
<1> QED
  BY <1>2, <1>4, <1>5

\* Distributivity, by itself: the provers find it in no larger formula.
LEMMA Distribute ==
  ASSUME NEW k \in Int, NEW a \in Int, NEW b \in Int
  PROVE  k * (a + b) = k * a + k * b /\ k * a \in Int /\ k * b \in Int
OBVIOUS

\* h is f and k times g, in the first n places.
Combines(h, f, k, g, n) ==
  \A j \in 0..(n - 1) : f[j] \in Int /\ g[j] \in Int /\ h[j] = f[j] + k * g[j]

\* Sums are linear.
LEMMA SumLinear ==
  ASSUME NEW n \in Nat, NEW k \in Int, NEW f, NEW g, NEW h, Combines(h, f, k, g, n)
  PROVE  SumTo(h, n) = SumTo(f, n) + k * SumTo(g, n)
<1> DEFINE Fails == {m \in Nat : m <= n /\ SumTo(h, m) # SumTo(f, m) + k * SumTo(g, m)}
<1>1. SUFFICES ASSUME Fails # {} PROVE FALSE
  OBVIOUS
<1>2. PICK m \in Fails : \A l \in Fails : m <= l
  BY <1>1, LeastNumber
<1>3. m # 0
  <2>1. SumTo(f, 0) = 0 /\ SumTo(g, 0) = 0 /\ SumTo(h, 0) = 0
    BY SumSteps
  <2> QED
    BY <1>2, <2>1
<1> DEFINE l == m - 1
<1>4. l \in Nat /\ m = l + 1 /\ l \in 0..(n - 1) /\ l \in 0..n
  BY <1>2, <1>3
<1>5. SumTo(h, l) = SumTo(f, l) + k * SumTo(g, l)
  BY <1>2, <1>4
<1>6. f[l] \in Int /\ g[l] \in Int /\ h[l] = f[l] + k * g[l]
  BY <1>4 DEF Combines
<1>7. SumTo(f, l) \in Int /\ SumTo(g, l) \in Int
  <2>1. \A j \in 0..(n - 1) : f[j] \in Int /\ g[j] \in Int
    BY DEF Combines
  <2> QED
    BY <1>4, <2>1, SumType
<1> HIDE DEF l
<1>8. /\ SumTo(f, l + 1) = SumTo(f, l) + f[l]
      /\ SumTo(g, l + 1) = SumTo(g, l) + g[l]
      /\ SumTo(h, l + 1) = SumTo(h, l) + h[l]
  BY <1>4, SumSteps
<1>9. k * (SumTo(g, l) + g[l]) = k * SumTo(g, l) + k * g[l]
      /\ k * SumTo(g, l) \in Int /\ k * g[l] \in Int
  BY <1>6, <1>7, Distribute
<1>10. SumTo(h, l + 1) = SumTo(f, l + 1) + k * SumTo(g, l + 1)
  BY <1>5, <1>6, <1>7, <1>8, <1>9
<1> QED
  BY <1>2, <1>4, <1>10

\* A sum of natural numbers is one, and at least each of them.
LEMMA SumPositive ==
  ASSUME NEW n \in Nat, NEW f, \A j \in 0..(n - 1) : f[j] \in Nat
  PROVE  /\ \A m \in 0..n : SumTo(f, m) \in Nat
         /\ \A j \in 0..(n - 1) : SumTo(f, n) >= f[j]
<1>0. \A j \in 0..(n - 1) : f[j] \in Int
  OBVIOUS
<1>1. \A m \in 0..n : SumTo(f, m) \in Int
  BY <1>0, SumType
<1>2. ASSUME NEW m \in 0..(n - 1)
      PROVE  SumTo(f, m + 1) = SumTo(f, m) + f[m] /\ m + 1 \in 0..n /\ m \in 0..n
  BY SumSteps
<1>3. ASSUME NEW a \in 0..n
      PROVE  /\ SumTo(f, a) >= 0
             /\ \A j \in 0..(a - 1) : SumTo(f, a) >= f[j]
  <2> DEFINE Fails ==
        {m \in Nat : m <= n /\ ~ (SumTo(f, m) >= 0 /\ \A j \in 0..(m - 1) : SumTo(f, m) >= f[j])}
  <2>1. SUFFICES ASSUME Fails # {} PROVE FALSE
    OBVIOUS
  <2>2. PICK m \in Fails : \A l \in Fails : m <= l
    BY <2>1, LeastNumber
  <2>3. m # 0
    <3>1. SumTo(f, 0) = 0
      BY SumSteps
    <3> QED
      BY <2>2, <3>1
  <2> DEFINE l == m - 1
  <2>4. l \in Nat /\ m = l + 1 /\ l \in 0..(n - 1) /\ l \in 0..n
    BY <2>2, <2>3
  <2>5. SumTo(f, l) >= 0 /\ \A j \in 0..(l - 1) : SumTo(f, l) >= f[j]
    BY <2>2, <2>4
  <2>6. f[l] \in Nat /\ SumTo(f, l) \in Int
    BY <1>1, <2>4
  <2> HIDE DEF l
  <2>7. SumTo(f, l + 1) = SumTo(f, l) + f[l]
    BY <1>2, <2>4
  <2>8. \A j \in 0..l : j = l \/ j \in 0..(l - 1)
    BY <2>4
  <2>9. \A j \in 0..(l - 1) : f[j] \in Nat
    BY <2>4
  <2>10. SumTo(f, l + 1) >= 0 /\ \A j \in 0..l : SumTo(f, l + 1) >= f[j]
    BY <2>5, <2>6, <2>7, <2>8, <2>9
  <2>11. (l + 1) - 1 = l
    BY <2>4
  <2> QED
    BY <2>2, <2>4, <2>10, <2>11
<1>4. n \in 0..n
  OBVIOUS
<1> QED
  BY <1>1, <1>3, <1>4

\* A sum of zeros is zero.
LEMMA SumZero ==
  ASSUME NEW n \in Nat, NEW f, \A j \in 0..(n - 1) : f[j] = 0
  PROVE  SumTo(f, n) = 0
<1>1. Combines(f, f, 1, f, n) /\ \A j \in 0..(n - 1) : f[j] \in Int
  BY DEF Combines
<1>2. SumTo(f, n) = SumTo(f, n) + 1 * SumTo(f, n)
  BY <1>1, SumLinear
<1>3. SumTo(f, n) \in Int
  BY <1>1, SumType
<1> QED
  BY <1>2, <1>3, SMTT(30)

-----------------------------------------------------------------------------
(* Products.                                                               *)

\* The types of the system and of the indexes.
LEMMA Coefficients ==
  ASSUME A \in Systems
  PROVE  /\ \A r \in Rows, c \in Cols : A[r][c] \in Int
         /\ Rows = 0..(p - 1) /\ Cols = 0..(q - 1) /\ p \in Nat /\ q \in Nat
BY SystemsAssumption, DimensionAssumption DEF Rows, Cols

\* The product of the system with a vector has integers as components.
LEMMA ProductType ==
  ASSUME A \in Systems, NEW v \in [Cols -> Int]
  PROVE  /\ \A r \in Rows : Product(v)[r] = SumTo([k \in Cols |-> A[r][k] * v[k]], q)
         /\ \A r \in Rows : Product(v)[r] \in Int
<1>1. ASSUME NEW r \in Rows
      PROVE  SumTo([k \in Cols |-> A[r][k] * v[k]], q) \in Int
  <2> DEFINE f == [k \in Cols |-> A[r][k] * v[k]]
  <2>1. q \in Nat /\ Cols = 0..(q - 1) /\ q \in 0..q
    BY Coefficients
  <2>2. \A k \in Cols : A[r][k] \in Int /\ v[k] \in Int
    BY Coefficients
  <2>3. \A k \in Cols : f[k] \in Int
    BY <2>2
  <2> HIDE DEF f
  <2>4. SumTo(f, q) \in Int
    BY <2>1, <2>3, SumType
  <2> QED
    BY <2>4 DEF f
<1> QED
  BY <1>1 DEF Product

\* Taking u from v, the products are taken from one another.
LEMMA ProductOfDifference ==
  ASSUME A \in Systems, NEW u \in [Cols -> Int], NEW v \in [Cols -> Int],
         NEW d \in [Cols -> Int], \A c \in Cols : v[c] = u[c] + d[c],
         NEW r \in Rows
  PROVE  Product(v)[r] = Product(u)[r] + Product(d)[r]
<1> DEFINE f == [k \in Cols |-> A[r][k] * u[k]]
           g == [k \in Cols |-> A[r][k] * d[k]]
           h == [k \in Cols |-> A[r][k] * v[k]]
<1>1. q \in Nat /\ Cols = 0..(q - 1) /\ q \in 0..q /\ 1 \in Int
  BY Coefficients
<1>2. ASSUME NEW k \in Cols
      PROVE  f[k] \in Int /\ g[k] \in Int /\ h[k] = f[k] + 1 * g[k]
  <2>1. A[r][k] \in Int /\ u[k] \in Int /\ d[k] \in Int /\ v[k] = u[k] + d[k]
    BY Coefficients
  <2>2. A[r][k] * (u[k] + d[k]) = A[r][k] * u[k] + A[r][k] * d[k]
        /\ A[r][k] * u[k] \in Int /\ A[r][k] * d[k] \in Int
    BY <2>1, Distribute
  <2> QED
    BY <2>1, <2>2
<1>3. Product(u)[r] = SumTo(f, q) /\ Product(d)[r] = SumTo(g, q) /\ Product(v)[r] = SumTo(h, q)
  BY ProductType
<1>4. Product(d)[r] \in Int
  BY ProductType
<1> HIDE DEF f, g, h
<1>5. Combines(h, f, 1, g, q)
  BY <1>1, <1>2 DEF Combines
<1>6. SumTo(h, q) = SumTo(f, q) + 1 * SumTo(g, q)
  BY <1>1, <1>5, SumLinear
<1> QED
  BY <1>3, <1>4, <1>6

\* The sum of the dot products along d is the product of A u with A d.
LEMMA DotAlong ==
  ASSUME A \in Systems, NEW u \in [Cols -> Int], NEW d \in [Cols -> Int]
  PROVE  /\ \A c \in Cols : Dot(u, c) \in Int
         /\ SumTo([c \in Cols |-> Dot(u, c) * d[c]], q) =
              SumTo([r \in Rows |-> Product(u)[r] * Product(d)[r]], p)
<1> DEFINE x == Product(u)
           col(c) == [r \in Rows |-> x[r] * A[r][c]]
           along == [c \in Cols |-> Dot(u, c) * d[c]]
           row(r) == [k \in Cols |-> A[r][k] * d[k]]
           part(m) == [r \in Rows |-> x[r] * SumTo(row(r), m)]
<1>1. /\ q \in Nat /\ p \in Nat /\ Cols = 0..(q - 1) /\ Rows = 0..(p - 1)
      /\ q \in 0..q /\ p \in 0..p
  BY Coefficients
<1>2. \A r \in Rows : x[r] \in Int
  BY ProductType
<1>3. \A r \in Rows, c \in Cols : A[r][c] \in Int /\ d[c] \in Int
  BY Coefficients
<1>4. \A c \in Cols : Dot(u, c) = SumTo(col(c), p)
  BY DEF Dot
<1> HIDE DEF x
<1>5. \A c \in Cols : Dot(u, c) \in Int
  <2>1. SUFFICES ASSUME NEW c \in Cols PROVE SumTo(col(c), p) \in Int
    BY <1>4
  <2> DEFINE f == col(c)
  <2>2. \A r \in Rows : f[r] \in Int
    BY <1>2, <1>3
  <2> HIDE DEF f
  <2>3. SumTo(f, p) \in Int
    BY <1>1, <2>2, SumType
  <2> QED
    BY <2>3 DEF f
<1>6. ASSUME NEW m \in 0..q, NEW r \in Rows
      PROVE  SumTo(row(r), m) \in Int
  <2> DEFINE f == row(r)
  <2>2. \A c \in Cols : f[c] \in Int
    BY <1>3
  <2> HIDE DEF f
  <2>3. SumTo(f, m) \in Int
    BY <1>1, <2>2, SumType
  <2> QED
    BY <2>3 DEF f
<1>7. ASSUME NEW m \in Cols
      PROVE  SumTo(part(m + 1), p) = SumTo(part(m), p) + d[m] * Dot(u, m)
  <2> DEFINE f == part(m)
             g == col(m)
             h == part(m + 1)
  <2>1. ASSUME NEW r \in Rows
        PROVE  f[r] \in Int /\ g[r] \in Int /\ h[r] = f[r] + d[m] * g[r]
    <3> DEFINE s == SumTo(row(r), m)
               e == A[r][m]
               w == row(r)
    <3>1. m \in Nat /\ m \in 0..q /\ w[m] = e * d[m]
      BY <1>1
    <3>2. s \in Int /\ e \in Int /\ x[r] \in Int /\ d[m] \in Int
      BY <1>2, <1>3, <1>6, <3>1
    <3>3. SumTo(w, m + 1) = SumTo(w, m) + w[m]
      <4> HIDE DEF w
      <4> QED
        BY <3>1, SumSteps
    <3>4. h[r] = x[r] * (s + e * d[m]) /\ f[r] = x[r] * s /\ g[r] = x[r] * e
      BY <3>1, <3>3
    <3> HIDE DEF s, e, f, g, h
    <3>5. /\ x[r] * (s + e * d[m]) = x[r] * s + d[m] * (x[r] * e)
          /\ x[r] * s \in Int /\ x[r] * e \in Int
      BY <3>2
    <3> QED
      BY <3>4, <3>5
  <2>2. d[m] \in Int /\ SumTo(g, p) = Dot(u, m)
    BY <1>3, <1>4
  <2> HIDE DEF f, g, h
  <2>3. Combines(h, f, d[m], g, p)
    BY <1>1, <2>1 DEF Combines
  <2>4. SumTo(h, p) = SumTo(f, p) + d[m] * SumTo(g, p)
    BY <1>1, <2>2, <2>3, SumLinear
  <2> QED
    BY <2>2, <2>4 DEF f, g, h
<1>8. SumTo(along, q) = SumTo(part(q), p)
  <2> DEFINE lhs == [m \in 0..q |-> SumTo(along, m)]
             rhs == [m \in 0..q |-> SumTo(part(m), p)]
  <2>1. lhs[0] = rhs[0]
    <3> DEFINE f == part(0)
    <3>1. \A r \in Rows : SumTo(row(r), 0) = 0
      BY SumSteps
    <3>2. \A r \in Rows : f[r] = 0
      BY <1>2, <3>1
    <3> HIDE DEF f
    <3>3. SumTo(f, p) = 0
      BY <1>1, <3>2, SumZero
    <3> USE DEF f
    <3> HIDE DEF along, part
    <3>4. lhs[0] = SumTo(along, 0) /\ rhs[0] = SumTo(part(0), p)
      BY <1>1
    <3> QED
      BY <3>3, <3>4, SumSteps
  <2>2. ASSUME NEW m \in Cols, lhs[m] = rhs[m]
        PROVE  lhs[m + 1] = rhs[m + 1]
    <3>1. along[m] = Dot(u, m) * d[m] /\ d[m] * Dot(u, m) = Dot(u, m) * d[m]
      BY <1>3, <1>5
    <3>2. SumTo(part(m + 1), p) = SumTo(part(m), p) + d[m] * Dot(u, m)
      BY <1>7
    <3> HIDE DEF along, part
    <3>3. m \in Nat /\ m \in 0..q /\ m + 1 \in 0..q
      BY <1>1
    <3>4. SumTo(along, m + 1) = SumTo(along, m) + along[m]
      BY <3>3, SumSteps
    <3> QED
      BY <2>2, <3>1, <3>2, <3>3, <3>4
  <2>3. q \in 0..q /\ lhs[q] = SumTo(along, q) /\ rhs[q] = SumTo(part(q), p)
    <3> HIDE DEF along, part
    <3> QED
      BY <1>1
  <2> HIDE DEF lhs, rhs
  <2>4. lhs[q] = rhs[q]
    BY <1>1, <2>1, <2>2, InStep
  <2> QED
    BY <2>3, <2>4
<1>9. part(q) = [r \in Rows |-> Product(u)[r] * Product(d)[r]]
  <2>1. \A r \in Rows : Product(d)[r] = SumTo(row(r), q)
    BY ProductType
  <2> QED
    BY <2>1 DEF x
<1> QED
  BY <1>5, <1>8, <1>9

-----------------------------------------------------------------------------
(* Minimal solutions.                                                      *)

\* u is at most v in every component.
AtMost(u, v) == \A c \in Cols : u[c] <= v[c]
\* Solutions in natural numbers, other than zero, and the minimal ones.
Solution(v) == v \in Vectors /\ v # row_zero /\ IsSolution(v)
Minimal(v) == Solution(v) /\ \A w \in Vectors : Solution(w) => ~order(v, w)

\* Why the search may confine itself to steps that turn the product back: from a
\* vector under a solution, one of them leads towards the solution.  Else all dot
\* products along the difference d would be positive or zero, but their sum is the
\* product of A u with A d = - A u, which is negative.
LEMMA Turn ==
  ASSUME A \in Systems, NEW u \in Vectors, NEW v \in Vectors,
         AtMost(u, v), ~IsSolution(u), IsSolution(v)
  PROVE  \E c \in Cols : u[c] < v[c] /\ Dot(u, c) < 0
<1> DEFINE d == [c \in Cols |-> v[c] - u[c]]
           along == [c \in Cols |-> Dot(u, c) * d[c]]
           x == Product(u)
           y == Product(d)
           against == [r \in Rows |-> x[r] * y[r]]
           squares == [r \in Rows |-> x[r] * x[r]]
           zeros == [r \in Rows |-> 0]
<1>1. /\ q \in Nat /\ p \in Nat /\ Cols = 0..(q - 1) /\ Rows = 0..(p - 1)
      /\ q \in 0..q /\ p \in 0..p
  BY Coefficients
<1>2. /\ u \in [Cols -> Int] /\ v \in [Cols -> Int] /\ d \in [Cols -> Int]
      /\ \A c \in Cols : d[c] \in Nat /\ v[c] = u[c] + d[c] /\ (d[c] # 0 => u[c] < v[c])
  BY DEF Vectors, AtMost
<1>3. /\ \A c \in Cols : Dot(u, c) \in Int
      /\ SumTo(along, q) = SumTo(against, p)
  BY <1>2, DotAlong
<1>4. \A r \in Rows : x[r] \in Int /\ y[r] \in Int /\ Product(v)[r] = x[r] + y[r]
  BY <1>2, ProductType, ProductOfDifference
<1>5. \A r \in Rows : Product(v)[r] = 0
  BY DEF IsSolution
<1>6. PICK r \in Rows : x[r] # 0
  <2>1. x = [s \in Rows |-> x[s]]
    BY DEF Product
  <2>2. x # [s \in Rows |-> 0]
    BY DEF IsSolution
  <2> HIDE DEF x
  <2> QED
    BY <2>1, <2>2
<1> SUFFICES ASSUME \A c \in Cols : u[c] < v[c] => ~ (Dot(u, c) < 0)
             PROVE  FALSE
  OBVIOUS
<1>7. \A c \in Cols : along[c] \in Nat
  <2>1. SUFFICES ASSUME NEW c \in Cols PROVE Dot(u, c) * d[c] \in Nat
    OBVIOUS
  <2>2. Dot(u, c) \in Int /\ d[c] \in Nat /\ (d[c] = 0 \/ Dot(u, c) >= 0)
    BY <1>2, <1>3
  <2> HIDE DEF d
  <2> QED
    BY <2>2
<1>8. SumTo(along, q) >= 0
  <2> HIDE DEF along
  <2>1. SumTo(along, q) \in Nat
    BY <1>1, <1>7, SumPositive
  <2> QED
    BY <2>1
<1> HIDE DEF along, x, y
<1>9. ASSUME NEW s \in Rows
      PROVE  squares[s] \in Nat /\ (s = r => squares[s] >= 1)
             /\ zeros[s] = 0 /\ against[s] = zeros[s] + (-1) * squares[s]
  <2>1. x[s] \in Int /\ y[s] = 0 - x[s] /\ (s = r => x[s] # 0)
    BY <1>4, <1>5, <1>6
  <2>2. x[s] * x[s] \in Nat /\ (x[s] # 0 => x[s] * x[s] >= 1)
        /\ x[s] * (0 - x[s]) = 0 + (-1) * (x[s] * x[s])
    BY <2>1
  <2> QED
    BY <2>1, <2>2
<1> HIDE DEF squares, against, zeros
<1>10. SumTo(squares, p) \in Nat /\ SumTo(squares, p) >= squares[r]
  BY <1>1, <1>9, SumPositive
<1>11. SumTo(zeros, p) = 0
  BY <1>1, <1>9, SumZero
<1>12. Combines(against, zeros, -1, squares, p)
  BY <1>1, <1>9 DEF Combines
<1>13. SumTo(against, p) = SumTo(zeros, p) + (-1) * SumTo(squares, p)
  BY <1>1, <1>12, SumLinear
<1> QED
  BY <1>3, <1>8, <1>9, <1>10, <1>11, <1>13

\* A smaller vector has a smaller sum.
LEMMA SumLess ==
  ASSUME NEW v \in Vectors, NEW w \in Vectors, order(v, w)
  PROVE  SumTo(w, q) < SumTo(v, q) /\ SumTo(w, q) \in Nat /\ SumTo(v, q) \in Nat
<1> DEFINE d == [c \in Cols |-> v[c] - w[c]]
<1>1. q \in Nat /\ Cols = 0..(q - 1) /\ q \in 0..q
  BY DimensionAssumption DEF Cols
<1>2. \A c \in Cols : v[c] \in Nat /\ w[c] \in Nat /\ v[c] >= w[c]
  BY DEF Vectors, order
<1>3. \A c \in Cols : d[c] \in Nat /\ v[c] = w[c] + 1 * d[c]
  BY <1>2
<1>4. PICK c \in Cols : d[c] # 0
  <2>1. PICK c \in Cols : v[c] # w[c]
    BY DEF order, Vectors
  <2> QED
    BY <1>2, <2>1
<1> HIDE DEF d
<1>5. SumTo(d, q) \in Nat /\ SumTo(d, q) >= d[c]
  BY <1>1, <1>3, SumPositive
<1>6. SumTo(w, q) \in Nat /\ SumTo(v, q) \in Nat
  BY <1>1, <1>2, SumPositive
<1>7. Combines(v, w, 1, d, q)
  BY <1>1, <1>2, <1>3 DEF Combines
<1>8. SumTo(v, q) = SumTo(w, q) + 1 * SumTo(d, q)
  BY <1>1, <1>7, SumLinear
<1> QED
  BY <1>3, <1>4, <1>5, <1>6, <1>8

LEMMA SumNat ==
  ASSUME NEW v \in Vectors
  PROVE  SumTo(v, q) \in Nat
<1>1. q \in Nat /\ Cols = 0..(q - 1) /\ q \in 0..q /\ \A c \in Cols : v[c] \in Nat
  BY DimensionAssumption DEF Cols, Vectors
<1> QED
  BY <1>1, SumPositive

\* Under every solution is a minimal one.
LEMMA MinimalBelow ==
  ASSUME NEW v, Solution(v)
  PROVE  \E w : Minimal(w) /\ AtMost(w, v)
<1> DEFINE Under == {w \in Vectors : Solution(w) /\ AtMost(w, v)}
           sums == {SumTo(w, q) : w \in Under}
<1>1. v \in Under
  BY DEF Solution, AtMost, Vectors
<1>2. \A w \in Vectors : SumTo(w, q) \in Nat
  BY SumNat
<1>3. PICK s \in sums : \A z \in sums : s <= z
  <2>1. sums \subseteq Nat /\ sums # {}
    BY <1>1, <1>2
  <2> HIDE DEF sums
  <2> QED
    BY <2>1, LeastNumber
<1>4. PICK w \in Under : SumTo(w, q) = s
  BY <1>3
<1>5. ASSUME NEW z \in Vectors, Solution(z), order(w, z)
      PROVE  FALSE
  <2>1. AtMost(z, v)
    BY <1>4, <1>5 DEF order, AtMost, Vectors, Solution
  <2>2. SumTo(z, q) \in sums
    BY <1>5, <2>1
  <2>3. SumTo(z, q) < SumTo(w, q) /\ SumTo(z, q) \in Nat /\ SumTo(w, q) \in Nat
    BY <1>4, <1>5, SumLess
  <2> QED
    BY <1>3, <1>4, <2>2, <2>3
<1>6. Minimal(w)
  BY <1>4, <1>5 DEF Minimal
<1> QED
  BY <1>4, <1>6

-----------------------------------------------------------------------------
(* The depth of the stack.                                                 *)

\* The columns are finitely many, and so are the frozen ones among them; there
\* is room for one more while one of them is not frozen.
LEMMA FrozenColumns ==
  ASSUME NEW S \in SUBSET Cols
  PROVE  /\ IsFiniteSet(S)
         /\ Cardinality(S) \in Nat
         /\ Cardinality(S) <= q
         /\ \A c \in Cols \ S : /\ Cardinality(S) < q
                                /\ Cardinality(S \cup {c}) = Cardinality(S) + 1
<1>1. IsFiniteSet(Cols) /\ Cardinality(Cols) = q
  BY FS_Interval, DimensionAssumption DEF Cols
<1>2. IsFiniteSet(S) /\ Cardinality(S) \in Nat /\ Cardinality(S) <= q
  BY <1>1, FS_Subset, FS_CardinalityType
<1>3. ASSUME NEW c \in Cols \ S
      PROVE  Cardinality(S \cup {c}) = Cardinality(S) + 1
  BY <1>2, FS_AddElement
<1>4. ASSUME NEW c \in Cols \ S
      PROVE  Cardinality(S) < q
  <2>1. Cardinality(S \cup {c}) <= q
    BY <1>1, FS_Subset
  <2> QED
    BY <2>1, <1>2, <1>3, DimensionAssumption
<1> QED
  BY <1>2, <1>3, <1>4

-----------------------------------------------------------------------------
(* The inductive invariant: the types need that a row is there for every    *)
(* entry, which the number of frozen components gives.                      *)

IInv == TypeOK /\ FrozenDepth

LEMMA Initially == Init => IInv
<1> SUFFICES ASSUME Init
             PROVE  TypeOK /\ FrozenDepth
  BY DEF IInv
<1>1. row_zero \in Vectors
  BY DEF row_zero, Vectors
<1>2. Len(P) = 1 /\ P \in Seq(Vectors) /\ i = q
  BY <1>1 DEF Init
<1>3. 0 \in Cols /\ Frozen[0] = {}
  BY DimensionAssumption DEF Init, Cols
<1>4. TypeOK
  <2>1. Frozen \in [Cols -> SUBSET Cols]
    BY DEF Init
  <2>2. basis \in Seq(Vectors)
    BY EmptySeq DEF Init
  <2> QED
    BY <1>1, <1>2, <2>1, <2>2, DimensionAssumption DEF Init, TypeOK
<1>5. FrozenDepth
  <2>1. \A n \in 0..(Len(P) - 1) : n = 0
    BY <1>2
  <2>2. Cardinality(Frozen[0]) >= 0
    BY <1>3, FS_EmptySet
  <2>3. ~Extending
    BY <1>2, DimensionAssumption DEF Extending
  <2> QED
    BY <1>3, <2>1, <2>2, <2>3 DEF FrozenDepth
<1> QED
  BY <1>4, <1>5

\* The rest of the stack keeps its rows; the entry that is taken leaves as many
\* frozen components as there are entries left.
LEMMA TakeKeeps == IInv /\ Take => IInv'
<1> SUFFICES ASSUME TypeOK, FrozenDepth, Take
             PROVE  TypeOK' /\ FrozenDepth'
  BY DEF IInv
<1>1. P \in Seq(Vectors) /\ P # <<>>
  BY DEF TypeOK, Take, Searching
<1>2. /\ P[Len(P)] \in Vectors
      /\ P' \in Seq(Vectors)
      /\ Len(P') = Len(P) - 1
      /\ Len(P) \in Nat \ {0}
  BY <1>1, Popped DEF Take
<1>3. Len(P) - 1 \in Cols /\ Cardinality(Frozen[Len(P) - 1]) >= Len(P) - 1
  BY <1>2 DEF FrozenDepth
<1>4. TypeOK'
  <2>1. A' \in Systems /\ Frozen' \in [Cols -> SUBSET Cols] /\ t' \in Vectors
    BY <1>2 DEF Take, TypeOK
  <2>2. basis' \in Seq(Vectors)
    <3>1. Append(basis, P[Len(P)]) \in Seq(Vectors)
      BY <1>2, AppendProperties DEF TypeOK
    <3> QED
      BY <3>1 DEF Take, TypeOK
  <2>3. F' \in SUBSET Cols /\ i' \in 0..q
    BY <1>3, DimensionAssumption DEF Take, TypeOK
  <2> QED
    BY <1>2, <2>1, <2>2, <2>3 DEF TypeOK
<1>5. FrozenDepth'
  <2>1. \A n \in 0..(Len(P') - 1) : n \in Cols /\ Cardinality(Frozen'[n]) >= n
    BY <1>2 DEF FrozenDepth, Take
  <2>2. Extending' => Cardinality(F') >= Len(P')
    BY <1>2, <1>3, DimensionAssumption DEF Take, Searching, Extending
  <2> QED
    BY <2>1, <2>2 DEF FrozenDepth
<1> QED
  BY <1>4, <1>5

\* The component that grows was not frozen: there is a row for the new entry,
\* and the next one has a frozen component more.
LEMMA PushKeeps == IInv /\ Push => IInv'
<1> SUFFICES ASSUME TypeOK, FrozenDepth, Push
             PROVE  TypeOK' /\ FrozenDepth'
  BY DEF IInv
<1> DEFINE T == [t EXCEPT ![i] = t[i] + 1]
<1>1. i \in Cols /\ i \notin F
  BY DimensionAssumption DEF Push, Grows, Extending, TypeOK, Cols
<1>2. /\ F \in SUBSET Cols
      /\ Cardinality(F) \in Nat
      /\ Cardinality(F) < q
      /\ Cardinality(F \cup {i}) = Cardinality(F) + 1
  BY <1>1, FrozenColumns DEF TypeOK
<1>3. Len(P) \in Nat /\ Len(P) <= Cardinality(F)
  BY LenProperties DEF FrozenDepth, Push, TypeOK
<1>4. Len(P) \in Cols
  BY <1>2, <1>3, DimensionAssumption DEF Cols
<1>5. T \in Vectors
  BY <1>1 DEF TypeOK, Vectors
<1>6. P' \in Seq(Vectors) /\ Len(P') = Len(P) + 1
  BY <1>5, AppendProperties DEF Push, TypeOK
<1>7. /\ Frozen' \in [Cols -> SUBSET Cols]
      /\ Frozen'[Len(P)] = F
      /\ \A n \in Cols : n # Len(P) => Frozen'[n] = Frozen[n]
  BY <1>2, <1>4 DEF Push, TypeOK
<1>8. TypeOK'
  <2>1. i' \in 0..q /\ F' \in SUBSET Cols
    BY <1>1, DimensionAssumption DEF Push, TypeOK, Cols
  <2> QED
    BY <1>6, <1>7, <2>1 DEF Push, TypeOK
<1>9. FrozenDepth'
  <2>1. ASSUME NEW n \in 0..(Len(P') - 1)
        PROVE  n \in Cols /\ Cardinality(Frozen'[n]) >= n
    <3>1. CASE n = Len(P)
      BY <1>2, <1>3, <1>4, <1>7, <3>1
    <3>2. CASE n # Len(P)
      <4>1. n \in 0..(Len(P) - 1)
        BY <1>3, <1>6, <3>2
      <4> QED
        BY <1>7, <3>2, <4>1 DEF FrozenDepth
    <3> QED
      BY <3>1, <3>2
  <2>2. Cardinality(F') >= Len(P')
    BY <1>2, <1>3, <1>6 DEF Push
  <2> QED
    BY <2>1, <2>2 DEF FrozenDepth
<1> QED
  BY <1>8, <1>9

LEMMA SkipKeeps == IInv /\ Skip => IInv'
<1> SUFFICES ASSUME TypeOK, FrozenDepth, Skip
             PROVE  TypeOK' /\ FrozenDepth'
  BY DEF IInv
<1>1. TypeOK'
  BY DimensionAssumption DEF Skip, Extending, TypeOK
<1>2. FrozenDepth'
  BY DEF Skip, Extending, FrozenDepth
<1> QED
  BY <1>1, <1>2

LEMMA Inductive == Spec => []IInv
<1>1. IInv /\ [Next]_vars => IInv'
  <2> SUFFICES ASSUME IInv, [Next]_vars
               PROVE  IInv'
    OBVIOUS
  <2>1. CASE Take
    BY <2>1, TakeKeeps
  <2>2. CASE Push
    BY <2>2, PushKeeps
  <2>3. CASE Skip
    BY <2>3, SkipKeeps
  <2>4. CASE UNCHANGED vars
    BY <2>4 DEF vars, IInv, TypeOK, FrozenDepth, Extending
  <2> QED
    BY <2>1, <2>2, <2>3, <2>4 DEF Next
<1> QED
  BY <1>1, Initially, PTL DEF Spec

-----------------------------------------------------------------------------
(* The search.  What has been found and what is still on the stack is apart *)
(* from one another, so that nothing is found twice and nothing that is     *)
(* found is above another solution; and no minimal solution gets lost.      *)

\* u is less than w in one of the components S: no vector that is like u there
\* reaches w.
FallsShort(u, S, w) == \E c \in S : u[c] < w[c]
\* The search reaches v from u, if it grows in no component of S.
Into(u, S, v) == AtMost(u, v) /\ \A c \in S : u[c] = v[c]
\* One of the successors of t that are still to come leads towards v.
Ahead(v) == \E j \in i..(q - 1) : j \notin F /\ t[j] < v[j] /\ (t = row_zero \/ Dot(t, j) < 0)

\* The vectors below an entry of the stack do not reach an entry that is older,
\* and it is not below any of those.
EntriesApart ==
  \A m, n \in 1..Len(P) : m < n =>
    FallsShort(P[n], Frozen[n - 1], P[m]) /\ FallsShort(P[m], Cols, P[n])
\* The solutions found are apart from the stack, and each differs from the later ones.
SolutionsApart ==
  /\ \A k \in 1..Len(basis), n \in 1..Len(P) :
       FallsShort(P[n], Cols, basis[k]) /\ FallsShort(basis[k], Cols, P[n])
  /\ \A k, l \in 1..Len(basis) : k < l => FallsShort(basis[k], Cols, basis[l])
\* The successors of t that are still to come will be apart from all these.
ExtendedApart ==
  Extending =>
    /\ \A n \in 1..Len(P) :
         /\ FallsShort(t, F, P[n])
         /\ FallsShort(P[n], Cols, t) \/ \A c \in Cols \ F : P[n][c] <= t[c]
    /\ \A k \in 1..Len(basis) : FallsShort(basis[k], Cols, t)
\* Zero is on the stack, or extended, only before anything is found.
Started ==
  /\ \A n \in 1..Len(P) : P[n] = row_zero => i = q /\ Len(P) = 1 /\ basis = <<>>
  /\ Extending /\ t = row_zero => basis = <<>>
\* Every minimal solution is found, or is below an entry of the stack, or below a
\* successor of t that is still to come.
Covered ==
  \A v \in Vectors : Minimal(v) =>
    \/ \E k \in 1..Len(basis) : basis[k] = v
    \/ \E n \in 1..Len(P) : Into(P[n], Frozen[n - 1], v)
    \/ Extending /\ Into(t, F, v) /\ Ahead(v)
\* What is found is minimal.
Found == \A k \in 1..Len(basis) : Minimal(basis[k])

Apart == EntriesApart /\ SolutionsApart /\ ExtendedApart /\ Started
SearchInv == Apart /\ Covered /\ Found

\* The system stays, and so do its solutions.
LEMMA SameSystem ==
  ASSUME A' = A
  PROVE  /\ \A v : Minimal(v)' <=> Minimal(v)
         /\ \A v : Solution(v)' <=> Solution(v)
         /\ \A v, c : Dot(v, c)' = Dot(v, c)
<1>1. \A v : Product(v)' = Product(v)
  BY DEF Product
<1>2. \A v : IsSolution(v)' <=> IsSolution(v)
  BY <1>1 DEF IsSolution
<1>3. \A v : Solution(v)' <=> Solution(v)
  BY <1>2 DEF Solution
<1>4. \A v, c : Dot(v, c)' = Dot(v, c)
  BY <1>1 DEF Dot
<1> QED
  BY <1>3, <1>4 DEF Minimal

LEMMA Start == Init => SearchInv
<1> SUFFICES ASSUME Init
             PROVE  SearchInv
  OBVIOUS
<1>1. /\ Len(P) = 1 /\ P[1] = row_zero /\ basis = <<>> /\ Len(basis) = 0 /\ i = q
      /\ Frozen[1 - 1] = {} /\ ~Extending
  BY DimensionAssumption DEF Init, Extending, Cols
<1>2. Apart
  BY <1>1 DEF Apart, EntriesApart, SolutionsApart, ExtendedApart, Started
<1>3. ASSUME NEW v \in Vectors
      PROVE  Into(P[1], Frozen[1 - 1], v)
  BY <1>1 DEF Into, AtMost, row_zero, Vectors
<1> QED
  BY <1>1, <1>2, <1>3, SMTT(30) DEF SearchInv, Covered, Found

\* What Take does.
LEMMA Taken ==
  ASSUME IInv, Take
  PROVE  LET n == Len(P) IN
         /\ n \in Nat /\ n # 0 /\ n \in 1..n /\ P[n] \in Vectors /\ ~Extending
         /\ Len(P') = n - 1 /\ \A m \in 1..(n - 1) : P'[m] = P[m] /\ m \in 1..n
         /\ \A m \in 1..n : m = n \/ m \in 1..(n - 1)
         /\ A' = A /\ Frozen' = Frozen /\ t' = P[n] /\ Len(basis) \in Nat
         /\ \/ /\ Solution(P[n])
               /\ ~Extending' /\ i' = i /\ F' = F
               /\ Len(basis') = Len(basis) + 1 /\ basis'[Len(basis) + 1] = P[n]
               /\ \A k \in 1..Len(basis) : basis'[k] = basis[k]
            \/ /\ ~IsSolution(P[n]) \/ P[n] = row_zero
               /\ Extending' /\ i' = 0 /\ F' = Frozen[n - 1] /\ basis' = basis
               /\ F' \in SUBSET Cols
<1> DEFINE n == Len(P)
<1>1. P \in Seq(Vectors) /\ P # <<>> /\ basis \in Seq(Vectors)
  BY DEF IInv, TypeOK, Take, Searching
<1>2. /\ P[n] \in Vectors /\ n \in Nat \ {0} /\ Len(P') = n - 1
      /\ SubSeq(P, 1, n - 1) = P'
  BY <1>1, Popped DEF Take
<1>3. \A m \in 1..(n - 1) : P'[m] = P[m] /\ m \in 1..n
  <2> DEFINE z == n - 1
  <2>1. z \in Nat /\ \A k \in 1..z : P[k] \in Vectors
    BY <1>1, <1>2, ElementOfSeq
  <2> HIDE DEF z
  <2>2. \A m \in 1..z : SubSeq(P, 1, z)[m] = P[1 + m - 1]
    BY <2>1, SubSeqProperties
  <2>3. \A m \in 1..z : 1 + m - 1 = m
    BY <2>1
  <2> QED
    BY <1>2, <2>2, <2>3 DEF z
<1>4. A' = A /\ Frozen' = Frozen /\ t' = P[n] /\ ~Extending /\ i = q
  BY DimensionAssumption DEF Take, Searching, Extending
<1>5. Frozen[n - 1] \in SUBSET Cols
  BY <1>2 DEF IInv, TypeOK, FrozenDepth
<1>6. CASE IsSolution(P[n]) /\ P[n] # row_zero
  <2>1. basis' = Append(basis, P[n]) /\ F' = F /\ i' = i
    BY <1>6 DEF Take
  <2>2. /\ Len(basis') = Len(basis) + 1 /\ basis'[Len(basis) + 1] = P[n]
        /\ \A k \in 1..Len(basis) : basis'[k] = basis[k]
    BY <1>1, <1>2, <2>1, AppendProperties
  <2>3. ~Extending'
    BY <1>4, <2>1, DimensionAssumption DEF Extending
  <2>4. Len(basis) \in Nat
    BY <1>1
  <2> QED
    BY <1>2, <1>3, <1>4, <1>6, <2>1, <2>2, <2>3, <2>4 DEF Solution
<1>7. CASE ~IsSolution(P[n]) \/ P[n] = row_zero
  <2>1. basis' = basis /\ F' = Frozen[n - 1] /\ i' = 0
    BY <1>7 DEF Take
  <2>2. Extending'
    BY <2>1, DimensionAssumption DEF Extending
  <2>3. Len(basis) \in Nat
    BY <1>1
  <2> QED
    BY <1>2, <1>3, <1>4, <1>5, <1>7, <2>1, <2>2, <2>3
<1> QED
  BY <1>6, <1>7

LEMMA TakeApart ==
  ASSUME IInv, Apart, Take
  PROVE  Apart'
<1> DEFINE n == Len(P)
<1>1. /\ n \in Nat /\ n # 0 /\ n \in 1..n /\ P[n] \in Vectors /\ ~Extending
      /\ Len(P') = n - 1 /\ \A m \in 1..(n - 1) : P'[m] = P[m] /\ m \in 1..n
      /\ \A m \in 1..n : m = n \/ m \in 1..(n - 1)
      /\ A' = A /\ Frozen' = Frozen /\ t' = P[n] /\ Len(basis) \in Nat
  BY Taken
<1>2. EntriesApart'
  <2>1. ASSUME NEW l \in 1..(n - 1), NEW m \in 1..(n - 1), m < l
        PROVE  FallsShort(P'[l], Frozen'[l - 1], P'[m]) /\ FallsShort(P'[m], Cols, P'[l])
    BY <1>1, <2>1 DEF Apart, EntriesApart
  <2> QED
    BY <1>1, <2>1 DEF EntriesApart, FallsShort
<1>3. ASSUME NEW m \in 1..(n - 1)
      PROVE  /\ FallsShort(P[n], Frozen[n - 1], P[m]) /\ FallsShort(P[m], Cols, P[n])
             /\ P[m] # row_zero
  BY <1>1, SMTT(30) DEF Apart, EntriesApart, Started
<1>4. ASSUME NEW m \in 1..(n - 1), NEW k \in 1..Len(basis)
      PROVE  FallsShort(P[m], Cols, basis[k]) /\ FallsShort(basis[k], Cols, P[m])
  BY <1>1 DEF Apart, SolutionsApart
<1>5. CASE /\ Solution(P[n])
           /\ ~Extending' /\ i' = i /\ F' = F
           /\ Len(basis') = Len(basis) + 1 /\ basis'[Len(basis) + 1] = P[n]
           /\ \A k \in 1..Len(basis) : basis'[k] = basis[k]
  <2>1. \A k \in 1..Len(basis') : k = Len(basis) + 1 \/ k \in 1..Len(basis)
    BY <1>1, <1>5, OneLonger
  <2>2. \A m \in 1..(n - 1) : FallsShort(P[n], Cols, P[m])
    <3>1. Frozen[n - 1] \subseteq Cols
      BY <1>1 DEF IInv, TypeOK, FrozenDepth
    <3> QED
      BY <1>3, <3>1 DEF FallsShort
  <2>3. SolutionsApart'
    <3>1. ASSUME NEW k \in 1..Len(basis'), NEW m \in 1..(n - 1)
          PROVE  FallsShort(P[m], Cols, basis'[k]) /\ FallsShort(basis'[k], Cols, P[m])
      BY <1>1, <1>3, <1>4, <1>5, <2>1, <2>2
    <3>2. ASSUME NEW k \in 1..Len(basis'), NEW l \in 1..Len(basis'), k < l
          PROVE  FallsShort(basis'[k], Cols, basis'[l])
      <4>1. k \in 1..Len(basis)
        BY <1>1, <1>5, <3>2
      <4>2. CASE l \in 1..Len(basis)
        BY <1>5, <3>2, <4>1, <4>2 DEF Apart, SolutionsApart
      <4>3. CASE l = Len(basis) + 1
        BY <1>1, <1>5, <4>1, <4>3 DEF Apart, SolutionsApart
      <4> QED
        BY <2>1, <4>2, <4>3
    <3>3. \A k \in 1..Len(basis'), m \in 1..Len(P') :
            FallsShort(P'[m], Cols, basis'[k]) /\ FallsShort(basis'[k], Cols, P'[m])
      BY <1>1, <3>1
    <3> QED
      BY <3>2, <3>3 DEF SolutionsApart, FallsShort
  <2>4. ExtendedApart' /\ Started'
    BY <1>1, <1>3, <1>5 DEF ExtendedApart, Started
  <2> QED
    BY <1>2, <2>3, <2>4 DEF Apart
<1>6. CASE /\ ~IsSolution(P[n]) \/ P[n] = row_zero
           /\ Extending' /\ i' = 0 /\ F' = Frozen[n - 1] /\ basis' = basis
           /\ F' \in SUBSET Cols
  <2>1. SolutionsApart'
    BY <1>1, <1>4, <1>6 DEF SolutionsApart, Apart
  <2>2. ExtendedApart'
    <3>1. \A k \in 1..Len(basis) : FallsShort(basis[k], Cols, P[n])
      BY <1>1 DEF Apart, SolutionsApart
    <3> QED
      BY <1>1, <1>3, <1>6, <3>1 DEF ExtendedApart
  <2>3. Started'
    <3>1. P[n] = row_zero => basis = <<>>
      BY <1>1 DEF Apart, Started
    <3> QED
      BY <1>1, <1>3, <1>6, <3>1 DEF Started
  <2> QED
    BY <1>2, <2>1, <2>2, <2>3 DEF Apart
<1> QED
  BY <1>5, <1>6, Taken

\* A solution that is taken is a minimal one: a smaller one would be found by
\* now, or below an entry of the stack, and it falls short of all of these.
LEMMA TakenMinimal ==
  ASSUME IInv, Apart, Covered, Take, Solution(P[Len(P)])
  PROVE  Minimal(P[Len(P)])
<1> DEFINE n == Len(P)
           b == P[n]
<1>1. /\ n \in Nat /\ n # 0 /\ n \in 1..n /\ b \in Vectors /\ ~Extending
      /\ \A m \in 1..n : m = n \/ m \in 1..(n - 1)
  BY Taken
<1>2. SUFFICES ASSUME NEW w \in Vectors, Solution(w), order(b, w)
               PROVE  FALSE
  BY DEF Minimal
<1>3. PICK v : Minimal(v) /\ AtMost(v, w)
  BY <1>2, MinimalBelow
<1>4. v \in Vectors /\ \A c \in Cols : v[c] \in Nat /\ w[c] \in Nat /\ b[c] \in Nat
                                       /\ v[c] <= w[c] /\ w[c] <= b[c]
  BY <1>1, <1>2, <1>3 DEF Minimal, Solution, Vectors, AtMost, order
<1>5. CASE \E k \in 1..Len(basis) : basis[k] = v
  <2>1. FallsShort(b, Cols, v)
    BY <1>1, <1>5 DEF Apart, SolutionsApart
  <2> QED
    BY <1>4, <2>1 DEF FallsShort
<1>6. CASE \E m \in 1..n : Into(P[m], Frozen[m - 1], v)
  <2>1. PICK m \in 1..n : AtMost(P[m], v)
    BY <1>6 DEF Into
  <2>2. CASE m = n
    <3>1. \A c \in Cols : b[c] = w[c]
      BY <1>4, <2>1, <2>2 DEF AtMost
    <3> QED
      BY <1>1, <1>2, <3>1 DEF order, Vectors
  <2>3. CASE m \in 1..(n - 1)
    <3>1. FallsShort(b, Frozen[n - 1], P[m]) /\ Frozen[n - 1] \subseteq Cols
      BY <1>1, <2>3 DEF Apart, EntriesApart, IInv, TypeOK, FrozenDepth
    <3>2. PICK c \in Cols : b[c] < P[m][c]
      BY <3>1 DEF FallsShort
    <3>3. P[m][c] <= v[c] /\ P[m][c] \in Nat
      <4>1. P \in Seq(Vectors)
        BY DEF IInv, TypeOK
      <4>2. P[m] \in Vectors
        BY <4>1, ElementOfSeq
      <4> QED
        BY <2>1, <4>2 DEF AtMost, Vectors
    <3> QED
      BY <1>4, <3>2, <3>3
  <2> QED
    BY <1>1, <2>2, <2>3
<1> QED
  BY <1>1, <1>3, <1>4, <1>5, <1>6 DEF Covered

\* The minimal solutions below the entry that is taken: it is the only one, or one
\* of its successors leads to them.
LEMMA TakeCovered ==
  ASSUME IInv, Apart, Covered, Found, Take
  PROVE  Covered' /\ Found'
<1> DEFINE n == Len(P)
<1>1. /\ n \in Nat /\ n # 0 /\ n \in 1..n /\ P[n] \in Vectors /\ ~Extending
      /\ Len(P') = n - 1 /\ \A m \in 1..(n - 1) : P'[m] = P[m] /\ m \in 1..n
      /\ \A m \in 1..n : m = n \/ m \in 1..(n - 1)
      /\ A' = A /\ Frozen' = Frozen /\ t' = P[n] /\ Len(basis) \in Nat
  BY Taken
<1>2. /\ \A v : Minimal(v)' <=> Minimal(v)
      /\ \A v, c : Dot(v, c)' = Dot(v, c)
  BY <1>1, SameSystem
<1>3. ASSUME NEW v \in Vectors, Minimal(v)
      PROVE  \/ \E k \in 1..Len(basis) : basis[k] = v
             \/ \E m \in 1..(n - 1) : Into(P'[m], Frozen'[m - 1], v)
             \/ Into(P[n], Frozen[n - 1], v)
  BY <1>1, <1>3 DEF Covered
<1>4. CASE /\ Solution(P[n])
           /\ ~Extending' /\ i' = i /\ F' = F
           /\ Len(basis') = Len(basis) + 1 /\ basis'[Len(basis) + 1] = P[n]
           /\ \A k \in 1..Len(basis) : basis'[k] = basis[k]
  <2>1. \A k \in 1..Len(basis') : k = Len(basis) + 1 \/ k \in 1..Len(basis)
    BY <1>1, <1>4, OneLonger
  <2>2. \A k \in 1..Len(basis) : k \in 1..Len(basis')
    BY <1>1, <1>4, OneLonger
  <2>3. Len(basis) + 1 \in 1..Len(basis')
    BY <1>1, <1>4, OneLonger
  <2>4. Found'
    <3>1. Minimal(P[n])
      BY <1>4, TakenMinimal
    <3>2. \A k \in 1..Len(basis') : Minimal(basis'[k])
      BY <1>4, <2>1, <3>1 DEF Found
    <3> QED
      BY <1>2, <3>2 DEF Found
  <2>5. ASSUME NEW v \in Vectors, Minimal(v), Into(P[n], Frozen[n - 1], v)
        PROVE  v = P[n]
    <3>1. ~order(v, P[n])
      BY <1>1, <1>4, <2>5 DEF Minimal
    <3>2. \A c \in Cols : v[c] >= P[n][c]
      BY <1>1, <2>5 DEF Into, AtMost, Vectors
    <3> QED
      BY <3>1, <3>2 DEF order
  <2>6. ASSUME NEW v \in Vectors, Minimal(v)
        PROVE  \/ \E k \in 1..Len(basis') : basis'[k] = v
               \/ \E m \in 1..Len(P') : Into(P'[m], Frozen'[m - 1], v)
    <3>1. CASE \E k \in 1..Len(basis) : basis[k] = v
      BY <1>4, <2>2, <3>1
    <3>2. CASE \E m \in 1..(n - 1) : Into(P'[m], Frozen'[m - 1], v)
      BY <1>1, <3>2
    <3>3. CASE Into(P[n], Frozen[n - 1], v)
      BY <1>4, <2>3, <2>5, <2>6, <3>3
    <3> QED
      BY <1>3, <2>6, <3>1, <3>2, <3>3
  <2>7. Covered'
    BY <1>2, <2>6 DEF Covered, Into, AtMost
  <2> QED
    BY <2>4, <2>7
<1>5. CASE /\ ~IsSolution(P[n]) \/ P[n] = row_zero
           /\ Extending' /\ i' = 0 /\ F' = Frozen[n - 1] /\ basis' = basis
           /\ F' \in SUBSET Cols
  <2>1. Found'
    BY <1>2, <1>5 DEF Found
  <2>2. ASSUME NEW v \in Vectors, Minimal(v), Into(P[n], Frozen[n - 1], v)
        PROVE  \E j \in Cols : /\ j \notin F' /\ P[n][j] < v[j]
                               /\ P[n] = row_zero \/ Dot(P[n], j) < 0
    <3>1. \A j \in Cols : P[n][j] \in Nat /\ v[j] \in Nat /\ P[n][j] <= v[j]
      BY <1>1, <2>2 DEF Into, AtMost, Vectors
    <3>2. \A j \in Cols : P[n][j] < v[j] => j \notin F'
      BY <1>5, <2>2, <3>1 DEF Into
    <3>3. CASE P[n] = row_zero
      <4>1. PICK j \in Cols : v[j] # row_zero[j]
        BY <2>2 DEF Minimal, Solution, Vectors, row_zero
      <4> QED
        BY <3>1, <3>2, <3>3, <4>1
    <3>4. CASE ~IsSolution(P[n])
      <4>1. A \in Systems /\ AtMost(P[n], v) /\ IsSolution(v)
        BY <2>2 DEF IInv, TypeOK, Into, Minimal, Solution
      <4>2. \E j \in Cols : P[n][j] < v[j] /\ Dot(P[n], j) < 0
        BY <1>1, <2>2, <3>4, <4>1, Turn
      <4> QED
        BY <3>2, <4>2
    <3> QED
      BY <1>5, <3>3, <3>4
  <2>3. i'..(q - 1) = Cols
    BY <1>5 DEF Cols
  <2>4. ASSUME NEW v \in Vectors, Minimal(v), Into(P[n], Frozen[n - 1], v)
        PROVE  Into(t, F, v)' /\ Ahead(v)'
    <3>1. Into(t, F, v)'
      BY <1>1, <1>5, <2>4 DEF Into, AtMost
    <3>2. \E j \in i'..(q - 1) : j \notin F' /\ t'[j] < v[j] /\ (t' = row_zero \/ Dot(t', j) < 0)
      BY <1>1, <2>2, <2>3, <2>4
    <3>3. \A j : Dot(t', j) = Dot(t, j)'
      BY <1>1 DEF Dot, Product
    <3> QED
      BY <3>1, <3>2, <3>3 DEF Ahead
  <2>5. ASSUME NEW v \in Vectors, Minimal(v)
        PROVE  \/ \E k \in 1..Len(basis') : basis'[k] = v
               \/ \E m \in 1..Len(P') : Into(P'[m], Frozen'[m - 1], v)
               \/ Into(t, F, v)' /\ Ahead(v)'
    BY <1>1, <1>3, <1>5, <2>4, <2>5
  <2>6. Covered'
    BY <1>2, <1>5, <2>5 DEF Covered, Into, AtMost
  <2> QED
    BY <2>1, <2>6
<1> QED
  BY <1>4, <1>5, Taken

\* What Push does.
LEMMA Pushed ==
  ASSUME IInv, Push
  PROVE  LET n == Len(P)
             T == [t EXCEPT ![i] = t[i] + 1]
         IN
         /\ n \in Nat /\ i \in Cols /\ i \notin F /\ Extending /\ F \in SUBSET Cols
         /\ t \in Vectors /\ T \in Vectors /\ T[i] = t[i] + 1
         /\ \A c \in Cols : c # i => T[c] = t[c]
         /\ Len(P') = n + 1 /\ P'[n + 1] = T /\ \A m \in 1..n : P'[m] = P[m]
         /\ Frozen'[n] = F /\ \A m \in 1..n : Frozen'[m - 1] = Frozen[m - 1]
         /\ A' = A /\ t' = t /\ basis' = basis /\ F' = F \cup {i} /\ i' = i + 1
         /\ Len(basis) \in Nat /\ (is_minimum(T) \/ t = row_zero)
<1> DEFINE n == Len(P)
           T == [t EXCEPT ![i] = t[i] + 1]
<1>1. i \in Cols /\ i \notin F /\ F \in SUBSET Cols /\ t \in Vectors /\ Extending
      /\ P \in Seq(Vectors) /\ n \in Nat /\ Len(basis) \in Nat
  BY DimensionAssumption DEF Push, Grows, Extending, IInv, TypeOK, Cols
<1>2. T \in Vectors /\ T[i] = t[i] + 1 /\ \A c \in Cols : c # i => T[c] = t[c]
  BY <1>1 DEF Vectors
<1>3. Len(P') = n + 1 /\ P'[n + 1] = T /\ \A m \in 1..n : P'[m] = P[m]
  BY <1>1, <1>2, AppendProperties DEF Push
<1>4. n \in Cols /\ \A m \in 1..n : m - 1 \in Cols /\ m - 1 # n
  <2>1. n <= Cardinality(F) /\ Cardinality(F) \in Nat /\ Cardinality(F) < q
    BY <1>1, FrozenColumns DEF IInv, FrozenDepth
  <2> QED
    BY <1>1, <2>1, DimensionAssumption DEF Cols
<1>5. Frozen'[n] = F /\ \A m \in 1..n : Frozen'[m - 1] = Frozen[m - 1]
  BY <1>4 DEF Push, IInv, TypeOK
<1> QED
  BY <1>1, <1>2, <1>3, <1>5 DEF Push, Grows

\* The successor is apart from its siblings, as they grew in components that are
\* frozen for it, and from the solutions, as it passed is_minimum.
LEMMA PushApart ==
  ASSUME IInv, Apart, Push
  PROVE  Apart'
<1> DEFINE n == Len(P)
           T == [t EXCEPT ![i] = t[i] + 1]
<1>1. /\ n \in Nat /\ i \in Cols /\ i \notin F /\ Extending /\ F \in SUBSET Cols
      /\ t \in Vectors /\ T \in Vectors /\ T[i] = t[i] + 1
      /\ \A c \in Cols : c # i => T[c] = t[c]
      /\ Len(P') = n + 1 /\ P'[n + 1] = T /\ \A m \in 1..n : P'[m] = P[m]
      /\ Frozen'[n] = F /\ \A m \in 1..n : Frozen'[m - 1] = Frozen[m - 1]
      /\ A' = A /\ t' = t /\ basis' = basis /\ F' = F \cup {i} /\ i' = i + 1
      /\ Len(basis) \in Nat /\ (is_minimum(T) \/ t = row_zero)
  BY Pushed
<1> HIDE DEF T
<1>2. /\ \A k \in 1..Len(P') : k = n + 1 \/ k \in 1..n
      /\ \A k \in 1..n : k \in 1..Len(P')
      /\ n + 1 \in 1..Len(P') /\ (n + 1) - 1 = n
      /\ \A k, l \in 1..Len(P') : k < l => k \in 1..n
  BY <1>1, OneLonger
<1>3. /\ \A c \in Cols : t[c] \in Nat /\ T[c] \in Nat /\ t[c] <= T[c]
      /\ t[i] < T[i] /\ P \in Seq(Vectors)
  BY <1>1 DEF Vectors, IInv, TypeOK
<1>4. \A m \in 1..n : P[m] \in Vectors /\ \A c \in Cols : P[m][c] \in Nat
  BY <1>3, ElementOfSeq DEF Vectors
<1>5. ASSUME NEW m \in 1..n
      PROVE  FallsShort(T, F, P[m]) /\ FallsShort(P[m], Cols, T)
  <2>1. FallsShort(t, F, P[m]) /\ (FallsShort(P[m], Cols, t) \/ P[m][i] <= t[i])
    BY <1>1 DEF Apart, ExtendedApart
  <2>2. FallsShort(T, F, P[m])
    <3>1. \A c \in F : c \in Cols /\ T[c] = t[c]
      BY <1>1
    <3> QED
      BY <2>1, <3>1 DEF FallsShort
  <2>3. CASE FallsShort(P[m], Cols, t)
    <3>1. PICK c \in Cols : P[m][c] < t[c]
      BY <2>3 DEF FallsShort
    <3>2. P[m][c] < T[c]
      BY <1>3, <1>4, <3>1
    <3> QED
      BY <2>2, <3>2 DEF FallsShort
  <2>4. CASE P[m][i] <= t[i]
    <3>1. P[m][i] < T[i]
      BY <1>1, <1>3, <1>4, <2>4
    <3> QED
      BY <1>1, <2>2, <3>1 DEF FallsShort
  <2> QED
    BY <2>1, <2>3, <2>4
<1>6. EntriesApart'
  <2>1. ASSUME NEW l \in 1..Len(P'), NEW m \in 1..Len(P'), m < l
        PROVE  FallsShort(P'[l], Frozen'[l - 1], P'[m]) /\ FallsShort(P'[m], Cols, P'[l])
    <3>1. m \in 1..n /\ P'[m] = P[m]
      BY <1>1, <1>2, <2>1
    <3>2. CASE l = n + 1
      BY <1>1, <1>2, <1>5, <3>1, <3>2
    <3>3. CASE l \in 1..n
      BY <1>1, <2>1, <3>1, <3>3 DEF Apart, EntriesApart
    <3> QED
      BY <1>2, <3>2, <3>3
  <2> QED
    BY <2>1 DEF EntriesApart, FallsShort
<1>7. ASSUME NEW k \in 1..Len(basis)
      PROVE  /\ basis[k] \in Vectors /\ \A c \in Cols : basis[k][c] \in Nat
             /\ FallsShort(basis[k], Cols, t) /\ t # row_zero
  <2>1. basis \in Seq(Vectors)
    BY DEF IInv, TypeOK
  <2>2. basis[k] \in Vectors
    BY <2>1, ElementOfSeq
  <2>3. FallsShort(basis[k], Cols, t)
    BY <1>1 DEF Apart, ExtendedApart
  <2>4. t # row_zero
    BY <1>1 DEF Apart, Started
  <2> QED
    BY <2>2, <2>3, <2>4 DEF Vectors
<1>8. ASSUME NEW k \in 1..Len(basis)
      PROVE  FallsShort(T, Cols, basis[k]) /\ FallsShort(basis[k], Cols, T)
  <2>1. PICK c \in Cols : basis[k][c] < t[c]
    BY <1>7 DEF FallsShort
  <2>2. basis[k][c] < T[c]
    BY <1>3, <1>7, <2>1
  <2>3. T # basis[k] /\ ~order(T, basis[k])
    <3>1. is_minimum(T) /\ k \in DOMAIN basis
      <4>1. basis \in Seq(Vectors)
        BY DEF IInv, TypeOK
      <4> QED
        BY <1>1, <1>7, <4>1
    <3> QED
      BY <1>3, <1>7, <2>2, <3>1 DEF is_minimum
  <2>4. \E e \in Cols : T[e] < basis[k][e]
    BY <1>3, <1>7, <2>3 DEF order
  <2> QED
    BY <2>2, <2>4 DEF FallsShort
<1>9. SolutionsApart'
  <2>1. ASSUME NEW k \in 1..Len(basis'), NEW m \in 1..Len(P')
        PROVE  FallsShort(P'[m], Cols, basis'[k]) /\ FallsShort(basis'[k], Cols, P'[m])
    <3>1. CASE m = n + 1
      BY <1>1, <1>8, <3>1
    <3>2. CASE m \in 1..n
      BY <1>1, <3>2 DEF Apart, SolutionsApart
    <3> QED
      BY <1>2, <3>1, <3>2
  <2>2. ASSUME NEW k \in 1..Len(basis'), NEW l \in 1..Len(basis'), k < l
        PROVE  FallsShort(basis'[k], Cols, basis'[l])
    BY <1>1, <2>2 DEF Apart, SolutionsApart
  <2> QED
    BY <2>1, <2>2 DEF SolutionsApart, FallsShort
<1>10. ExtendedApart'
  <2>1. ASSUME NEW m \in 1..Len(P')
        PROVE  /\ FallsShort(t, F \cup {i}, P'[m])
               /\ FallsShort(P'[m], Cols, t) \/ \A c \in Cols \ (F \cup {i}) : P'[m][c] <= t[c]
    <3>1. CASE m = n + 1
      <4>1. P'[m] = T
        BY <1>1, <3>1
      <4>2. \A c \in Cols \ (F \cup {i}) : P'[m][c] <= t[c]
        BY <1>1, <1>3, <4>1
      <4> QED
        BY <1>3, <4>1, <4>2 DEF FallsShort
    <3>2. CASE m \in 1..n
      <4>1. /\ FallsShort(t, F, P[m])
            /\ FallsShort(P[m], Cols, t) \/ \A c \in Cols \ F : P[m][c] <= t[c]
        BY <1>1, <3>2 DEF Apart, ExtendedApart
      <4> QED
        BY <1>1, <3>2, <4>1 DEF FallsShort
    <3> QED
      BY <1>2, <3>1, <3>2
  <2> QED
    BY <1>1, <1>7, <2>1 DEF ExtendedApart, FallsShort
<1>11. Started'
  <2>1. T # row_zero
    BY <1>1, <1>3 DEF row_zero
  <2>2. \A m \in 1..n : P[m] # row_zero
    BY <1>1, DimensionAssumption DEF Apart, Started, Extending
  <2>3. \A m \in 1..Len(P') : P'[m] # row_zero
    BY <1>1, <1>2, <2>1, <2>2
  <2>4. t = row_zero => basis = <<>>
    BY <1>1 DEF Apart, Started
  <2> QED
    BY <1>1, <2>3, <2>4 DEF Started, row_zero
<1> QED
  BY <1>6, <1>9, <1>10, <1>11 DEF Apart

\* A minimal solution that t leads to is below the first successor that does not
\* grow beyond it.
LEMMA PushCovered ==
  ASSUME IInv, Covered, Found, Push
  PROVE  Covered' /\ Found'
<1> DEFINE n == Len(P)
           T == [t EXCEPT ![i] = t[i] + 1]
<1>1. /\ n \in Nat /\ i \in Cols /\ i \notin F /\ Extending /\ F \in SUBSET Cols
      /\ t \in Vectors /\ T \in Vectors /\ T[i] = t[i] + 1
      /\ \A c \in Cols : c # i => T[c] = t[c]
      /\ Len(P') = n + 1 /\ P'[n + 1] = T /\ \A m \in 1..n : P'[m] = P[m]
      /\ Frozen'[n] = F /\ \A m \in 1..n : Frozen'[m - 1] = Frozen[m - 1]
      /\ A' = A /\ t' = t /\ basis' = basis /\ F' = F \cup {i} /\ i' = i + 1
      /\ Len(basis) \in Nat /\ (is_minimum(T) \/ t = row_zero)
  BY Pushed
<1> HIDE DEF T
<1>2. /\ \A k \in 1..n : k \in 1..Len(P')
      /\ n + 1 \in 1..Len(P') /\ (n + 1) - 1 = n
  BY <1>1, OneLonger
<1>3. /\ \A v : Minimal(v)' <=> Minimal(v)
      /\ \A v, c : Dot(v, c)' = Dot(v, c)
  BY <1>1, SameSystem
<1>4. Found'
  BY <1>1, <1>3 DEF Found
<1>5. ASSUME NEW v \in Vectors, Extending, Into(t, F, v), Ahead(v)
      PROVE  \/ \E m \in 1..Len(P') : Into(P'[m], Frozen'[m - 1], v)
             \/ Extending' /\ Into(t, F, v)' /\ Ahead(v)'
  <2>1. \A c \in Cols : t[c] \in Nat /\ v[c] \in Nat /\ t[c] <= v[c]
    BY <1>1, <1>5 DEF Vectors, Into, AtMost
  <2>2. \A c \in F : t[c] = v[c] /\ c \in Cols
    BY <1>1, <1>5 DEF Into
  <2>3. CASE t[i] < v[i]
    <3>1. AtMost(T, v)
      BY <1>1, <2>1, <2>3 DEF AtMost
    <3>2. \A c \in F : T[c] = v[c]
      BY <1>1, <2>2
    <3>3. Into(T, F, v)
      BY <3>1, <3>2 DEF Into
    <3> QED
      BY <1>1, <1>2, <3>3
  <2>4. CASE t[i] = v[i]
    <3>1. PICK j \in i..(q - 1) : /\ j \notin F /\ t[j] < v[j]
                                  /\ t = row_zero \/ Dot(t, j) < 0
      BY <1>5 DEF Ahead
    <3>2. j # i /\ j \in Cols
      BY <2>1, <2>4, <3>1, <1>1, DimensionAssumption DEF Cols
    <3>3. j \in i'..(q - 1) /\ j \notin F' /\ i' < q
      BY <1>1, <3>1, <3>2, DimensionAssumption DEF Cols
    <3>4. Into(t, F, v)'
      <4>1. \A c \in F' : t[c] = v[c]
        BY <1>1, <2>2, <2>4
      <4> QED
        BY <1>1, <1>5, <4>1 DEF Into, AtMost
    <3>5. Dot(t, j)' = Dot(t, j)
      BY <1>1 DEF Dot, Product
    <3>6. Ahead(v)'
      BY <1>1, <3>1, <3>3, <3>5 DEF Ahead, row_zero
    <3> QED
      BY <3>3, <3>4, <3>6 DEF Extending
  <2> QED
    BY <1>1, <2>1, <2>3, <2>4
<1>6. ASSUME NEW v \in Vectors, Minimal(v)
      PROVE  \/ \E k \in 1..Len(basis') : basis'[k] = v
             \/ \E m \in 1..Len(P') : Into(P'[m], Frozen'[m - 1], v)
             \/ Extending' /\ Into(t, F, v)' /\ Ahead(v)'
  <2>1. CASE \E k \in 1..Len(basis) : basis[k] = v
    BY <1>1, <2>1
  <2>2. CASE \E m \in 1..n : Into(P[m], Frozen[m - 1], v)
    BY <1>1, <1>2, <2>2
  <2>3. CASE Extending /\ Into(t, F, v) /\ Ahead(v)
    BY <1>5, <2>3
  <2> QED
    BY <1>6, <2>1, <2>2, <2>3 DEF Covered
<1>7. Covered'
  BY <1>3, <1>6 DEF Covered, Into, AtMost
<1> QED
  BY <1>4, <1>7

LEMMA SkipApart ==
  ASSUME IInv, Apart, Skip
  PROVE  Apart'
<1>1. /\ A' = A /\ P' = P /\ Frozen' = Frozen /\ basis' = basis /\ t' = t /\ F' = F
      /\ i' = i + 1 /\ Extending /\ i \in Nat
  BY DEF Skip, IInv, TypeOK
<1>2. EntriesApart' /\ SolutionsApart'
  BY <1>1, SMTT(30) DEF Apart, EntriesApart, SolutionsApart, FallsShort
<1>3. ExtendedApart'
  BY <1>1 DEF Apart, ExtendedApart, FallsShort
<1>4. Started'
  BY <1>1, DimensionAssumption DEF Apart, Started, Extending, row_zero
<1> QED
  BY <1>2, <1>3, <1>4 DEF Apart

\* The successor that is left out leads to no minimal solution: it is beyond a
\* solution that is known, or does not turn the product back.
LEMMA SkipCovered ==
  ASSUME IInv, Covered, Found, Skip
  PROVE  Covered' /\ Found'
<1> DEFINE T == [t EXCEPT ![i] = t[i] + 1]
<1>1. /\ A' = A /\ P' = P /\ Frozen' = Frozen /\ basis' = basis /\ t' = t /\ F' = F
      /\ i' = i + 1 /\ Extending /\ i \in Nat /\ i \in Cols /\ t \in Vectors
      /\ ~Grows(T) /\ basis \in Seq(Vectors)
  BY DimensionAssumption DEF Skip, IInv, TypeOK, Extending, Cols
<1>2. /\ \A v : Minimal(v)' <=> Minimal(v)
      /\ \A v, c : Dot(v, c)' = Dot(v, c)
  BY <1>1, SameSystem
<1>3. Found'
  BY <1>1, <1>2 DEF Found
<1>4. ASSUME NEW v \in Vectors, Minimal(v), Into(t, F, v), Ahead(v)
      PROVE  Extending' /\ Into(t, F, v)' /\ Ahead(v)'
  <2>1. PICK j \in i..(q - 1) : /\ j \notin F /\ t[j] < v[j]
                                /\ t = row_zero \/ Dot(t, j) < 0
    BY <1>4 DEF Ahead
  <2>2. ASSUME j = i PROVE FALSE
    <3>1. ~is_minimum(T)
      BY <1>1, <2>1, <2>2 DEF Grows
    <3>2. PICK k \in DOMAIN basis : order(T, basis[k])
      BY <3>1 DEF is_minimum
    <3>3. k \in 1..Len(basis) /\ basis[k] \in Vectors /\ Solution(basis[k])
      BY <1>1, <3>2, ElementOfSeq DEF Found, Minimal
    <3>4. ASSUME NEW c \in Cols
          PROVE  /\ v[c] \in Nat /\ T[c] \in Nat /\ basis[k][c] \in Nat /\ T[c] <= v[c]
                 /\ basis[k][c] <= T[c]
      <4>1. v[c] \in Nat /\ T[c] \in Nat /\ basis[k][c] \in Nat /\ T[c] <= v[c]
        BY <1>1, <1>4, <2>1, <2>2, <3>3 DEF Vectors, Into, AtMost
      <4>2. basis[k][c] <= T[c]
        <5>1. T[c] >= basis[k][c]
          BY <3>2 DEF order
        <5> QED
          BY <4>1, <5>1
      <4> QED
        BY <4>1, <4>2
    <3>5. T # basis[k] /\ T \in Vectors
      BY <1>1, <3>2 DEF order, Vectors
    <3>6. PICK c \in Cols : T[c] # basis[k][c]
      BY <3>3, <3>5 DEF Vectors
    <3>7. v # basis[k] /\ \A e \in Cols : v[e] >= basis[k][e]
      BY <3>4, <3>6
    <3> QED
      BY <1>4, <3>3, <3>7 DEF order, Minimal
  <2>3. j \in i'..(q - 1) /\ i' < q
    BY <1>1, <2>1, <2>2, DimensionAssumption DEF Cols
  <2>4. Dot(t, j)' = Dot(t, j)
    BY <1>1 DEF Dot, Product
  <2>5. Into(t, F, v)'
    BY <1>1, <1>4 DEF Into, AtMost
  <2>6. Ahead(v)'
    BY <1>1, <2>1, <2>3, <2>4 DEF Ahead, row_zero
  <2> QED
    BY <2>3, <2>5, <2>6 DEF Extending
<1>5. ASSUME NEW v \in Vectors, Minimal(v)
      PROVE  \/ \E k \in 1..Len(basis') : basis'[k] = v
             \/ \E m \in 1..Len(P') : Into(P'[m], Frozen'[m - 1], v)
             \/ Extending' /\ Into(t, F, v)' /\ Ahead(v)'
  BY <1>1, <1>4, <1>5 DEF Covered
<1>6. Covered'
  BY <1>2, <1>5 DEF Covered, Into, AtMost
<1> QED
  BY <1>3, <1>6

LEMMA SearchInvariant == Spec => [](IInv /\ SearchInv)
<1>1. Init => IInv /\ SearchInv
  BY Initially, Start
<1>2. IInv /\ SearchInv /\ [Next]_vars => (IInv /\ SearchInv)'
  <2> SUFFICES ASSUME IInv, SearchInv, [Next]_vars
               PROVE  IInv' /\ SearchInv'
    OBVIOUS
  <2>0. Apart /\ Covered /\ Found
    BY DEF SearchInv
  <2>1. CASE Take
    BY <2>0, <2>1, TakeKeeps, TakeApart, TakeCovered DEF SearchInv
  <2>2. CASE Push
    BY <2>0, <2>2, PushKeeps, PushApart, PushCovered DEF SearchInv
  <2>3. CASE Skip
    BY <2>0, <2>3, SkipKeeps, SkipApart, SkipCovered DEF SearchInv
  <2>4. CASE UNCHANGED vars
    <3>1. IInv'
      BY <2>4 DEF vars, IInv, TypeOK, FrozenDepth, Extending
    <3>2. Apart'
      BY <2>0, <2>4
      DEF vars, Apart, EntriesApart, SolutionsApart, ExtendedApart, Started, Extending, FallsShort
    <3>3. Covered' /\ Found'
      <4>1. /\ \A v : Minimal(v)' <=> Minimal(v)
            /\ \A v, c : Dot(v, c)' = Dot(v, c)
        BY <2>4, SameSystem DEF vars
      <4>2. \A c : Dot(t, c)' = Dot(t, c)
        BY <2>4 DEF vars, Dot, Product
      <4> QED
        BY <2>0, <2>4, <4>1, <4>2 DEF vars, Covered, Found, Into, AtMost, Ahead, Extending
    <3> QED
      BY <3>1, <3>2, <3>3 DEF SearchInv
  <2> QED
    BY <2>1, <2>2, <2>3, <2>4 DEF Next
<1> QED
  BY <1>1, <1>2, PTL DEF Spec

-----------------------------------------------------------------------------
(* Theorems *)

\* The n-th entry of the stack of homogeneous_lde has n frozen components, for
\* every system: the entries over it grow in fewer and fewer ways.
THEOREM DepthCounted == Spec => []FrozenDepth
<1>1. IInv => FrozenDepth
  BY DEF IInv
<1> QED
  BY <1>1, Inductive, PTL

\* The table Frozen has a row for every entry that homogeneous_lde pushes and
\* takes: no access to it is out of bounds, though nothing checks it.
THEOREM TableSuffices == Spec => []StackBounded
<1>1. IInv => StackBounded
  <2> SUFFICES ASSUME TypeOK, FrozenDepth
               PROVE  StackBounded
    BY DEF IInv
  <2>1. Len(P) \in Nat
    BY LenProperties DEF TypeOK
  <2>2. Len(P) <= q
    <3>1. CASE Len(P) = 0
      BY <3>1, DimensionAssumption
    <3>2. CASE Len(P) # 0
      <4>1. Len(P) - 1 \in Cols
        BY <2>1, <3>2 DEF FrozenDepth
      <4> QED
        BY <2>1, <4>1, DimensionAssumption DEF Cols
    <3> QED
      BY <3>1, <3>2
  <2>3. ASSUME Extending, i \notin F
        PROVE  Len(P) < q
    <3>1. i \in Cols \ F
      BY <2>3, DimensionAssumption DEF Extending, TypeOK, Cols
    <3>2. Cardinality(F) \in Nat /\ Cardinality(F) < q
      BY <3>1, FrozenColumns DEF TypeOK
    <3> QED
      BY <2>1, <2>3, <3>2, DimensionAssumption DEF FrozenDepth
  <2> QED
    BY <2>2, <2>3 DEF StackBounded
<1> QED
  BY <1>1, Inductive, PTL

\* homogeneous_lde puts nothing in the basis but minimal solutions, at any time
\* and for every system.
THEOREM OnlyMinimal == Spec => []Found
<1>1. SearchInv => Found
  BY DEF SearchInv
<1> QED
  BY <1>1, SearchInvariant, PTL

\* When the loop of homogeneous_lde ends, every minimal solution has been found.
THEOREM NoneMissing ==
  Spec => [](Done => \A v : Minimal(v) => \E k \in 1..Len(basis) : basis[k] = v)
<1>1. IInv /\ SearchInv => (Done => \A v : Minimal(v) => \E k \in 1..Len(basis) : basis[k] = v)
  <2> SUFFICES ASSUME TypeOK, Covered, Done, NEW v, Minimal(v)
               PROVE  \E k \in 1..Len(basis) : basis[k] = v
    BY DEF IInv, SearchInv
  <2>1. Len(P) = 0 /\ ~Extending
    BY DimensionAssumption DEF Done, Extending
  <2> QED
    BY <2>1 DEF Covered, Minimal, Solution
<1> QED
  BY <1>1, SearchInvariant, PTL

\* The basis of homogeneous_lde is exact, for every system of any size: its
\* vectors are solutions with no smaller one, no two are equal, and in the end
\* every solution is one of them or more than one of them.
THEOREM BasisIsExact == Spec => []BasisExact
<1>1. IInv /\ SearchInv => BasisExact
  <2> SUFFICES ASSUME TypeOK, Apart, Covered, Found
               PROVE  BasisExact
    BY DEF IInv, SearchInv
  <2>1. basis \in Seq(Vectors) /\ DOMAIN basis = 1..Len(basis) /\ Len(basis) \in Nat
    BY DEF TypeOK
  <2>2. ASSUME NEW k \in DOMAIN basis
        PROVE  /\ basis[k] \in Vectors /\ Minimal(basis[k]) /\ IsSolution(basis[k])
               /\ \A w \in Below(basis[k]) : w = row_zero \/ ~IsSolution(w)
    <3>1. Minimal(basis[k]) /\ IsSolution(basis[k]) /\ basis[k] \in Vectors
      BY <2>1, <2>2 DEF Found, Minimal, Solution
    <3>2. \A w \in Below(basis[k]) : w \in Vectors /\ order(basis[k], w)
      BY DEF Below, Vectors
    <3> QED
      BY <3>1, <3>2 DEF Minimal, Solution
  <2>3. ASSUME NEW k \in DOMAIN basis, NEW l \in DOMAIN basis, basis[k] = basis[l]
        PROVE  k = l
    <3>1. \A c \in Cols : ~ (basis[k][c] < basis[l][c]) /\ ~ (basis[l][c] < basis[k][c])
      BY <2>2, <2>3 DEF Vectors
    <3>2. ~ (k < l) /\ ~ (l < k)
      BY <2>1, <3>1 DEF Apart, SolutionsApart, FallsShort
    <3> QED
      BY <2>1, <3>2
  <2>4. ASSUME Done, NEW v \in [Cols -> 0..Reach] \ {row_zero}, IsSolution(v)
        PROVE  \E k \in DOMAIN basis : v = basis[k] \/ order(v, basis[k])
    <3>1. Solution(v)
      BY <2>4 DEF Solution, Vectors
    <3>2. PICK w : Minimal(w) /\ AtMost(w, v)
      BY <3>1, MinimalBelow
    <3>3. PICK k \in 1..Len(basis) : basis[k] = w
      <4>1. Len(P) = 0 /\ ~Extending
        BY <2>4, DimensionAssumption DEF Done, Extending
      <4> QED
        BY <3>2, <4>1 DEF Covered, Minimal, Solution
    <3>4. \A c \in Cols : v[c] >= w[c]
      BY <3>1, <3>2 DEF AtMost, Minimal, Solution, Vectors
    <3> QED
      BY <2>1, <3>3, <3>4 DEF order
  <2> QED
    BY <2>2, <2>3, <2>4 DEF BasisExact
<1> QED
  BY <1>1, SearchInvariant, PTL
=============================================================================
