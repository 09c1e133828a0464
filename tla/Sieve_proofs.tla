---------------------------- MODULE Sieve_proofs ----------------------------
(***************************************************************************)
(* Proofs about the prime sieve, for all limits, sieve sizes and numbers   *)
(* of iterators.                                                           *)
(***************************************************************************)
EXTENDS Sieve, BasicLemmas, FiniteSetTheorems

-----------------------------------------------------------------------------
(* Odd numbers *)

\* A prime number above 2 is odd.
LEMMA OddPrime ==
  ASSUME NEW q \in Nat, IsPrime(q), q # 2
  PROVE  q % 2 = 1 /\ q > 2
<1>1. q > 1
  BY DEF IsPrime
<1>2. q % 2 # 0
  BY <1>1, OnlyItself
<1> QED
  BY <1>1, <1>2

-----------------------------------------------------------------------------
(* The numbers of a set in ascending order *)

Ascends(s) == \A h, k \in 1..Len(s) : h < k => s[h] < s[k]
IsIn(n, s) == \E k \in 1..Len(s) : s[k] = n

\* The elements of an ascending sequence, counted.
LEMMA AscendingCount ==
  ASSUME NEW s \in Seq(Nat), Ascends(s)
  PROVE  LET T == {s[k] : k \in 1..Len(s)} IN IsFiniteSet(T) /\ Cardinality(T) = Len(s)
<1> DEFINE n == Len(s)
           T == {s[k] : k \in 1..n}
           f == [k \in 1..n |-> s[k]]
<1>1. n \in Nat /\ \A k \in 1..n : s[k] \in Nat
  BY ElementOfSeq, LenProperties
<1>2. f \in [1..n -> T] /\ \A t \in T : \E k \in 1..n : f[k] = t
  OBVIOUS
<1>3. ASSUME NEW a \in 1..n, NEW b \in 1..n, f[a] = f[b]
      PROVE  a = b
  <2>1. s[a] = s[b] /\ ~ (s[a] < s[b]) /\ ~ (s[b] < s[a])
    BY <1>1, <1>3
  <2>2. ~ (a < b) /\ ~ (b < a)
    BY <2>1 DEF Ascends
  <2> QED
    BY <1>1, <2>2
<1> HIDE DEF f
<1>4. f \in Bijection(1..n, T)
  BY <1>2, <1>3 DEF Bijection, Injection, Surjection, IsInjective
<1>5. ExistsBijection(1..n, T)
  BY <1>4 DEF ExistsBijection
<1>6. IsFiniteSet(1..n) /\ Cardinality(1..n) = n
  BY <1>1, FS_Interval
<1>7. IsFiniteSet(T) /\ Cardinality(T) = n
  BY <1>5, <1>6, FS_Bijection
<1> QED
  BY <1>7

\* What Ascending looks for: the least number of S above n.
After(S, bound, n) == CHOOSE m \in (n + 1)..bound : m \in S /\ \A q \in (n + 1)..(m - 1) : q \notin S

Top(s) == IF Len(s) = 0 THEN 0 ELSE s[Len(s)]

\* s has the first elements of S.
Firsts(S, s) ==
  /\ s \in Seq(Nat)
  /\ Ascends(s)
  /\ \A k \in 1..Len(s) : s[k] \in S
  /\ \A n \in S : n <= Top(s) => IsIn(n, s)

LEMMA TopIsLast ==
  ASSUME NEW s \in Seq(Nat), Ascends(s)
  PROVE  Top(s) \in Nat /\ \A k \in 1..Len(s) : s[k] \in Nat /\ s[k] <= Top(s)
<1>1. Len(s) \in Nat /\ \A k \in 1..Len(s) : s[k] \in Nat
  BY ElementOfSeq, LenProperties
<1>2. ASSUME NEW k \in 1..Len(s)
      PROVE  s[k] <= s[Len(s)]
  <2>1. k = Len(s) \/ k < Len(s)
    BY <1>1
  <2>2. Len(s) \in 1..Len(s)
    BY <1>1
  <2> QED
    BY <1>1, <2>1, <2>2 DEF Ascends
<1> QED
  BY <1>1, <1>2 DEF Top

\* One more of them.
LEMMA OneMoreFirst ==
  ASSUME NEW bound \in Nat, NEW S \in SUBSET (1..bound), NEW s, Firsts(S, s), Len(s) < Cardinality(S)
  PROVE  /\ After(S, bound, Top(s)) \in Nat
         /\ Firsts(S, Append(s, After(S, bound, Top(s))))
         /\ Len(Append(s, After(S, bound, Top(s)))) = Len(s) + 1
<1> DEFINE T == {s[k] : k \in 1..Len(s)}
           m == After(S, bound, Top(s))
           a == Append(s, m)
<1>1. s \in Seq(Nat) /\ Ascends(s) /\ Len(s) \in Nat /\ \A k \in 1..Len(s) : s[k] \in Nat
  BY ElementOfSeq, LenProperties DEF Firsts
<1>2. IsFiniteSet(1..bound)
  BY FS_Interval
<1>3. Top(s) \in Nat /\ \A k \in 1..Len(s) : s[k] <= Top(s)
  BY <1>1, TopIsLast
<1> DEFINE A == {n \in S : n > Top(s)}
<1>4. A # {}
  <2> SUFFICES ASSUME A = {} PROVE FALSE
    OBVIOUS
  <2>1. \A n \in S : n <= Top(s)
    BY <1>3
  <2>2. S = T
    BY <2>1 DEF Firsts, IsIn
  <2>3. Cardinality(T) = Len(s)
    BY <1>1, AscendingCount
  <2> HIDE DEF T
  <2> QED
    BY <1>1, <2>2, <2>3
<1>5. PICK x \in A : \A y \in A : x <= y
  <2>0. S \subseteq Nat
    OBVIOUS
  <2>1. A \in SUBSET Nat
    BY <2>0
  <2> HIDE DEF A
  <2> QED
    BY <1>4, <2>1, LeastNumber
<1>6. x \in (Top(s) + 1)..bound /\ x \in S /\ \A q \in (Top(s) + 1)..(x - 1) : q \notin S
  BY <1>3, <1>5
<1>7. m \in (Top(s) + 1)..bound /\ m \in S /\ \A q \in (Top(s) + 1)..(m - 1) : q \notin S
  BY <1>6 DEF After
<1> HIDE DEF m
<1>8. /\ a \in Seq(Nat) /\ Len(a) = Len(s) + 1 /\ a[Len(s) + 1] = m
      /\ \A k \in 1..Len(s) : a[k] = s[k]
  BY <1>1, <1>7
<1> HIDE DEF a
<1>9. \A k \in 1..Len(a) : k = Len(s) + 1 \/ k \in 1..Len(s)
  BY <1>1, <1>8
<1>10. Ascends(a)
  <2> SUFFICES ASSUME NEW h \in 1..Len(a), NEW k \in 1..Len(a), h < k
               PROVE  a[h] < a[k]
    BY DEF Ascends
  <2>1. h \in 1..Len(s)
    BY <1>1, <1>8
  <2>2. CASE k = Len(s) + 1
    BY <1>1, <1>3, <1>7, <1>8, <2>1, <2>2
  <2>3. CASE k \in 1..Len(s)
    BY <1>1, <1>8, <2>1, <2>3 DEF Ascends
  <2> QED
    BY <1>9, <2>2, <2>3
<1>11. Top(a) = m
  BY <1>1, <1>8 DEF Top
<1>12. ASSUME NEW n \in S, n <= Top(a)
       PROVE  IsIn(n, a)
  <2>1. CASE n <= Top(s)
    <3>1. PICK k \in 1..Len(s) : s[k] = n
      BY <2>1 DEF Firsts, IsIn
    <3> QED
      BY <1>1, <1>8, <3>1 DEF IsIn
  <2>2. CASE n > Top(s)
    <3>1. n = m
      BY <1>3, <1>7, <1>11, <1>12, <2>2
    <3> QED
      BY <1>1, <1>8, <3>1 DEF IsIn
  <2> QED
    BY <1>3, <2>1, <2>2
<1>13. \A k \in 1..Len(a) : a[k] \in S
  BY <1>1, <1>7, <1>8, <1>9 DEF Firsts
<1> QED
  BY <1>1, <1>7, <1>8, <1>10, <1>12, <1>13 DEF Firsts, m, a

\* What Ascending returns.
LEMMA AscendingExact ==
  ASSUME NEW bound \in Nat, NEW S \in SUBSET (1..bound)
  PROVE  /\ Ascending(S, bound) \in Seq(Nat)
         /\ Ascends(Ascending(S, bound))
         /\ \A n : n \in S <=> IsIn(n, Ascending(S, bound))
<1> DEFINE N == Cardinality(S)
           next(s) == Append(s, After(S, bound, Top(s)))
           Q == {s \in Seq(Nat) : \A k \in 1..Len(s) : s[k] \in Nat}
           g == [ks \in (1..N) \X Seq(Nat) |->
                   IF next(ks[2]) \in Seq(Nat) THEN next(ks[2]) ELSE <<>>]
           Body(f) == [k \in 0..N |-> IF k = 0 THEN <<>>
                         ELSE LET below == f[k - 1]
                              IN  Append(below, After(S, bound, IF k = 1 THEN 0 ELSE Last(below)))]
<1>1. IsFiniteSet(S) /\ N \in Nat
  <2>1. IsFiniteSet(1..bound)
    BY FS_Interval
  <2> QED
    BY <2>1, FS_Subset, FS_CardinalityType
<1>2. Firsts(S, <<>>) /\ Len(<<>>) = 0 /\ <<>> \in Seq(Nat)
  <2>1. <<>> \in Seq(Nat) /\ Len(<<>>) = 0
    BY EmptySeq
  <2>2. \A n \in S : ~ (n <= 0)
    OBVIOUS
  <2> QED
    BY <2>1, <2>2 DEF Firsts, Ascends, Top
\* The step of the recursion, on the first elements of S.
<1>3. ASSUME NEW k \in 1..N, NEW s, Firsts(S, s), Len(s) = k - 1
      PROVE  /\ Append(s, After(S, bound, IF k = 1 THEN 0 ELSE Last(s))) = next(s)
             /\ next(s) \in Seq(Nat) /\ Firsts(S, next(s)) /\ Len(next(s)) = k
  <2>1. Top(s) = IF k = 1 THEN 0 ELSE Last(s)
    BY <1>3 DEF Top, Last
  <2>2. Len(s) < Cardinality(S)
    BY <1>1, <1>3
  <2>3. Firsts(S, next(s)) /\ Len(next(s)) = Len(s) + 1
    BY <1>3, <2>2, OneMoreFirst
  <2> QED
    BY <1>3, <2>1, <2>3 DEF Firsts
<1> HIDE DEF next
<1>4. Steps(g, N, Seq(Nat))
  BY <1>2 DEF Steps
<1>5. PICK f \in [0..N -> Seq(Nat)] : Recurs(f, N, <<>>, g)
  BY <1>1, <1>2, <1>4, Recursion
<1> DEFINE U == {k \in 0..N : Firsts(S, f[k]) /\ Len(f[k]) = k}
<1>6. \A k \in 0..N : k \in U
  <2>1. 0 \in U
    BY <1>1, <1>2, <1>5 DEF Recurs
  <2>2. ASSUME NEW k \in 1..N, k - 1 \in U
        PROVE  k \in U
    <3>1. f[k - 1] \in Seq(Nat) /\ Firsts(S, f[k - 1]) /\ Len(f[k - 1]) = k - 1
      BY <1>1, <2>2
    <3>2. f[k] = g[<<k, f[k - 1]>>]
      BY <1>5 DEF Recurs
    <3>3. f[k] = next(f[k - 1])
      BY <1>3, <3>1, <3>2
    <3> QED
      BY <1>1, <1>3, <3>1, <3>3
  <2> HIDE DEF U
  <2> QED
    BY <1>1, <2>1, <2>2, CountUp
<1>7. f = Body(f)
  <2>1. ASSUME NEW k \in 0..N
        PROVE  f[k] = Body(f)[k]
    <3>1. CASE k = 0
      BY <1>5, <3>1 DEF Recurs
    <3>2. CASE k # 0
      <4>1. k \in 1..N /\ k - 1 \in 0..N
        BY <1>1, <3>2
      <4>2. f[k - 1] \in Seq(Nat) /\ Firsts(S, f[k - 1]) /\ Len(f[k - 1]) = k - 1
        BY <1>6, <4>1
      <4>3. f[k] = g[<<k, f[k - 1]>>]
        BY <1>5, <4>1 DEF Recurs
      <4>4. f[k] = next(f[k - 1])
        BY <1>3, <4>1, <4>2, <4>3
      <4> QED
        BY <1>3, <3>2, <4>1, <4>2, <4>4
    <3> QED
      BY <3>1, <3>2
  <2> QED
    BY <2>1
<1> DEFINE list == CHOOSE h : h = Body(h)
<1>8. list = Body(list)
  <2> HIDE DEF Body
  <2> QED
    BY <1>7
<1>9. Ascending(S, bound) = list[N]
  BY DEF Ascending, After
<1> HIDE DEF list
<1> DEFINE W == {k \in 0..N : Firsts(S, list[k]) /\ Len(list[k]) = k}
<1>10. \A k \in 0..N : k \in W
  <2>1. 0 \in W
    <3>1. list[0] = <<>>
      BY <1>1, <1>8
    <3> QED
      BY <1>1, <1>2, <3>1
  <2>2. ASSUME NEW k \in 1..N, k - 1 \in W
        PROVE  k \in W
    <3>0. k \in 0..N /\ k # 0
      BY <1>1
    <3>1. list[k] = Append(list[k - 1], After(S, bound, IF k = 1 THEN 0 ELSE Last(list[k - 1])))
      <4> DEFINE b == Body(list)
      <4>1. b[k] = Append(list[k - 1], After(S, bound, IF k = 1 THEN 0 ELSE Last(list[k - 1])))
        BY <3>0
      <4>2. list = b
        BY <1>8
      <4> HIDE DEF b
      <4> QED
        BY <4>1, <4>2
    <3>2. list[k] = next(list[k - 1])
      BY <1>3, <2>2, <3>1
    <3> QED
      BY <1>1, <1>3, <2>2, <3>2
  <2> HIDE DEF W
  <2> QED
    BY <1>1, <2>1, <2>2, CountUp
<1> DEFINE a == list[N]
           T == {a[k] : k \in 1..Len(a)}
<1>11. Firsts(S, a) /\ Len(a) = N
  BY <1>1, <1>10
<1> HIDE DEF a
<1>12. S = T
  <2>1. T \in SUBSET S
    BY <1>11 DEF Firsts
  <2>2. Cardinality(T) = N
    BY <1>11, AscendingCount DEF Firsts
  <2> HIDE DEF T
  <2> QED
    BY <1>1, <2>1, <2>2, FS_Subset
<1> QED
  BY <1>9, <1>11, <1>12 DEF Firsts, IsIn, a
-----------------------------------------------------------------------------
(* Lists of primes *)

Sorted(l) == \A h, k \in 1..Len(l) : h <= k => l[h] <= l[k]
AllPrime(l) == \A k \in 1..Len(l) : IsPrime(l[k])
AtMost(l, n) == \A k \in 1..Len(l) : l[k] <= n
Begins(l, m) == Len(l) <= Len(m) /\ \A k \in 1..Len(l) : m[k] = l[k]

\* No prime up to n is missing.
Complete(l, n) == \A q \in Nat : IsPrime(q) /\ q <= n => IsIn(q, l)

\* What is true of the list in the middle of an extension as well.
ListOfPrimes(l) == l \in Seq(Nat) /\ Begins(FirstTen, l) /\ Sorted(l) /\ AllPrime(l)

LEMMA Tail2 ==
  ASSUME NEW l, ListOfPrimes(l)
  PROVE  /\ Len(l) \in Nat /\ Len(l) >= 10 /\ l[1] = 2
         /\ \A k \in 1..Len(l) : l[k] \in Nat
         /\ l[Len(l)] >= 29
<1>1. FirstTen \in Seq(Nat) /\ Len(FirstTen) = 10 /\ FirstTen[1] = 2 /\ FirstTen[10] = 29
  BY DEF FirstTen
<1>2. l \in Seq(Nat) /\ Len(l) \in Nat /\ \A k \in 1..Len(l) : l[k] \in Nat
  BY ElementOfSeq, LenProperties DEF ListOfPrimes
<1>3. Len(l) >= 10 /\ l[1] = 2 /\ l[10] = 29
  BY <1>1 DEF ListOfPrimes, Begins
<1>4. l[10] <= l[Len(l)]
  BY <1>2, <1>3 DEF ListOfPrimes, Sorted
<1> QED
  BY <1>2, <1>3, <1>4

\* A list with numbers added that are above it.
LEMMA AddedBehind ==
  ASSUME NEW l \in Seq(Nat), NEW a \in Seq(Nat), Sorted(l), Ascends(a),
         \A k \in 1..Len(l), j \in 1..Len(a) : l[k] <= a[j]
  PROVE  /\ l \o a \in Seq(Nat)
         /\ Begins(l, l \o a)
         /\ Sorted(l \o a)
         /\ \A n : IsIn(n, l \o a) <=> IsIn(n, l) \/ IsIn(n, a)
         /\ Ascends(l) /\ (\A k \in 1..Len(l), j \in 1..Len(a) : l[k] < a[j]) => Ascends(l \o a)
<1> DEFINE m == l \o a
<1>1. /\ m \in Seq(Nat) /\ Len(m) = Len(l) + Len(a)
      /\ \A k \in 1..(Len(l) + Len(a)) : m[k] = IF k <= Len(l) THEN l[k] ELSE a[k - Len(l)]
  BY ConcatProperties
<1>2. Len(l) \in Nat /\ Len(a) \in Nat
  BY LenProperties
<1>3. /\ \A k \in 1..Len(l) : l[k] \in Nat /\ m[k] = l[k] /\ k \in 1..Len(m)
      /\ \A k \in 1..Len(a) : a[k] \in Nat /\ m[Len(l) + k] = a[k] /\ Len(l) + k \in 1..Len(m)
  BY <1>1, <1>2, ElementOfSeq
<1>4. \A k \in 1..Len(m) : k \in 1..Len(l) \/ (k - Len(l) \in 1..Len(a) /\ k = Len(l) + (k - Len(l)) /\ k > Len(l))
  BY <1>1, <1>2
<1> HIDE DEF m
<1>5. ASSUME NEW h \in 1..Len(m), NEW k \in 1..Len(m), h < k
      PROVE  /\ m[h] <= m[k]
             /\ Ascends(l) /\ (\A i \in 1..Len(l), j \in 1..Len(a) : l[i] < a[j]) => m[h] < m[k]
  <2>1. CASE k \in 1..Len(l)
    <3>1. h \in 1..Len(l)
      BY <1>5, <2>1
    <3> QED
      BY <1>3, <1>5, <2>1, <3>1 DEF Sorted, Ascends
  <2>2. CASE h \in 1..Len(l) /\ k \notin 1..Len(l)
    <3>1. k - Len(l) \in 1..Len(a) /\ m[k] = a[k - Len(l)] /\ m[h] = l[h]
      BY <1>3, <1>4, <2>2
    <3> QED
      BY <2>2, <3>1
  <2>3. CASE h \notin 1..Len(l) /\ k \notin 1..Len(l)
    <3>1. /\ k - Len(l) \in 1..Len(a) /\ m[k] = a[k - Len(l)]
          /\ h - Len(l) \in 1..Len(a) /\ m[h] = a[h - Len(l)]
      BY <1>3, <1>4, <2>3
    <3>2. h - Len(l) < k - Len(l)
      BY <1>2, <1>5
    <3>3. a[h - Len(l)] < a[k - Len(l)]
      BY <3>1, <3>2 DEF Ascends
    <3> QED
      BY <1>3, <3>1, <3>3
  <2>4. CASE h \notin 1..Len(l) /\ k \in 1..Len(l)
    BY <1>2, <1>5, <2>4
  <2> QED
    BY <2>1, <2>2, <2>3, <2>4
<1>6. Sorted(m)
  <2> SUFFICES ASSUME NEW h \in 1..Len(m), NEW k \in 1..Len(m), h <= k
               PROVE  m[h] <= m[k]
    BY DEF Sorted
  <2>1. m[h] \in Nat
    BY <1>1, ElementOfSeq
  <2>2. h = k \/ h < k
    BY <1>1, <1>2
  <2> QED
    BY <1>5, <2>1, <2>2
<1>7. ASSUME NEW n
      PROVE  IsIn(n, m) <=> IsIn(n, l) \/ IsIn(n, a)
  <2>1. ASSUME IsIn(n, m)
        PROVE  IsIn(n, l) \/ IsIn(n, a)
    <3>1. PICK k \in 1..Len(m) : m[k] = n
      BY <2>1 DEF IsIn
    <3>2. CASE k \in 1..Len(l)
      BY <1>3, <3>1, <3>2 DEF IsIn
    <3>3. CASE k - Len(l) \in 1..Len(a) /\ k = Len(l) + (k - Len(l))
      <4>1. a[k - Len(l)] = n
        BY <1>3, <3>1, <3>3
      <4> QED
        BY <3>3, <4>1 DEF IsIn
    <3> QED
      BY <1>4, <3>2, <3>3
  <2>2. ASSUME IsIn(n, l)
        PROVE  IsIn(n, m)
    BY <1>3, <2>2 DEF IsIn
  <2>3. ASSUME IsIn(n, a)
        PROVE  IsIn(n, m)
    BY <1>3, <2>3 DEF IsIn
  <2> QED
    BY <2>1, <2>2, <2>3
<1>8. Begins(l, m)
  BY <1>1, <1>2, <1>3 DEF Begins
<1> QED
  BY <1>1, <1>5, <1>6, <1>7, <1>8 DEF Ascends, m

\* One segment: with the primes up to the root of its end at hand it adds the
\* primes in it, but for one whose flag is behind the end; no other segment
\* than this one begins behind it.
LEMMA SegmentSound ==
  ASSUME _sieve_size \in Nat \ {0},
         NEW l, ListOfPrimes(l),
         NEW start \in Nat, start % 2 = 0, start >= 30,
         NEW finish \in Nat, start <= finish, finish <= start + 2 * _sieve_size + 1,
         AtMost(l, start + 1), AtMost(l, finish), Complete(l, start),
         NEW r \in Nat, Complete(l, r), Covers(r, finish),
         NEW m \in Segment(l, start, finish)
  PROVE  /\ ListOfPrimes(m) /\ Begins(l, m) /\ AtMost(m, finish)
         /\ \A n \in Nat : n <= finish /\ n <= start + 2 * _sieve_size => Complete(m, n)
         /\ Ascends(l) /\ AtMost(l, start) => Ascends(m)
<1> DEFINE divisors == {l[k] : k \in {k \in 2..Len(l) : l[k] * l[k] <= finish}}
           count == (finish - start + 1) \div 2
           numbers == {start + 2 * k - 1 : k \in 1..count}
           behind == {start + 2 * k - 1 : k \in (_sieve_size + 1)..count}
           is_prime == {n \in numbers : \A d \in divisors : n % d # 0}
<1>1. PICK none \in SUBSET behind : m = l \o Ascending(is_prime \ none, finish)
  BY DEF Segment
<1> DEFINE K == is_prime \ none
           a == Ascending(K, finish)
<1>0. m = l \o a
  BY <1>1
<1>2. count \in Nat /\ 2 * count <= finish - start + 1 /\ finish - start < 2 * count + 1
  OBVIOUS
<1>3. \A n \in numbers : n \in Nat /\ n > start /\ n <= finish /\ n % 2 = 1
  <2> HIDE DEF count
  <2> SUFFICES ASSUME NEW k \in 1..count
               PROVE  LET n == start + 2 * k - 1 IN n \in Nat /\ n > start /\ n <= finish /\ n % 2 = 1
    OBVIOUS
  <2> QED
    BY <1>2
<1>4. /\ l \in Seq(Nat) /\ Len(l) \in Nat /\ Len(l) >= 10 /\ l[1] = 2
      /\ \A k \in 1..Len(l) : l[k] \in Nat /\ l[k] <= start + 1 /\ l[k] <= finish /\ IsPrime(l[k]) /\ l[k] > 1
  BY Tail2 DEF ListOfPrimes, AtMost, AllPrime, IsPrime
<1>5. \A d \in divisors : d \in Nat /\ d > 1 /\ IsIn(d, l)
  BY <1>4 DEF IsIn
<1>6. K \in SUBSET (1..finish) /\ K \subseteq numbers
  BY <1>3
<1>7. a \in Seq(Nat) /\ Ascends(a) /\ \A n : n \in K <=> IsIn(n, a)
  BY <1>6, AscendingExact
<1>8. \A j \in 1..Len(a) : a[j] \in K /\ a[j] \in Nat /\ a[j] > start /\ a[j] <= finish
  <2> HIDE DEF a, K, numbers
  <2>1. \A j \in 1..Len(a) : a[j] \in K
    BY <1>7 DEF IsIn
  <2> QED
    BY <1>3, <1>6, <2>1
<1> HIDE DEF a
<1>9. \A k \in 1..Len(l), j \in 1..Len(a) : l[k] <= a[j]
  <2> HIDE DEF K, numbers, behind, divisors, is_prime, count
  <2> SUFFICES ASSUME NEW k \in 1..Len(l), NEW j \in 1..Len(a)
               PROVE  l[k] <= a[j]
    OBVIOUS
  <2>1. l[k] \in Nat /\ l[k] <= start + 1
    BY <1>4
  <2>2. a[j] \in Nat /\ a[j] > start
    BY <1>8
  <2> QED
    BY <2>1, <2>2
<1>10. /\ m \in Seq(Nat) /\ Begins(l, m) /\ Sorted(m)
       /\ \A n : IsIn(n, m) <=> IsIn(n, l) \/ IsIn(n, a)
       /\ Ascends(l) /\ (\A k \in 1..Len(l), j \in 1..Len(a) : l[k] < a[j]) => Ascends(m)
  <2> HIDE DEF K, numbers, behind, divisors, is_prime, count
  <2> QED
    BY <1>0, <1>4, <1>7, <1>9, AddedBehind DEF ListOfPrimes
\* What the divisors find is not prime, and all of that.
<1>11. ASSUME NEW n \in K
       PROVE  IsPrime(n)
  <2>1. n \in Nat /\ n > start /\ n <= finish /\ n % 2 = 1 /\ n > 1
    BY <1>3, <1>6
  <2>2. SUFFICES ASSUME ~IsPrime(n) PROVE FALSE
    OBVIOUS
  <2>3. PICK d \in Nat : IsPrime(d) /\ d * d <= n /\ n % d = 0
    BY <2>1, <2>2, SmallDivisor
  <2>4. d * d <= finish /\ d <= r
    <3>1. d * d \in Nat
      OBVIOUS
    <3>2. d * d <= finish
      BY <2>1, <2>3, <3>1
    <3> QED
      BY <3>2 DEF Covers
  <2>5. PICK k \in 1..Len(l) : l[k] = d
    BY <2>3, <2>4 DEF Complete, IsIn
  <2>6. k # 1
    <3>1. n % 2 # 0
      BY <2>1
    <3> QED
      BY <1>4, <2>3, <2>5, <3>1
  <2>7. d \in divisors
    <3>1. k \in 2..Len(l) /\ l[k] * l[k] <= finish
      BY <1>4, <2>4, <2>5, <2>6
    <3> QED
      BY <2>5, <3>1
  <2> QED
    BY <2>3, <2>7
<1>12. AllPrime(m) /\ AtMost(m, finish)
  <2> SUFFICES ASSUME NEW k \in 1..Len(m)
               PROVE  IsPrime(m[k]) /\ m[k] <= finish
    BY DEF AllPrime, AtMost
  <2>1. IsIn(m[k], l) \/ IsIn(m[k], a)
    BY <1>10 DEF IsIn
  <2>2. CASE IsIn(m[k], l)
    BY <1>4, <2>2 DEF IsIn
  <2>3. CASE IsIn(m[k], a)
    BY <1>8, <1>11, <2>3 DEF IsIn
  <2> QED
    BY <2>1, <2>2, <2>3
<1>13. Begins(FirstTen, m)
  <2>1. Len(FirstTen) = 10
    BY DEF FirstTen
  <2>2. Len(m) \in Nat
    BY <1>10, LenProperties
  <2>3. ASSUME NEW k \in 1..10
        PROVE  m[k] = FirstTen[k]
    <3>1. k \in 1..Len(l) /\ l[k] = FirstTen[k]
      <4>1. \A j \in 1..Len(FirstTen) : l[j] = FirstTen[j]
        BY DEF Begins, ListOfPrimes
      <4>2. l[k] = FirstTen[k]
        BY <2>1, <4>1
      <4>3. k \in 1..Len(l)
        <5> DEFINE n == Len(l)
        <5>1. n \in Nat /\ n >= 10
          BY <1>4
        <5> HIDE DEF n
        <5>2. k \in 1..n
          BY <5>1
        <5> QED
          BY <5>2 DEF n
      <4> QED
        BY <4>2, <4>3
    <3> QED
      BY <1>10, <3>1 DEF Begins
  <2>4. 10 <= Len(m)
    BY <1>4, <1>10, <2>2 DEF Begins
  <2> QED
    BY <2>1, <2>3, <2>4 DEF Begins
<1>14. ASSUME NEW n \in Nat, n <= finish, n <= start + 2 * _sieve_size,
              NEW q \in Nat, IsPrime(q), q <= n
       PROVE  IsIn(q, m)
  <2>1. CASE q <= start
    BY <1>10, <1>14, <2>1 DEF Complete
  <2>2. CASE q > start
    <3>1. q % 2 = 1
      BY <1>14, <2>2, OddPrime
    <3> DEFINE k == (q - start + 1) \div 2
    <3>2. k \in 1..count /\ q = start + 2 * k - 1 /\ k <= _sieve_size
      BY <1>2, <1>14, <2>2, <3>1
    <3>3. q \in numbers
      BY <3>2
    <3>4. q \notin behind
      <4> HIDE DEF count, k
      <4> SUFFICES ASSUME NEW j \in (_sieve_size + 1)..count, q = start + 2 * j - 1
                   PROVE  FALSE
        OBVIOUS
      <4> QED
        BY <1>2, <3>2
    <3>5. CASE \A d \in divisors : q % d # 0
      <4>1. q \in K
        BY <3>3, <3>4, <3>5
      <4> QED
        BY <1>7, <1>10, <4>1
    <3>6. CASE \E d \in divisors : q % d = 0
      <4>1. PICK d \in divisors : q % d = 0
        BY <3>6
      <4>2. d = q
        BY <1>5, <1>14, <4>1, OnlyItself
      <4> QED
        BY <1>5, <1>10, <4>2
    <3> QED
      BY <3>5, <3>6
  <2> QED
    BY <1>14, <2>1, <2>2
<1>15. \A n \in Nat : n <= finish /\ n <= start + 2 * _sieve_size => Complete(m, n)
  BY <1>14 DEF Complete
<1>16. ASSUME Ascends(l), AtMost(l, start)
       PROVE  Ascends(m)
  <2>1. \A k \in 1..Len(l), j \in 1..Len(a) : l[k] < a[j]
    <3> HIDE DEF K, numbers, behind, divisors, is_prime, count
    <3> SUFFICES ASSUME NEW k \in 1..Len(l), NEW j \in 1..Len(a)
                 PROVE  l[k] < a[j]
      OBVIOUS
    <3>1. l[k] \in Nat /\ l[k] <= start
      BY <1>4, <1>16 DEF AtMost
    <3>2. a[j] \in Nat /\ a[j] > start
      BY <1>8
    <3> QED
      BY <3>1, <3>2
  <2> QED
    BY <1>10, <1>16, <2>1
<1> QED
  BY <1>10, <1>12, <1>13, <1>15, <1>16 DEF ListOfPrimes

\* What a segment gives is a list of numbers.
LEMMA SegmentType ==
  ASSUME NEW l \in Seq(Nat), NEW start \in Nat, NEW finish \in Nat
  PROVE  Segment(l, start, finish) \subseteq Seq(Nat)
<1> DEFINE divisors == {l[k] : k \in {k \in 2..Len(l) : l[k] * l[k] <= finish}}
           count == (finish - start + 1) \div 2
           numbers == {start + 2 * k - 1 : k \in 1..count}
           behind == {start + 2 * k - 1 : k \in (_sieve_size + 1)..count}
           is_prime == {n \in numbers : \A d \in divisors : n % d # 0}
<1> SUFFICES ASSUME NEW m \in Segment(l, start, finish)
             PROVE  m \in Seq(Nat)
  OBVIOUS
<1>0. PICK none \in SUBSET behind : m = l \o Ascending(is_prime \ none, finish)
  BY DEF Segment
<1>1. numbers \subseteq 1..finish
  <2>1. count \in Int /\ 2 * count <= finish - start + 1
    OBVIOUS
  <2> HIDE DEF count
  <2> QED
    BY <2>1
<1> DEFINE K == is_prime \ none
           a == Ascending(K, finish)
<1>2. K \in SUBSET (1..finish)
  BY <1>1
<1>3. m = l \o a
  BY <1>0
<1> HIDE DEF K
<1>4. a \in Seq(Nat)
  BY <1>2, AscendingExact
<1> HIDE DEF a, numbers, behind
<1> QED
  BY <1>3, <1>4, ConcatProperties

\* The lists that the segments of Sieved end with, one segment after the other.
Start(l, k) == Last(l) + 1 + 2 * _sieve_size * (k - 1)
Finish(l, top, k) == Min({Start(l, k) + 2 * _sieve_size + 1, top})
Segments(l, top) == 1 + (top - (Last(l) + 1)) \div (2 * _sieve_size)
Lists(l, top) ==
  LET lists[k \in 0..Segments(l, top)] ==
        IF k = 0 THEN {l}
        ELSE UNION {Segment(m, Start(l, k), Finish(l, top, k)) : m \in lists[k - 1]}
  IN  lists

LEMMA TheMin ==
  ASSUME NEW a \in Int, NEW b \in Int
  PROVE  Min({a, b}) = IF a <= b THEN a ELSE b
BY DEF Min

LEMMA SegmentsRecurs ==
  ASSUME _sieve_size \in Nat \ {0}, NEW l \in Seq(Nat), Last(l) \in Nat, NEW top \in Nat, top > Last(l)
  PROVE  /\ Segments(l, top) \in Nat \ {0}
         /\ Sieved(l, top) = Lists(l, top)[Segments(l, top)]
         /\ Lists(l, top)[0] = {l}
         /\ \A k \in 1..Segments(l, top) :
              /\ Start(l, k) \in Nat /\ Finish(l, top, k) \in Nat
              /\ Lists(l, top)[k] =
                   UNION {Segment(m, Start(l, k), Finish(l, top, k)) : m \in Lists(l, top)[k - 1]}
<1> DEFINE N == Segments(l, top)
           Join(T, k) == UNION {Segment(m, Start(l, k), Finish(l, top, k)) : m \in T}
           g == [ks \in (1..N) \X SUBSET Seq(Nat) |-> Join(ks[2], ks[1])]
           Body(f) == [k \in 0..N |-> IF k = 0 THEN {l} ELSE Join(f[k - 1], k)]
<1>1. N \in Nat \ {0}
  <2> DEFINE a == top - (Last(l) + 1)
             b == 2 * _sieve_size
  <2>1. a \in Nat /\ b \in Nat \ {0}
    OBVIOUS
  <2>2. a \div b \in Nat
    <3> HIDE DEF a, b
    <3> QED
      BY <2>1
  <2> QED
    BY <2>2 DEF Segments
<1>2. ASSUME NEW k \in 1..N
      PROVE  Start(l, k) \in Nat /\ Finish(l, top, k) \in Nat
  <2>1. k - 1 \in Nat /\ _sieve_size \in Nat
    BY <1>1
  <2>2. _sieve_size * (k - 1) \in Nat
    BY <2>1
  <2>3. Start(l, k) \in Nat
    <3>1. 2 * _sieve_size * (k - 1) = 2 * (_sieve_size * (k - 1))
      BY <2>1
    <3> QED
      BY <2>2, <3>1 DEF Start
  <2> QED
    BY <2>1, <2>3, TheMin DEF Finish
<1>3. Steps(g, N, SUBSET Seq(Nat))
  <2> SUFFICES ASSUME NEW k \in 1..N, NEW T \in SUBSET Seq(Nat)
               PROVE  Join(T, k) \in SUBSET Seq(Nat)
    BY DEF Steps
  <2>1. \A m \in T : Segment(m, Start(l, k), Finish(l, top, k)) \subseteq Seq(Nat)
    BY <1>2, SegmentType
  <2> QED
    BY <2>1
<1> HIDE DEF Join, N
<1>4. PICK f \in [0..N -> SUBSET Seq(Nat)] : Recurs(f, N, {l}, g)
  BY <1>1, <1>3, Recursion
<1>5. f = Body(f)
  <2>1. ASSUME NEW k \in 0..N
        PROVE  f[k] = IF k = 0 THEN {l} ELSE Join(f[k - 1], k)
    <3>1. k = 0 \/ (k \in 1..N /\ k - 1 \in 0..N)
      BY <1>1
    <3>2. CASE k \in 1..N /\ k - 1 \in 0..N
      <4>1. f[k] = g[<<k, f[k - 1]>>] /\ f[k - 1] \in SUBSET Seq(Nat)
        BY <1>4, <3>2 DEF Recurs
      <4> QED
        BY <3>2, <4>1
    <3> QED
      BY <1>4, <3>1, <3>2 DEF Recurs
  <2> QED
    BY <2>1
<1>6. Lists(l, top) = CHOOSE h : h = Body(h)
  BY DEF Lists, Join, N
<1>7. Lists(l, top) = Body(Lists(l, top))
  <2> HIDE DEF Body
  <2> QED
    BY <1>5, <1>6
<1>8. Lists(l, top)[0] = {l}
  BY <1>1, <1>7
<1>9. ASSUME NEW k \in 1..N
      PROVE  Lists(l, top)[k] = Join(Lists(l, top)[k - 1], k)
  <2> DEFINE h == Lists(l, top)
             b == Body(h)
  <2>1. b[k] = Join(h[k - 1], k)
    BY <1>1
  <2>2. h = b
    BY <1>7
  <2> HIDE DEF b, h
  <2> QED
    BY <2>1, <2>2 DEF h
<1>10. Sieved(l, top) = Lists(l, top)[N]
  BY DEF Sieved, Lists, Start, Finish, Segments, N
<1> QED
  BY <1>1, <1>2, <1>8, <1>9, <1>10 DEF N, Join

LEMMA BeginsTransitive ==
  ASSUME NEW a \in Seq(Nat), NEW b \in Seq(Nat), NEW c \in Seq(Nat), Begins(a, b), Begins(b, c)
  PROVE  Begins(a, c) /\ \A n : IsIn(n, a) => IsIn(n, c)
<1>1. Len(a) \in Nat /\ Len(b) \in Nat /\ Len(c) \in Nat /\ Len(a) <= Len(b) /\ Len(b) <= Len(c)
  BY LenProperties DEF Begins
<1>2. \A k \in 1..Len(a) : k \in 1..Len(b) /\ k \in 1..Len(c)
  BY <1>1
<1>3. \A k \in 1..Len(a) : c[k] = a[k]
  BY <1>2 DEF Begins
<1>4. ASSUME NEW n, IsIn(n, a)
      PROVE  IsIn(n, c)
  <2>1. PICK k \in 1..Len(a) : a[k] = n
    BY <1>4 DEF IsIn
  <2>2. k \in 1..Len(c) /\ c[k] = n
    BY <1>2, <1>3, <2>1
  <2> QED
    BY <2>2 DEF IsIn
<1>5. Len(a) <= Len(c)
  BY <1>1
<1>6. Begins(a, c)
  BY <1>3, <1>5 DEF Begins
<1> QED
  BY <1>4, <1>6

LEMMA BeginsReflexive ==
  ASSUME NEW a \in Seq(Nat)
  PROVE  Begins(a, a)
BY LenProperties DEF Begins

\* The segments reach to the limit, and not further.
LEMMA Reach ==
  ASSUME _sieve_size \in Nat \ {0}, NEW l \in Seq(Nat), Last(l) \in Nat, NEW top \in Nat, top > Last(l)
  PROVE  /\ Start(l, 1) = Last(l) + 1
         /\ \A k \in 1..Segments(l, top) :
              /\ Start(l, k) \in Nat /\ Start(l, k) >= Last(l) + 1 /\ Start(l, k) <= top
              /\ Start(l, k + 1) = Start(l, k) + 2 * _sieve_size
              /\ Last(l) % 2 = 1 => Start(l, k) % 2 = 0
         /\ Start(l, Segments(l, top) + 1) > top
         /\ top <= 2 * _sieve_size => Segments(l, top) = 1
<1> DEFINE s == 2 * _sieve_size
           a == top - (Last(l) + 1)
           q == a \div s
<1>1. s \in Nat \ {0} /\ a \in Nat
  OBVIOUS
<1>2. q \in Nat /\ s * q <= a /\ a < s * q + s
  <2> HIDE DEF s, a
  <2>1. a = s * (a \div s) + (a % s) /\ a % s \in 0..(s - 1) /\ a \div s \in Nat
    BY <1>1
  <2> QED
    BY <1>1, <2>1
<1>3. Segments(l, top) = 1 + q
  BY DEF Segments
<1> HIDE DEF q
<1>4. \A k \in Nat : Start(l, k + 1) = Last(l) + 1 + s * k
  BY DEF Start
<1>5. \A k \in Nat : s * k \in Nat /\ s * (k + 1) = s * k + s /\ s * k = 2 * (_sieve_size * k) /\ _sieve_size * k \in Nat
  OBVIOUS
<1>0. s = 2 * _sieve_size
  OBVIOUS
<1> HIDE DEF s
<1>6. Start(l, 1) = Last(l) + 1
  BY DEF Start
<1>7. ASSUME NEW k \in 1..Segments(l, top)
      PROVE  /\ Start(l, k) \in Nat /\ Start(l, k) >= Last(l) + 1 /\ Start(l, k) <= top
             /\ Start(l, k + 1) = Start(l, k) + s
             /\ Last(l) % 2 = 1 => Start(l, k) % 2 = 0
  <2> DEFINE j == k - 1
  <2>1. j \in Nat /\ k = j + 1 /\ j <= q /\ k \in Nat
    BY <1>2, <1>3
  <2> HIDE DEF j
  <2>2. Start(l, k) = Last(l) + 1 + s * j /\ Start(l, k + 1) = Last(l) + 1 + s * k
    BY <1>4, <2>1
  <2>3. s * j \in Nat /\ s * k = s * j + s /\ s * j = 2 * (_sieve_size * j) /\ _sieve_size * j \in Nat
    BY <1>5, <2>1
  <2>4. s * j <= s * q
    BY <1>1, <1>2, <2>1, LargerFactor
  <2>5. s * q \in Nat
    BY <1>2, <1>5
  <2>6. Start(l, k) <= top
    <3> DEFINE x == s * j
               y == s * q
    <3>1. x <= y /\ x \in Nat /\ y \in Nat /\ y <= top - (Last(l) + 1) /\ Start(l, k) = Last(l) + 1 + x
      BY <1>2, <2>2, <2>3, <2>4, <2>5
    <3> HIDE DEF x, y
    <3> QED
      BY <3>1
  <2>7. Last(l) % 2 = 1 => Start(l, k) % 2 = 0
    BY <2>2, <2>3
  <2>8. Start(l, k) \in Nat /\ Start(l, k) >= Last(l) + 1 /\ Start(l, k + 1) = Start(l, k) + s
    <3> DEFINE x == s * j
               y == s * k
    <3>1. x \in Nat /\ y = x + s /\ Start(l, k) = Last(l) + 1 + x /\ Start(l, k + 1) = Last(l) + 1 + y
      BY <2>2, <2>3
    <3> HIDE DEF x, y
    <3> QED
      BY <1>1, <3>1
  <2> QED
    BY <2>6, <2>7, <2>8
<1>8. Start(l, Segments(l, top) + 1) > top
  <2>1. Start(l, Segments(l, top) + 1) = Last(l) + 1 + s * (q + 1) /\ s * (q + 1) = s * q + s /\ s * q \in Nat
    BY <1>2, <1>3, <1>4, <1>5
  <2> QED
    BY <1>1, <1>2, <2>1
<1>9. ASSUME top <= s
      PROVE  Segments(l, top) = 1
  <2>1. q = 0
    <3> SUFFICES ASSUME q >= 1 PROVE FALSE
      BY <1>2
    <3>1. s * 1 <= s * q /\ s * q \in Nat
      BY <1>1, <1>2, <1>5, LargerFactor
    <3>2. s * 1 = s
      BY <1>1
    <3>3. s <= a
      <4> DEFINE y == s * q
      <4>1. s <= y /\ y <= a /\ y \in Nat
        BY <1>2, <3>1, <3>2
      <4> HIDE DEF y, a
      <4> QED
        BY <1>1, <4>1
    <3>4. a < s
      BY <1>1, <1>9
    <3> QED
      BY <1>1, <3>3, <3>4
  <2> QED
    BY <1>3, <2>1
<1> QED
  BY <1>6, <1>7, <1>8, <1>9 DEF s

LEMMA LastIsOdd ==
  ASSUME NEW l, ListOfPrimes(l)
  PROVE  /\ Last(l) = l[Len(l)] /\ Last(l) \in Nat /\ Last(l) >= 29 /\ Last(l) % 2 = 1
         /\ AtMost(l, Last(l))
         /\ Complete(l, Last(l)) => Complete(l, Last(l) + 1)
<1>1. /\ Len(l) \in Nat /\ Len(l) >= 10 /\ l[Len(l)] >= 29
      /\ \A k \in 1..Len(l) : l[k] \in Nat
  BY Tail2
<1>2. Last(l) = l[Len(l)] /\ Len(l) \in 1..Len(l)
  BY <1>1 DEF Last
<1>3. Last(l) \in Nat /\ Last(l) >= 29 /\ IsPrime(Last(l))
  BY <1>1, <1>2 DEF ListOfPrimes, AllPrime
<1>4. Last(l) % 2 = 1
  BY <1>3, OddPrime
<1>5. AtMost(l, Last(l))
  BY <1>1, <1>2 DEF ListOfPrimes, Sorted, AtMost
<1>6. ASSUME Complete(l, Last(l)), NEW q \in Nat, IsPrime(q), q <= Last(l) + 1
      PROVE  IsIn(q, l)
  <2>1. q # Last(l) + 1
    <3> SUFFICES ASSUME q = Last(l) + 1 PROVE FALSE
      OBVIOUS
    <3>1. q % 2 = 0
      BY <1>3, <1>4
    <3> QED
      BY <1>3, <1>6, <3>1, OddPrime
  <2> QED
    BY <1>3, <1>6, <2>1 DEF Complete
<1> QED
  BY <1>2, <1>3, <1>4, <1>5, <1>6 DEF Complete

\* The segments together: the list with the primes up to the limit.
LEMMA SievedSound ==
  ASSUME _sieve_size \in Nat \ {0},
         NEW l, ListOfPrimes(l), Complete(l, Last(l)),
         NEW top \in Nat, top > Last(l),
         NEW r \in Nat, Complete(l, r), Covers(r, top),
         NEW m \in Sieved(l, top)
  PROVE  /\ ListOfPrimes(m) /\ Begins(l, m) /\ AtMost(m, top) /\ Complete(m, top)
         /\ Ascends(l) /\ top <= 2 * _sieve_size => Ascends(m)
<1> DEFINE N == Segments(l, top)
           Good(t, k) ==
             /\ ListOfPrimes(t) /\ Begins(l, t) /\ AtMost(t, top) /\ AtMost(t, Start(l, k + 1) + 1)
             /\ \A n \in Nat : n <= top /\ n <= Start(l, k + 1) => Complete(t, n)
             /\ k = 0 => t = l
             /\ Ascends(l) /\ k <= 1 => Ascends(t)
           W == {k \in 0..N : \A t \in Lists(l, top)[k] : Good(t, k)}
<1>1. l \in Seq(Nat) /\ Last(l) \in Nat /\ Last(l) >= 29 /\ Last(l) % 2 = 1 /\ AtMost(l, Last(l)) /\ Complete(l, Last(l) + 1)
  BY LastIsOdd DEF ListOfPrimes
<1>2. /\ N \in Nat \ {0}
      /\ Sieved(l, top) = Lists(l, top)[N]
      /\ Lists(l, top)[0] = {l}
      /\ \A k \in 1..N : /\ Start(l, k) \in Nat /\ Finish(l, top, k) \in Nat
                         /\ Lists(l, top)[k] =
                              UNION {Segment(t, Start(l, k), Finish(l, top, k)) : t \in Lists(l, top)[k - 1]}
  BY <1>1, SegmentsRecurs
<1>3. /\ Start(l, 1) = Last(l) + 1
      /\ \A k \in 1..N : /\ Start(l, k) \in Nat /\ Start(l, k) >= Last(l) + 1 /\ Start(l, k) <= top
                         /\ Start(l, k + 1) = Start(l, k) + 2 * _sieve_size
                         /\ Start(l, k) % 2 = 0
      /\ Start(l, N + 1) > top
      /\ top <= 2 * _sieve_size => N = 1
  BY <1>1, Reach
<1> HIDE DEF N
<1>4. Good(l, 0)
  <2>1. AtMost(l, top) /\ AtMost(l, Last(l) + 2)
    <3>1. \A k \in 1..Len(l) : l[k] \in Nat
      BY Tail2
    <3> QED
      BY <1>1, <3>1 DEF AtMost
  <2>2. \A n \in Nat : n <= Last(l) + 1 => Complete(l, n)
    BY <1>1 DEF Complete
  <2>3. Start(l, 0 + 1) = Last(l) + 1
    BY <1>3
  <2>4. AtMost(l, Start(l, 0 + 1) + 1)
    BY <1>1, <2>1, <2>3
  <2> QED
    BY <1>1, <2>1, <2>2, <2>3, <2>4, BeginsReflexive
<1>5. ASSUME NEW k \in 1..N, k - 1 \in W, NEW t \in Lists(l, top)[k]
      PROVE  Good(t, k)
  <2> DEFINE start == Start(l, k)
             finish == Finish(l, top, k)
  <2>1. PICK b \in Lists(l, top)[k - 1] : t \in Segment(b, start, finish)
    BY <1>2, <1>5
  <2>2. k - 1 \in Nat /\ (k - 1) + 1 = k
    BY <1>2
  <2>3. Good(b, k - 1)
    BY <1>5, <2>1
  <2>4. /\ ListOfPrimes(b) /\ Begins(l, b) /\ AtMost(b, top) /\ AtMost(b, start + 1)
        /\ \A n \in Nat : n <= top /\ n <= start => Complete(b, n)
        /\ k = 1 => b = l
    BY <2>2, <2>3
  <2>5. /\ start \in Nat /\ start >= 30 /\ start <= top /\ start % 2 = 0
        /\ Start(l, k + 1) = start + 2 * _sieve_size
    BY <1>1, <1>3
  <2>6. finish \in Nat /\ finish <= top /\ finish <= start + 2 * _sieve_size + 1 /\ start <= finish
        /\ (finish = top \/ finish = start + 2 * _sieve_size + 1)
    BY <2>5, TheMin DEF Finish
  <2> HIDE DEF start, finish
  <2>7. AtMost(b, finish)
    <3>1. \A j \in 1..Len(b) : b[j] \in Nat
      BY <2>4, Tail2
    <3>2. \A j \in 1..Len(b) : b[j] <= top /\ b[j] <= start + 1
      BY <2>4 DEF AtMost
    <3>3. \A j \in 1..Len(b) : b[j] <= finish
      BY <2>5, <2>6, <3>1, <3>2
    <3> QED
      BY <3>3 DEF AtMost
  <2>8. Complete(b, r)
    <3>1. \A n : IsIn(n, l) => IsIn(n, b)
      BY <1>1, <2>4, BeginsReflexive, BeginsTransitive DEF ListOfPrimes
    <3> QED
      BY <3>1 DEF Complete
  <2>9. Covers(r, finish)
    BY <2>6 DEF Covers
  <2>10. Complete(b, start)
    BY <2>4, <2>5
  <2>11. /\ ListOfPrimes(t) /\ Begins(b, t) /\ AtMost(t, finish)
         /\ \A n \in Nat : n <= finish /\ n <= start + 2 * _sieve_size => Complete(t, n)
         /\ Ascends(b) /\ AtMost(b, start) => Ascends(t)
    BY <2>1, <2>4, <2>5, <2>6, <2>7, <2>8, <2>9, <2>10, SegmentSound
  <2>12. Begins(l, t)
    BY <1>1, <2>4, <2>11, BeginsTransitive DEF ListOfPrimes
  <2>13. AtMost(t, top) /\ AtMost(t, Start(l, k + 1) + 1)
    <3>1. \A j \in 1..Len(t) : t[j] \in Nat
      BY <2>11, Tail2
    <3>2. \A j \in 1..Len(t) : t[j] <= finish
      BY <2>11 DEF AtMost
    <3>3. \A j \in 1..Len(t) : t[j] <= top /\ t[j] <= Start(l, k + 1) + 1
      BY <2>5, <2>6, <3>1, <3>2
    <3> QED
      BY <3>3 DEF AtMost
  <2>14. ASSUME NEW n \in Nat, n <= top, n <= Start(l, k + 1)
         PROVE  Complete(t, n)
    <3>1. n <= finish /\ n <= start + 2 * _sieve_size
      BY <2>5, <2>6, <2>14
    <3> QED
      BY <2>11, <3>1
  <2>15. ASSUME Ascends(l), k <= 1
         PROVE  Ascends(t)
    <3>1. k = 1 /\ b = l /\ start = Last(l) + 1
      BY <1>3, <2>2, <2>4, <2>15 DEF start
    <3>2. \A j \in 1..Len(l) : l[j] \in Nat
      BY Tail2
    <3>3. AtMost(l, start)
      BY <1>1, <3>1, <3>2 DEF AtMost
    <3> QED
      BY <2>11, <2>15, <3>1, <3>3
  <2> QED
    BY <2>2, <2>11, <2>12, <2>13, <2>14, <2>15
<1> HIDE DEF Good
<1>6. \A k \in 0..N : k \in W
  <2>1. 0 \in W
    BY <1>2, <1>4
  <2>2. ASSUME NEW k \in 1..N, k - 1 \in W
        PROVE  k \in W
    <3>1. k \in 0..N
      BY <1>2
    <3> QED
      BY <1>5, <2>2, <3>1
  <2> HIDE DEF W
  <2> QED
    BY <1>2, <2>1, <2>2, CountUp
<1>7. Good(m, N)
  BY <1>2, <1>6
<1> QED
  BY <1>2, <1>3, <1>7 DEF Good

\* What _extend makes of a list that is complete up to its end.
LEMMA ExtendedSound ==
  ASSUME _sieve_size \in Nat \ {0},
         NEW l, ListOfPrimes(l), Complete(l, Last(l)),
         NEW top \in Nat,
         NEW m \in Extended(l, top)
  PROVE  /\ ListOfPrimes(m) /\ Begins(l, m) /\ Complete(m, top) /\ Complete(m, Last(m))
         /\ m = l \/ AtMost(m, top)
         /\ Ascends(l) /\ top <= 2 * _sieve_size => Ascends(m)
<1> DEFINE Step(f, n) == IF n <= Last(l) + 1 THEN {l}
                         ELSE UNION {Sieved(t, n) : t \in IF Isqrt(n) > Last(l) THEN f[Isqrt(n)] ELSE {l}}
           Body(f, j) == [n \in 0..j |-> Step(f, n)]
           P == {j \in 0..top : \E f : f = Body(f, j)}
<1>1. /\ l \in Seq(Nat) /\ Last(l) \in Nat /\ Last(l) >= 29 /\ Complete(l, Last(l) + 1)
  BY LastIsOdd DEF ListOfPrimes
<1>2. ASSUME NEW n \in Nat, n > Last(l) + 1
      PROVE  Isqrt(n) \in 0..(n - 1) /\ Isqrt(n) < n - 1 /\ Covers(Isqrt(n), n)
  <2>1. n > 3
    BY <1>1, <1>2
  <2>2. /\ Isqrt(n) \in 0..n /\ Isqrt(n) < n - 1
        /\ Covers(Isqrt(n), n)
    BY <2>1, Root DEF Covers
  <2> QED
    BY <2>2
\* The recursion is well-founded: the root is below the number.
<1>3. \A j \in 0..top : j \in P
  <2>1. 0 \in P
    <3>1. \A f : Body(f, 0) = [n \in 0..0 |-> {l}]
      BY <1>1
    <3>2. [n \in 0..0 |-> {l}] = Body([n \in 0..0 |-> {l}], 0)
      BY <3>1
    <3> HIDE DEF Body
    <3> QED
      BY <3>2
  <2>2. ASSUME NEW j \in 1..top, j - 1 \in P
        PROVE  j \in P
    <3>1. PICK f : f = Body(f, j - 1)
      BY <2>2
    <3> DEFINE g == Body(f, j)
    <3>2. ASSUME NEW n \in 0..(j - 1)
          PROVE  g[n] = f[n]
      <4>1. n \in 0..j
        OBVIOUS
      <4>2. g[n] = Step(f, n)
        BY <4>1
      <4>3. f[n] = Step(f, n)
        <5> DEFINE b == Body(f, j - 1)
        <5>1. b[n] = Step(f, n)
          OBVIOUS
        <5>2. b = f
          BY <3>1
        <5> HIDE DEF b
        <5> QED
          BY <5>1, <5>2
      <4> QED
        BY <4>2, <4>3
    <3>3. ASSUME NEW n \in 0..j
          PROVE  Step(f, n) = Step(g, n)
      <4>1. CASE n <= Last(l) + 1
        BY <4>1
      <4>2. CASE n > Last(l) + 1
        <5>1. Isqrt(n) \in 0..(j - 1)
          BY <1>2, <4>2
        <5>2. g[Isqrt(n)] = f[Isqrt(n)]
          BY <3>2, <5>1
        <5> HIDE DEF g
        <5> QED
          BY <5>2
      <4> QED
        BY <1>1, <4>1, <4>2
    <3>4. g = Body(g, j)
      <4> HIDE DEF Step
      <4> QED
        BY <3>3
    <3> HIDE DEF Body
    <3> QED
      BY <3>4
  <2> HIDE DEF P
  <2> QED
    BY <2>1, <2>2, CountUp
<1> DEFINE extended == CHOOSE h : h = Body(h, top)
<1>4. extended = Body(extended, top)
  <2>1. top \in P
    <3>1. top \in 0..top
      OBVIOUS
    <3> HIDE DEF P
    <3> QED
      BY <1>3, <3>1
  <2> HIDE DEF Body
  <2> QED
    BY <2>1
<1>5. Extended(l, top) = extended[top]
  BY DEF Extended
<1> HIDE DEF extended
<1>6. ASSUME NEW n \in 0..top
      PROVE  extended[n] = Step(extended, n)
  <2> DEFINE b == Body(extended, top)
  <2>1. b[n] = Step(extended, n)
    OBVIOUS
  <2>2. extended = b
    BY <1>4
  <2> HIDE DEF b, Step
  <2> QED
    BY <2>1, <2>2
<1> DEFINE Good(t, n) ==
             /\ ListOfPrimes(t) /\ Begins(l, t) /\ Complete(t, n) /\ Complete(t, Last(t))
             /\ t = l \/ AtMost(t, n)
             /\ Ascends(l) /\ n <= 2 * _sieve_size => Ascends(t)
           W == {n \in 0..top : \A j \in 0..n : \A t \in extended[j] : Good(t, j)}
<1>7. ASSUME NEW n \in 0..top, n <= Last(l) + 1, NEW t \in extended[n]
      PROVE  Good(t, n)
  <2>1. t = l
    BY <1>6, <1>7
  <2>2. Complete(l, n)
    BY <1>1, <1>7 DEF Complete
  <2> QED
    BY <1>1, <2>1, <2>2, BeginsReflexive
<1>8. ASSUME NEW n \in 0..top, n > Last(l) + 1, \A j \in 0..(n - 1) : \A t \in extended[j] : Good(t, j),
             NEW t \in extended[n]
      PROVE  Good(t, n)
  <2> DEFINE root == Isqrt(n)
  <2>1. root \in 0..(n - 1) /\ root < n - 1 /\ Covers(root, n)
    BY <1>2, <1>8
  <2>2. PICK b \in IF root > Last(l) THEN extended[root] ELSE {l} : t \in Sieved(b, n)
    <3>1. t \in Step(extended, n)
      BY <1>6, <1>8
    <3> QED
      BY <1>1, <1>8, <3>1
  <2> HIDE DEF root
  <2>3. /\ ListOfPrimes(b) /\ Begins(l, b) /\ Complete(b, root) /\ Complete(b, Last(b))
        /\ b = l \/ AtMost(b, root)
        /\ Ascends(l) /\ n <= 2 * _sieve_size => Ascends(b)
    <3>1. CASE root > Last(l)
      <4>1. Good(b, root)
        BY <1>8, <2>1, <2>2, <3>1
      <4>2. n <= 2 * _sieve_size => root <= 2 * _sieve_size
        BY <2>1
      <4> QED
        BY <4>1, <4>2
    <3>2. CASE root <= Last(l)
      <4>1. b = l
        BY <1>1, <2>1, <2>2, <3>2
      <4>2. Complete(l, root)
        BY <1>1, <2>1, <3>2 DEF Complete
      <4> QED
        BY <1>1, <4>1, <4>2, BeginsReflexive
    <3> QED
      BY <1>1, <2>1, <3>1, <3>2
  <2>4. Last(b) \in Nat /\ Last(b) < n
    <3>1. Last(b) \in Nat /\ Last(b) = b[Len(b)] /\ Len(b) \in 1..Len(b)
      BY <2>3, LastIsOdd, Tail2
    <3>2. CASE b = l
      BY <1>1, <1>8, <3>2
    <3>3. CASE AtMost(b, root)
      <4>1. Last(b) <= root
        BY <3>1, <3>3 DEF AtMost
      <4> QED
        BY <2>1, <3>1, <4>1
    <3> QED
      BY <2>3, <3>1, <3>2, <3>3
  <2>5. /\ ListOfPrimes(t) /\ Begins(b, t) /\ AtMost(t, n) /\ Complete(t, n)
        /\ Ascends(b) /\ n <= 2 * _sieve_size => Ascends(t)
    BY <2>1, <2>2, <2>3, <2>4, SievedSound
  <2>6. Begins(l, t)
    BY <1>1, <2>3, <2>5, BeginsTransitive DEF ListOfPrimes
  <2>7. Complete(t, Last(t))
    <3>1. Last(t) \in Nat /\ Last(t) = t[Len(t)] /\ Len(t) \in 1..Len(t)
      BY <2>5, LastIsOdd, Tail2
    <3>2. Last(t) <= n
      BY <2>5, <3>1 DEF AtMost
    <3> QED
      BY <2>5, <3>1, <3>2 DEF Complete
  <2> QED
    BY <2>3, <2>5, <2>6, <2>7
<1> HIDE DEF Good
<1>9. \A n \in 0..top : n \in W
  <2>1. 0 \in W
    <3>1. \A t \in extended[0] : Good(t, 0)
      BY <1>1, <1>7
    <3> QED
      BY <3>1
  <2>2. ASSUME NEW n \in 1..top, n - 1 \in W
        PROVE  n \in W
    <3>1. \A j \in 0..(n - 1) : \A t \in extended[j] : Good(t, j)
      BY <2>2
    <3>2. \A t \in extended[n] : Good(t, n)
      BY <1>1, <1>7, <1>8, <3>1
    <3>3. \A j \in 0..n : j \in 0..(n - 1) \/ j = n
      OBVIOUS
    <3> QED
      BY <3>1, <3>2, <3>3
  <2> HIDE DEF W
  <2> QED
    BY <2>1, <2>2, CountUp
<1>10. Good(m, top)
  BY <1>5, <1>9
<1> QED
  BY <1>10 DEF Good

-----------------------------------------------------------------------------
(* Beginnings of lists *)

\* The primes that the list begins with.
LEMMA SmallPrimes ==
  ASSUME NEW n \in 2..29
  PROVE  IsPrime(n) <=> n \in {2, 3, 5, 7, 11, 13, 17, 19, 23, 29}
<1>1. ASSUME n \in {2, 3, 5, 7, 11, 13, 17, 19, 23, 29}
      PROVE  IsPrime(n)
  <2> SUFFICES ASSUME ~IsPrime(n) PROVE FALSE
    OBVIOUS
  <2>1. PICK d \in Nat : IsPrime(d) /\ d * d <= n /\ n % d = 0
    BY SmallDivisor
  <2>2. d > 1
    BY <2>1 DEF IsPrime
  <2>3. d < 6
    <3>1. d * d < 6 * 6
      BY <2>1
    <3> QED
      BY <3>1, SquaresGrow
  <2>4. d = 2 \/ d = 3 \/ d = 4 \/ d = 5
    BY <2>2, <2>3
  <2>5. CASE d = 2
    BY <1>1, <2>1, <2>5
  <2>6. CASE d = 3
    BY <1>1, <2>1, <2>6
  <2>7. CASE d = 4
    BY <1>1, <2>1, <2>7
  <2>8. CASE d = 5
    BY <1>1, <2>1, <2>8
  <2> QED
    BY <2>4, <2>5, <2>6, <2>7, <2>8
<1>2. ASSUME n \notin {2, 3, 5, 7, 11, 13, 17, 19, 23, 29}
      PROVE  ~IsPrime(n)
  <2>1. (n % 2 = 0 /\ n > 2) \/ (n % 3 = 0 /\ n > 3) \/ (n % 5 = 0 /\ n > 5)
    BY <1>2
  <2> QED
    BY <2>1, OnlyItself
<1> QED
  BY <1>1, <1>2

LEMMA FirstTenSound ==
  /\ FirstTen \in Seq(Nat) /\ Len(FirstTen) = 10 /\ Last(FirstTen) = 29
  /\ ListOfPrimes(FirstTen) /\ Complete(FirstTen, 29) /\ Ascends(FirstTen) /\ AtMost(FirstTen, 29)
<1>1. FirstTen \in Seq(Nat) /\ Len(FirstTen) = 10 /\ Last(FirstTen) = 29
  BY DEF FirstTen, Last
<1>2. \A k \in 1..10 : FirstTen[k] \in {2, 3, 5, 7, 11, 13, 17, 19, 23, 29} /\ FirstTen[k] \in 2..29
  BY DEF FirstTen
<1>3. \A n \in {2, 3, 5, 7, 11, 13, 17, 19, 23, 29} : \E k \in 1..10 : FirstTen[k] = n
  BY DEF FirstTen
<1>9. \A k : k \in 1..Len(FirstTen) <=> k \in 1..10
  BY <1>1
<1>4. Ascends(FirstTen)
  <2>1. \A k \in 1..9 : FirstTen[k] < FirstTen[k + 1]
    BY DEF FirstTen
  <2> SUFFICES ASSUME NEW h \in 1..10, NEW k \in 1..10, h < k
               PROVE  FirstTen[h] < FirstTen[k]
    BY <1>1 DEF Ascends
  <2> QED
    BY DEF FirstTen
<1>5. Sorted(FirstTen)
  <2> SUFFICES ASSUME NEW h \in 1..10, NEW k \in 1..10, h <= k
               PROVE  FirstTen[h] <= FirstTen[k]
    BY <1>9 DEF Sorted
  <2>1. FirstTen[h] \in Nat /\ FirstTen[k] \in Nat
    BY <1>2
  <2>2. CASE h = k
    BY <2>1, <2>2
  <2>3. CASE h < k
    BY <1>4, <1>9, <2>1, <2>3 DEF Ascends
  <2> QED
    BY <2>2, <2>3
<1>6. AllPrime(FirstTen)
  BY <1>1, <1>2, SmallPrimes DEF AllPrime
<1>7. Complete(FirstTen, 29)
  <2> SUFFICES ASSUME NEW q \in Nat, IsPrime(q), q <= 29
               PROVE  IsIn(q, FirstTen)
    BY DEF Complete
  <2>1. q \in 2..29
    BY DEF IsPrime
  <2>2. q \in {2, 3, 5, 7, 11, 13, 17, 19, 23, 29}
    BY <2>1, SmallPrimes
  <2>3. PICK k \in 1..10 : FirstTen[k] = q
    BY <1>3, <2>2
  <2> QED
    BY <1>9, <2>3 DEF IsIn
<1>8. AtMost(FirstTen, 29)
  <2> SUFFICES ASSUME NEW k \in 1..10
               PROVE  FirstTen[k] <= 29
    BY <1>9 DEF AtMost
  <2> QED
    BY <1>2
<1> QED
  BY <1>1, <1>4, <1>5, <1>6, <1>7, <1>8, BeginsReflexive DEF ListOfPrimes

\* The elements decide what a sequence is a sequence of.
LEMMA ElementsIn ==
  ASSUME NEW S, NEW T, NEW s \in Seq(S), \A k \in 1..Len(s) : s[k] \in T
  PROVE  s \in Seq(T)
<1>1. Len(s) \in Nat /\ s = [k \in 1..Len(s) |-> s[k]]
  BY LenProperties
<1> DEFINE n == Len(s)
<1>2. n \in Nat /\ s \in [1..n -> T]
  BY <1>1
<1> HIDE DEF n
<1> QED
  BY <1>2, SeqDef

\* How far a list goes that is cut to its first n numbers.
LEMMA Cut ==
  ASSUME NEW T, NEW s \in Seq(T), NEW n \in 0..Len(s)
  PROVE  /\ SubSeq(s, 1, n) \in Seq(T) /\ Len(SubSeq(s, 1, n)) = n
         /\ \A k \in 1..n : SubSeq(s, 1, n)[k] = s[k]
<1>1. Len(s) \in Nat
  BY LenProperties
<1> QED
  BY <1>1, SubSeqProperties

\* Where the list passes a limit.
LEMMA UpperBound ==
  ASSUME NEW l \in Seq(Nat), Sorted(l), NEW top \in Nat
  PROVE  /\ upper_bound(l, top) \in 0..Len(l)
         /\ \A k \in 1..Len(l) : l[k] <= top <=> k <= upper_bound(l, top)
<1>1. Len(l) \in Nat /\ DOMAIN l = 1..Len(l) /\ \A k \in 1..Len(l) : l[k] \in Nat
  BY ElementOfSeq, LenProperties
<1> DEFINE S == {k \in 1..(Len(l) + 1) : k = Len(l) + 1 \/ l[k] > top}
           D == {k \in DOMAIN l : l[k] <= top}
<1>2. S \in SUBSET Nat /\ Len(l) + 1 \in S
  BY <1>1
<1>3. PICK e \in S : \A k \in S : e <= k
  BY <1>2, LeastNumber
<1>4. e \in 1..(Len(l) + 1)
  OBVIOUS
<1>5. ASSUME NEW k \in 1..Len(l)
      PROVE  l[k] <= top <=> k <= e - 1
  <2>1. CASE k <= e - 1
    <3>1. k \notin S
      BY <1>1, <1>3, <1>4, <2>1
    <3> QED
      BY <1>1, <2>1, <3>1
  <2>2. CASE e <= k
    <3>1. l[e] > top /\ e \in 1..Len(l)
      BY <1>1, <1>4, <2>2
    <3>2. l[e] <= l[k]
      BY <2>2, <3>1 DEF Sorted
    <3> QED
      BY <1>1, <1>4, <2>2, <3>1, <3>2
  <2> QED
    BY <1>1, <1>4, <2>1, <2>2
<1>6. D = 1..(e - 1)
  <2>1. \A k \in 1..(e - 1) : k \in 1..Len(l)
    BY <1>1, <1>4
  <2>2. \A k \in 1..Len(l) : k <= e - 1 => k \in 1..(e - 1)
    BY <1>1, <1>4
  <2> QED
    BY <1>1, <1>4, <1>5, <2>1, <2>2
<1>7. Cardinality(1..(e - 1)) = e - 1
  BY <1>1, <1>4, FS_Interval
<1>8. upper_bound(l, top) = e - 1
  <2>1. upper_bound(l, top) = Cardinality(D)
    BY DEF upper_bound
  <2> HIDE DEF D
  <2> QED
    BY <1>6, <1>7, <2>1
<1> HIDE DEF S, D
<1> QED
  BY <1>1, <1>4, <1>5, <1>8

-----------------------------------------------------------------------------
(* The list is sound, whatever the sizes of the segments *)

\* What Store leaves in the memory, and the list it leaves.
LEMMA Stored ==
  ASSUME NEW T, buffer \in Seq(T), NEW l \in Seq(T), NEW n \in 0..Len(l), Store(l, n)
  PROVE  /\ buffer' \in Seq(T) /\ size' = n
         /\ Len(buffer') >= Len(l) /\ Len(buffer') >= Len(buffer)
         /\ Len(buffer') = Len(l) \/ Len(buffer') = Len(buffer)
         /\ \A k \in 1..Len(l) : buffer'[k] = l[k]
         /\ \A k \in 1..Len(buffer') : k > Len(l) => k \in 1..Len(buffer) /\ buffer'[k] = buffer[k]
         /\ _primes' = SubSeq(l, 1, n)
<1> DEFINE t == SubSeq(buffer, Len(l) + 1, Len(buffer))
           b == l \o t
<1>1. Len(l) \in Nat /\ Len(buffer) \in Nat
  BY LenProperties
<1>2. /\ t \in Seq(T) /\ Len(t) = IF Len(l) + 1 <= Len(buffer) THEN Len(buffer) - Len(l) ELSE 0
      /\ \A j \in 1..Len(t) : t[j] = buffer[Len(l) + j]
  <2>1. \A j \in (Len(l) + 1)..Len(buffer) : buffer[j] \in T
    BY <1>1, ElementOfSeq
  <2>2. /\ t \in Seq(T)
        /\ Len(t) = IF Len(l) + 1 <= Len(buffer) THEN Len(buffer) - (Len(l) + 1) + 1 ELSE 0
        /\ \A j \in 1..(Len(buffer) - (Len(l) + 1) + 1) : t[j] = buffer[(Len(l) + 1) + j - 1]
    BY <1>1, <2>1, SubSeqProperties
  <2> HIDE DEF t
  <2>3. ASSUME NEW j \in 1..Len(t)
        PROVE  t[j] = buffer[Len(l) + j]
    <3>1. j \in 1..(Len(buffer) - (Len(l) + 1) + 1) /\ (Len(l) + 1) + j - 1 = Len(l) + j
      BY <1>1, <2>2
    <3> QED
      BY <2>2, <3>1
  <2> QED
    BY <1>1, <2>2, <2>3
<1> HIDE DEF t
<1>3. /\ b \in Seq(T) /\ Len(b) = Len(l) + Len(t)
      /\ \A k \in 1..Len(b) : b[k] = IF k <= Len(l) THEN l[k] ELSE t[k - Len(l)]
  BY <1>2, ConcatProperties
<1>4. buffer' = b /\ size' = n
  BY DEF Store, t
<1> HIDE DEF b
<1>5. Len(b) >= Len(l) /\ Len(b) >= Len(buffer) /\ (Len(b) = Len(l) \/ Len(b) = Len(buffer))
  BY <1>1, <1>2, <1>3
<1>6. \A k \in 1..Len(l) : k \in 1..Len(b) /\ b[k] = l[k]
  BY <1>1, <1>3, <1>5
<1>7. ASSUME NEW k \in 1..Len(b), k > Len(l)
      PROVE  k \in 1..Len(buffer) /\ b[k] = buffer[k]
  <2>1. k - Len(l) \in 1..Len(t) /\ k \in 1..Len(buffer) /\ Len(l) + (k - Len(l)) = k
    BY <1>1, <1>2, <1>3, <1>7
  <2>2. b[k] = t[k - Len(l)]
    BY <1>1, <1>3, <1>7
  <2> QED
    BY <1>2, <2>1, <2>2
<1>8. _primes' = SubSeq(l, 1, n)
  <2> DEFINE x == SubSeq(b, 1, n)
             y == SubSeq(l, 1, n)
  <2>1. n \in 0..Len(b)
    BY <1>1, <1>3, <1>5
  <2>2. x \in Seq(T) /\ Len(x) = n /\ \A k \in 1..n : x[k] = b[k]
    BY <1>3, <2>1, Cut
  <2>3. y \in Seq(T) /\ Len(y) = n /\ \A k \in 1..n : y[k] = l[k]
    BY Cut
  <2>4. _primes' = x
    BY <1>4 DEF _primes
  <2> HIDE DEF x, y
  <2>5. \A k \in 1..n : x[k] = y[k]
    BY <1>1, <1>6, <2>2, <2>3
  <2>6. x = y
    BY <2>2, <2>3, <2>5, SeqEqual
  <2> QED
    BY <2>4, <2>6 DEF y
<1> QED
  BY <1>3, <1>4, <1>5, <1>6, <1>7, <1>8

\* A list with nothing missing up to its end.
IsList(l) == ListOfPrimes(l) /\ Complete(l, Last(l))

\* The list, and the memory behind it.
MemoryInv ==
  /\ buffer \in Seq(Nat) /\ size \in 10..Len(buffer)
  /\ IsList(_primes)
  /\ \A k \in 1..Len(buffer) : IsPrime(buffer[k])

IterType == [_index : Nat, _limit : IterLimits]

UsersInv ==
  /\ iter \in [Iters -> IterType \cup {None}] /\ p \in [Iters -> Nat]
  /\ \A i \in Iters : iter[i] = None => p[i] = 0
  /\ \A i \in Iters : iter[i] # None =>
       /\ iter[i]._index <= Len(buffer)
       /\ p[i] = 0 \/ IsPrime(p[i]) \/ p[i] = iter[i]._limit + 1

GivenInv ==
  /\ primes = <<>> \/ \E l \in ListLimits : Range(primes) = {n \in 2..l : IsPrime(n)}
  /\ \A h, k \in DOMAIN primes : h <= k => primes[h] <= primes[k]

\* The inductive invariant of ListSound.
SoundInv == _sieve_size \in Nat \ {0} /\ MemoryInv /\ UsersInv /\ GivenInv

\* The list cut back to its first ten.
LEMMA CutBack ==
  ASSUME NEW l, ListOfPrimes(l)
  PROVE  SubSeq(l, 1, 10) = FirstTen /\ IsList(FirstTen)
<1>1. /\ FirstTen \in Seq(Nat) /\ Len(FirstTen) = 10 /\ IsList(FirstTen)
  BY FirstTenSound DEF IsList
<1>2. l \in Seq(Nat) /\ Len(l) \in Nat /\ Len(l) >= 10
  BY Tail2 DEF ListOfPrimes
<1> DEFINE y == SubSeq(l, 1, 10)
<1>3. y \in Seq(Nat) /\ Len(y) = 10 /\ \A k \in 1..10 : y[k] = l[k]
  <2>1. 10 \in 0..Len(l)
    BY <1>2
  <2> QED
    BY <1>2, <2>1, Cut
<1> HIDE DEF y
<1>4. \A k \in 1..10 : y[k] = FirstTen[k]
  <2>1. \A k \in 1..10 : l[k] = FirstTen[k]
    BY <1>1 DEF ListOfPrimes, Begins
  <2> QED
    BY <1>3, <2>1
<1>5. y = FirstTen
  <2>1. FirstTen \in Seq(Nat) /\ Len(y) = Len(FirstTen) /\ \A k \in 1..Len(y) : y[k] = FirstTen[k]
    BY <1>1, <1>3, <1>4
  <2> QED
    BY <1>3, <2>1, SeqEqual
<1> QED
  BY <1>1, <1>5 DEF y

\* The list becomes another one, all of it or cut back.
LEMMA Grown ==
  ASSUME MemoryInv, NEW l, IsList(l), NEW n \in {10, Len(l)}, Store(l, n)
  PROVE  /\ MemoryInv'
         /\ Len(buffer') >= Len(l) /\ Len(buffer') >= Len(buffer)
<1>1. /\ l \in Seq(Nat) /\ Len(l) \in Nat /\ Len(l) >= 10 /\ n \in 0..Len(l) /\ n \in 10..Len(l)
      /\ \A k \in 1..Len(l) : IsPrime(l[k])
  BY Tail2 DEF IsList, ListOfPrimes, AllPrime
<1>2. /\ buffer' \in Seq(Nat) /\ size' = n
      /\ Len(buffer') >= Len(l) /\ Len(buffer') >= Len(buffer)
      /\ \A k \in 1..Len(l) : buffer'[k] = l[k]
      /\ \A k \in 1..Len(buffer') : k > Len(l) => k \in 1..Len(buffer) /\ buffer'[k] = buffer[k]
      /\ _primes' = SubSeq(l, 1, n)
  BY <1>1, Stored DEF MemoryInv
<1>3. Len(buffer') \in Nat
  BY <1>2, LenProperties
<1>4. size' \in 10..Len(buffer')
  BY <1>1, <1>2, <1>3
<1>5. ASSUME NEW k \in 1..Len(buffer')
      PROVE  IsPrime(buffer'[k])
  <2>1. CASE k \in 1..Len(l)
    BY <1>1, <1>2, <2>1
  <2>2. CASE k > Len(l)
    BY <1>2, <2>2 DEF MemoryInv
  <2> QED
    BY <1>1, <1>3, <2>1, <2>2
<1>6. IsList(_primes')
  <2>1. CASE n = 10
    BY <1>2, <2>1, CutBack DEF IsList
  <2>2. CASE n = Len(l)
    <3>1. SubSeq(l, 1, n) = l
      BY <1>1, <2>2, SubSeqFull
    <3> QED
      BY <1>2, <3>1
  <2> QED
    BY <2>1, <2>2
<1>7. IsList(_primes)'
  BY <1>6 DEF IsList, ListOfPrimes, Complete, Begins, Sorted, AllPrime, IsIn, IsPrime, FirstTen
<1> QED
  BY <1>2, <1>4, <1>5, <1>7 DEF MemoryInv, IsPrime

\* The start.
LEMMA SoundInit ==
  ASSUME Init
  PROVE  SoundInv
<1>1. /\ FirstTen \in Seq(Nat) /\ Len(FirstTen) = 10 /\ IsList(FirstTen)
      /\ \A k \in 1..10 : IsPrime(FirstTen[k])
  BY FirstTenSound DEF IsList, ListOfPrimes, AllPrime
<1>2. _primes = FirstTen
  <2>1. SubSeq(FirstTen, 1, 10) = FirstTen
    BY <1>1, CutBack DEF IsList
  <2> QED
    BY <2>1 DEF Init, _primes
<1>3. MemoryInv
  BY <1>1, <1>2 DEF Init, MemoryInv
<1>4. UsersInv
  BY DEF Init, UsersInv
<1>5. GivenInv
  BY DEF Init, GivenInv
<1>6. _sieve_size \in Nat \ {0}
  BY DEF Init
<1> QED
  BY <1>3, <1>4, <1>5, <1>6 DEF SoundInv

\* What Extended may return, from the list there is.
LEMMA ExtendedFromHere ==
  ASSUME SoundInv, NEW top \in Nat, NEW l \in Extended(_primes, top)
  PROVE  /\ IsList(l) /\ Begins(_primes, l) /\ Complete(l, top)
         /\ l = _primes \/ AtMost(l, top)
         /\ Ascends(_primes) /\ top <= 2 * _sieve_size => Ascends(l)
BY ExtendedSound DEF SoundInv, MemoryInv, IsList

\* The number an iterator has given last is where it was.
LEMMA ExtendToType ==
  ASSUME MemoryInv, UsersInv, NEW i \in Iters, iter[i] # None, iter[i]._index >= size
  PROVE  /\ iter[i]._index \in 1..Len(buffer) /\ buffer[iter[i]._index] \in Nat
         /\ ExtendTo(iter[i]) \in Nat
         /\ ExtendTo(iter[i]) <= 2 * buffer[iter[i]._index]
         /\ \/ ExtendTo(iter[i]) = 2 * buffer[iter[i]._index]
            \/ ExtendTo(iter[i]) = iter[i]._limit /\ iter[i]._limit > 0
<1>1. iter[i] \in IterType /\ iter[i]._index \in Nat /\ iter[i]._limit \in Nat
  BY LimitsAssumption DEF UsersInv, IterType
<1>2. Len(buffer) \in Nat /\ size \in Nat /\ size >= 10
  BY LenProperties DEF MemoryInv
<1>3. iter[i]._index \in 1..Len(buffer)
  BY <1>1, <1>2 DEF UsersInv
<1>4. buffer[iter[i]._index] \in Nat
  BY <1>3, ElementOfSeq DEF MemoryInv
<1> QED
  BY <1>1, <1>3, <1>4 DEF ExtendTo

\* Steps that leave the list alone, or make it longer.
LEMMA UsersStay ==
  ASSUME UsersInv, buffer \in Seq(Nat), buffer' \in Seq(Nat), Len(buffer') >= Len(buffer), iter' = iter, p' = p
  PROVE  UsersInv'
<1>1. Len(buffer) \in Nat /\ Len(buffer') \in Nat
  BY LenProperties
<1>2. ASSUME NEW i \in Iters, iter[i] # None
      PROVE  iter[i]._index \in Nat
  BY <1>2 DEF UsersInv, IterType
<1>3. ASSUME NEW i \in Iters, iter'[i] # None
      PROVE  /\ iter'[i]._index <= Len(buffer')
             /\ p'[i] = 0 \/ IsPrime(p'[i]) \/ p'[i] = iter'[i]._limit + 1
  BY <1>1, <1>2, <1>3 DEF UsersInv
<1> QED
  BY <1>3 DEF UsersInv, IsPrime

\* generate_primes returns all primes up to its limit and no other number, in
\* ascending order.
LEMMA GivenAll ==
  ASSUME NEW l, IsList(l), NEW top \in Nat, Complete(l, top)
  PROVE  LET s == SubSeq(l, 1, upper_bound(l, top))
         IN  /\ Range(s) = {n \in 2..top : IsPrime(n)}
             /\ \A h, k \in DOMAIN s : h <= k => s[h] <= s[k]
<1> DEFINE n == upper_bound(l, top)
           s == SubSeq(l, 1, n)
<1> SUFFICES /\ Range(s) = {q \in 2..top : IsPrime(q)}
             /\ \A h, k \in DOMAIN s : h <= k => s[h] <= s[k]
  OBVIOUS
<1>1. l \in Seq(Nat) /\ Sorted(l) /\ Len(l) \in Nat /\ \A k \in 1..Len(l) : l[k] \in Nat /\ IsPrime(l[k])
  BY Tail2 DEF IsList, ListOfPrimes, AllPrime
<1>2. n \in 0..Len(l) /\ \A k \in 1..Len(l) : l[k] <= top <=> k <= n
  BY <1>1, UpperBound
<1> HIDE DEF n
<1>3. s \in Seq(Nat) /\ Len(s) = n /\ \A k \in 1..n : s[k] = l[k]
  BY <1>1, <1>2, Cut
<1>4. DOMAIN s = 1..n
  BY <1>3, LenProperties
<1> HIDE DEF s
<1>5. ASSUME NEW k \in 1..n
      PROVE  s[k] \in 2..top /\ IsPrime(s[k])
  <2>1. k \in 1..Len(l) /\ k <= n
    BY <1>1, <1>2
  <2>2. l[k] \in Nat /\ IsPrime(l[k]) /\ l[k] <= top
    BY <1>1, <1>2, <2>1
  <2>3. l[k] > 1
    BY <2>2 DEF IsPrime
  <2> QED
    BY <1>3, <2>2, <2>3
<1>6. ASSUME NEW q \in 2..top, IsPrime(q)
      PROVE  \E k \in 1..n : s[k] = q
  <2>1. PICK k \in 1..Len(l) : l[k] = q
    BY <1>6 DEF Complete, IsIn
  <2>2. k \in 1..n
    BY <1>1, <1>2, <2>1
  <2> QED
    BY <1>3, <2>1, <2>2
<1>7. Range(s) = {q \in 2..top : IsPrime(q)}
  BY <1>4, <1>5, <1>6 DEF Range
<1>8. \A h, k \in DOMAIN s : h <= k => s[h] <= s[k]
  <2>1. \A k \in 1..n : k \in 1..Len(l)
    BY <1>1, <1>2
  <2> QED
    BY <1>1, <1>3, <1>4, <2>1 DEF Sorted
<1> QED
  BY <1>7, <1>8

LEMMA PrimesCalled ==
  ASSUME SoundInv, NEW top \in ListLimits, generate_primes(top)
  PROVE  SoundInv'
<1>1. top \in Nat
  BY BoundAssumption, LimitsAssumption
<1>2. PICK l \in Extended(_primes, top) :
        /\ primes' = SubSeq(l, 1, upper_bound(l, top))
        /\ Store(l, IF _clear THEN 10 ELSE Len(l))
        /\ UNCHANGED <<_clear, _sieve_size, iter, p>>
  BY DEF generate_primes
<1>3. IsList(l) /\ Complete(l, top)
  BY <1>1, ExtendedFromHere
<1>4. MemoryInv' /\ Len(buffer') >= Len(buffer)
  BY <1>2, <1>3, Grown DEF SoundInv
<1>5. UsersInv'
  BY <1>2, <1>4, UsersStay DEF SoundInv, MemoryInv
<1>6. GivenInv'
  BY <1>1, <1>2, <1>3, GivenAll DEF GivenInv, IsPrime
<1> QED
  BY <1>2, <1>4, <1>5, <1>6 DEF SoundInv

LEMMA NextPrimeCalled ==
  ASSUME SoundInv, NEW i \in Iters, next_prime(i)
  PROVE  SoundInv'
<1> DEFINE it == iter[i]
<1>1. it # None /\ it \in IterType /\ it._index \in Nat /\ it._limit \in IterLimits /\ it._limit \in Nat
  BY LimitsAssumption DEF next_prime, SoundInv, UsersInv, IterType
<1>2. PICK l \in IF it._index < size THEN {_primes} ELSE Extended(_primes, ExtendTo(it)) :
        /\ Store(l, Len(l))
        /\ IF it._index < Len(l) THEN Give(i, l[it._index + 1], it._index + 1)
                                 ELSE Give(i, it._limit + 1, it._index)
  BY DEF next_prime
<1>3. UNCHANGED <<_clear, _sieve_size, primes>>
  BY DEF next_prime
<1>4. IsList(l)
  <2>1. CASE it._index < size
    BY <1>2, <2>1 DEF SoundInv, MemoryInv
  <2>2. CASE ~ (it._index < size)
    <3>1. it._index >= size
      BY <1>1, <2>2, LenProperties DEF SoundInv, MemoryInv
    <3>2. ExtendTo(it) \in Nat
      BY <1>1, <3>1, ExtendToType DEF SoundInv
    <3> QED
      BY <1>2, <2>2, <3>2, ExtendedFromHere
  <2> QED
    BY <2>1, <2>2
<1>5. MemoryInv' /\ Len(buffer') >= Len(l) /\ Len(buffer') >= Len(buffer)
  BY <1>2, <1>4, Grown DEF SoundInv
<1>6. Len(buffer) \in Nat /\ Len(buffer') \in Nat
  BY <1>5, LenProperties DEF SoundInv, MemoryInv
<1>7. /\ Len(l) \in Nat
      /\ \A k \in 1..Len(l) : l[k] \in Nat /\ IsPrime(l[k])
  BY <1>4, Tail2 DEF IsList, ListOfPrimes, AllPrime
\* What it gives, and where it is then.
<1>8. PICK n \in Nat, index \in Nat :
        /\ Give(i, n, index)
        /\ index <= Len(buffer')
        /\ IsPrime(n) \/ n = it._limit + 1
  <2>1. CASE it._index < Len(l)
    <3>1. it._index + 1 \in 1..Len(l) /\ it._index + 1 <= Len(buffer')
      BY <1>1, <1>5, <1>6, <1>7, <2>1
    <3> QED
      BY <1>2, <1>7, <2>1, <3>1
  <2>2. CASE ~ (it._index < Len(l))
    <3>1. it._index <= Len(buffer')
      BY <1>1, <1>5, <1>6 DEF SoundInv, UsersInv
    <3> QED
      BY <1>1, <1>2, <2>2, <3>1
  <2> QED
    BY <2>1, <2>2
<1> DEFINE new == [it EXCEPT !._index = index]
<1>9. new \in IterType /\ new._index = index /\ new._limit = it._limit /\ new # None
  BY <1>1, NoneAssumption DEF IterType
<1> HIDE DEF new
<1>10. iter' = [iter EXCEPT ![i] = new] /\ p' = [p EXCEPT ![i] = n]
  BY <1>8 DEF Give, new
<1>11. UsersInv'
  <2>1. iter' \in [Iters -> IterType \cup {None}] /\ p' \in [Iters -> Nat]
    BY <1>9, <1>10 DEF SoundInv, UsersInv
  <2>2. ASSUME NEW j \in Iters
        PROVE  /\ iter'[j] = None => p'[j] = 0
               /\ iter'[j] # None =>
                    /\ iter'[j]._index <= Len(buffer')
                    /\ p'[j] = 0 \/ IsPrime(p'[j]) \/ p'[j] = iter'[j]._limit + 1
    <3>1. CASE j = i
      <4>1. iter'[j] = new /\ p'[j] = n
        BY <1>10, <3>1 DEF SoundInv, UsersInv
      <4> QED
        BY <1>8, <1>9, <4>1
    <3>2. CASE j # i
      <4>1. iter'[j] = iter[j] /\ p'[j] = p[j]
        BY <1>10, <3>2 DEF SoundInv, UsersInv
      <4>2. iter[j] # None => iter[j]._index \in Nat
        BY DEF SoundInv, UsersInv, IterType
      <4>3. iter[j] # None => iter[j]._index <= Len(buffer')
        BY <1>5, <1>6, <4>2 DEF SoundInv, UsersInv
      <4> QED
        BY <4>1, <4>3 DEF SoundInv, UsersInv
    <3> QED
      BY <3>1, <3>2
  <2> QED
    BY <2>1, <2>2 DEF UsersInv, IsPrime
<1>12. GivenInv'
  BY <1>3 DEF SoundInv, GivenInv, IsPrime
<1> QED
  BY <1>3, <1>5, <1>11, <1>12 DEF SoundInv

\* The list is what it was, or is cut back; the rest of the memory stays.
LEMMA MemoryStays ==
  ASSUME MemoryInv, buffer' = buffer, size' = size \/ size' = 10
  PROVE  MemoryInv'
<1>1. buffer \in Seq(Nat) /\ Len(buffer) \in Nat /\ size \in 10..Len(buffer) /\ size' \in 10..Len(buffer)
  BY LenProperties DEF MemoryInv
<1>2. CASE size' = size
  <2>1. _primes' = _primes
    BY <1>2 DEF _primes
  <2> QED
    BY <1>2, <2>1 DEF MemoryInv, IsList, ListOfPrimes, Complete, Begins, Sorted, AllPrime, IsIn, IsPrime, FirstTen
<1>3. CASE size' = 10
  <2> DEFINE x == SubSeq(buffer, 1, 10)
             y == SubSeq(_primes, 1, 10)
  <2>1. y = FirstTen /\ IsList(FirstTen)
    BY CutBack DEF MemoryInv, IsList
  <2>2. _primes \in Seq(Nat) /\ Len(_primes) = size /\ \A k \in 1..size : _primes[k] = buffer[k]
    <3>1. size \in 0..Len(buffer)
      BY <1>1
    <3> QED
      BY <1>1, <3>1, Cut DEF _primes
  <2>3. 10 \in 0..Len(buffer) /\ 10 \in 0..Len(_primes) /\ \A k \in 1..10 : k \in 1..size
    BY <1>1, <2>2
  <2>4. x \in Seq(Nat) /\ Len(x) = 10 /\ \A k \in 1..10 : x[k] = buffer[k]
    BY <1>1, <2>3, Cut
  <2>5. y \in Seq(Nat) /\ Len(y) = 10 /\ \A k \in 1..10 : y[k] = _primes[k]
    BY <2>2, <2>3, Cut
  <2>6. _primes' = x
    BY <1>3 DEF _primes
  <2> HIDE DEF x, y
  <2>7. x = y
    BY <2>2, <2>3, <2>4, <2>5, SeqEqual
  <2>8. IsList(_primes')
    BY <2>1, <2>6, <2>7
  <2>9. IsList(_primes)'
    BY <2>8 DEF IsList, ListOfPrimes, Complete, Begins, Sorted, AllPrime, IsIn, IsPrime, FirstTen
  <2> QED
    BY <1>1, <1>3, <2>9 DEF MemoryInv, IsPrime
<1> QED
  BY <1>2, <1>3

LEMMA SoundStep ==
  ASSUME SoundInv, [Next]_vars
  PROVE  SoundInv'
<1> USE DEF SoundInv
<1>1. CASE set_clear
  BY <1>1, MemoryStays, UsersStay DEF set_clear, GivenInv, IsPrime, MemoryInv
<1>2. CASE clear
  BY <1>2, MemoryStays, UsersStay DEF clear, GivenInv, IsPrime, MemoryInv
<1>3. CASE set_sieve_size
  <2>1. _sieve_size' \in Nat \ {0}
    BY <1>3, LimitsAssumption DEF set_sieve_size
  <2> QED
    BY <1>3, <2>1, MemoryStays, UsersStay DEF set_sieve_size, GivenInv, IsPrime, MemoryInv
<1>4. ASSUME NEW top \in ListLimits, generate_primes(top)
      PROVE  SoundInv'
  BY <1>4, PrimesCalled
<1>5. ASSUME NEW i \in Iters, NEW top \in IterLimits, iterator(i, top)
      PROVE  SoundInv'
  <2> DEFINE new == [_index |-> 0, _limit |-> top]
  <2>1. new \in IterType /\ new # None /\ new._index = 0 /\ new._limit = top
    BY NoneAssumption DEF IterType
  <2> HIDE DEF new
  <2>2. iter' = [iter EXCEPT ![i] = new] /\ iter[i] = None /\ UNCHANGED <<buffer, size, _clear, _sieve_size, p, primes>>
    BY <1>5 DEF iterator, new
  <2>3. Len(buffer) \in Nat
    BY LenProperties DEF MemoryInv
  <2>4. UsersInv'
    BY <2>1, <2>2, <2>3 DEF UsersInv, IsPrime
  <2> QED
    BY <2>2, <2>4, MemoryStays DEF GivenInv, IsPrime
<1>6. ASSUME NEW i \in Iters, delete_iterator(i)
      PROVE  SoundInv'
  <2>1. MemoryInv'
    BY <1>6, MemoryStays DEF delete_iterator
  <2>2. UsersInv'
    BY <1>6 DEF delete_iterator, UsersInv, IsPrime
  <2> QED
    BY <1>6, <2>1, <2>2 DEF delete_iterator, GivenInv, IsPrime
<1>7. ASSUME NEW i \in Iters, next_prime(i)
      PROVE  SoundInv'
  BY <1>7, NextPrimeCalled
<1>8. CASE UNCHANGED vars
  BY <1>8, MemoryStays, UsersStay DEF vars, GivenInv, IsPrime, MemoryInv
<1> QED
  BY <1>1, <1>2, <1>3, <1>4, <1>5, <1>6, <1>7, <1>8 DEF Next

LEMMA SoundImplies ==
  ASSUME SoundInv
  PROVE  ListSound
<1>1. /\ buffer \in Seq(Nat) /\ size \in 10..Len(buffer) /\ IsList(_primes) /\ Len(buffer) \in Nat
      /\ \A k \in 1..Len(buffer) : IsPrime(buffer[k])
  BY LenProperties DEF SoundInv, MemoryInv
<1>2. _primes \in Seq(Nat) /\ Len(_primes) = size /\ \A k \in 1..size : _primes[k] = buffer[k]
  <2>1. size \in 0..Len(buffer)
    BY <1>1
  <2> QED
    BY <1>1, <2>1, Cut DEF _primes
<1>3. \A k \in 1..size : IsPrime(buffer[k])
  BY <1>1
<1>4. \A h, k \in 1..size : h <= k => buffer[h] <= buffer[k]
  BY <1>1, <1>2 DEF IsList, ListOfPrimes, Sorted
<1>5. Last(_primes) = buffer[size] /\ buffer[size] \in Nat
  <2>1. Last(_primes) = _primes[Len(_primes)] /\ Last(_primes) \in Nat
    BY <1>1, LastIsOdd DEF IsList
  <2>2. size \in 1..size
    BY <1>1
  <2> QED
    BY <1>2, <2>1, <2>2
<1>6. ASSUME NEW n \in 2..buffer[size], IsPrime(n)
      PROVE  \E k \in 1..size : buffer[k] = n
  <2>1. n \in Nat /\ n <= Last(_primes)
    BY <1>5
  <2>2. IsIn(n, _primes)
    BY <1>1, <1>6, <2>1 DEF IsList, Complete
  <2> QED
    BY <1>2, <2>2 DEF IsIn
<1> QED
  BY <1>3, <1>4, <1>6 DEF ListSound, SoundInv, GivenInv, UsersInv

\* However many segments an extension has, whatever the flags behind their ends
\* are, whoever has cut the list back in between: the list has prime numbers
\* only, in their order and none left out up to its end, and so has what
\* generate_primes gives up to its limit; what an iterator gives is a prime, or
\* the limit and one (Sieve::_extend, generate_primes, next_prime).
THEOREM SieveSound == Spec => []ListSound
<1>1. Init => SoundInv
  BY SoundInit
<1>2. SoundInv /\ [Next]_vars => SoundInv'
  BY SoundStep
<1>3. SoundInv => ListSound
  BY SoundImplies
<1> QED
  BY <1>1, <1>2, <1>3, PTL DEF Spec

-----------------------------------------------------------------------------
(* The list is exact, as far as one segment reaches *)

LEMMA PrimesExact ==
  /\ Primes \in Seq(Nat) /\ Ascends(Primes) /\ Len(Primes) \in Nat
  /\ \A k \in 1..Len(Primes) : Primes[k] \in 2..Bound /\ Primes[k] \in Nat /\ IsPrime(Primes[k])
  /\ \A n \in Nat : n <= Bound /\ IsPrime(n) => IsIn(n, Primes)
<1> DEFINE S == {n \in 1..Bound : IsPrime(n)}
<1>1. Bound \in Nat /\ S \in SUBSET (1..Bound)
  BY BoundAssumption
<1>2. Primes = Ascending(S, Bound)
  BY DEF Primes
<1> HIDE DEF S
<1>3. Primes \in Seq(Nat) /\ Ascends(Primes) /\ \A n : n \in S <=> IsIn(n, Primes)
  BY <1>1, <1>2, AscendingExact
<1>4. ASSUME NEW k \in 1..Len(Primes)
      PROVE  Primes[k] \in 2..Bound /\ Primes[k] \in Nat /\ IsPrime(Primes[k])
  <2>1. Primes[k] \in S
    BY <1>3 DEF IsIn
  <2>2. Primes[k] \in 1..Bound /\ IsPrime(Primes[k])
    BY <2>1 DEF S
  <2> QED
    BY <1>1, <2>2 DEF IsPrime
<1>5. ASSUME NEW n \in Nat, n <= Bound, IsPrime(n)
      PROVE  IsIn(n, Primes)
  <2>1. n \in S
    BY <1>1, <1>5 DEF S, IsPrime
  <2> QED
    BY <1>3, <2>1
<1> QED
  BY <1>3, <1>4, <1>5, LenProperties

\* Of two ascending lists, one has the numbers of the other up to its end: it
\* is where the other one begins.
LEMMA SameStart ==
  ASSUME NEW l \in Seq(Nat), NEW m \in Seq(Nat), Ascends(l), Ascends(m),
         \A k \in 1..Len(l) : IsIn(l[k], m),
         \A k \in 1..Len(l), j \in 1..Len(m) : m[j] <= l[k] => IsIn(m[j], l)
  PROVE  Begins(l, m)
<1>1. /\ Len(l) \in Nat /\ Len(m) \in Nat
      /\ \A k \in 1..Len(l) : l[k] \in Nat
      /\ \A k \in 1..Len(m) : m[k] \in Nat
  BY ElementOfSeq, LenProperties
<1> DEFINE W == {k \in 0..Len(l) : k <= Len(m) /\ \A j \in 1..k : m[j] = l[j]}
<1>2. 0 \in W
  BY <1>1
<1>3. ASSUME NEW k \in 1..Len(l), k - 1 \in W
      PROVE  k \in W
  <2>1. \A j \in 1..(k - 1) : m[j] = l[j] /\ j \in 1..Len(l) /\ j \in 1..Len(m)
    BY <1>1, <1>3
  <2>2. PICK j \in 1..Len(m) : m[j] = l[k]
    BY DEF IsIn
  <2>3. j >= k
    <3> SUFFICES ASSUME j \in 1..(k - 1) PROVE FALSE
      BY <1>1
    <3>1. l[j] < l[k]
      BY <2>1 DEF Ascends
    <3> QED
      BY <1>1, <2>1, <2>2, <3>1
  <2>4. k \in 1..Len(m)
    BY <1>1, <2>3
  <2>5. m[k] = l[k]
    <3> SUFFICES ASSUME j > k PROVE FALSE
      BY <1>1, <2>2, <2>3
    <3>1. m[k] < l[k]
      BY <2>2, <2>4 DEF Ascends
    <3>2. PICK h \in 1..Len(l) : l[h] = m[k]
      <4>1. m[k] <= l[k]
        BY <1>1, <2>4, <3>1
      <4>2. IsIn(m[k], l)
        BY <2>4, <4>1
      <4> QED
        BY <4>2 DEF IsIn
    <3>3. h \in 1..(k - 1)
      <4> SUFFICES ASSUME k <= h PROVE FALSE
        BY <1>1
      <4>1. l[k] <= l[h]
        <5>1. CASE k = h
          BY <1>1, <5>1
        <5>2. CASE k < h
          BY <1>1, <5>2 DEF Ascends
        <5> QED
          BY <1>1, <5>1, <5>2
      <4> QED
        BY <1>1, <3>1, <3>2, <4>1
    <3>4. m[h] < m[k]
      BY <2>1, <2>4, <3>3 DEF Ascends
    <3> QED
      BY <1>1, <2>1, <2>4, <3>2, <3>3, <3>4
  <2>6. \A x \in 1..k : x = k \/ x \in 1..(k - 1)
    BY <1>1
  <2> QED
    BY <1>1, <2>1, <2>4, <2>5, <2>6
<1>4. \A k \in 0..Len(l) : k \in W
  <2> HIDE DEF W
  <2> QED
    BY <1>1, <1>2, <1>3, CountUp
<1>5. Len(l) \in W
  <2>1. Len(l) \in 0..Len(l)
    BY <1>1
  <2> HIDE DEF W
  <2> QED
    BY <1>4, <2>1
<1> QED
  BY <1>1, <1>5 DEF Begins

LEMMA BeginsPrimes ==
  ASSUME NEW l, IsList(l), Ascends(l), AtMost(l, Bound)
  PROVE  Begins(l, Primes)
<1>1. /\ l \in Seq(Nat)
      /\ \A k \in 1..Len(l) : l[k] \in Nat /\ IsPrime(l[k]) /\ l[k] <= Bound /\ l[k] <= Last(l)
      /\ Last(l) \in Nat
  BY Tail2, LastIsOdd DEF IsList, ListOfPrimes, AllPrime, AtMost
<1>2. \A k \in 1..Len(l) : IsIn(l[k], Primes)
  BY <1>1, PrimesExact
<1>3. ASSUME NEW k \in 1..Len(l), NEW j \in 1..Len(Primes), Primes[j] <= l[k]
      PROVE  IsIn(Primes[j], l)
  <2>1. Primes[j] \in Nat /\ IsPrime(Primes[j])
    BY PrimesExact
  <2>2. Primes[j] <= Last(l)
    BY <1>1, <1>3, <2>1
  <2> QED
    BY <2>1, <2>2 DEF IsList, Complete
<1> QED
  BY <1>1, <1>2, <1>3, PrimesExact, SameStart

\* Where the iterators are, and the numbers they have given.
PositionsInv ==
  \A i \in Iters : iter[i] # None =>
    \/ iter[i]._index = 0 /\ p[i] = 0
    \/ /\ iter[i]._index > 0
       /\ \/ p[i] = Primes[iter[i]._index]
          \/ p[i] = iter[i]._limit + 1 /\ Primes[iter[i]._index] <= MaxPrime

\* The inductive invariant of ListExact.
ExactInv ==
  /\ SoundInv
  /\ Bound <= 2 * _sieve_size /\ _clear \in BOOLEAN
  /\ Begins(buffer, Primes)
  /\ PositionsInv
  /\ primes \in Seq(2..Bound)

LEMMA ExactExtension ==
  ASSUME ExactInv, NEW top \in Nat, top <= Bound, NEW l \in Extended(_primes, top)
  PROVE  IsList(l) /\ Complete(l, top) /\ Begins(l, Primes)
<1>1. /\ IsList(l) /\ Begins(_primes, l) /\ Complete(l, top)
      /\ l = _primes \/ AtMost(l, top)
      /\ Ascends(_primes) /\ top <= 2 * _sieve_size => Ascends(l)
  BY ExtendedFromHere DEF ExactInv
<1>2. buffer \in Seq(Nat) /\ Len(buffer) \in Nat /\ size \in 0..Len(buffer)
  BY LenProperties DEF ExactInv, SoundInv, MemoryInv
<1>3. /\ _primes \in Seq(Nat) /\ Len(_primes) = size
      /\ \A k \in 1..size : _primes[k] = buffer[k]
  BY <1>2, Cut DEF _primes
<1>4. \A k \in 1..size : k \in 1..Len(Primes) /\ _primes[k] = Primes[k]
  <2>1. Len(buffer) <= Len(Primes) /\ \A k \in 1..Len(buffer) : Primes[k] = buffer[k]
    BY DEF ExactInv, Begins
  <2>2. \A k \in 1..size : k \in 1..Len(buffer) /\ k \in 1..Len(Primes)
    BY <1>2, <2>1, PrimesExact
  <2> QED
    BY <1>3, <2>1, <2>2
<1>5. Ascends(_primes) /\ AtMost(_primes, Bound)
  <2>1. \A h, k \in 1..Len(Primes) : h < k => Primes[h] < Primes[k]
    BY PrimesExact DEF Ascends
  <2>2. \A h, k \in 1..size : h < k => _primes[h] < _primes[k]
    BY <1>4, <2>1
  <2>3. \A k \in 1..size : _primes[k] <= Bound
    BY <1>4, PrimesExact, BoundAssumption
  <2> QED
    BY <1>3, <2>2, <2>3 DEF Ascends, AtMost
<1>6. top <= 2 * _sieve_size /\ 2 * _sieve_size \in Nat
  BY BoundAssumption DEF ExactInv, SoundInv
<1>7. AtMost(l, Bound)
  <2>1. \A k \in 1..Len(l) : l[k] \in Nat
    BY <1>1, Tail2 DEF IsList
  <2> QED
    BY <1>1, <1>5, <2>1, BoundAssumption DEF AtMost
<1> QED
  BY <1>1, <1>5, <1>6, <1>7, BeginsPrimes

\* The memory after the list has become l.
LEMMA ExactStore ==
  ASSUME ExactInv, NEW l \in Seq(Nat), Begins(l, Primes), NEW n \in 0..Len(l), Store(l, n)
  PROVE  Begins(buffer, Primes)'
<1>1. buffer \in Seq(Nat) /\ Len(buffer) \in Nat /\ Len(l) \in Nat
  BY LenProperties DEF ExactInv, SoundInv, MemoryInv
<1>2. /\ buffer' \in Seq(Nat)
      /\ Len(buffer') = Len(l) \/ Len(buffer') = Len(buffer)
      /\ \A k \in 1..Len(l) : buffer'[k] = l[k]
      /\ \A k \in 1..Len(buffer') : k > Len(l) => k \in 1..Len(buffer) /\ buffer'[k] = buffer[k]
  BY <1>1, Stored
<1>3. Len(buffer') <= Len(Primes)
  BY <1>2 DEF ExactInv, Begins
<1>4. ASSUME NEW k \in 1..Len(buffer')
      PROVE  Primes[k] = buffer'[k]
  <2>0. Len(buffer') \in Nat
    BY <1>2, LenProperties
  <2>1. CASE k \in 1..Len(l)
    BY <1>2, <2>1 DEF Begins
  <2>2. CASE k > Len(l)
    BY <1>2, <2>2 DEF ExactInv, Begins
  <2> QED
    BY <1>1, <2>0, <2>1, <2>2
<1> QED
  BY <1>3, <1>4 DEF Begins, Primes, Ascending, IsPrime

\* What next_prime does, in terms of the primes alone.
LEMMA NextExact ==
  ASSUME ExactInv, NEW i \in Iters, next_prime(i)
  PROVE  /\ iter[i] # None /\ p[i] <= MaxPrime /\ UNCHANGED <<_clear, _sieve_size, primes>>
         /\ iter[i] \in IterType /\ iter[i]._index \in 0..Len(Primes) /\ iter[i]._limit \in Nat
         /\ Begins(buffer, Primes)'
         /\ \/ /\ iter[i]._index + 1 \in 1..Len(Primes)
               /\ Give(i, Primes[iter[i]._index + 1], iter[i]._index + 1)
            \/ /\ Give(i, iter[i]._limit + 1, iter[i]._index)
               /\ iter[i]._index > 0 /\ Primes[iter[i]._index] <= MaxPrime
               /\ \E top \in Nat :
                    /\ \/ top = 2 * Primes[iter[i]._index]
                       \/ top = iter[i]._limit /\ iter[i]._limit > 0
                    /\ \A q \in Nat : IsPrime(q) /\ q <= top => q <= Primes[iter[i]._index]
<1> DEFINE it == iter[i]
<1>1. it # None /\ it \in IterType /\ it._index \in Nat /\ it._limit \in IterLimits /\ it._limit \in Nat
  BY LimitsAssumption DEF next_prime, ExactInv, SoundInv, UsersInv, IterType
<1>2. PICK l \in IF it._index < size THEN {_primes} ELSE Extended(_primes, ExtendTo(it)) :
        /\ Store(l, Len(l))
        /\ IF it._index < Len(l) THEN Give(i, l[it._index + 1], it._index + 1)
                                 ELSE Give(i, it._limit + 1, it._index)
  BY DEF next_prime
<1>3. UNCHANGED <<_clear, _sieve_size, primes>> /\ p[i] <= MaxPrime /\ p[i] \in Nat
  BY DEF next_prime, ExactInv, SoundInv, UsersInv
<1>4. /\ buffer \in Seq(Nat) /\ Len(buffer) \in Nat /\ size \in 10..Len(buffer) /\ size \in 0..Len(buffer)
      /\ Len(buffer) <= Len(Primes) /\ \A k \in 1..Len(buffer) : Primes[k] = buffer[k]
      /\ Len(Primes) \in Nat
  BY LenProperties, PrimesExact DEF ExactInv, SoundInv, MemoryInv, Begins
<1>5. it._index <= Len(buffer) /\ it._index \in 0..Len(Primes)
  BY <1>1, <1>4 DEF ExactInv, SoundInv, UsersInv
<1>6. /\ IsList(_primes) /\ Len(_primes) = size /\ Begins(_primes, Primes)
  <2>1. /\ _primes \in Seq(Nat) /\ Len(_primes) = size
        /\ \A k \in 1..size : _primes[k] = buffer[k]
    BY <1>4, Cut DEF _primes
  <2>2. \A k \in 1..size : k \in 1..Len(buffer)
    BY <1>4
  <2>3. \A k \in 1..size : Primes[k] = _primes[k]
    BY <1>4, <2>1, <2>2
  <2>4. size <= Len(Primes)
    BY <1>4
  <2> QED
    BY <2>1, <2>3, <2>4 DEF ExactInv, SoundInv, MemoryInv, Begins
\* The list has to grow: the position is past its end.
<1>7. ASSUME it._index >= size
      PROVE  /\ it._index > 0 /\ Primes[it._index] \in Nat /\ Primes[it._index] <= MaxPrime
             /\ ExtendTo(it) \in Nat /\ ExtendTo(it) <= Bound
             /\ \/ ExtendTo(it) = 2 * Primes[it._index]
                \/ ExtendTo(it) = it._limit /\ it._limit > 0
  <2>1. /\ it._index \in 1..Len(buffer)
        /\ ExtendTo(it) \in Nat
        /\ ExtendTo(it) <= 2 * buffer[it._index]
        /\ \/ ExtendTo(it) = 2 * buffer[it._index]
           \/ ExtendTo(it) = it._limit /\ it._limit > 0
    BY <1>1, <1>7, ExtendToType DEF ExactInv, SoundInv
  <2>2. Primes[it._index] = buffer[it._index] /\ Primes[it._index] \in Nat /\ it._index > 0
    <3>1. it._index \in 1..Len(Primes) /\ it._index > 0
      BY <1>4, <2>1
    <3>2. Primes[it._index] = buffer[it._index]
      BY <1>4, <2>1
    <3> QED
      BY <3>1, <3>2, PrimesExact
  <2>3. Primes[it._index] <= MaxPrime
    BY <1>1, <1>3, <2>2 DEF ExactInv, PositionsInv
  <2>4. 2 * Primes[it._index] <= Bound
    BY <2>2, <2>3, BoundAssumption
  <2>5. ExtendTo(it) <= Bound
    BY <2>1, <2>2, <2>4, BoundAssumption
  <2> QED
    BY <2>1, <2>2, <2>3, <2>5
<1>8. /\ IsList(l) /\ Begins(l, Primes)
      /\ it._index >= size => Complete(l, ExtendTo(it))
  <2>1. CASE it._index < size
    BY <1>1, <1>2, <1>4, <1>6, <2>1
  <2>2. CASE it._index >= size
    <3>1. l \in Extended(_primes, ExtendTo(it))
      BY <1>1, <1>2, <1>4, <2>2
    <3> QED
      BY <1>7, <2>2, <3>1, ExactExtension
  <2> QED
    BY <1>1, <1>4, <2>1, <2>2
<1>9. l \in Seq(Nat) /\ Len(l) \in Nat /\ Len(l) <= Len(Primes) /\ \A k \in 1..Len(l) : Primes[k] = l[k]
  BY <1>8, LenProperties DEF IsList, ListOfPrimes, Begins
<1>10. Begins(buffer, Primes)'
  <2>1. Len(l) \in 0..Len(l)
    BY <1>9
  <2> QED
    BY <1>2, <1>8, <1>9, <2>1, ExactStore
<1>11. CASE it._index < Len(l)
  <2>1. it._index + 1 \in 1..Len(l) /\ it._index + 1 \in 1..Len(Primes)
    <3> DEFINE index == it._index
               n == Len(l)
               m == Len(Primes)
    <3>1. index \in Nat /\ n \in Nat /\ m \in Nat /\ n <= m /\ index < n
      BY <1>1, <1>4, <1>9, <1>11, PrimesExact
    <3> HIDE DEF index, n, m
    <3>2. index + 1 \in 1..n /\ index + 1 \in 1..m
      BY <3>1
    <3> QED
      BY <3>2 DEF index, n, m
  <2>2. Give(i, Primes[it._index + 1], it._index + 1)
    BY <1>2, <1>9, <1>11, <2>1
  <2> QED
    BY <1>1, <1>3, <1>5, <1>10, <2>1, <2>2
<1>12. CASE it._index >= Len(l)
  <2>1. Give(i, it._limit + 1, it._index)
    BY <1>1, <1>2, <1>9, <1>12
  <2>2. it._index >= size
    <3> SUFFICES ASSUME it._index < size PROVE FALSE
      BY <1>1, <1>4
    <3>1. l = _primes
      BY <1>2
    <3> QED
      BY <1>1, <1>4, <1>6, <1>12, <3>1
  <2>3. ASSUME NEW q \in Nat, IsPrime(q), q <= ExtendTo(it)
        PROVE  q <= Primes[it._index]
    <3>1. PICK k \in 1..Len(l) : l[k] = q
      BY <1>8, <2>2, <2>3 DEF Complete, IsIn
    <3>2. k \in 1..Len(Primes) /\ it._index \in 1..Len(Primes) /\ k <= it._index /\ Primes[k] = q
      <4>1. k \in 1..Len(Primes) /\ k <= it._index
        BY <1>1, <1>4, <1>9, <1>12, <3>1
      <4>2. it._index \in 1..Len(Primes)
        BY <1>5, <1>7, <2>2
      <4> QED
        BY <1>9, <3>1, <4>1, <4>2
    <3>3. \A h \in 1..Len(Primes) : Primes[h] \in Nat
      BY PrimesExact
    <3>4. k < it._index => Primes[k] < Primes[it._index]
      BY <3>2, PrimesExact DEF Ascends
    <3> QED
      BY <1>1, <3>2, <3>3, <3>4
  <2> QED
    BY <1>1, <1>3, <1>5, <1>7, <1>10, <2>1, <2>2, <2>3
<1> QED
  BY <1>1, <1>9, <1>11, <1>12

\* The iterator moved, and only it.
LEMMA GivenTo ==
  ASSUME UsersInv, NEW i \in Iters, iter[i] # None, NEW n, NEW index \in Nat, Give(i, n, index)
  PROVE  /\ \A j \in Iters \ {i} : iter'[j] = iter[j] /\ p'[j] = p[j]
         /\ p'[i] = n /\ iter'[i]._index = index /\ iter'[i]._limit = iter[i]._limit
         /\ iter'[i] # None
<1> DEFINE new == [iter[i] EXCEPT !._index = index]
<1>1. iter[i] \in IterType
  BY DEF UsersInv
<1>2. new \in IterType /\ new._index = index /\ new._limit = iter[i]._limit /\ new # None
  BY <1>1, NoneAssumption DEF IterType
<1> HIDE DEF new
<1>3. iter' = [iter EXCEPT ![i] = new] /\ p' = [p EXCEPT ![i] = n]
  BY DEF Give, new
<1> QED
  BY <1>2, <1>3 DEF UsersInv

LEMMA ExactNextPrime ==
  ASSUME ExactInv, NEW i \in Iters, next_prime(i)
  PROVE  ExactInv'
<1>1. SoundInv'
  BY NextPrimeCalled DEF ExactInv
<1>2. /\ iter[i] # None /\ UNCHANGED <<_clear, _sieve_size, primes>> /\ Begins(buffer, Primes)'
      /\ iter[i]._index \in Nat /\ iter[i]._limit \in Nat
      /\ \/ Give(i, Primes[iter[i]._index + 1], iter[i]._index + 1)
         \/ /\ Give(i, iter[i]._limit + 1, iter[i]._index)
            /\ iter[i]._index > 0 /\ Primes[iter[i]._index] <= MaxPrime
  BY NextExact
<1>3. Primes' = Primes
  BY DEF Primes, Ascending, IsPrime
<1>4. PositionsInv'
  <2> SUFFICES ASSUME NEW j \in Iters, iter'[j] # None
               PROVE  \/ iter'[j]._index = 0 /\ p'[j] = 0
                      \/ /\ iter'[j]._index > 0
                         /\ \/ p'[j] = Primes[iter'[j]._index]
                            \/ p'[j] = iter'[j]._limit + 1 /\ Primes[iter'[j]._index] <= MaxPrime
    BY <1>3 DEF PositionsInv
  <2>1. CASE Give(i, Primes[iter[i]._index + 1], iter[i]._index + 1)
    <3>1. iter[i]._index + 1 \in Nat /\ iter[i]._index + 1 > 0
      BY <1>2
    <3>2. /\ \A k \in Iters \ {i} : iter'[k] = iter[k] /\ p'[k] = p[k]
          /\ p'[i] = Primes[iter[i]._index + 1] /\ iter'[i]._index = iter[i]._index + 1
      BY <1>2, <2>1, <3>1, GivenTo DEF ExactInv, SoundInv
    <3> QED
      BY <3>1, <3>2 DEF ExactInv, PositionsInv
  <2>2. CASE /\ Give(i, iter[i]._limit + 1, iter[i]._index)
             /\ iter[i]._index > 0 /\ Primes[iter[i]._index] <= MaxPrime
    <3>1. /\ \A k \in Iters \ {i} : iter'[k] = iter[k] /\ p'[k] = p[k]
          /\ p'[i] = iter[i]._limit + 1 /\ iter'[i]._index = iter[i]._index /\ iter'[i]._limit = iter[i]._limit
      BY <1>2, <2>2, GivenTo DEF ExactInv, SoundInv
    <3> QED
      BY <2>2, <3>1 DEF ExactInv, PositionsInv
  <2> QED
    BY <1>2, <2>1, <2>2
<1> QED
  BY <1>1, <1>2, <1>4 DEF ExactInv

LEMMA ExactInit ==
  ASSUME OneSegment, Init
  PROVE  ExactInv
<1>1. SoundInv
  BY SoundInit
<1>2. IsList(FirstTen) /\ Ascends(FirstTen) /\ AtMost(FirstTen, Bound)
  BY FirstTenSound, BoundAssumption DEF IsList, AtMost, FirstTen
<1>3. Begins(buffer, Primes)
  BY <1>2, BeginsPrimes DEF Init
<1>4. Bound <= 2 * _sieve_size
  BY DEF OneSegment, Init
<1>5. PositionsInv /\ primes \in Seq(2..Bound) /\ _clear \in BOOLEAN
  BY DEF Init, PositionsInv
<1> QED
  BY <1>1, <1>3, <1>4, <1>5 DEF ExactInv

\* What generate_primes does, in terms of the primes alone.
LEMMA GivenExact ==
  ASSUME ExactInv, NEW top \in ListLimits, generate_primes(top)
  PROVE  /\ UNCHANGED <<_clear, _sieve_size, iter, p>>
         /\ primes' = SubSeq(Primes, 1, upper_bound(Primes, top))
         /\ primes' \in Seq(2..Bound)
         /\ Begins(buffer, Primes)'
<1>1. top \in Nat /\ top <= Bound
  BY BoundAssumption, LimitsAssumption
<1>2. PICK l \in Extended(_primes, top) :
        /\ primes' = SubSeq(l, 1, upper_bound(l, top))
        /\ Store(l, IF _clear THEN 10 ELSE Len(l))
        /\ UNCHANGED <<_clear, _sieve_size, iter, p>>
  BY DEF generate_primes
<1>3. IsList(l) /\ Complete(l, top) /\ Begins(l, Primes)
  BY <1>1, ExactExtension
<1>4. /\ l \in Seq(Nat) /\ Sorted(l) /\ Len(l) \in Nat /\ Len(l) >= 10
      /\ Len(l) <= Len(Primes) /\ \A k \in 1..Len(l) : Primes[k] = l[k]
      /\ \A k \in 1..Len(l) : l[k] \in Nat
  BY <1>3, Tail2 DEF IsList, ListOfPrimes, Begins
<1>5. Begins(buffer, Primes)'
  <2>1. (IF _clear THEN 10 ELSE Len(l)) \in 0..Len(l)
    BY <1>4
  <2> QED
    BY <1>2, <1>3, <1>4, <2>1, ExactStore
<1>6. /\ Primes \in Seq(Nat) /\ Ascends(Primes) /\ Sorted(Primes) /\ Len(Primes) \in Nat
      /\ \A k \in 1..Len(Primes) : Primes[k] \in 2..Bound /\ Primes[k] \in Nat /\ IsPrime(Primes[k])
  <2>1. Sorted(Primes)
    <3> SUFFICES ASSUME NEW h \in 1..Len(Primes), NEW k \in 1..Len(Primes), h <= k
                 PROVE  Primes[h] <= Primes[k]
      BY DEF Sorted
    <3>1. Primes[h] \in Nat /\ Primes[k] \in Nat /\ (h = k \/ h < k)
      BY PrimesExact
    <3>2. h < k => Primes[h] < Primes[k]
      BY PrimesExact DEF Ascends
    <3> QED
      BY <3>1, <3>2
  <2> QED
    BY <2>1, PrimesExact
<1> DEFINE n == upper_bound(l, top)
           o == upper_bound(Primes, top)
<1>7. n \in 0..Len(l) /\ \A k \in 1..Len(l) : l[k] <= top <=> k <= n
  BY <1>1, <1>4, UpperBound
<1>8. o \in 0..Len(Primes) /\ \A k \in 1..Len(Primes) : Primes[k] <= top <=> k <= o
  BY <1>1, <1>6, UpperBound
<1> HIDE DEF n, o
<1>9. n = o
  <2>1. n <= o
    <3> SUFFICES ASSUME n >= 1 PROVE n <= o
      BY <1>7, <1>8
    <3>1. n \in 1..Len(l) /\ n \in 1..Len(Primes)
      BY <1>4, <1>6, <1>7
    <3>2. l[n] <= top
      BY <1>4, <1>7, <3>1
    <3>3. Primes[n] <= top
      BY <1>4, <3>1, <3>2
    <3> QED
      BY <1>8, <3>1, <3>3
  <2>2. o <= n
    <3> SUFFICES ASSUME o >= 1 PROVE o <= n
      BY <1>7, <1>8
    <3>1. o \in 1..Len(Primes)
      BY <1>6, <1>8
    <3>2. Primes[o] <= top /\ Primes[o] \in Nat /\ IsPrime(Primes[o])
      BY <1>6, <1>8, <3>1
    <3>3. PICK k \in 1..Len(l) : l[k] = Primes[o]
      BY <1>3, <3>2 DEF Complete, IsIn
    <3>4. k \in 1..Len(Primes) /\ Primes[k] = Primes[o]
      BY <1>4, <1>6, <3>3
    <3>5. k = o
      <4>1. ~ (k < o) /\ ~ (o < k)
        BY <1>6, <3>1, <3>2, <3>4 DEF Ascends
      <4> QED
        BY <3>1, <3>4, <4>1
    <3>6. l[k] <= top
      BY <3>2, <3>3
    <3> QED
      BY <1>7, <3>3, <3>5, <3>6
  <2> QED
    BY <1>7, <1>8, <2>1, <2>2
<1> DEFINE x == SubSeq(l, 1, n)
           y == SubSeq(Primes, 1, o)
<1>10. x \in Seq(Nat) /\ Len(x) = n /\ \A k \in 1..n : x[k] = l[k]
  BY <1>4, <1>7, Cut
<1>11. y \in Seq(2..Bound) /\ y \in Seq(Nat) /\ Len(y) = o /\ \A k \in 1..o : y[k] = Primes[k]
  <2>1. y \in Seq(Nat) /\ Len(y) = o /\ \A k \in 1..o : y[k] = Primes[k]
    BY <1>6, <1>8, Cut
  <2>2. \A k \in 1..o : Primes[k] \in 2..Bound
    BY <1>6, <1>8
  <2> HIDE DEF y
  <2>3. y \in Seq(2..Bound)
    <3>1. \A k \in 1..Len(y) : y[k] \in 2..Bound
      BY <2>1, <2>2
    <3> QED
      BY <2>1, <3>1, ElementsIn
  <2> QED
    BY <2>1, <2>3
<1> HIDE DEF x, y
<1>12. x = y
  <2>1. \A k \in 1..n : k \in 1..Len(l)
    BY <1>4, <1>7
  <2>2. \A k \in 1..n : x[k] = y[k]
    BY <1>4, <1>9, <1>10, <1>11, <2>1
  <2> QED
    BY <1>9, <1>10, <1>11, <2>2, SeqEqual
<1>13. primes' = y
  BY <1>2, <1>12 DEF x, n
<1> QED
  BY <1>2, <1>5, <1>11, <1>13 DEF y, o

LEMMA ExactStep ==
  ASSUME OneSegment, ExactInv, [Next]_vars
  PROVE  ExactInv'
<1>1. SoundInv' /\ Primes' = Primes
  BY SoundStep DEF ExactInv, Primes, Ascending, IsPrime
<1> USE DEF ExactInv
<1>2. CASE set_clear
  BY <1>1, <1>2 DEF set_clear, PositionsInv, Begins
<1>3. CASE clear
  BY <1>1, <1>3 DEF clear, PositionsInv, Begins
<1>4. CASE set_sieve_size
  <2>1. Bound <= 2 * _sieve_size'
    BY <1>4 DEF set_sieve_size, OneSegment
  <2> QED
    BY <1>1, <1>4, <2>1 DEF set_sieve_size, PositionsInv, Begins
<1>5. ASSUME NEW top \in ListLimits, generate_primes(top)
      PROVE  ExactInv'
  BY <1>1, <1>5, GivenExact DEF PositionsInv
<1>6. ASSUME NEW i \in Iters, NEW top \in IterLimits, iterator(i, top)
      PROVE  ExactInv'
  <2>1. /\ iter' = [iter EXCEPT ![i] = [_index |-> 0, _limit |-> top]] /\ iter[i] = None
        /\ UNCHANGED <<buffer, size, _clear, _sieve_size, p, primes>>
    BY <1>6 DEF iterator
  <2>2. p[i] = 0 /\ iter \in [Iters -> IterType \cup {None}]
    BY <2>1 DEF SoundInv, UsersInv
  <2>3. PositionsInv'
    <3> SUFFICES ASSUME NEW j \in Iters, iter'[j] # None
                 PROVE  \/ iter'[j]._index = 0 /\ p'[j] = 0
                        \/ /\ iter'[j]._index > 0
                           /\ \/ p'[j] = Primes[iter'[j]._index]
                              \/ p'[j] = iter'[j]._limit + 1 /\ Primes[iter'[j]._index] <= MaxPrime
      BY <1>1 DEF PositionsInv
    <3>1. CASE j = i
      BY <2>1, <2>2, <3>1
    <3>2. CASE j # i
      <4>1. iter'[j] = iter[j] /\ p'[j] = p[j]
        BY <2>1, <2>2, <3>2
      <4> QED
        BY <4>1 DEF PositionsInv
    <3> QED
      BY <3>1, <3>2
  <2> QED
    BY <1>1, <2>1, <2>3 DEF Begins
<1>7. ASSUME NEW i \in Iters, delete_iterator(i)
      PROVE  ExactInv'
  <2>1. /\ iter' = [iter EXCEPT ![i] = None] /\ p' = [p EXCEPT ![i] = 0]
        /\ UNCHANGED <<buffer, _clear, _sieve_size, primes>>
        /\ iter \in [Iters -> IterType \cup {None}] /\ p \in [Iters -> Nat]
    BY <1>7 DEF delete_iterator, SoundInv, UsersInv
  <2>2. \A j \in Iters : iter'[j] # None => iter'[j] = iter[j] /\ p'[j] = p[j]
    BY <2>1
  <2>3. PositionsInv'
    BY <1>1, <2>2 DEF PositionsInv
  <2> QED
    BY <1>1, <2>1, <2>3 DEF Begins
<1>8. ASSUME NEW i \in Iters, next_prime(i)
      PROVE  ExactInv'
  BY <1>8, ExactNextPrime
<1>9. CASE UNCHANGED vars
  BY <1>1, <1>9 DEF vars, PositionsInv, Begins
<1> QED
  BY <1>2, <1>3, <1>4, <1>5, <1>6, <1>7, <1>8, <1>9 DEF Next

LEMMA ExactImplies ==
  ASSUME ExactInv
  PROVE  ListExact
<1>1. /\ buffer \in Seq(Nat) /\ Len(buffer) \in Nat /\ size \in 10..Len(buffer)
      /\ Len(buffer) <= Len(Primes) /\ \A k \in 1..Len(buffer) : Primes[k] = buffer[k]
  BY LenProperties DEF ExactInv, SoundInv, MemoryInv, Begins
<1>2. \A k \in 1..Len(buffer) : k \in 1..Len(Primes) /\ buffer[k] \in 2..Bound
  BY <1>1, PrimesExact
<1>3. buffer \in Seq(2..Bound)
  BY <1>1, <1>2, ElementsIn
<1>4. TypeOK
  BY <1>1, <1>3 DEF TypeOK, ExactInv, SoundInv, UsersInv, IterType
<1>5. \A k \in 1..size : buffer[k] = Primes[k]
  BY <1>1
<1>6. ASSUME NEW i \in Iters, iter[i] # None, iter[i]._index > size
      PROVE  /\ iter[i]._index <= Len(buffer)
             /\ p[i] \in {buffer[iter[i]._index], iter[i]._limit + 1}
  <2>1. iter[i]._index \in Nat /\ iter[i]._index <= Len(buffer)
    BY <1>6 DEF ExactInv, SoundInv, UsersInv, IterType
  <2>2. iter[i]._index \in 1..Len(buffer) /\ iter[i]._index # 0
    BY <1>1, <1>6, <2>1
  <2> QED
    BY <1>1, <1>6, <2>1, <2>2 DEF ExactInv, PositionsInv
<1> QED
  BY <1>4, <1>5, <1>6 DEF ListExact

\* As far as one segment reaches, the list is the list of the first primes, and
\* an iterator finds the prime it has given last past the end of a list that has
\* been cut back under it (Sieve::clear, ~iterator and next_prime).
THEOREM SieveExact == ASSUME OneSegment PROVE Spec => []ListExact
<1>1. Init => ExactInv
  BY ExactInit
<1>2. ExactInv /\ [Next]_vars => ExactInv'
  BY ExactStep
<1>3. ExactInv => ListExact
  BY ExactImplies
<1> QED
  BY <1>1, <1>2, <1>3, PTL DEF Spec

-----------------------------------------------------------------------------
(* The refinement *)

\* An iterator that has not given the prime it is at has no prime before it up
\* to its limit.
PassedInv ==
  \A i \in Iters : iter[i] # None /\ iter[i]._index > 0 /\ p[i] # Primes[iter[i]._index] =>
    /\ iter[i]._limit > 0 /\ p[i] = iter[i]._limit + 1
    /\ \A q \in Nat : IsPrime(q) /\ q <= iter[i]._limit => q <= Primes[iter[i]._index]

StreamInv == ExactInv /\ PassedInv

\* With a prime between each number and its double, an iterator that finds no
\* more prime has a limit and is past it.
LEMMA PastLimit ==
  ASSUME Bertrand, ExactInv, NEW i \in Iters, next_prime(i), ~Give(i, Primes[iter[i]._index + 1], iter[i]._index + 1)
  PROVE  /\ Give(i, iter[i]._limit + 1, iter[i]._index)
         /\ iter[i]._limit > 0 /\ iter[i]._index \in 1..Len(Primes) /\ Primes[iter[i]._index] <= MaxPrime
         /\ \A q \in Nat : IsPrime(q) /\ q <= iter[i]._limit => q <= Primes[iter[i]._index]
<1>1. /\ iter[i]._index \in 0..Len(Primes) /\ iter[i]._limit \in Nat
      /\ Give(i, iter[i]._limit + 1, iter[i]._index)
      /\ iter[i]._index > 0 /\ Primes[iter[i]._index] <= MaxPrime
      /\ \E top \in Nat :
           /\ \/ top = 2 * Primes[iter[i]._index]
              \/ top = iter[i]._limit /\ iter[i]._limit > 0
           /\ \A q \in Nat : IsPrime(q) /\ q <= top => q <= Primes[iter[i]._index]
  BY NextExact
<1>2. PICK top \in Nat :
        /\ \/ top = 2 * Primes[iter[i]._index]
           \/ top = iter[i]._limit /\ iter[i]._limit > 0
        /\ \A q \in Nat : IsPrime(q) /\ q <= top => q <= Primes[iter[i]._index]
  BY <1>1
<1>3. iter[i]._index \in 1..Len(Primes)
  BY <1>1, PrimesExact
<1>4. Primes[iter[i]._index] \in 1..MaxPrime
  <2>1. Primes[iter[i]._index] \in 2..Bound
    BY <1>3, PrimesExact
  <2>2. Primes[iter[i]._index] <= MaxPrime
    BY <1>1
  <2> QED
    BY <2>1, <2>2, BoundAssumption
<1>5. top # 2 * Primes[iter[i]._index]
  <2> SUFFICES ASSUME top = 2 * Primes[iter[i]._index] PROVE FALSE
    OBVIOUS
  <2> DEFINE n == Primes[iter[i]._index]
  <2>1. PICK q \in (n + 1)..(2 * n) : IsPrime(q)
    BY <1>4 DEF Bertrand
  <2>2. n \in Nat /\ q \in Nat /\ q > n /\ q <= top
    BY <1>4, BoundAssumption
  <2> HIDE DEF n
  <2>3. q <= n
    BY <1>2, <2>1, <2>2 DEF n
  <2> QED
    BY <2>2, <2>3
<1> QED
  BY <1>1, <1>2, <1>3, <1>5

LEMMA StreamInit ==
  ASSUME OneSegment, Init
  PROVE  StreamInv /\ Stream!Init
<1>1. ExactInv
  BY ExactInit
<1>2. PassedInv
  BY DEF Init, PassedInv
<1>3. Stream!Init
  BY DEF Init, Stream!Init, limit
<1> QED
  BY <1>1, <1>2, <1>3 DEF StreamInv

LEMMA PassedStep ==
  ASSUME Bertrand, StreamInv, [Next]_vars
  PROVE  PassedInv'
<1>1. Primes' = Primes
  BY DEF Primes, Ascending, IsPrime
<1>2. /\ iter \in [Iters -> IterType \cup {None}] /\ p \in [Iters -> Nat]
      /\ \A i \in Iters : iter[i] = None => p[i] = 0
  BY DEF StreamInv, ExactInv, SoundInv, UsersInv
<1> DEFINE Passed(v, n) ==
             v # None /\ v._index > 0 /\ n # Primes[v._index] =>
               /\ v._limit > 0 /\ n = v._limit + 1
               /\ \A q \in Nat : IsPrime(q) /\ q <= v._limit => q <= Primes[v._index]
<1>3. \A i \in Iters : Passed(iter[i], p[i])
  BY DEF StreamInv, PassedInv
<1> SUFFICES ASSUME NEW j \in Iters
             PROVE  Passed(iter'[j], p'[j])
  BY <1>1 DEF PassedInv, IsPrime
<1> HIDE DEF Passed
<1>4. CASE UNCHANGED <<iter, p>>
  BY <1>3, <1>4
<1>5. ASSUME NEW i \in Iters, NEW top \in IterLimits, iterator(i, top)
      PROVE  Passed(iter'[j], p'[j])
  <2>1. /\ iter' = [iter EXCEPT ![i] = [_index |-> 0, _limit |-> top]] /\ p' = p
    BY <1>5 DEF iterator
  <2>2. CASE j = i
    BY <1>2, <2>1, <2>2 DEF Passed
  <2>3. CASE j # i
    BY <1>2, <1>3, <2>1, <2>3
  <2> QED
    BY <2>2, <2>3
<1>6. ASSUME NEW i \in Iters, delete_iterator(i)
      PROVE  Passed(iter'[j], p'[j])
  <2>1. iter' = [iter EXCEPT ![i] = None] /\ p' = [p EXCEPT ![i] = 0]
    BY <1>6 DEF delete_iterator
  <2>2. CASE j = i
    BY <1>2, <2>1, <2>2 DEF Passed
  <2>3. CASE j # i
    BY <1>2, <1>3, <2>1, <2>3
  <2> QED
    BY <2>2, <2>3
<1>7. ASSUME NEW i \in Iters, next_prime(i)
      PROVE  Passed(iter'[j], p'[j])
  <2>1. iter[i] # None /\ iter[i]._index \in Nat /\ iter[i]._limit \in Nat
    BY <1>7, NextExact DEF StreamInv
  <2>2. UsersInv
    BY DEF StreamInv, ExactInv, SoundInv
  <2>3. CASE Give(i, Primes[iter[i]._index + 1], iter[i]._index + 1)
    <3>1. iter[i]._index + 1 \in Nat
      BY <2>1
    <3>2. /\ \A k \in Iters \ {i} : iter'[k] = iter[k] /\ p'[k] = p[k]
          /\ p'[i] = Primes[iter[i]._index + 1] /\ iter'[i]._index = iter[i]._index + 1
      BY <2>1, <2>2, <2>3, <3>1, GivenTo
    <3>3. Passed(iter'[i], p'[i])
      BY <3>2 DEF Passed
    <3> QED
      BY <1>3, <3>2, <3>3
  <2>4. CASE ~Give(i, Primes[iter[i]._index + 1], iter[i]._index + 1)
    <3>1. /\ Give(i, iter[i]._limit + 1, iter[i]._index)
          /\ iter[i]._limit > 0
          /\ \A q \in Nat : IsPrime(q) /\ q <= iter[i]._limit => q <= Primes[iter[i]._index]
      BY <1>7, <2>4, PastLimit DEF StreamInv
    <3>2. /\ \A k \in Iters \ {i} : iter'[k] = iter[k] /\ p'[k] = p[k]
          /\ p'[i] = iter[i]._limit + 1 /\ iter'[i]._index = iter[i]._index /\ iter'[i]._limit = iter[i]._limit
      BY <2>1, <2>2, <3>1, GivenTo
    <3>3. Passed(iter'[i], p'[i])
      BY <3>1, <3>2 DEF Passed
    <3> QED
      BY <1>3, <3>2, <3>3
  <2> QED
    BY <2>3, <2>4
<1>8. (\E top \in ListLimits : generate_primes(top)) \/ set_clear \/ clear \/ set_sieve_size \/ UNCHANGED vars
        => UNCHANGED <<iter, p>>
  BY DEF generate_primes, set_clear, clear, set_sieve_size, vars
<1> QED
  BY <1>4, <1>5, <1>6, <1>7, <1>8 DEF Next

\* The prime after the one at a position.
LEMMA AfterPosition ==
  ASSUME NEW j \in Nat, j + 1 \in 1..Len(Primes), NEW n \in Nat,
         j = 0 => n = 0, j > 0 => n = Primes[j]
  PROVE  /\ Min({m \in Range(Primes) : m > n}) = Primes[j + 1]
         /\ Primes[j + 1] > n /\ Primes[j + 1] \in Nat
<1> DEFINE T == {m \in Range(Primes) : m > n}
           x == Primes[j + 1]
<1>1. /\ Primes \in Seq(Nat) /\ Len(Primes) \in Nat /\ DOMAIN Primes = 1..Len(Primes)
      /\ \A k \in 1..Len(Primes) : Primes[k] \in Nat /\ Primes[k] > 1
      /\ \A h, k \in 1..Len(Primes) : h < k => Primes[h] < Primes[k]
  BY PrimesExact, LenProperties DEF Ascends
<1>2. x \in Nat /\ x > n
  <2>1. CASE j = 0
    BY <1>1, <2>1
  <2>2. CASE j > 0
    <3>1. j \in 1..Len(Primes) /\ j < j + 1 /\ j # 0
      BY <1>1, <2>2
    <3> QED
      BY <1>1, <3>1
  <2> QED
    BY <2>1, <2>2
<1>3. x \in T
  BY <1>1, <1>2 DEF Range
<1>4. ASSUME NEW m \in T
      PROVE  x <= m /\ m \in Nat
  <2>1. PICK k \in 1..Len(Primes) : m = Primes[k]
    BY <1>1 DEF Range
  <2>2. k > j
    <3> SUFFICES ASSUME k <= j PROVE FALSE
      BY <1>1
    <3>1. j \in 1..Len(Primes) /\ j # 0
      BY <1>1
    <3>2. m <= n
      <4>1. k = j \/ k < j
        BY <3>1
      <4> QED
        BY <1>1, <2>1, <3>1, <4>1
    <3> QED
      BY <1>1, <2>1, <3>2
  <2>3. k = j + 1 \/ j + 1 < k
    BY <1>1, <2>2
  <2> QED
    BY <1>1, <2>1, <2>3
<1> HIDE DEF T, x
<1>5. \A y \in T : (\A m \in T : y <= m) => y = x
  BY <1>2, <1>3, <1>4
<1>6. Min(T) = x
  <2>1. \E y \in T : \A m \in T : y <= m
    BY <1>3, <1>4
  <2> QED
    BY <1>5, <2>1 DEF Min
<1> QED
  BY <1>2, <1>6 DEF T, x

LEMMA NextIsAdvance ==
  ASSUME Bertrand, StreamInv, NEW i \in Iters, next_prime(i)
  PROVE  Stream!Advance(i)
<1> DEFINE index == iter[i]._index
           top == iter[i]._limit
           next == Min({m \in Range(Primes) : m > p[i]})
<1>1. /\ iter[i] # None /\ p[i] <= MaxPrime /\ primes' = primes
      /\ index \in 0..Len(Primes) /\ index \in Nat /\ top \in Nat /\ top \in IterLimits
      /\ p[i] \in Nat /\ p \in [Iters -> Nat] /\ iter \in [Iters -> IterType \cup {None}]
  BY NextExact, PrimesExact DEF StreamInv, ExactInv, SoundInv, UsersInv, IterType
<1>2. UsersInv
  BY DEF StreamInv, ExactInv, SoundInv
<1>3. limit[i] = top /\ limit[i] # None
  BY <1>1, NoneAssumption DEF limit
\* The iterators keep their limits, and the others keep their numbers.
<1>4. ASSUME NEW n, NEW to \in Nat, Give(i, n, to)
      PROVE  limit' = limit /\ p' = [p EXCEPT ![i] = p'[i]] /\ p'[i] = n
  <2>1. /\ \A j \in Iters \ {i} : iter'[j] = iter[j] /\ p'[j] = p[j]
        /\ p'[i] = n /\ iter'[i]._limit = iter[i]._limit /\ iter'[i] # None
    BY <1>1, <1>2, <1>4, GivenTo
  <2>2. limit' = limit
    BY <1>1, <2>1 DEF limit
  <2>3. p' = [p EXCEPT ![i] = n]
    BY <1>4 DEF Give
  <2> QED
    BY <2>1, <2>2, <2>3
<1>5. index > 0 => index \in 1..Len(Primes) /\ Primes[index] \in Nat
  BY <1>1, PrimesExact
\* Where it is: at the number it has given last, or past its limit.
<1>6. \/ index = 0 /\ p[i] = 0
      \/ index > 0 /\ p[i] = Primes[index]
      \/ /\ index > 0 /\ top > 0 /\ p[i] = top + 1
         /\ \A q \in Nat : IsPrime(q) /\ q <= top => q <= Primes[index]
  BY <1>1 DEF StreamInv, ExactInv, PositionsInv, PassedInv
<1>7. \/ /\ limit' = limit /\ p' = [p EXCEPT ![i] = p'[i]]
         /\ IF top = 0 \/ (p[i] <= top /\ next <= top) THEN p'[i] = next ELSE p'[i] > top
  <2>1. CASE Give(i, Primes[index + 1], index + 1)
    <3>1. index + 1 \in Nat
      BY <1>1
    <3>2. limit' = limit /\ p' = [p EXCEPT ![i] = p'[i]] /\ p'[i] = Primes[index + 1]
      BY <1>4, <2>1, <3>1
    <3>3. index + 1 \in 1..Len(Primes) /\ Primes[index + 1] \in Nat /\ IsPrime(Primes[index + 1])
      <4>1. index + 1 \in 1..Len(Primes)
        <5> SUFFICES ASSUME index + 1 \notin 1..Len(Primes) PROVE FALSE
          OBVIOUS
        <5>1. Give(i, top + 1, index)
          BY NextExact DEF StreamInv
        <5>2. iter'[i]._index = index /\ iter'[i]._index = index + 1
          BY <1>1, <1>2, <2>1, <3>1, <5>1, GivenTo
        <5> QED
          BY <1>1, <5>2
      <4> QED
        BY <4>1, PrimesExact
    <3>4. CASE \/ index = 0 /\ p[i] = 0
               \/ index > 0 /\ p[i] = Primes[index]
      <4>1. next = Primes[index + 1] /\ Primes[index + 1] > p[i]
        <5> DEFINE n == p[i]
        <5>1. n \in Nat /\ index \in Nat /\ (index = 0 => n = 0) /\ (index > 0 => n = Primes[index])
          BY <1>1, <3>4
        <5>2. index + 1 \in 1..Len(Primes)
          BY <3>3
        <5> HIDE DEF index, n
        <5>3. Min({m \in Range(Primes) : m > n}) = Primes[index + 1] /\ Primes[index + 1] > n
          BY <5>1, <5>2, AfterPosition
        <5> QED
          BY <5>3 DEF n
      <4> HIDE DEF next, index, top
      <4> QED
        BY <1>1, <3>2, <3>3, <4>1
    <3>5. CASE /\ index > 0 /\ top > 0 /\ p[i] = top + 1
               /\ \A q \in Nat : IsPrime(q) /\ q <= top => q <= Primes[index]
      <4>1. Primes[index] < Primes[index + 1]
        <5>1. index \in 1..Len(Primes) /\ index + 1 \in 1..Len(Primes) /\ index < index + 1
          BY <1>1, <1>5, <3>3, <3>5
        <5>2. Ascends(Primes)
          BY PrimesExact
        <5> HIDE DEF index
        <5> QED
          BY <5>1, <5>2 DEF Ascends
      <4>2. Primes[index + 1] > top
        <5> DEFINE q == Primes[index + 1]
        <5>1. q \in Nat /\ IsPrime(q)
          BY <3>3, PrimesExact
        <5>2. q > Primes[index] /\ Primes[index] \in Nat /\ top \in Nat
          BY <1>1, <1>5, <3>5, <4>1
        <5>3. q <= top => q <= Primes[index]
          BY <3>5, <5>1
        <5> HIDE DEF q, index, top
        <5>4. q > top
          BY <5>1, <5>2, <5>3
        <5> QED
          BY <5>4 DEF q
      <4> HIDE DEF next, index, top
      <4> QED
        BY <1>1, <3>2, <3>5, <4>2
    <3> QED
      BY <1>6, <3>4, <3>5
  <2>2. CASE ~Give(i, Primes[index + 1], index + 1)
    <3>1. /\ Give(i, top + 1, index) /\ top > 0 /\ index \in 1..Len(Primes) /\ Primes[index] <= MaxPrime
          /\ \A q \in Nat : IsPrime(q) /\ q <= top => q <= Primes[index]
      BY <2>2, PastLimit DEF StreamInv
    <3>2. limit' = limit /\ p' = [p EXCEPT ![i] = p'[i]] /\ p'[i] = top + 1
      BY <1>1, <1>4, <3>1
    <3>3. ASSUME p[i] <= top
          PROVE  next > top /\ next \in Nat
      <4>1. p[i] = Primes[index] /\ index > 0
        BY <1>1, <1>6, <3>1, <3>3
      <4>2. Primes[index] \in 1..MaxPrime /\ Primes[index] \in Nat
        BY <3>1, PrimesExact, BoundAssumption
      <4>3. PICK q \in (Primes[index] + 1)..(2 * Primes[index]) : IsPrime(q)
        BY <4>2 DEF Bertrand
      <4>4. q \in Nat /\ q > Primes[index] /\ q <= Bound
        BY <4>2, BoundAssumption
      <4>5. PICK k \in 1..Len(Primes) : Primes[k] = q
        BY <4>3, <4>4, PrimesExact DEF IsIn
      <4>6. k > index
        <5> SUFFICES ASSUME k <= index PROVE FALSE
          BY <1>1, PrimesExact
        <5>1. k = index \/ k < index
          BY <1>1
        <5>2. k < index => Primes[k] < Primes[index]
          BY <3>1, PrimesExact DEF Ascends
        <5> QED
          BY <4>2, <4>4, <4>5, <5>1, <5>2
      <4>7. index + 1 \in 1..Len(Primes)
        <5>1. Len(Primes) \in Nat
          BY PrimesExact
        <5> HIDE DEF index
        <5> QED
          BY <1>1, <4>5, <4>6, <5>1
      <4>8. Primes[index + 1] \in Nat /\ IsPrime(Primes[index + 1])
        BY <4>7, PrimesExact
      <4>9. next = Primes[index + 1] /\ Primes[index + 1] > p[i]
        <5> DEFINE n == p[i]
        <5>1. n \in Nat /\ index \in Nat /\ (index = 0 => n = 0) /\ (index > 0 => n = Primes[index])
          BY <1>1, <4>1
        <5> HIDE DEF index, n
        <5>2. Min({m \in Range(Primes) : m > n}) = Primes[index + 1] /\ Primes[index + 1] > n
          BY <4>7, <5>1, AfterPosition
        <5> QED
          BY <5>2 DEF n
      <4>10. ~ (Primes[index + 1] <= top)
        BY <1>1, <3>1, <4>1, <4>2, <4>8, <4>9
      <4> QED
        BY <1>1, <4>8, <4>9, <4>10
    <3> HIDE DEF next, index, top
    <3> QED
      BY <1>1, <3>1, <3>2, <3>3
  <2> QED
    BY <2>1, <2>2
<1> HIDE DEF top
<1> QED
  BY <1>1, <1>3, <1>7 DEF Stream!Advance, Stream!Min, Stream!Range, Min, Range

LEMMA StreamStep ==
  ASSUME Bertrand, StreamInv, [Next]_vars
  PROVE  [Stream!Next]_(Stream!vars)
<1>1. /\ iter \in [Iters -> IterType \cup {None}] /\ p \in [Iters -> Nat]
      /\ \A i \in Iters : iter[i] = None => p[i] = 0
  BY DEF StreamInv, ExactInv, SoundInv, UsersInv
<1>2. CASE UNCHANGED <<iter, p, primes>>
  BY <1>2 DEF Stream!vars, limit
<1>3. ASSUME NEW top \in ListLimits, generate_primes(top)
      PROVE  Stream!List
  <2>1. UNCHANGED <<iter, p>> /\ primes' = SubSeq(Primes, 1, upper_bound(Primes, top))
    BY <1>3, GivenExact DEF StreamInv
  <2>2. UNCHANGED <<limit, p>>
    BY <2>1 DEF limit
  <2> QED
    BY <2>1, <2>2 DEF Stream!List, Stream!Cardinality, Cardinality, upper_bound
<1>4. ASSUME NEW i \in Iters, NEW top \in IterLimits, iterator(i, top)
      PROVE  Stream!Open(i)
  <2> DEFINE new == [_index |-> 0, _limit |-> top]
  <2>1. new # None /\ new._limit = top
    BY NoneAssumption
  <2> HIDE DEF new
  <2>2. iter[i] = None /\ iter' = [iter EXCEPT ![i] = new] /\ UNCHANGED <<p, primes>>
    BY <1>4 DEF iterator, new
  <2>3. limit[i] = None
    BY <2>2 DEF limit
  <2>4. limit' = [limit EXCEPT ![i] = top]
    BY <1>1, <2>1, <2>2 DEF limit
  <2> QED
    BY <2>2, <2>3, <2>4 DEF Stream!Open
<1>5. ASSUME NEW i \in Iters, delete_iterator(i)
      PROVE  Stream!Close(i)
  <2>1. /\ iter[i] # None /\ iter' = [iter EXCEPT ![i] = None] /\ p' = [p EXCEPT ![i] = 0]
        /\ primes' = primes
    BY <1>5 DEF delete_iterator
  <2>2. limit[i] # None
    BY <1>1, <2>1, NoneAssumption DEF limit, IterType
  <2>3. limit' = [limit EXCEPT ![i] = None]
    BY <1>1, <2>1 DEF limit
  <2> QED
    BY <2>1, <2>2, <2>3 DEF Stream!Close
<1>6. ASSUME NEW i \in Iters, next_prime(i)
      PROVE  Stream!Advance(i)
  BY <1>6, NextIsAdvance
<1>7. set_clear \/ clear \/ set_sieve_size \/ UNCHANGED vars => UNCHANGED <<iter, p, primes>>
  BY DEF set_clear, clear, set_sieve_size, vars
<1> QED
  BY <1>2, <1>3, <1>4, <1>5, <1>6, <1>7 DEF Next, Stream!Next

\* The list that everyone grows and cuts back is invisible: as far as one
\* segment reaches, and given a prime between each number and its double, each
\* iterator goes through the primes on its own, none left out and none given
\* twice, until it is past its limit, and generate_primes fills in all primes
\* up to its limit (next_prime, generate_primes).
THEOREM SieveStream == ASSUME OneSegment, Bertrand PROVE Spec => StreamSpec
<1>1. Init => StreamInv /\ Stream!Init
  BY StreamInit
<1>2. StreamInv /\ [Next]_vars => StreamInv'
  BY ExactStep, PassedStep DEF StreamInv
<1>3. StreamInv /\ [Next]_vars => [Stream!Next]_(Stream!vars)
  BY StreamStep
<1> QED
  BY <1>1, <1>2, <1>3, PTL DEF Spec, StreamSpec, Stream!Spec
=============================================================================
