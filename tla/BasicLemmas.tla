---------------------------- MODULE BasicLemmas ----------------------------
(***************************************************************************)
(* What the proofs of several components need about natural numbers, prime *)
(* numbers and sequences.  The library's induction theorems take an        *)
(* operator as a parameter; the forms here take sets and functions.        *)
(***************************************************************************)
EXTENDS Integers, Sequences, PrimeNumbers, SequenceTheorems, WellFoundedInduction, TLAPS

\* The form in which induction is used: a set of natural numbers with an
\* element has a least one.
LEMMA LeastNumber ==
  ASSUME NEW S \in SUBSET Nat, S # {}
  PROVE  \E x \in S : \A y \in S : x <= y
<1> DEFINE less == {ss \in Nat \X Nat : ss[1] < ss[2]}
<1>1. IsWellFoundedOn(less, Nat)
  BY NatLessThanWellFounded DEF OpToRel
<1> HIDE DEF less
<1>2. PICK x \in S : \A y \in S : ~ (<<y, x>> \in less)
  BY <1>1, WFMin
<1>3. \A y \in S : ~ (y < x)
  BY <1>2 DEF less
<1> QED
  BY <1>3

\* Induction up to a number, over a set.
LEMMA CountUp ==
  ASSUME NEW n \in Nat, NEW T, 0 \in T, \A k \in 1..n : k - 1 \in T => k \in T
  PROVE  \A k \in 0..n : k \in T
<1> DEFINE Fails == {k \in Nat : k <= n /\ k \notin T}
<1>1. SUFFICES ASSUME Fails # {} PROVE FALSE
  OBVIOUS
<1>2. PICK k \in Fails : \A l \in Fails : k <= l
  BY <1>1, LeastNumber
<1>3. k \in 1..n /\ k - 1 \in Nat /\ k - 1 <= n /\ ~ (k <= k - 1)
  BY <1>2
<1>4. k - 1 \in T
  BY <1>2, <1>3
<1> QED
  BY <1>2, <1>3, <1>4

\* g makes an element of S from every other, and from the number of the step.
Steps(g, n, S) == \A k \in 1..n, s \in S : g[<<k, s>>] \in S

\* f begins with c, and g makes every value from the one before.
Recurs(f, n, c, g) == f[0] = c /\ \A k \in 1..n : f[k] = g[<<k, f[k - 1]>>]

\* A recursive function exists.
LEMMA Recursion ==
  ASSUME NEW n \in Nat, NEW S, NEW c \in S, NEW g, Steps(g, n, S)
  PROVE  \E f \in [0..n -> S] : Recurs(f, n, c, g)
<1> USE DEF Steps
<1> DEFINE Upto(m, f) == f[0] = c /\ \A k \in 1..m : f[k] = g[<<k, f[k - 1]>>]
           T == {m \in 0..n : \E f \in [0..m -> S] : Upto(m, f)}
<1>1. 0 \in T
  <2> DEFINE f == [k \in 0..0 |-> c]
  <2>1. f \in [0..0 -> S] /\ f[0] = c /\ \A k \in 1..0 : FALSE
    OBVIOUS
  <2>2. Upto(0, f)
    BY <2>1
  <2> HIDE DEF f, Upto
  <2>3. 0 \in 0..n
    OBVIOUS
  <2> QED
    BY <2>1, <2>2, <2>3
<1>2. ASSUME NEW m \in 1..n, m - 1 \in T
      PROVE  m \in T
  <2>1. PICK f \in [0..(m - 1) -> S] : Upto(m - 1, f)
    BY <1>2
  <2> DEFINE h == [k \in 0..m |-> IF k = m THEN g[<<m, f[m - 1]>>] ELSE f[k]]
  <2>2. m - 1 \in 0..(m - 1) /\ \A k \in 0..m : k = m \/ k \in 0..(m - 1)
    OBVIOUS
  <2>3. h \in [0..m -> S]
    BY <2>2
  <2>4. h[0] = c /\ h[m] = g[<<m, f[m - 1]>>] /\ \A k \in 0..(m - 1) : h[k] = f[k]
    BY <2>1, <2>2
  <2> HIDE DEF h
  <2>5. ASSUME NEW k \in 1..m
        PROVE  h[k] = g[<<k, h[k - 1]>>]
    <3>1. k - 1 \in 0..(m - 1) /\ (k = m \/ k \in 1..(m - 1))
      OBVIOUS
    <3>2. h[k - 1] = f[k - 1]
      BY <2>4, <3>1
    <3>3. CASE k = m
      BY <2>4, <3>2, <3>3
    <3>4. CASE k # m
      <4>1. k \in 1..(m - 1) /\ k \in 0..(m - 1)
        BY <3>1, <3>4
      <4>2. h[k] = f[k] /\ f[k] = g[<<k, f[k - 1]>>]
        BY <2>1, <2>4, <4>1
      <4> QED
        BY <3>2, <4>2
    <3> QED
      BY <3>3, <3>4
  <2>6. Upto(m, h)
    BY <2>4, <2>5
  <2> QED
    BY <2>3, <2>6
<1> HIDE DEF T
<1>3. \A m \in 0..n : m \in T
  BY <1>1, <1>2, CountUp
<1>4. n \in T
  BY <1>3
<1> QED
  BY <1>4 DEF T, Recurs

\* Two functions that start alike and stay alike in every step end alike.
LEMMA InStep ==
  ASSUME NEW n \in Nat, NEW a, NEW b, a[0] = b[0],
         \A m \in 0..(n - 1) : a[m] = b[m] => a[m + 1] = b[m + 1]
  PROVE  a[n] = b[n]
<1> DEFINE Fails == {m \in Nat : m <= n /\ a[m] # b[m]}
<1>1. SUFFICES ASSUME Fails # {} PROVE FALSE
  OBVIOUS
<1>2. PICK m \in Fails : \A l \in Fails : m <= l
  BY <1>1, LeastNumber
<1> DEFINE l == m - 1
<1>3. l \in 0..(n - 1) /\ m = l + 1 /\ a[l] = b[l]
  BY <1>2
<1> HIDE DEF l
<1> QED
  BY <1>2, <1>3

\* The places of a sequence that is one longer.
LEMMA OneLonger ==
  ASSUME NEW a \in Nat, NEW b, b = a + 1
  PROVE  /\ \A k \in 1..b : k = a + 1 \/ k \in 1..a
         /\ \A k \in 1..a : k \in 1..b
         /\ a + 1 \in 1..b
OBVIOUS

\* The last element of a sequence was in it, and the others stay.
LEMMA Popped ==
  ASSUME NEW S, NEW s \in Seq(S), s # <<>>
  PROVE  /\ Len(s) \in Nat \ {0}
         /\ s[Len(s)] \in S
         /\ SubSeq(s, 1, Len(s) - 1) \in Seq(S)
         /\ Len(SubSeq(s, 1, Len(s) - 1)) = Len(s) - 1
         /\ \A k \in 1..(Len(s) - 1) : SubSeq(s, 1, Len(s) - 1)[k] = s[k]
<1> DEFINE n == Len(s) - 1
<1>1. Len(s) \in Nat \ {0}
  BY EmptySeq
<1>2. \A k \in 1..Len(s) : s[k] \in S
  BY ElementOfSeq
<1>3. n \in Nat /\ \A k \in 1..n : s[k] \in S
  BY <1>1, <1>2
<1> HIDE DEF n
<1>4. /\ SubSeq(s, 1, n) \in Seq(S)
      /\ Len(SubSeq(s, 1, n)) = IF 1 <= n THEN n - 1 + 1 ELSE 0
      /\ \A k \in 1..(n - 1 + 1) : SubSeq(s, 1, n)[k] = s[1 + k - 1]
  BY <1>3, SubSeqProperties
<1>5. Len(SubSeq(s, 1, n)) = n /\ \A k \in 1..n : SubSeq(s, 1, n)[k] = s[k]
  <2>1. n - 1 + 1 = n /\ \A k \in 1..n : 1 + k - 1 = k
    BY <1>3
  <2> QED
    BY <1>3, <1>4, <2>1
<1> QED
  BY <1>1, <1>2, <1>4, <1>5 DEF n
-----------------------------------------------------------------------------
(* Divisors and prime numbers *)

LEMMA Divided ==
  ASSUME NEW n \in Nat, NEW d \in Nat \ {0}
  PROVE  /\ n % d = 0 => \E q \in Nat : n = d * q
         /\ \A q \in Nat : n = d * q => n % d = 0
<1>1. n = d * (n \div d) + (n % d) /\ n \div d \in Nat
  OBVIOUS
<1>2. ASSUME NEW q \in Nat, n = d * q
      PROVE  n % d = 0
  BY <1>2
<1> QED
  BY <1>1, <1>2

LEMMA LargerFactor ==
  ASSUME NEW a \in Nat, NEW b \in Nat, NEW c \in Nat, b <= c
  PROVE  a * b \in Nat /\ a * b <= a * c
<1>1. a * c = a * b + a * (c - b) /\ a * b \in Nat /\ a * (c - b) \in Nat
  OBVIOUS
<1> QED
  BY <1>1

\* A number that is not prime has a prime divisor up to its square root.
LEMMA SmallDivisor ==
  ASSUME NEW n \in Nat, n > 1, ~IsPrime(n)
  PROVE  \E d \in Nat : IsPrime(d) /\ d * d <= n /\ n % d = 0
<1> DEFINE S == {d \in Nat : d > 1 /\ n % d = 0}
<1>1. PICK e \in 2..(n - 1) : n % e = 0
  BY DEF IsPrime
<1>2. S # {} /\ S \in SUBSET Nat
  BY <1>1
<1>3. PICK d \in S : \A y \in S : d <= y
  BY <1>2, LeastNumber
<1>4. d \in Nat /\ d > 1 /\ n % d = 0 /\ d <= e
  BY <1>1, <1>3
<1>5. PICK q \in Nat : n = d * q
  <2>1. d \in Nat \ {0}
    BY <1>4
  <2> QED
    BY <1>4, <2>1, Divided
<1>6. q > 1
  <2>1. q # 0 /\ q # 1
    BY <1>1, <1>4, <1>5
  <2> QED
    BY <2>1
<1>7. n = q * d /\ n % q = 0
  BY <1>4, <1>5, <1>6, Divided
<1>8. d <= q
  BY <1>3, <1>6, <1>7
<1>9. d * d <= n
  BY <1>4, <1>5, <1>8, LargerFactor
<1>10. IsPrime(d)
  <2> SUFFICES ASSUME NEW c \in 2..(d - 1), d % c = 0
               PROVE  FALSE
    BY <1>4 DEF IsPrime
  <2>1. PICK r \in Nat : d = c * r
    <3>1. c \in Nat \ {0}
      OBVIOUS
    <3> QED
      BY <1>4, <3>1, Divided
  <2>2. n = c * (r * q) /\ r * q \in Nat
    <3>1. n = (c * r) * q
      BY <1>5, <2>1
    <3> QED
      BY <2>1, <1>5, <3>1
  <2>3. n % c = 0
    BY <2>2, Divided
  <2>4. c \in S
    BY <2>3
  <2>5. d <= c
    BY <1>3, <2>4
  <2> QED
    BY <1>4, <2>5
<1> QED
  BY <1>4, <1>9, <1>10

\* The only divisor of a prime number above 1 is itself.
LEMMA OnlyItself ==
  ASSUME NEW q \in Nat, IsPrime(q), NEW d \in Nat, d > 1, q % d = 0
  PROVE  d = q
<1>1. PICK r \in Nat : q = d * r
  <2>1. d \in Nat \ {0}
    OBVIOUS
  <2> QED
    BY <2>1, Divided
<1>2. r # 0
  BY <1>1 DEF IsPrime
<1>3. d <= q
  BY <1>1, <1>2, LargerFactor
<1>4. d \notin 2..(q - 1)
  BY DEF IsPrime
<1> QED
  BY <1>3, <1>4

\* Squares grow, so that what is behind a root is above it.
LEMMA SquaresGrow ==
  ASSUME NEW a \in Nat, NEW b \in Nat, a * a < b * b
  PROVE  a < b
<1> SUFFICES ASSUME b <= a PROVE FALSE
  OBVIOUS
<1>1. b * b <= b * a /\ a * b <= a * a /\ b * a = a * b
  BY LargerFactor
<1> QED
  BY <1>1

\* No square up to n has a root above r.
Covers(r, n) == \A d \in Nat : d * d <= n => d <= r

\* The root that _extend takes, rounded down.
LEMMA Root ==
  ASSUME NEW n \in Nat
  PROVE  /\ Isqrt(n) \in 0..n
         /\ Isqrt(n) * Isqrt(n) <= n
         /\ \A d \in Nat : d * d <= n => d <= Isqrt(n)
         /\ n > 3 => Isqrt(n) < n - 1
<1> DEFINE S == {s \in Nat : n < s * s}
<1>1. n + 1 \in S
  <2>1. (n + 1) * (n + 1) = n * n + 2 * n + 1 /\ n * n \in Nat
    OBVIOUS
  <2> QED
    BY <2>1
<1>2. PICK s \in S : \A y \in S : s <= y
  BY <1>1, LeastNumber
<1>3. s \in 1..(n + 1) /\ ~ (s - 1 \in S)
  BY <1>1, <1>2
<1>4. (s - 1) \in 0..n /\ (s - 1) * (s - 1) <= n /\ n < ((s - 1) + 1) * ((s - 1) + 1)
  BY <1>2, <1>3
<1>5. \E r \in 0..n : r * r <= n /\ n < (r + 1) * (r + 1)
  BY <1>4
<1> DEFINE r == Isqrt(n)
<1>6. r \in 0..n /\ r * r <= n /\ n < (r + 1) * (r + 1)
  BY <1>5 DEF Isqrt
<1> HIDE DEF r
<1>7. ASSUME NEW d \in Nat, d * d <= n
      PROVE  d <= r
  <2>1. d * d < (r + 1) * (r + 1)
    BY <1>6, <1>7
  <2>2. d < r + 1
    BY <1>6, <2>1, SquaresGrow
  <2> QED
    BY <1>6, <2>2
<1>8. ASSUME n > 3
      PROVE  r < n - 1
  <2> SUFFICES ASSUME n - 1 <= r PROVE FALSE
    BY <1>6
  <2>1. r >= 3
    BY <1>6, <1>8
  <2>2. 3 * r <= r * r
    BY <1>6, <2>1, LargerFactor
  <2> QED
    BY <1>6, <1>8, <2>2
<1> QED
  BY <1>6, <1>7, <1>8 DEF r
=============================================================================
