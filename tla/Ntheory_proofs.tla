---------------------------- MODULE Ntheory_proofs ----------------------------
(***************************************************************************)
(* Theorems about the functions of src/src/ntheory.cpp.  Quotients,        *)
(* greatest common divisors, least common multiples and inverses are what  *)
(* they are called, and crt solves every system of congruences that has a  *)
(* solution (module Arithmetic); the functions that factor a number by     *)
(* division find its prime factors (Factorization).                        *)
(***************************************************************************)
EXTENDS Factorization, BasicLemmas

(* Divisors and quotients *)

\* d divides n.
Divides(d, n) == \E q \in Int : n = d * q

LEMMA DividesSum ==
  ASSUME NEW d \in Int, NEW a \in Int, NEW b \in Int, Divides(d, a), Divides(d, b)
  PROVE  Divides(d, a + b) /\ Divides(d, a - b)
<1>1. PICK x \in Int : a = d * x
  BY DEF Divides
<1>2. PICK y \in Int : b = d * y
  BY DEF Divides
<1>3. a + b = d * (x + y) /\ a - b = d * (x - y) /\ x + y \in Int /\ x - y \in Int
  BY <1>1, <1>2
<1> QED
  BY <1>3 DEF Divides

LEMMA DividesMultiple ==
  ASSUME NEW d \in Int, NEW a \in Int, Divides(d, a), NEW c \in Int
  PROVE  Divides(d, a * c) /\ Divides(d, c * a)
<1>1. PICK x \in Int : a = d * x
  BY DEF Divides
<1>2. x * c \in Int /\ a * c = d * (x * c) /\ c * a = d * (x * c)
  BY <1>1
<1> QED
  BY <1>2 DEF Divides

LEMMA DividesTransitive ==
  ASSUME NEW d \in Int, NEW e \in Int, NEW a \in Int, Divides(d, e), Divides(e, a)
  PROVE  Divides(d, a)
<1>1. PICK x \in Int : a = e * x
  BY DEF Divides
<1> QED
  BY <1>1, DividesMultiple

LEMMA DividesVia ==
  ASSUME NEW d \in Int, NEW a \in Int, NEW b \in Int, NEW c \in Int,
         Divides(d, a - b), Divides(d, b - c)
  PROVE  Divides(d, a - c)
<1>1. a - b \in Int /\ b - c \in Int /\ (a - b) + (b - c) = a - c
  OBVIOUS
<1>2. Divides(d, (a - b) + (b - c))
  BY <1>1, DividesSum
<1> QED
  BY <1>1, <1>2

LEMMA DividesItself ==
  ASSUME NEW d \in Int
  PROVE  Divides(d, d) /\ Divides(d, 0) /\ Divides(1, d) /\ Divides(d, -d) /\ Divides(-d, d)
<1>1. d = d * 1 /\ 0 = d * 0 /\ d = 1 * d /\ -d = d * (-1) /\ d = (-d) * (-1)
  OBVIOUS
<1> QED
  BY <1>1 DEF Divides

LEMMA Division ==
  ASSUME NEW n \in Int, NEW d \in Nat \ {0}
  PROVE  n \div d \in Int /\ n % d \in 0..(d - 1) /\ n = d * (n \div d) + (n % d)
OBVIOUS

\* A remainder is unique.
LEMMA NoRemainder ==
  ASSUME NEW n \in Int, NEW d \in Nat \ {0}
  PROVE  n % d = 0 <=> Divides(d, n)
<1>1. n \div d \in Int /\ n % d \in 0..(d - 1) /\ n = d * (n \div d) + (n % d)
  BY Division
<1>2. ASSUME n % d = 0
      PROVE  Divides(d, n)
  <2>1. n = d * (n \div d)
    BY <1>1, <1>2
  <2> QED
    BY <1>1, <2>1 DEF Divides
<1>3. ASSUME Divides(d, n)
      PROVE  n % d = 0
  <2>1. PICK q \in Int : n = d * q
    BY <1>3 DEF Divides
  <2> DEFINE c == q - (n \div d)
             r == n % d
  <2>2. r = d * c /\ c \in Int /\ r \in 0..(d - 1)
    BY <1>1, <2>1
  <2> HIDE DEF c, r
  <2>3. CASE c > 0
    <3>1. d * 1 <= d * c
      BY <2>2, <2>3, LargerFactor
    <3> QED
      BY <2>2, <3>1
  <2>4. CASE c < 0
    <3>1. d * 1 <= d * (-c) /\ d * (-c) = -(d * c)
      BY <2>2, <2>4, LargerFactor
    <3> QED
      BY <2>2, <3>1
  <2>5. CASE c = 0
    BY <2>2, <2>5 DEF r
  <2> QED
    BY <2>2, <2>3, <2>4, <2>5
<1> QED
  BY <1>2, <1>3

LEMMA Magnitude ==
  ASSUME NEW n \in Int
  PROVE  /\ mpz_abs(n) \in Nat /\ (n # 0 => mpz_abs(n) \in Nat \ {0})
         /\ sgn(n) \in Int /\ mpz_abs(n) = sgn(n) * n /\ n = sgn(n) * mpz_abs(n)
BY DEF mpz_abs, sgn

\* A sign changes nothing of divisors.
LEMMA DividesMagnitude ==
  ASSUME NEW d \in Int, NEW n \in Int
  PROVE  /\ Divides(mpz_abs(d), n) <=> Divides(d, n)
         /\ Divides(d, mpz_abs(n)) <=> Divides(d, n)
<1>1. /\ mpz_abs(d) = d \/ (mpz_abs(d) = -d /\ d = -mpz_abs(d))
      /\ mpz_abs(n) = n \/ (mpz_abs(n) = -n /\ n = -mpz_abs(n))
      /\ mpz_abs(d) \in Int /\ mpz_abs(n) \in Int
  BY DEF mpz_abs
<1>2. Divides(d, mpz_abs(d)) /\ Divides(mpz_abs(d), d) /\ Divides(n, mpz_abs(n)) /\ Divides(mpz_abs(n), n)
  BY <1>1, DividesItself
<1> QED
  BY <1>1, <1>2, DividesTransitive

LEMMA DivisibleExact ==
  ASSUME NEW n \in Int, NEW d \in Int
  PROVE  divisible(n, d) <=> Divides(d, n)
<1>1. CASE d = 0
  <2>1. \A q \in Int : 0 * q = 0
    OBVIOUS
  <2> QED
    BY <1>1, <2>1 DEF divisible, Divides
<1>2. CASE d # 0
  <2>1. mpz_abs(n) \in Int /\ mpz_abs(d) \in Nat \ {0}
    BY <1>2, Magnitude
  <2>2. mpz_abs(n) % mpz_abs(d) = 0 <=> Divides(mpz_abs(d), mpz_abs(n))
    BY <2>1, NoRemainder
  <2> QED
    BY <1>2, <2>1, <2>2, DividesMagnitude DEF divisible
<1> QED
  BY <1>1, <1>2

\* Rounding to zero does not matter where nothing remains.
LEMMA ExactQuotient ==
  ASSUME NEW n \in Int, NEW d \in Int, d # 0, Divides(d, n)
  PROVE  tdiv_q(n, d) \in Int /\ n = d * tdiv_q(n, d)
<1> DEFINE a == mpz_abs(n)
           b == mpz_abs(d)
           q == a \div b
<1>1. /\ a \in Int /\ b \in Nat \ {0} /\ n = sgn(n) * a /\ d = sgn(d) * b
      /\ sgn(n) \in Int /\ sgn(d) \in {-1, 1}
  BY Magnitude DEF sgn
<1>2. Divides(b, a)
  BY <1>1, DividesMagnitude
<1> HIDE DEF a, b
<1>3. q \in Int /\ a = b * q
  BY <1>1, <1>2, NoRemainder, Division
<1> HIDE DEF q
<1>4. tdiv_q(n, d) = (sgn(n) * sgn(d)) * q
  BY DEF tdiv_q, q, a, b
<1>5. n = (sgn(d) * b) * ((sgn(n) * sgn(d)) * q) /\ (sgn(n) * sgn(d)) * q \in Int
  <2>1. CASE sgn(d) = 1
    <3>1. (1 * b) * ((sgn(n) * 1) * q) = sgn(n) * (b * q)
      BY <1>1, <1>3
    <3> QED
      BY <1>1, <1>3, <2>1, <3>1
  <2>2. CASE sgn(d) = -1
    <3>1. ((-1) * b) * ((sgn(n) * (-1)) * q) = sgn(n) * (b * q)
      BY <1>1, <1>3
    <3> QED
      BY <1>1, <1>3, <2>2, <3>1
  <2> QED
    BY <1>1, <2>1, <2>2
<1> QED
  BY <1>1, <1>4, <1>5

\* Rounding down, the remainder has the sign of the divisor.
LEMMA FloorQuotient ==
  ASSUME NEW n \in Int, NEW d \in Int, d # 0
  PROVE  /\ fdiv_q(n, d) \in Int /\ fdiv_r(n, d) \in Int
         /\ n = d * fdiv_q(n, d) + fdiv_r(n, d)
         /\ d > 0 => 0 <= fdiv_r(n, d) /\ fdiv_r(n, d) < d
         /\ d < 0 => d < fdiv_r(n, d) /\ fdiv_r(n, d) <= 0
<1>1. CASE d > 0
  <2>1. n \div d \in Int /\ n % d \in 0..(d - 1) /\ n = d * (n \div d) + (n % d)
    BY <1>1, Division
  <2>2. fdiv_q(n, d) = n \div d
    BY <1>1 DEF fdiv_q
  <2> DEFINE q == n \div d
             c == d * q
  <2>3. c \in Int
    BY <2>1
  <2>4. fdiv_r(n, d) = n - c
    BY <2>2 DEF fdiv_r
  <2> HIDE DEF c
  <2>5. fdiv_r(n, d) = n % d
    BY <2>1, <2>3, <2>4 DEF c
  <2> QED
    BY <1>1, <2>1, <2>2, <2>5
<1>2. CASE d < 0
  <2> DEFINE e == -d
             m == -n
             q == m \div e
             r == m % e
  <2>1. e \in Nat \ {0} /\ m \in Int
    BY <1>2
  <2>2. q \in Int /\ r \in 0..(e - 1) /\ m = e * q + r
    <3> HIDE DEF e, m
    <3> QED
      BY <2>1, Division
  <2>3. fdiv_q(n, d) = q
    BY <1>2 DEF fdiv_q
  <2> HIDE DEF q, r
  <2>4. e * q = -(d * q) /\ d * q \in Int
    BY <2>2
  <2>5. fdiv_r(n, d) = -r
    BY <2>2, <2>3, <2>4 DEF fdiv_r
  <2> QED
    BY <1>2, <2>1, <2>2, <2>3, <2>4, <2>5
<1> QED
  BY <1>1, <1>2

\* Division with remainder: n is q * d + r, and r is smaller than d and has its
\* sign; mod ignores the sign of d, as mpz_mod does (ntheory.cpp:78-99).
THEOREM QuotientsExact ==
  ASSUME NEW n \in Int, NEW d \in Int
  PROVE  IF d = 0 THEN mod(n, d) = Error /\ quotient_f(n, d) = Error /\ quotient_mod(n, d) = Error
         ELSE LET qr == quotient_mod(n, d)
              IN  /\ qr.q \in Int /\ qr.r \in Int /\ n = d * qr.q + qr.r
                  /\ d > 0 => 0 <= qr.r /\ qr.r < d
                  /\ d < 0 => d < qr.r /\ qr.r <= 0
                  /\ quotient_f(n, d) = qr.q
                  /\ mod(n, d) \in 0..(mpz_abs(d) - 1)
                  /\ Divides(d, n - mod(n, d))
<1>1. CASE d = 0
  BY <1>1 DEF mod, quotient_f, quotient_mod
<1>2. CASE d # 0
  <2>1. /\ quotient_mod(n, d).q = fdiv_q(n, d) /\ quotient_mod(n, d).r = fdiv_r(n, d)
        /\ quotient_f(n, d) = fdiv_q(n, d)
        /\ mod(n, d) = n % mpz_abs(d)
    BY <1>2 DEF mod, quotient_f, quotient_mod
  <2> DEFINE e == mpz_abs(d)
             q == n \div e
  <2>2. e \in Nat \ {0}
    BY <1>2, Magnitude
  <2>3. q \in Int /\ n % e \in 0..(e - 1) /\ n = e * q + (n % e)
    <3> HIDE DEF e
    <3> QED
      BY <2>2, Division
  <2>4. Divides(e, n - (n % e))
    <3>1. n - (n % e) = e * q
      <4> HIDE DEF e, q
      <4> QED
        BY <2>2, <2>3
    <3> QED
      BY <2>3, <3>1 DEF Divides
  <2>5. Divides(d, n - (n % e))
    <3>1. n - (n % e) \in Int
      <4> HIDE DEF e, q
      <4> QED
        BY <2>3
    <3> QED
      BY <2>4, <3>1, DividesMagnitude
  <2>6. /\ fdiv_q(n, d) \in Int /\ fdiv_r(n, d) \in Int
        /\ n = d * fdiv_q(n, d) + fdiv_r(n, d)
        /\ d > 0 => 0 <= fdiv_r(n, d) /\ fdiv_r(n, d) < d
        /\ d < 0 => d < fdiv_r(n, d) /\ fdiv_r(n, d) <= 0
    BY <1>2, FloorQuotient
  <2>7. mod(n, d) \in 0..(mpz_abs(d) - 1) /\ Divides(d, n - mod(n, d))
    BY <2>1, <2>3, <2>5
  <2> HIDE DEF q, e
  <2> QED
    BY <1>2, <2>1, <2>6, <2>7
<1> QED
  BY <1>1, <1>2
-----------------------------------------------------------------------------
(* The algorithm of Euclid *)

\* What its step makes of a function that knows the smaller second arguments.
Step(h, c) ==
  IF c[2] = 0 THEN <<c[1], 1, 0>>
  ELSE LET e == h[<<c[2], c[1] % c[2]>>]
       IN  <<e[1], e[3], e[2] - (c[1] \div c[2]) * e[3]>>

\* The recursion is one: a function satisfies its equation.
LEMMA EuclidExists ==
  ASSUME NEW b \in Nat
  PROVE  \E f : f = [c \in Nat \X (0..b) |-> Step(f, c)]
<1> DEFINE Fits(f, m) == f = [c \in Nat \X (0..m) |-> f[c]] /\ \A c \in Nat \X (0..m) : f[c] = Step(f, c)
           T == {m \in 0..b : \E f : Fits(f, m)}
<1>1. 0 \in T
  <2> DEFINE f == [c \in Nat \X (0..0) |-> <<c[1], 1, 0>>]
  <2>1. f = [c \in Nat \X (0..0) |-> f[c]] /\ \A c \in Nat \X (0..0) : f[c] = <<c[1], 1, 0>> /\ c[2] = 0
    OBVIOUS
  <2> HIDE DEF f
  <2>2. Fits(f, 0)
    BY <2>1 DEF Step
  <2> HIDE DEF Fits
  <2> QED
    BY <2>2
<1>2. ASSUME NEW m \in 1..b, m - 1 \in T
      PROVE  m \in T
  <2>1. PICK f : Fits(f, m - 1)
    BY <1>2
  <2> DEFINE h == [c \in Nat \X (0..m) |-> IF c[2] = m THEN Step(f, c) ELSE f[c]]
  <2>2. /\ h = [c \in Nat \X (0..m) |-> h[c]]
        /\ \A c \in Nat \X (0..m) : h[c] = IF c[2] = m THEN Step(f, c) ELSE f[c]
    OBVIOUS
  <2> HIDE DEF h
  <2>3. ASSUME NEW c \in Nat \X (0..(m - 1))
        PROVE  h[c] = f[c] /\ f[c] = Step(f, c) /\ c \in Nat \X (0..m)
    <3>1. c \in Nat \X (0..m) /\ c[2] # m
      OBVIOUS
    <3> QED
      BY <2>1, <2>2, <3>1
  <2>4. ASSUME NEW c \in Nat \X (0..m)
        PROVE  h[c] = Step(h, c)
    <3>1. h[c] = Step(f, c)
      <4>1. CASE c[2] = m
        BY <2>2, <4>1
      <4>2. CASE c[2] # m
        <5>1. c \in Nat \X (0..(m - 1))
          BY <4>2
        <5> QED
          BY <2>3, <5>1
      <4> QED
        BY <4>1, <4>2
    <3>2. CASE c[2] = 0
      BY <3>1, <3>2 DEF Step
    <3>3. CASE c[2] # 0
      <4> DEFINE e == <<c[2], c[1] % c[2]>>
      <4>1. c[1] \in Nat /\ c[2] \in 1..m
        BY <3>3
      <4>2. c[1] % c[2] \in 0..(c[2] - 1)
        BY <4>1
      <4>3. e \in Nat \X (0..(m - 1))
        BY <4>1, <4>2
      <4>4. h[e] = f[e]
        BY <2>3, <4>3
      <4> HIDE DEF e
      <4>5. Step(h, c) = Step(f, c)
        BY <3>3, <4>4 DEF Step, e
      <4> QED
        BY <3>1, <4>5
    <3> QED
      BY <3>2, <3>3
  <2>5. Fits(h, m)
    BY <2>2, <2>4
  <2> HIDE DEF Fits
  <2> QED
    BY <2>5
<1> HIDE DEF T
<1>3. b \in T
  <2>1. \A m \in 0..b : m \in T
    BY <1>1, <1>2, CountUp
  <2> QED
    BY <2>1
<1>4. PICK f : Fits(f, b)
  BY <1>3 DEF T
<1>5. f = [c \in Nat \X (0..b) |-> f[c]] /\ \A c \in Nat \X (0..b) : f[c] = Step(f, c)
  BY <1>4
<1>6. f = [c \in Nat \X (0..b) |-> Step(f, c)]
  BY <1>5
<1> QED
  BY <1>6

\* A common divisor of a and b that is a combination of both.
Common(a, b, e) ==
  /\ e[1] \in Nat /\ e[2] \in Int /\ e[3] \in Int
  /\ e[1] = e[2] * a + e[3] * b
  /\ Divides(e[1], a) /\ Divides(e[1], b)

LEMMA EuclidStep ==
  ASSUME NEW a \in Nat, NEW b \in Nat \ {0}, NEW e, Common(b, a % b, e)
  PROVE  Common(a, b, <<e[1], e[3], e[2] - (a \div b) * e[3]>>)
<1> DEFINE q == a \div b
           r == a % b
           g == e[1]
           s == e[2]
           t == e[3]
<1>1. q \in Int /\ r \in Int /\ a = b * q + r
  <2>1. a \in Int
    OBVIOUS
  <2>2. a \div b \in Int /\ a % b \in 0..(b - 1) /\ a = b * (a \div b) + (a % b)
    BY <2>1, Division
  <2> QED
    BY <2>2
<1>2. /\ g \in Nat /\ s \in Int /\ t \in Int
      /\ g = s * b + t * r
      /\ Divides(g, b) /\ Divides(g, r)
  BY DEF Common
<1> HIDE DEF q, r, g, s, t
<1>3. t * a + (s - q * t) * b = s * b + t * r /\ s - q * t \in Int
  <2>1. t * a = t * (b * q) + t * r
    BY <1>1, <1>2
  <2>2. (s - q * t) * b = s * b - t * (b * q)
    BY <1>1, <1>2
  <2> QED
    BY <1>1, <1>2, <2>1, <2>2
<1>4. Divides(g, a)
  <2>1. Divides(g, b * q) /\ b * q \in Int
    BY <1>1, <1>2, DividesMultiple
  <2> QED
    BY <1>1, <1>2, <2>1, DividesSum
<1>5. Common(a, b, <<g, t, s - q * t>>)
  BY <1>2, <1>3, <1>4 DEF Common
<1> QED
  BY <1>5 DEF g, s, t, q

LEMMA EuclidExact ==
  ASSUME NEW a \in Nat, NEW b \in Nat
  PROVE  Common(a, b, Euclid(a, b))
<1> DEFINE h == CHOOSE f : f = [c \in Nat \X (0..b) |-> Step(f, c)]
<1>1. Euclid(a, b) = h[<<a, b>>]
  BY DEF Euclid, Step
<1>2. h = [c \in Nat \X (0..b) |-> Step(h, c)]
  BY EuclidExists
<1> HIDE DEF h
<1>3. ASSUME NEW x \in Nat, NEW y \in 0..b
      PROVE  h[<<x, y>>] = IF y = 0 THEN <<x, 1, 0>>
                           ELSE LET e == h[<<y, x % y>>] IN <<e[1], e[3], e[2] - (x \div y) * e[3]>>
  <2>1. <<x, y>> \in Nat \X (0..b)
    OBVIOUS
  <2>2. h[<<x, y>>] = Step(h, <<x, y>>)
    BY <1>2, <2>1
  <2> QED
    BY <2>2 DEF Step
<1> DEFINE T == {m \in 0..b : \A x \in Nat, y \in 0..b : y <= m => Common(x, y, h[<<x, y>>])}
<1>4. 0 \in T
  <2> SUFFICES ASSUME NEW x \in Nat
               PROVE  Common(x, 0, h[<<x, 0>>])
    OBVIOUS
  <2>1. h[<<x, 0>>] = <<x, 1, 0>>
    <3>1. 0 \in 0..b
      OBVIOUS
    <3> QED
      BY <1>3, <3>1
  <2>2. x = 1 * x + 0 * 0
    OBVIOUS
  <2> QED
    BY <2>1, <2>2, DividesItself DEF Common
<1>5. ASSUME NEW m \in 1..b, m - 1 \in T
      PROVE  m \in T
  <2> SUFFICES ASSUME NEW x \in Nat, NEW y \in 0..b, y <= m
               PROVE  Common(x, y, h[<<x, y>>])
    OBVIOUS
  <2>1. CASE y <= m - 1
    BY <1>5, <2>1
  <2>2. CASE y = m
    <3>1. y \in Nat \ {0}
      BY <2>2
    <3>2. x % y \in 0..b /\ x % y <= m - 1
      BY <2>2, <3>1
    <3> DEFINE e == h[<<y, x % y>>]
    <3>3. Common(y, x % y, e)
      BY <1>5, <3>1, <3>2
    <3>4. h[<<x, y>>] = <<e[1], e[3], e[2] - (x \div y) * e[3]>>
      BY <1>3, <3>1
    <3> HIDE DEF e
    <3> QED
      BY <3>1, <3>3, <3>4, EuclidStep
  <2> QED
    BY <2>1, <2>2
<1> HIDE DEF T
<1>6. \A m \in 0..b : m \in T
  BY <1>4, <1>5, CountUp
<1>7. Common(a, b, h[<<a, b>>])
  BY <1>6 DEF T
<1> QED
  BY <1>1, <1>7

LEMMA GcdextExact ==
  ASSUME NEW a \in Int, NEW b \in Int
  PROVE  Common(a, b, mpz_gcdext(a, b))
<1> DEFINE x == mpz_abs(a)
           y == mpz_abs(b)
           e == Euclid(x, y)
           g == e[1]
           s == e[2]
           t == e[3]
<1>1. x \in Nat /\ y \in Nat /\ x = sgn(a) * a /\ y = sgn(b) * b /\ sgn(a) \in Int /\ sgn(b) \in Int
  BY Magnitude
<1>2. Common(x, y, e)
  <2> HIDE DEF x, y
  <2> QED
    BY <1>1, EuclidExact
<1>3. mpz_gcdext(a, b) = <<g, sgn(a) * s, sgn(b) * t>>
  BY DEF mpz_gcdext
<1> HIDE DEF e
<1>4. /\ g \in Nat /\ s \in Int /\ t \in Int /\ g = s * x + t * y
      /\ Divides(g, x) /\ Divides(g, y)
  BY <1>2 DEF Common
<1>5. Divides(g, a) /\ Divides(g, b)
  <2> HIDE DEF g
  <2> QED
    BY <1>4, DividesMagnitude
<1> HIDE DEF x, y, g, s, t
<1>6. /\ s * x = (sgn(a) * s) * a /\ sgn(a) * s \in Int
      /\ t * y = (sgn(b) * t) * b /\ sgn(b) * t \in Int
  BY <1>1, <1>4
<1> QED
  BY <1>3, <1>4, <1>5, <1>6 DEF Common

\* gcd is the greatest common divisor: it divides both numbers, and whatever
\* divides both divides it; gcd_ext gives it as a combination of both, with
\* factors of either sign (ntheory.cpp:23-51).
THEOREM GcdExact ==
  ASSUME NEW a \in Int, NEW b \in Int
  PROVE  LET e == gcd_ext(a, b)
         IN  /\ e.g \in Nat /\ e.s \in Int /\ e.t \in Int
             /\ e.g = gcd(a, b) /\ e.g = e.s * a + e.t * b
             /\ Divides(e.g, a) /\ Divides(e.g, b)
             /\ \A d \in Int : Divides(d, a) /\ Divides(d, b) => Divides(d, e.g)
             /\ e.g = 0 <=> a = 0 /\ b = 0
<1> DEFINE e == mpz_gcdext(a, b)
           g == e[1]
           s == e[2]
           t == e[3]
<1>1. /\ g \in Nat /\ s \in Int /\ t \in Int
      /\ g = s * a + t * b
      /\ Divides(g, a) /\ Divides(g, b)
  BY GcdextExact DEF Common
<1>2. gcd(a, b) = g /\ gcd_ext(a, b).g = g /\ gcd_ext(a, b).s = s /\ gcd_ext(a, b).t = t
  BY DEF gcd, mpz_gcd, gcd_ext
<1> HIDE DEF g, s, t
<1>3. ASSUME NEW d \in Int, Divides(d, a), Divides(d, b)
      PROVE  Divides(d, g)
  <2>1. Divides(d, s * a) /\ Divides(d, t * b) /\ s * a \in Int /\ t * b \in Int
    BY <1>1, <1>3, DividesMultiple
  <2> QED
    BY <1>1, <2>1, DividesSum
<1>4. g = 0 <=> a = 0 /\ b = 0
  <2>1. ASSUME g = 0
        PROVE  a = 0 /\ b = 0
    <3>1. Divides(0, a) /\ Divides(0, b) /\ \A q \in Int : 0 * q = 0
      BY <1>1, <2>1
    <3> QED
      BY <3>1 DEF Divides
  <2>2. ASSUME a = 0, b = 0
        PROVE  g = 0
    <3>1. s * 0 = 0 /\ t * 0 = 0
      BY <1>1
    <3> QED
      BY <1>1, <2>2, <3>1
  <2> QED
    BY <2>1, <2>2
<1> QED
  BY <1>1, <1>2, <1>3, <1>4
-----------------------------------------------------------------------------
(* Multiples, inverses and congruences *)

LEMMA Cancelled ==
  ASSUME NEW g \in Int, g # 0, NEW x \in Int, NEW y \in Int, g * x = g * y
  PROVE  x = y
<1> DEFINE z == x - y
<1>1. z \in Int /\ g * z = 0
  OBVIOUS
<1> HIDE DEF z
<1>2. z = 0
  BY <1>1
<1> QED
  BY <1>2 DEF z

\* The least common multiple of m and n is m * q, where n is q times their gcd.
LEMMA LeastMultiple ==
  ASSUME NEW m \in Int, NEW n \in Int, NEW e, Common(m, n, e), e[1] # 0,
         NEW q \in Int, n = e[1] * q
  PROVE  /\ Divides(m, m * q) /\ Divides(n, m * q)
         /\ \A d \in Int : Divides(m, d) /\ Divides(n, d) => Divides(m * q, d)
<1> DEFINE g == e[1]
           s == e[2]
           t == e[3]
           l == m * q
<1>1. /\ g \in Nat \ {0} /\ s \in Int /\ t \in Int
      /\ g = s * m + t * n
      /\ Divides(g, m) /\ n = g * q
  BY DEF Common
<1> HIDE DEF g, s, t
<1>2. PICK u \in Int : m = g * u
  BY <1>1 DEF Divides
<1>3. l \in Int /\ l = n * u
  <2>1. (g * u) * q = (g * q) * u
    BY <1>1, <1>2
  <2> QED
    BY <1>1, <1>2, <2>1
<1>4. Divides(m, l) /\ Divides(n, l)
  BY <1>2, <1>3 DEF Divides
<1>5. ASSUME NEW d \in Int, Divides(m, d), Divides(n, d)
      PROVE  Divides(l, d)
  <2>1. PICK x \in Int : d = m * x
    BY <1>5 DEF Divides
  <2>2. PICK y \in Int : d = n * y
    BY <1>5 DEF Divides
  <2> DEFINE c == s * y + t * x
  <2>3. c \in Int
    BY <1>1
  <2>4. g * d = (s * m) * d + (t * n) * d
    BY <1>1
  <2>5. (s * m) * d = (m * n) * (s * y)
    <3>1. (s * m) * (n * y) = (m * n) * (s * y)
      BY <1>1
    <3> QED
      BY <2>2, <3>1
  <2>6. (t * n) * d = (m * n) * (t * x)
    <3>1. (t * n) * (m * x) = (m * n) * (t * x)
      BY <1>1
    <3> QED
      BY <2>1, <3>1
  <2>7. g * d = (m * n) * c
    BY <1>1, <2>4, <2>5, <2>6
  <2> HIDE DEF c
  <2>8. (m * n) * c = g * (l * c)
    <3>1. (m * (g * q)) * c = g * ((m * q) * c)
      BY <1>1, <2>3
    <3> QED
      BY <1>1, <3>1
  <2> HIDE DEF l
  <2>9. l * c \in Int /\ g * d = g * (l * c)
    BY <1>3, <2>3, <2>7, <2>8
  <2>10. d = l * c
    <3>1. g \in Int /\ g # 0
      BY <1>1
    <3> QED
      BY <2>9, <3>1, Cancelled
  <2> QED
    BY <2>3, <2>10 DEF Divides
<1> QED
  BY <1>4, <1>5

\* lcm is the least common multiple: both numbers divide it, and it divides
\* every other multiple of both (ntheory.cpp:53).
THEOREM LcmExact ==
  ASSUME NEW a \in Int, NEW b \in Int
  PROVE  /\ lcm(a, b) \in Nat
         /\ Divides(a, lcm(a, b)) /\ Divides(b, lcm(a, b))
         /\ \A d \in Int : Divides(a, d) /\ Divides(b, d) => Divides(lcm(a, b), d)
<1>1. CASE a = 0 \/ b = 0
  <2>1. lcm(a, b) = 0
    BY <1>1 DEF lcm, mpz_lcm
  <2> QED
    BY <1>1, <2>1, DividesItself
<1>2. CASE a # 0 /\ b # 0
  <2> DEFINE x == mpz_abs(a)
             y == mpz_abs(b)
             e == mpz_gcdext(a, b)
             g == e[1]
             q == x \div g
  <2>1. Common(a, b, e) /\ x \in Nat \ {0} /\ y \in Nat \ {0}
    BY <1>2, GcdextExact, Magnitude
  <2>2. lcm(a, b) = q * y
    BY <1>2 DEF lcm, mpz_lcm, mpz_gcd
  <2> HIDE DEF e
  <2>3. g \in Nat \ {0} /\ Divides(g, a) /\ Divides(g, b)
    <3>1. g \in Nat /\ Divides(g, a) /\ Divides(g, b)
      BY <2>1 DEF Common
    <3>2. \A z \in Int : 0 * z = 0
      OBVIOUS
    <3>3. g # 0
      BY <1>2, <3>1, <3>2 DEF Divides
    <3> QED
      BY <3>1, <3>3
  <2>4. Divides(g, x) /\ Divides(g, y)
    <3> HIDE DEF g
    <3> QED
      BY <2>3, DividesMagnitude
  <2>5. q \in Nat /\ x = g * q
    <3> HIDE DEF g, x
    <3>1. x % g = 0
      BY <2>1, <2>3, <2>4, NoRemainder
    <3> QED
      BY <2>1, <2>3, <3>1
  <2>6. Common(y, x, <<g, sgn(b) * e[3], sgn(a) * e[2]>>)
    <3> DEFINE s == e[2]
               t == e[3]
    <3>1. g = s * a + t * b /\ s \in Int /\ t \in Int
      BY <2>1 DEF Common
    <3>2. a = sgn(a) * x /\ b = sgn(b) * y /\ sgn(a) \in Int /\ sgn(b) \in Int
      BY Magnitude
    <3> HIDE DEF s, t, g, x, y, q
    <3>3. s * a = (sgn(a) * s) * x /\ sgn(a) * s \in Int /\ s * a \in Int
      <4>1. s * (sgn(a) * x) = (sgn(a) * s) * x
        BY <2>1, <3>1, <3>2
      <4> QED
        BY <3>1, <3>2, <4>1
    <3>4. t * b = (sgn(b) * t) * y /\ sgn(b) * t \in Int /\ t * b \in Int
      <4>1. t * (sgn(b) * y) = (sgn(b) * t) * y
        BY <2>1, <3>1, <3>2
      <4> QED
        BY <3>1, <3>2, <4>1
    <3>5. g = (sgn(b) * t) * y + (sgn(a) * s) * x
      BY <3>1, <3>3, <3>4
    <3> QED
      BY <2>3, <2>4, <3>3, <3>4, <3>5 DEF Common, s, t
  <2> HIDE DEF g, x, y, q
  <2>7. /\ Divides(y, y * q) /\ Divides(x, y * q)
        /\ \A d \in Int : Divides(y, d) /\ Divides(x, d) => Divides(y * q, d)
    <3> DEFINE c == <<g, sgn(b) * e[3], sgn(a) * e[2]>>
    <3>1. Common(y, x, c) /\ c[1] # 0 /\ x = c[1] * q
      BY <2>3, <2>5, <2>6
    <3>2. x \in Int /\ y \in Int /\ q \in Int
      BY <2>1, <2>5
    <3> HIDE DEF c
    <3> QED
      BY <3>1, <3>2, LeastMultiple
  <2>8. q * y = y * q /\ y * q \in Nat
    BY <2>1, <2>5
  <2>9. \A d \in Int : (Divides(x, d) <=> Divides(a, d)) /\ (Divides(y, d) <=> Divides(b, d))
    BY DividesMagnitude DEF x, y
  <2> QED
    BY <2>2, <2>7, <2>8, <2>9
<1> QED
  BY <1>1, <1>2

\* mod_inverse finds the inverse modulo m where there is one, and returns false
\* where no integer is one (ntheory.cpp:62).
THEOREM InverseExact ==
  ASSUME NEW a \in Int, NEW m \in Int, m # 0
  PROVE  LET i == mod_inverse(a, m)
         IN  IF i.ret THEN i.b \in 0..(mpz_abs(m) - 1) /\ Divides(m, a * i.b - 1)
             ELSE \A x \in Int : ~Divides(m, a * x - 1)
<1> DEFINE e == mpz_gcdext(a, m)
           g == e[1]
           s == e[2]
           t == e[3]
<1>1. /\ g \in Nat /\ s \in Int /\ t \in Int
      /\ g = s * a + t * m
      /\ Divides(g, a) /\ Divides(g, m)
  BY GcdextExact DEF Common
<1>2. mod_inverse(a, m) = IF g = 1 THEN [ret |-> TRUE, b |-> s % mpz_abs(m)] ELSE [ret |-> FALSE]
  BY DEF mod_inverse, Invertible, mpz_invert, mpz_gcd
<1> HIDE DEF g, s, t
<1>3. CASE g = 1
  <2> DEFINE b == s % mpz_abs(m)
  <2>1. mpz_abs(m) \in Nat \ {0}
    BY Magnitude
  <2>2. b \in 0..(mpz_abs(m) - 1) /\ b \in Int /\ Divides(mpz_abs(m), s - b)
    <3> DEFINE n == mpz_abs(m)
               q == s \div n
    <3> HIDE DEF n
    <3>1. q \in Int /\ s % n \in 0..(n - 1) /\ s = n * q + (s % n)
      BY <1>1, <2>1, Division DEF n
    <3> HIDE DEF q
    <3>2. s - (s % n) = n * q
      BY <1>1, <2>1, <3>1 DEF n
    <3> QED
      BY <1>1, <2>1, <3>1, <3>2 DEF Divides, n
  <2> HIDE DEF b
  <2>3. Divides(m, s - b)
    BY <1>1, <2>2, DividesMagnitude
  <2>4. Divides(m, a * (s - b)) /\ Divides(m, m * t)
    <3>1. s - b \in Int /\ Divides(m, m)
      BY <1>1, <2>2, DividesItself
    <3>2. Divides(m, a * (s - b))
      BY <2>3, <3>1, DividesMultiple
    <3>3. Divides(m, m * t)
      BY <1>1, <3>1, DividesMultiple
    <3> QED
      BY <3>2, <3>3
  <2>5. a * b - 1 = -(a * (s - b) + m * t) /\ a * (s - b) + m * t \in Int
    <3>1. a * (s - b) = s * a - a * b /\ m * t = t * m
      BY <1>1, <2>2
    <3> QED
      BY <1>1, <1>3, <2>2, <3>1
  <2>6. Divides(m, a * (s - b) + m * t)
    BY <1>1, <2>2, <2>4, DividesSum
  <2>7. Divides(m, a * b - 1)
    <3> DEFINE c == a * (s - b) + m * t
    <3> HIDE DEF c
    <3>1. c \in Int /\ Divides(m, c) /\ Divides(c, -c) /\ -c \in Int
      BY <2>5, <2>6, DividesItself DEF c
    <3>2. Divides(m, -c)
      BY <3>1, DividesTransitive
    <3> QED
      BY <2>5, <3>2 DEF c
  <2> QED
    BY <1>2, <1>3, <2>2, <2>7 DEF b
<1>4. CASE g # 1
  <2>1. ASSUME NEW x \in Int, Divides(m, a * x - 1)
        PROVE  FALSE
    <3>1. a * x \in Int /\ a * x - 1 \in Int
      OBVIOUS
    <3>2. Divides(g, a * x - 1)
      BY <1>1, <2>1, <3>1, DividesTransitive
    <3>3. Divides(g, a * x)
      <4>1. g \in Int /\ Divides(g, a)
        BY <1>1
      <4> QED
        BY <4>1, DividesMultiple
    <3>4. Divides(g, (a * x) - (a * x - 1))
      BY <1>1, <3>1, <3>2, <3>3, DividesSum
    <3>5. (a * x) - (a * x - 1) = 1
      BY <3>1
    <3>6. PICK z \in Int : 1 = g * z
      BY <3>4, <3>5 DEF Divides
    <3>7. g > 1 \/ g = 0
      BY <1>1, <1>4
    <3>8. CASE z <= 0
      <4>1. g * (-z) \in Nat /\ g * (-z) = -(g * z)
        BY <1>1, <3>8
      <4> QED
        BY <3>6, <4>1
    <3>9. CASE z > 0 /\ g > 1
      <4>1. g * 1 <= g * z
        BY <1>1, <3>9, LargerFactor
      <4> QED
        BY <1>1, <3>6, <3>9, <4>1
    <3> QED
      BY <3>6, <3>7, <3>8, <3>9
  <2> QED
    BY <1>2, <1>4, <2>1
<1> QED
  BY <1>3, <1>4

\* What Join makes of x = r modulo m and x = c modulo n: one congruence, or None
\* if they have no common solution.
JoinsBoth(r, m, c, n) ==
  \/ /\ Join(<<r, m>>, c, n) = None
     /\ \A x \in Int : ~ (Divides(m, x - r) /\ Divides(n, x - c))
  \/ \E y \in Int, l \in Int :
       /\ Join(<<r, m>>, c, n) = <<y, l>>
       /\ l # 0 /\ Divides(m, l) /\ Divides(n, l)
       /\ Divides(m, y - r) /\ Divides(n, y - c)
       /\ \A x \in Int : Divides(m, x - r) /\ Divides(n, x - c) => Divides(l, x - y)

LEMMA JoinExact ==
  ASSUME NEW r \in Int, NEW m \in Int, m # 0, NEW c \in Int, NEW n \in Int, n # 0
  PROVE  JoinsBoth(r, m, c, n)
<1> DEFINE e == mpz_gcdext(m, n)
           g == e[1]
           s == e[2]
           t == e[3]
           d == c - r
           q == tdiv_q(n, g)
           k == tdiv_q(d, g)
           l == m * q
           big == r + m * s * k
           y == fdiv_r(big, l)
<1>1. Common(m, n, e)
  BY GcdextExact
<1>2. Join(<<r, m>>, c, n) = IF ~divisible(d, g) THEN None ELSE <<y, l>>
  BY DEF Join
<1> HIDE DEF e
<1>3. /\ g \in Nat /\ s \in Int /\ t \in Int
      /\ g = s * m + t * n
      /\ Divides(g, m) /\ Divides(g, n)
  BY <1>1 DEF Common
<1>4. g # 0
  <2>1. \A z \in Int : 0 * z = 0
    OBVIOUS
  <2> QED
    BY <1>3, <2>1 DEF Divides
<1>5. CASE ~divisible(d, g)
  <2>1. ~Divides(g, d)
    BY <1>3, <1>5, DivisibleExact
  <2>2. ASSUME NEW x \in Int, Divides(m, x - r), Divides(n, x - c)
        PROVE  FALSE
    <3> HIDE DEF g
    <3>1. x - r \in Int /\ x - c \in Int /\ (x - r) - (x - c) = d /\ g \in Int
      BY <1>3
    <3>2. Divides(g, x - r) /\ Divides(g, x - c)
      BY <1>3, <2>2, <3>1, DividesTransitive
    <3>3. Divides(g, d)
      BY <3>1, <3>2, DividesSum
    <3> QED
      BY <2>1, <3>3
  <2> QED
    BY <1>2, <1>5, <2>2 DEF JoinsBoth
<1>6. CASE divisible(d, g)
  <2>1. Divides(g, d)
    BY <1>3, <1>6, DivisibleExact
  <2>2. q \in Int /\ n = g * q /\ k \in Int /\ d = g * k
    <3> HIDE DEF g, d
    <3>1. g \in Int /\ d \in Int
      BY <1>3 DEF d
    <3> QED
      BY <1>3, <1>4, <2>1, <3>1, ExactQuotient
  <2> HIDE DEF q, k
  <2>3. /\ Divides(m, l) /\ Divides(n, l)
        /\ \A z \in Int : Divides(m, z) /\ Divides(n, z) => Divides(l, z)
    BY <1>1, <1>4, <2>2, LeastMultiple
  <2>4. l \in Int /\ l # 0
    <3>1. q # 0
      BY <1>3, <2>2
    <3> QED
      BY <2>2, <3>1
  <2> HIDE DEF g, s, t, d, l
  <2>5. big \in Int /\ big = r + m * (s * k) /\ s * k \in Int
    <3>1. (m * s) * k = m * (s * k) /\ s * k \in Int
      BY <1>3, <2>2
    <3> QED
      BY <3>1
  <2> HIDE DEF big
  <2>6. Divides(m, big - r)
    <3>1. big - r = m * (s * k)
      BY <2>5
    <3> QED
      BY <2>5, <3>1 DEF Divides
  <2>7. Divides(n, big - c)
    <3>1. m * (s * k) - g * k = n * (-(t * k)) /\ -(t * k) \in Int
      <4>1. g * k = (s * m) * k + (t * n) * k
        BY <1>3, <2>2
      <4>2. (s * m) * k = m * (s * k) /\ (t * n) * k = n * (t * k) /\ t * k \in Int
        BY <1>3, <2>2
      <4>3. n * (-(t * k)) = -(n * (t * k))
        BY <4>2
      <4> QED
        BY <4>1, <4>2, <4>3, <2>5
    <3>2. big - c = m * (s * k) - g * k
      <4>1. m * (s * k) \in Int /\ g * k \in Int /\ c = r + g * k
        BY <1>3, <2>2, <2>5 DEF d
      <4> QED
        BY <2>5, <4>1
    <3> QED
      BY <3>1, <3>2 DEF Divides
  <2>8. y \in Int /\ Divides(l, y - big)
    <3>1. fdiv_q(big, l) \in Int /\ y \in Int /\ big = l * fdiv_q(big, l) + y
      BY <2>4, <2>5, FloorQuotient
    <3> DEFINE f == fdiv_q(big, l)
    <3> HIDE DEF f, y
    <3>2. y - big = l * (-f) /\ -f \in Int
      <4>1. l * f \in Int /\ l * (-f) = -(l * f)
        BY <2>4, <3>1 DEF f
      <4> QED
        BY <2>5, <3>1, <4>1 DEF f
    <3> QED
      BY <3>1, <3>2 DEF Divides
  <2> HIDE DEF y
  <2>9. Divides(m, y - r) /\ Divides(n, y - c)
    <3>1. /\ y - big \in Int /\ big - r \in Int /\ big - c \in Int
          /\ y - r = (y - big) + (big - r) /\ y - c = (y - big) + (big - c)
      BY <2>5, <2>8
    <3>2. Divides(m, y - big) /\ Divides(n, y - big)
      BY <2>3, <2>4, <2>8, <3>1, DividesTransitive
    <3> QED
      BY <2>6, <2>7, <3>1, <3>2, DividesSum
  <2>10. ASSUME NEW x \in Int, Divides(m, x - r), Divides(n, x - c)
         PROVE  Divides(l, x - y)
    <3>1. /\ x - y \in Int /\ x - r \in Int /\ x - c \in Int /\ y - r \in Int /\ y - c \in Int
          /\ x - y = (x - r) - (y - r) /\ x - y = (x - c) - (y - c)
      BY <2>8
    <3>2. Divides(m, x - y) /\ Divides(n, x - y)
      BY <2>9, <2>10, <3>1, DividesSum
    <3> QED
      BY <2>3, <3>1, <3>2
  <2> QED
    BY <1>2, <1>6, <2>3, <2>4, <2>8, <2>9, <2>10 DEF JoinsBoth
<1> QED
  BY <1>5, <1>6

\* x has the first n remainders.
Solves(x, rem, modulus, n) == \A k \in 1..n : Divides(modulus[k], x - rem[k])

\* rm is the one congruence that stands for the first n, or None.
Joined(rm, rem, modulus, n) ==
  \/ rm = None /\ \A x \in Int : ~Solves(x, rem, modulus, n)
  \/ \E r \in Int, m \in Int :
       /\ rm = <<r, m>> /\ m # 0
       /\ Solves(r, rem, modulus, n)
       /\ \A k \in 1..n : Divides(modulus[k], m)
       /\ \A x \in Int : Solves(x, rem, modulus, n) => Divides(m, x - r)

LEMMA OneMoreModulus ==
  ASSUME NEW rem \in Seq(Int), NEW modulus \in Seq(Int), Len(modulus) <= Len(rem),
         \A k \in 1..Len(modulus) : modulus[k] # 0,
         NEW n \in Nat, n + 1 <= Len(modulus), NEW rm, Joined(rm, rem, modulus, n)
  PROVE  Joined(IF rm = None THEN None ELSE Join(rm, rem[n + 1], modulus[n + 1]),
                rem, modulus, n + 1)
<1> DEFINE c == rem[n + 1]
           d == modulus[n + 1]
           Next1(x) == Solves(x, rem, modulus, n + 1)
<1>1. /\ n + 1 \in 1..Len(modulus) /\ n + 1 \in 1..Len(rem)
      /\ \A k \in 1..(n + 1) : k \in 1..n \/ k = n + 1
      /\ \A k \in 1..n : k \in 1..(n + 1) /\ k \in 1..Len(modulus) /\ k \in 1..Len(rem)
      /\ n + 1 \in 1..(n + 1)
  OBVIOUS
<1>2. c \in Int /\ d \in Int /\ d # 0
      /\ \A k \in 1..n : modulus[k] \in Int /\ rem[k] \in Int
  BY <1>1, ElementOfSeq
<1> HIDE DEF c, d
<1>3. ASSUME NEW x
      PROVE  Solves(x, rem, modulus, n + 1) <=> Solves(x, rem, modulus, n) /\ Divides(d, x - c)
  BY <1>1 DEF Solves, c, d
<1>4. CASE rm = None /\ \A x \in Int : ~Solves(x, rem, modulus, n)
  BY <1>3, <1>4 DEF Joined
<1>5. ASSUME NEW r \in Int, NEW m \in Int, rm = <<r, m>>, m # 0,
             Solves(r, rem, modulus, n),
             \A k \in 1..n : Divides(modulus[k], m),
             \A x \in Int : Solves(x, rem, modulus, n) => Divides(m, x - r)
      PROVE  Joined(IF rm = None THEN None ELSE Join(rm, c, d), rem, modulus, n + 1)
  <2>1. rm # None
    BY <1>5 DEF None
  <2>2. CASE /\ Join(<<r, m>>, c, d) = None
             /\ \A x \in Int : ~ (Divides(m, x - r) /\ Divides(d, x - c))
    <3>1. \A x \in Int : ~Solves(x, rem, modulus, n + 1)
      BY <1>3, <1>5, <2>2
    <3> QED
      BY <1>5, <2>1, <2>2, <3>1 DEF Joined
  <2>3. ASSUME NEW y \in Int, NEW l \in Int,
               Join(<<r, m>>, c, d) = <<y, l>>, l # 0, Divides(m, l), Divides(d, l),
               Divides(m, y - r), Divides(d, y - c),
               \A x \in Int : Divides(m, x - r) /\ Divides(d, x - c) => Divides(l, x - y)
        PROVE  Joined(IF rm = None THEN None ELSE Join(rm, c, d), rem, modulus, n + 1)
    <3>1. ASSUME NEW k \in 1..n
          PROVE  Divides(modulus[k], y - rem[k]) /\ Divides(modulus[k], l)
      <4>1. modulus[k] \in Int /\ rem[k] \in Int /\ Divides(modulus[k], m) /\ Divides(modulus[k], r - rem[k])
        BY <1>2, <1>5 DEF Solves
      <4>2. Divides(modulus[k], l)
        BY <2>3, <4>1, DividesTransitive
      <4>3. Divides(modulus[k], y - r)
        <5>1. y - r \in Int
          OBVIOUS
        <5> QED
          BY <2>3, <4>1, <5>1, DividesTransitive
      <4> QED
        BY <4>1, <4>2, <4>3, DividesVia
    <3>2. Solves(y, rem, modulus, n + 1)
      BY <1>3, <2>3, <3>1 DEF Solves
    <3>3. \A k \in 1..(n + 1) : Divides(modulus[k], l)
      BY <1>1, <2>3, <3>1 DEF d
    <3>4. \A x \in Int : Solves(x, rem, modulus, n + 1) => Divides(l, x - y)
      BY <1>3, <1>5, <2>3
    <3> QED
      BY <1>5, <2>1, <2>3, <3>2, <3>3, <3>4 DEF Joined
  <2>4. JoinsBoth(r, m, c, d)
    BY <1>2, <1>5, JoinExact
  <2> QED
    BY <2>2, <2>3, <2>4 DEF JoinsBoth
<1>6. Joined(IF rm = None THEN None ELSE Join(rm, c, d), rem, modulus, n + 1)
  BY <1>4, <1>5 DEF Joined
<1> QED
  BY <1>6 DEF c, d

\* crt solves any number of congruences, modulo any numbers but 0: its result has
\* every remainder, and when it returns false no integer has (ntheory.cpp:628).
THEOREM CongruencesSolved ==
  ASSUME NEW rem \in Seq(Int), NEW modulus \in Seq(Int),
         Len(modulus) \in 1..Len(rem), \A k \in 1..Len(modulus) : modulus[k] # 0
  PROVE  \/ /\ crt(rem, modulus) = None
            /\ \A x \in Int : ~Solves(x, rem, modulus, Len(modulus))
         \/ \E x \in Int : /\ crt(rem, modulus) = <<x>>
                           /\ Solves(x, rem, modulus, Len(modulus))
<1> DEFINE N == Len(modulus) - 1
           Further(rm, i) == IF rm = None THEN None ELSE Join(rm, rem[i + 1], modulus[i + 1])
           S == {None} \cup (Int \X Int)
           first == <<rem[1], modulus[1]>>
           g == [ks \in (1..N) \X S |-> IF Further(ks[2], ks[1]) \in S THEN Further(ks[2], ks[1]) ELSE None]
           Body(f) == [i \in 0..N |-> IF i = 0 THEN first
                                     ELSE IF f[i - 1] = None THEN None
                                     ELSE Join(f[i - 1], rem[i + 1], modulus[i + 1])]
<1>1. N \in Nat /\ N + 1 = Len(modulus) /\ 1 \in 1..Len(modulus) /\ 1 \in 1..Len(rem)
  OBVIOUS
<1>2. rem[1] \in Int /\ modulus[1] \in Int /\ modulus[1] # 0
  BY <1>1, ElementOfSeq
<1>3. Joined(first, rem, modulus, 1) /\ first \in S
  <2>1. \A k \in 1..1 : k = 1
    OBVIOUS
  <2>2. rem[1] - rem[1] = 0
    BY <1>2
  <2>3. Solves(rem[1], rem, modulus, 1) /\ \A k \in 1..1 : Divides(modulus[k], modulus[1])
    BY <1>2, <2>1, <2>2, DividesItself DEF Solves
  <2>4. \A x \in Int : Solves(x, rem, modulus, 1) => Divides(modulus[1], x - rem[1])
    BY DEF Solves
  <2> QED
    BY <1>2, <2>3, <2>4 DEF Joined
<1>4. ASSUME NEW i \in 1..N, NEW rm, Joined(rm, rem, modulus, i)
      PROVE  Joined(Further(rm, i), rem, modulus, i + 1) /\ Further(rm, i) \in S
  <2>1. i \in Nat /\ i + 1 <= Len(modulus) /\ Len(modulus) <= Len(rem)
    BY <1>1
  <2>2. Joined(Further(rm, i), rem, modulus, i + 1)
    BY <1>4, <2>1, OneMoreModulus
  <2> HIDE DEF Further
  <2>3. Further(rm, i) = None \/ \E r \in Int, m \in Int : Further(rm, i) = <<r, m>>
    BY <2>2 DEF Joined
  <2>4. None \in S /\ \A r \in Int, m \in Int : <<r, m>> \in S
    OBVIOUS
  <2> HIDE DEF S
  <2> QED
    BY <2>2, <2>3, <2>4
<1> HIDE DEF N, first, Further
<1>5. Steps(g, N, S)
  BY DEF Steps
<1> HIDE DEF S
<1>6. PICK f \in [0..N -> S] : Recurs(f, N, first, g)
  BY <1>1, <1>3, <1>5, Recursion
<1> DEFINE T == {i \in 0..N : Joined(f[i], rem, modulus, i + 1)}
<1>7. \A i \in 0..N : i \in T
  <2>1. 0 \in T
    <3>1. f[0] = first /\ 0 + 1 = 1
      BY <1>6 DEF Recurs
    <3> QED
      BY <1>1, <1>3, <3>1
  <2>2. ASSUME NEW i \in 1..N, i - 1 \in T
        PROVE  i \in T
    <3>1. i - 1 \in 0..N /\ i \in 0..N /\ (i - 1) + 1 = i
      BY <1>1
    <3>2. Joined(f[i - 1], rem, modulus, i) /\ f[i - 1] \in S
      BY <1>6, <2>2, <3>1
    <3>3. Joined(Further(f[i - 1], i), rem, modulus, i + 1) /\ Further(f[i - 1], i) \in S
      BY <1>4, <3>2
    <3>4. f[i] = g[<<i, f[i - 1]>>]
      BY <1>6 DEF Recurs
    <3>5. f[i] = Further(f[i - 1], i)
      BY <3>2, <3>3, <3>4
    <3> QED
      BY <3>1, <3>3, <3>5
  <2> HIDE DEF T
  <2> QED
    BY <1>1, <2>1, <2>2, CountUp
<1>8. f = Body(f)
  <2>1. ASSUME NEW i \in 0..N
        PROVE  f[i] = IF i = 0 THEN first ELSE Further(f[i - 1], i)
    <3>1. CASE i = 0
      BY <1>6, <3>1 DEF Recurs
    <3>2. CASE i # 0
      <4>1. i \in 1..N /\ i - 1 \in 0..N /\ (i - 1) + 1 = i
        BY <1>1, <3>2
      <4>2. f[i - 1] \in S /\ Joined(f[i - 1], rem, modulus, i)
        BY <1>6, <1>7, <4>1
      <4>3. Further(f[i - 1], i) \in S
        BY <1>4, <4>1, <4>2
      <4>4. f[i] = g[<<i, f[i - 1]>>]
        BY <1>6, <4>1 DEF Recurs
      <4> QED
        BY <3>2, <4>1, <4>2, <4>3, <4>4
    <3> QED
      BY <3>1, <3>2
  <2> QED
    BY <2>1 DEF Further
<1> DEFINE joined == CHOOSE h : h = Body(h)
<1>9. joined = Body(joined)
  <2> HIDE DEF Body
  <2> QED
    BY <1>8
<1>10. crt(rem, modulus) = IF joined[N] = None THEN None ELSE <<joined[N][1]>>
  <2>1. ~ (Len(modulus) > Len(rem) \/ modulus = <<>>)
    BY <1>1
  <2> HIDE DEF joined
  <2> QED
    BY <2>1 DEF crt, joined, N, first
<1>11. joined[0] = first /\ \A i \in 1..N : joined[i] = Further(joined[i - 1], i)
  <2> HIDE DEF joined
  <2>1. 0 \in 0..N /\ \A i \in 1..N : i \in 0..N /\ i # 0
    BY <1>1
  <2> QED
    BY <1>9, <2>1 DEF Further
<1>12. f[0] = first /\ \A i \in 1..N : f[i] = Further(f[i - 1], i)
  <2>1. ASSUME NEW i \in 1..N
        PROVE  f[i] = Further(f[i - 1], i)
    <3>1. i - 1 \in 0..N /\ (i - 1) + 1 = i
      BY <1>1
    <3>2. f[i - 1] \in S /\ Joined(f[i - 1], rem, modulus, i)
      BY <1>6, <1>7, <3>1
    <3>3. Further(f[i - 1], i) \in S /\ f[i] = g[<<i, f[i - 1]>>]
      BY <1>4, <1>6, <3>2 DEF Recurs
    <3> QED
      BY <3>2, <3>3
  <2> QED
    BY <1>6, <2>1 DEF Recurs
<1> HIDE DEF joined, Body, T
<1>13. joined[N] = f[N]
  <2>1. ASSUME NEW m \in 0..(N - 1), joined[m] = f[m]
        PROVE  joined[m + 1] = f[m + 1]
    <3>1. m + 1 \in 1..N /\ (m + 1) - 1 = m
      BY <1>1
    <3> QED
      BY <1>11, <1>12, <2>1, <3>1
  <2>2. joined[0] = f[0]
    BY <1>11, <1>12
  <2> QED
    BY <1>1, <2>1, <2>2, InStep
<1>14. Joined(f[N], rem, modulus, Len(modulus))
  <2>1. N \in T
    BY <1>1, <1>7
  <2> QED
    BY <1>1, <2>1 DEF T
<1>15. CASE f[N] = None /\ \A x \in Int : ~Solves(x, rem, modulus, Len(modulus))
  BY <1>10, <1>13, <1>15
<1>16. ASSUME NEW r \in Int, NEW m \in Int, f[N] = <<r, m>>, Solves(r, rem, modulus, Len(modulus))
       PROVE  crt(rem, modulus) = <<r>>
  <2>1. f[N] # None /\ f[N][1] = r
    BY <1>16 DEF None
  <2> QED
    BY <1>10, <1>13, <2>1
<1> QED
  BY <1>14, <1>15, <1>16 DEF Joined
-----------------------------------------------------------------------------
(* Products *)

\* A product is computed factor by factor.
LEMMA ProductSteps ==
  ASSUME NEW s \in Seq(Nat)
  PROVE  \E f \in [0..Len(s) -> Nat] :
           /\ Product(s) = f[Len(s)]
           /\ f[0] = 1
           /\ \A k \in 1..Len(s) : f[k] = f[k - 1] * s[k]
<1> DEFINE n == Len(s)
           g == [ka \in (1..n) \X Nat |-> ka[2] * s[ka[1]]]
           Body(f) == [k \in 0..n |-> IF k = 0 THEN 1 ELSE f[k - 1] * s[k]]
<1>1. n \in Nat /\ \A k \in 1..n : s[k] \in Nat
  BY ElementOfSeq
<1>2. Steps(g, n, Nat)
  <2> SUFFICES ASSUME NEW k \in 1..n, NEW a \in Nat
               PROVE  a * s[k] \in Nat
    BY DEF Steps
  <2> QED
    BY <1>1
<1>3. PICK f \in [0..n -> Nat] : Recurs(f, n, 1, g)
  BY <1>1, <1>2, Recursion
<1>4. f[0] = 1 /\ \A k \in 1..n : k - 1 \in 0..n /\ f[k] = f[k - 1] * s[k]
  <2>1. ASSUME NEW k \in 1..n
        PROVE  k - 1 \in 0..n /\ f[k] = f[k - 1] * s[k]
    <3>1. k - 1 \in 0..n
      BY <1>1
    <3>2. f[k - 1] \in Nat /\ f[k] = g[<<k, f[k - 1]>>]
      BY <1>3, <3>1 DEF Recurs
    <3> QED
      BY <3>1, <3>2
  <2> QED
    BY <1>3, <2>1 DEF Recurs
<1>5. f = Body(f)
  <2>1. \A k \in 0..n : k = 0 \/ k \in 1..n
    BY <1>1
  <2> QED
    BY <1>4, <2>1
<1> DEFINE product == CHOOSE h : h = Body(h)
<1>6. product = Body(product)
  <2> HIDE DEF Body
  <2> QED
    BY <1>5
<1>7. Product(s) = product[n]
  BY DEF Product
<1>8. product[0] = 1 /\ \A k \in 1..n : product[k] = product[k - 1] * s[k]
  <2> HIDE DEF product
  <2>1. 0 \in 0..n /\ \A k \in 1..n : k \in 0..n /\ k # 0
    BY <1>1
  <2>2. \A k \in 0..n : product[k] = IF k = 0 THEN 1 ELSE product[k - 1] * s[k]
    BY <1>6
  <2> QED
    BY <2>1, <2>2
<1> HIDE DEF product, Body
<1>9. f[n] = product[n]
  <2>1. \A m \in 0..(n - 1) : m + 1 \in 1..n /\ (m + 1) - 1 = m
    BY <1>1
  <2>2. \A m \in 0..(n - 1) : f[m] = product[m] => f[m + 1] = product[m + 1]
    BY <1>4, <1>8, <2>1
  <2> QED
    BY <1>1, <1>4, <1>8, <2>2, InStep
<1> QED
  BY <1>3, <1>4, <1>7, <1>9

LEMMA ProductType ==
  ASSUME NEW s \in Seq(Nat)
  PROVE  Product(s) \in Nat
<1>1. Len(s) \in 0..Len(s)
  OBVIOUS
<1> QED
  BY <1>1, ProductSteps

LEMMA EmptyProduct ==
  Product(<<>>) = 1
<1>1. <<>> \in Seq(Nat) /\ Len(<<>>) = 0
  OBVIOUS
<1> QED
  BY <1>1, ProductSteps

\* One factor more.
LEMMA ProductLonger ==
  ASSUME NEW s \in Seq(Nat), NEW t \in Seq(Nat), Len(t) = Len(s) + 1,
         \A k \in 1..Len(s) : t[k] = s[k]
  PROVE  Product(t) = Product(s) * t[Len(t)]
<1>1. PICK f \in [0..Len(s) -> Nat] :
        Product(s) = f[Len(s)] /\ f[0] = 1 /\ \A k \in 1..Len(s) : f[k] = f[k - 1] * s[k]
  BY ProductSteps
<1>2. PICK h \in [0..Len(t) -> Nat] :
        Product(t) = h[Len(t)] /\ h[0] = 1 /\ \A k \in 1..Len(t) : h[k] = h[k - 1] * t[k]
  BY ProductSteps
<1> DEFINE n == Len(s)
<1>3. n \in Nat /\ \A m \in 0..(n - 1) : m + 1 \in 1..n /\ m + 1 \in 1..Len(t) /\ (m + 1) - 1 = m
  OBVIOUS
<1>4. \A m \in 0..(n - 1) : f[m] = h[m] => f[m + 1] = h[m + 1]
  BY <1>1, <1>2, <1>3
<1>5. f[n] = h[n]
  <2>1. f[0] = h[0]
    BY <1>1, <1>2
  <2> HIDE DEF n
  <2> QED
    BY <1>3, <1>4, <2>1, InStep
<1>6. Len(t) \in 1..Len(t) /\ Len(t) - 1 = n
  BY <1>3
<1> QED
  BY <1>1, <1>2, <1>5, <1>6

LEMMA Rearranged ==
  ASSUME NEW a \in Nat, NEW b \in Nat, NEW c \in Nat
  PROVE  (a * b) * c = (a * c) * b
OBVIOUS

\* Another factor at a place where there was a 1.
LEMMA ProductReplaced ==
  ASSUME NEW s \in Seq(Nat), NEW t \in Seq(Nat), Len(t) = Len(s),
         NEW q \in 1..Len(s), s[q] = 1,
         \A k \in 1..Len(s) : k # q => t[k] = s[k]
  PROVE  Product(t) = Product(s) * t[q]
<1>1. PICK f \in [0..Len(s) -> Nat] :
        Product(s) = f[Len(s)] /\ f[0] = 1 /\ \A k \in 1..Len(s) : f[k] = f[k - 1] * s[k]
  BY ProductSteps
<1>2. PICK h \in [0..Len(t) -> Nat] :
        Product(t) = h[Len(t)] /\ h[0] = 1 /\ \A k \in 1..Len(t) : h[k] = h[k - 1] * t[k]
  BY ProductSteps
<1> DEFINE n == Len(s)
           x == t[q]
           T == {k \in 0..n : h[k] = IF k < q THEN f[k] ELSE f[k] * x}
<1>3. n \in Nat /\ x \in Nat /\ \A k \in 1..n : s[k] \in Nat /\ t[k] \in Nat
  BY ElementOfSeq
<1>4. 0 \in T
  BY <1>1, <1>2, <1>3
<1>5. ASSUME NEW k \in 1..n, k - 1 \in T
      PROVE  k \in T
  <2>1. k - 1 \in 0..n /\ k \in 0..n /\ f[k - 1] \in Nat
    <3>1. k - 1 \in 0..n /\ k \in 0..n
      BY <1>3
    <3> QED
      BY <1>1, <3>1
  <2>2. h[k - 1] = IF k - 1 < q THEN f[k - 1] ELSE f[k - 1] * x
    BY <1>5
  <2>3. h[k] = h[k - 1] * t[k] /\ f[k] = f[k - 1] * s[k]
    BY <1>1, <1>2
  <2> HIDE DEF n, x, T
  <2>4. CASE k < q
    <3>1. t[k] = s[k] /\ k - 1 < q
      BY <1>3, <2>4 DEF n
    <3> QED
      BY <2>1, <2>2, <2>3, <2>4, <3>1 DEF T
  <2>5. CASE k = q
    <3>1. h[k] = f[k - 1] * x /\ f[k] = f[k - 1]
      BY <2>1, <2>2, <2>3, <2>5 DEF x
    <3> QED
      BY <2>1, <2>5, <3>1 DEF T
  <2>6. CASE k > q
    <3>1. t[k] = s[k] /\ ~ (k - 1 < q)
      BY <1>3, <2>6 DEF n
    <3>2. h[k] = (f[k - 1] * x) * s[k]
      BY <2>2, <2>3, <3>1
    <3>3. (f[k - 1] * x) * s[k] = (f[k - 1] * s[k]) * x
      <4>1. s[k] \in Nat
        BY <1>3 DEF n
      <4> QED
        BY <1>3, <2>1, <4>1, Rearranged
    <3> QED
      BY <2>1, <2>3, <2>6, <3>2, <3>3 DEF T
  <2> QED
    BY <2>1, <2>4, <2>5, <2>6
<1>6. n \in T
  <2> HIDE DEF T
  <2>1. \A k \in 0..n : k \in T
    BY <1>3, <1>4, <1>5, CountUp
  <2> QED
    BY <1>3, <2>1
<1>7. ~ (n < q)
  BY <1>3
<1> QED
  BY <1>1, <1>2, <1>6, <1>7

\* Ones alone.
LEMMA ProductOfOnes ==
  ASSUME NEW s \in Seq(Nat), \A k \in 1..Len(s) : s[k] = 1
  PROVE  Product(s) = 1
<1>1. PICK f \in [0..Len(s) -> Nat] :
        Product(s) = f[Len(s)] /\ f[0] = 1 /\ \A k \in 1..Len(s) : f[k] = f[k - 1] * s[k]
  BY ProductSteps
<1> DEFINE T == {k \in 0..Len(s) : f[k] = 1}
<1>2. 0 \in T /\ Len(s) \in Nat
  BY <1>1
<1>3. \A k \in 1..Len(s) : k - 1 \in T => k \in T
  BY <1>1, <1>2
<1> HIDE DEF T
<1>4. Len(s) \in T
  <2>1. \A k \in 0..Len(s) : k \in T
    BY <1>2, <1>3, CountUp
  <2> QED
    BY <1>2, <2>1
<1> QED
  BY <1>1, <1>4 DEF T
\* Appending multiplies.
LEMMA ProductAppend ==
  ASSUME NEW s \in Seq(Nat), NEW x \in Nat
  PROVE  Product(Append(s, x)) = Product(s) * x
<1> DEFINE t == Append(s, x)
<1>1. /\ t \in Seq(Nat) /\ Len(t) = Len(s) + 1
      /\ \A k \in 1..Len(s) : t[k] = s[k]
      /\ t[Len(t)] = x
  BY AppendProperties
<1> HIDE DEF t
<1> QED
  BY <1>1, ProductLonger DEF t

LEMMA ConstantSeq ==
  ASSUME NEW b \in Nat, NEW n \in Nat
  PROVE  /\ [k \in 1..n |-> b] \in Seq(Nat)
         /\ Len([k \in 1..n |-> b]) = n
         /\ \A k \in 1..n : [l \in 1..n |-> b][k] = b
OBVIOUS

LEMMA PowerSteps ==
  ASSUME NEW b \in Nat, NEW n \in Nat
  PROVE  /\ Power(b, n) \in Nat
         /\ Power(b, 0) = 1
         /\ Power(b, n + 1) = Power(b, n) * b
<1> DEFINE s == [k \in 1..n |-> b]
           t == [k \in 1..(n + 1) |-> b]
<1>1. s \in Seq(Nat) /\ Len(s) = n /\ \A k \in 1..n : s[k] = b
  BY ConstantSeq
<1>2. t \in Seq(Nat) /\ Len(t) = n + 1 /\ \A k \in 1..(n + 1) : t[k] = b
  <2>1. n + 1 \in Nat
    OBVIOUS
  <2> QED
    BY <2>1, ConstantSeq
<1>3. Power(b, 0) = 1
  <2> DEFINE u == [k \in 1..0 |-> b]
  <2>1. u \in Seq(Nat) /\ \A k \in 1..Len(u) : u[k] = 1
    OBVIOUS
  <2> HIDE DEF u
  <2>2. Product(u) = 1
    BY <2>1, ProductOfOnes
  <2> QED
    BY <2>2 DEF Power, u
<1>4. Power(b, n) = Product(s) /\ Power(b, n + 1) = Product(t)
  BY DEF Power
<1> HIDE DEF s, t
<1>5. \A k \in 1..n : k \in 1..(n + 1) /\ t[k] = s[k]
  BY <1>1, <1>2
<1>6. Product(t) = Product(s) * t[n + 1]
  BY <1>1, <1>2, <1>5, ProductLonger
<1>7. t[n + 1] = b
  <2>1. n + 1 \in 1..(n + 1)
    OBVIOUS
  <2> QED
    BY <1>2, <2>1
<1> QED
  BY <1>1, <1>3, <1>4, <1>6, <1>7, ProductType

\* The factors whose product Powers is.
Factors(map, n) == [k \in 1..n |-> IF k \in DOMAIN map THEN Power(k, map[k]) ELSE 1]

IsMap(map) == DOMAIN map \subseteq Nat /\ \A k \in DOMAIN map : map[k] \in Nat

LEMMA FactorsType ==
  ASSUME NEW map, IsMap(map), NEW n \in Nat
  PROVE  /\ Factors(map, n) \in Seq(Nat)
         /\ Len(Factors(map, n)) = n
         /\ Powers(map, n) = Product(Factors(map, n))
         /\ Powers(map, n) \in Nat
<1>1. ASSUME NEW k \in 1..n
      PROVE  (IF k \in DOMAIN map THEN Power(k, map[k]) ELSE 1) \in Nat
  BY PowerSteps DEF IsMap
<1>2. Factors(map, n) \in Seq(Nat) /\ Len(Factors(map, n)) = n
  BY <1>1 DEF Factors
<1>3. Powers(map, n) = Product(Factors(map, n))
  BY DEF Powers, Factors
<1> QED
  BY <1>2, <1>3, ProductType

\* A new key.
LEMMA PowersInsert ==
  ASSUME NEW map, IsMap(map), NEW n \in Nat, NEW q \in 1..n, q \notin DOMAIN map, NEW c \in Nat
  PROVE  /\ IsMap(insert(map, q, c))
         /\ Powers(insert(map, q, c), n) = Powers(map, n) * Power(q, c)
<1> DEFINE new == insert(map, q, c)
<1>1. /\ DOMAIN new = DOMAIN map \cup {q}
      /\ new[q] = c
      /\ \A k \in DOMAIN map : new[k] = map[k]
  BY DEF insert
<1> HIDE DEF new
<1>2. IsMap(new)
  BY <1>1 DEF IsMap
<1> DEFINE s == Factors(map, n)
           t == Factors(new, n)
<1>3. s[q] = 1 /\ t[q] = Power(q, c)
  BY <1>1 DEF Factors
<1>4. \A k \in 1..n : k # q => t[k] = s[k]
  BY <1>1 DEF Factors
<1>5. /\ s \in Seq(Nat) /\ t \in Seq(Nat) /\ Len(s) = n /\ Len(t) = n
      /\ Powers(map, n) = Product(s) /\ Powers(new, n) = Product(t)
  BY <1>2, FactorsType
<1> HIDE DEF s, t
<1>6. Product(t) = Product(s) * t[q]
  BY <1>3, <1>4, <1>5, ProductReplaced
<1> QED
  BY <1>2, <1>3, <1>5, <1>6 DEF new

LEMMA NoPowers ==
  ASSUME NEW n \in Nat
  PROVE  IsMap(NoEntries) /\ Powers(NoEntries, n) = 1
<1>1. IsMap(NoEntries) /\ DOMAIN NoEntries = {}
  BY DEF NoEntries, IsMap
<1> DEFINE s == Factors(NoEntries, n)
<1>2. s \in Seq(Nat) /\ Len(s) = n /\ Powers(NoEntries, n) = Product(s)
  BY <1>1, FactorsType
<1>3. \A k \in 1..n : s[k] = 1
  BY <1>1 DEF Factors
<1> HIDE DEF s
<1> QED
  BY <1>1, <1>2, <1>3, ProductOfOnes
-----------------------------------------------------------------------------
(* What is not divisible *)

LEMMA DividesThrough ==
  ASSUME NEW n \in Nat, NEW d \in Nat \ {0}, NEW e \in Nat \ {0}, n % d = 0, d % e = 0
  PROVE  n % e = 0
<1>1. PICK a \in Nat : n = d * a
  BY Divided
<1>2. PICK b \in Nat : d = e * b
  BY Divided
<1>3. n = e * (b * a) /\ b * a \in Nat
  BY <1>1, <1>2
<1> QED
  BY <1>3, Divided

\* Between two primes there is no new divisor.
LEMMA NoneBetween ==
  ASSUME NEW n \in Nat, NEW a \in Nat, NEW b \in Nat,
         \A d \in 2..a : n % d # 0, \A r \in (a + 1)..(b - 1) : ~IsPrime(r)
  PROVE  \A d \in 2..(b - 1) : n % d # 0
<1> SUFFICES ASSUME NEW d \in 2..(b - 1), n % d = 0
             PROVE  FALSE
  OBVIOUS
<1>1. d \in (a + 1)..(b - 1) /\ ~IsPrime(d) /\ d \in Nat /\ d > 1
  <2>1. d \notin 2..a
    OBVIOUS
  <2>2. d \in (a + 1)..(b - 1) /\ d \in Nat /\ d > 1
    BY <2>1
  <2> QED
    BY <2>2
<1>2. PICK e \in Nat : IsPrime(e) /\ e * e <= d /\ d % e = 0
  BY <1>1, SmallDivisor
<1>3. e > 1 /\ e <= d
  <2>1. e > 1
    BY <1>2 DEF IsPrime
  <2>2. e * 1 <= e * e
    BY <2>1, LargerFactor
  <2> QED
    BY <1>1, <1>2, <2>1, <2>2
<1>4. n % e = 0
  <2>1. d \in Nat \ {0} /\ e \in Nat \ {0}
    BY <1>1, <1>3
  <2> QED
    BY <1>2, <2>1, DividesThrough
<1>5. e \in 2..a
  BY <1>1, <1>2, <1>3
<1> QED
  BY <1>4, <1>5

\* What no number up to the root divides is prime, and above the root.
LEMMA RestIsPrime ==
  ASSUME NEW N \in Nat, N > 0, NEW a \in Nat, NEW m \in Nat, m > 1, N = a * m,
         \A d \in 2..Isqrt(N) : m % d # 0
  PROVE  IsPrime(m) /\ m > Isqrt(N) /\ m <= N
<1>1. m <= N
  <2>1. a # 0
    OBVIOUS
  <2>2. m * 1 <= m * a /\ m * a = a * m
    BY <2>1, LargerFactor
  <2> QED
    BY <2>2
<1>2. Isqrt(N) \in Nat /\ \A d \in Nat : d * d <= N => d <= Isqrt(N)
  BY Root
<1>3. m > Isqrt(N)
  <2>1. m % m = 0
    OBVIOUS
  <2> QED
    BY <1>2, <2>1
<1>4. IsPrime(m)
  <2> SUFFICES ASSUME ~IsPrime(m) PROVE FALSE
    OBVIOUS
  <2>1. PICK d \in Nat : IsPrime(d) /\ d * d <= m /\ m % d = 0
    BY SmallDivisor
  <2>2. d * d \in Nat /\ d * d <= N /\ d > 1
    BY <1>1, <2>1 DEF IsPrime
  <2>3. d \in 2..Isqrt(N)
    BY <1>2, <2>2
  <2> QED
    BY <2>1, <2>3
<1> QED
  BY <1>1, <1>3, <1>4
-----------------------------------------------------------------------------
(* The inner loop *)

LEMMA LeftExact ==
  ASSUME NEW n \in Nat, NEW p \in Nat, p > 1
  PROVE  /\ Left(n, p) \in [0..n -> Nat]
         /\ Left(n, p)[0] = n
         /\ \A k \in 1..n : k - 1 \in 0..n /\ Left(n, p)[k] = Left(n, p)[k - 1] \div p
<1> DEFINE g == [ka \in (1..n) \X Nat |-> ka[2] \div p]
           Body(f) == [k \in 0..n |-> IF k = 0 THEN n ELSE f[k - 1] \div p]
           left == CHOOSE h : h = Body(h)
<1>1. \A a \in Nat : a \div p \in Nat
  OBVIOUS
<1>2. Steps(g, n, Nat)
  <2> SUFFICES ASSUME NEW k \in 1..n, NEW a \in Nat
               PROVE  a \div p \in Nat
    BY DEF Steps
  <2> QED
    BY <1>1
<1>3. PICK f \in [0..n -> Nat] : Recurs(f, n, n, g)
  BY <1>2, Recursion
<1>4. \A k \in 1..n : k - 1 \in 0..n /\ f[k] = f[k - 1] \div p
  <2> SUFFICES ASSUME NEW k \in 1..n
               PROVE  k - 1 \in 0..n /\ f[k] = f[k - 1] \div p
    OBVIOUS
  <2>1. k - 1 \in 0..n
    OBVIOUS
  <2>2. f[k - 1] \in Nat /\ f[k] = g[<<k, f[k - 1]>>]
    BY <1>3, <2>1 DEF Recurs
  <2> QED
    BY <2>1, <2>2
<1>5. f = Body(f)
  <2>1. f[0] = n /\ \A k \in 0..n : k = 0 \/ k \in 1..n
    BY <1>3 DEF Recurs
  <2> QED
    BY <1>4, <2>1
<1>6. left = Body(left)
  <2> HIDE DEF Body
  <2> QED
    BY <1>5
<1>7. Left(n, p) = left
  BY DEF Left
<1> HIDE DEF left
<1>8. \A k \in 0..n : left[k] = IF k = 0 THEN n ELSE left[k - 1] \div p
  BY <1>6
<1>9. \A k \in 1..n : k \in 0..n /\ k # 0 /\ left[k] = left[k - 1] \div p
  BY <1>8
<1>10. left[0] = n
  BY <1>8
<1> DEFINE T == {k \in 0..n : left[k] \in Nat}
<1>11. \A k \in 0..n : k \in T
  <2>1. 0 \in T
    BY <1>10
  <2>2. \A k \in 1..n : k - 1 \in T => k \in T
    BY <1>1, <1>9
  <2> HIDE DEF T
  <2> QED
    BY <2>1, <2>2, CountUp
<1>12. left \in [0..n -> Nat]
  BY <1>6, <1>11
<1> QED
  BY <1>4, <1>7, <1>9, <1>10, <1>12

\* The inner loop ends, at what p divides no more.
LEMMA LoopEnds ==
  ASSUME NEW n \in Nat \ {0}, NEW p \in Nat, p > 1
  PROVE  /\ HowOften(n, p) \in 0..n
         /\ Left(n, p)[HowOften(n, p)] \in Nat \ {0}
         /\ Left(n, p)[HowOften(n, p)] % p # 0
         /\ n = Power(p, HowOften(n, p)) * Left(n, p)[HowOften(n, p)]
<1> DEFINE f == Left(n, p)
           T == {k \in 0..n : (\A j \in 0..(k - 1) : f[j] % p = 0) =>
                                 f[k] \in Nat \ {0} /\ f[k] <= n - k /\ n = Power(p, k) * f[k]}
           S == {k \in 0..n : f[k] % p # 0}
           c == HowOften(n, p)
<1>1. /\ f \in [0..n -> Nat] /\ f[0] = n
      /\ \A k \in 1..n : k - 1 \in 0..n /\ f[k] = f[k - 1] \div p
  BY LeftExact
<1>2. c = CHOOSE k \in 0..n : f[k] % p # 0 /\ \A j \in 0..(k - 1) : f[j] % p = 0
  BY DEF HowOften
<1> HIDE DEF f, c
<1>3. 0 \in T
  <2>1. Power(p, 0) = 1
    BY PowerSteps
  <2> QED
    BY <1>1, <2>1
<1>4. ASSUME NEW k \in 1..n, k - 1 \in T
      PROVE  k \in T
  <2> SUFFICES ASSUME \A j \in 0..(k - 1) : f[j] % p = 0
               PROVE  f[k] \in Nat \ {0} /\ f[k] <= n - k /\ n = Power(p, k) * f[k]
    OBVIOUS
  <2>1. f[k - 1] \in Nat \ {0} /\ f[k - 1] <= n - (k - 1) /\ n = Power(p, k - 1) * f[k - 1]
    BY <1>4
  <2>2. k - 1 \in 0..(k - 1)
    OBVIOUS
  <2>3. f[k - 1] % p = 0 /\ f[k] = f[k - 1] \div p
    BY <1>1, <2>2
  <2> DEFINE a == f[k - 1]
             b == f[k]
  <2>4. b \in Nat /\ a = p * b
    <3>1. \A z \in Nat : z = p * (z \div p) + (z % p) /\ z \div p \in Nat
      OBVIOUS
    <3> HIDE DEF a, b
    <3>2. a \in Nat /\ a % p = 0 /\ b = a \div p
      BY <2>1, <2>3 DEF a, b
    <3> QED
      BY <3>1, <3>2
  <2>5. b # 0
    BY <2>1, <2>4
  <2>6. b < a
    <3>1. b * 2 <= b * p /\ b * p = p * b
      BY <2>4, LargerFactor
    <3> QED
      BY <2>1, <2>4, <2>5, <3>1
  <2>7. Power(p, k) = Power(p, k - 1) * p /\ Power(p, k - 1) \in Nat
    <3>1. k - 1 \in Nat /\ (k - 1) + 1 = k
      OBVIOUS
    <3>2. Power(p, (k - 1) + 1) = Power(p, k - 1) * p /\ Power(p, k - 1) \in Nat
      BY <3>1, PowerSteps
    <3> QED
      BY <3>1, <3>2
  <2> DEFINE x == Power(p, k - 1)
  <2>8. n = (x * p) * b
    <3>1. x \in Nat /\ n = x * a
      BY <2>1, <2>7
    <3> HIDE DEF x, a, b
    <3> QED
      BY <2>4, <3>1
  <2> QED
    BY <2>1, <2>4, <2>5, <2>6, <2>7, <2>8
<1>5. \A k \in 0..n : k \in T
  <2> HIDE DEF T
  <2> QED
    BY <1>3, <1>4, CountUp
<1>6. S # {}
  <2> SUFFICES ASSUME \A k \in 0..n : f[k] % p = 0 PROVE FALSE
    OBVIOUS
  <2>1. n \in T /\ \A j \in 0..(n - 1) : f[j] % p = 0
    BY <1>5
  <2>2. f[n] \in Nat \ {0} /\ f[n] <= n - n
    BY <2>1
  <2> QED
    BY <2>2
<1>7. \E k \in 0..n : f[k] % p # 0 /\ \A j \in 0..(k - 1) : f[j] % p = 0
  <2>1. PICK k \in S : \A l \in S : k <= l
    <3>1. S \in SUBSET Nat
      OBVIOUS
    <3> HIDE DEF S
    <3> QED
      BY <1>6, <3>1, LeastNumber
  <2>2. k \in 0..n /\ \A j \in 0..(k - 1) : j \in 0..n /\ ~ (k <= j)
    OBVIOUS
  <2> QED
    BY <2>1, <2>2
<1>8. c \in 0..n /\ f[c] % p # 0 /\ \A j \in 0..(c - 1) : f[j] % p = 0
  BY <1>2, <1>7
<1>9. c \in T
  BY <1>5, <1>8
<1>10. f[c] \in Nat \ {0} /\ n = Power(p, c) * f[c]
  BY <1>8, <1>9
<1> QED
  BY <1>8, <1>10 DEF f, c
-----------------------------------------------------------------------------
(* The outer loop *)

\* Primes up to top, in ascending order.
PrimesUpTo(list, top) ==
  /\ list \in Seq(Nat)
  /\ \A k \in 1..Len(list) : IsPrime(list[k]) /\ list[k] <= top
  /\ \A h, k \in 1..Len(list) : h <= k => list[h] <= list[k]

\* The keys of a map of primes, which are at most top.
PrimeKeys(map, top) ==
  /\ IsMap(map)
  /\ \A k \in DOMAIN map : IsPrime(k) /\ map[k] > 0 /\ k <= top

LEMMA OneMorePrime ==
  ASSUME NEW list, NEW top \in Nat, PrimesUpTo(list, top), NEW x \in Nat, IsPrime(x), top <= x
  PROVE  /\ PrimesUpTo(Append(list, x), x)
         /\ Product(Append(list, x)) = Product(list) * x
<1> DEFINE new == Append(list, x)
<1>1. list \in Seq(Nat) /\ \A k \in 1..Len(list) : list[k] \in Nat
  BY ElementOfSeq DEF PrimesUpTo
<1>2. /\ new \in Seq(Nat) /\ Len(new) = Len(list) + 1
      /\ \A k \in 1..Len(list) : new[k] = list[k]
      /\ new[Len(list) + 1] = x
  BY <1>1, AppendProperties
<1> HIDE DEF new
<1>3. \A k \in 1..Len(new) : k \in 1..Len(list) \/ k = Len(list) + 1
  BY <1>1, <1>2
<1>4. ASSUME NEW k \in 1..Len(new)
      PROVE  IsPrime(new[k]) /\ new[k] <= x
  <2>1. CASE k \in 1..Len(list)
    <3>1. IsPrime(list[k]) /\ list[k] <= top /\ list[k] \in Nat /\ new[k] = list[k]
      BY <1>1, <1>2, <2>1 DEF PrimesUpTo
    <3> QED
      BY <3>1
  <2>2. CASE k = Len(list) + 1
    BY <1>2, <2>2
  <2> QED
    BY <1>3, <2>1, <2>2
<1>5. ASSUME NEW h \in 1..Len(new), NEW k \in 1..Len(new), h <= k
      PROVE  new[h] <= new[k]
  <2>1. CASE k = Len(list) + 1
    BY <1>2, <1>4, <2>1
  <2>2. CASE k \in 1..Len(list)
    <3>1. h \in 1..Len(list)
      BY <1>5, <2>2
    <3> QED
      BY <1>2, <1>5, <2>2, <3>1 DEF PrimesUpTo
  <2> QED
    BY <1>3, <2>1, <2>2
<1>6. PrimesUpTo(new, x)
  BY <1>2, <1>4, <1>5 DEF PrimesUpTo
<1> QED
  BY <1>1, <1>6, ProductAppend DEF new

LEMMA AppendBehind ==
  ASSUME NEW s \in Seq(Nat), NEW t \in Seq(Nat), NEW x \in Nat
  PROVE  s \o Append(t, x) = Append(s \o t, x)
OBVIOUS

\* The same prime, a number of times.
LEMMA ProductRepeated ==
  ASSUME NEW list, NEW top \in Nat, PrimesUpTo(list, top),
         NEW p \in Nat, IsPrime(p), top <= p, NEW c \in Nat
  PROVE  /\ PrimesUpTo(list \o [i \in 1..c |-> p], p)
         /\ Product(list \o [i \in 1..c |-> p]) = Product(list) * Power(p, c)
<1> DEFINE Longer(k) == list \o [i \in 1..k |-> p]
           Fits(k) == PrimesUpTo(Longer(k), p) /\ Product(Longer(k)) = Product(list) * Power(p, k)
           T == {k \in 0..c : Fits(k)}
<1>1. list \in Seq(Nat) /\ Product(list) \in Nat
  BY ProductType DEF PrimesUpTo
<1>2. 0 \in T
  <2>1. Longer(0) = list
    BY <1>1
  <2>2. Power(p, 0) = 1
    BY PowerSteps
  <2>3. PrimesUpTo(list, p)
    <3>1. \A k \in 1..Len(list) : list[k] \in Nat
      BY <1>1, ElementOfSeq
    <3> QED
      BY <3>1 DEF PrimesUpTo
  <2> QED
    BY <1>1, <2>1, <2>2, <2>3
<1>3. ASSUME NEW k \in 1..c, k - 1 \in T
      PROVE  k \in T
  <2>1. Longer(k) = Append(Longer(k - 1), p)
    <3>1. k - 1 \in Nat /\ k \in Nat /\ k = (k - 1) + 1
      OBVIOUS
    <3> DEFINE s == [i \in 1..(k - 1) |-> p]
               t == [i \in 1..k |-> p]
    <3>2. s \in Seq(Nat) /\ Len(s) = k - 1 /\ t \in Seq(Nat) /\ Len(t) = k
      BY <3>1
    <3>3. t = Append(s, p)
      BY <3>1
    <3> HIDE DEF s, t
    <3>4. list \o Append(s, p) = Append(list \o s, p)
      BY <1>1, <3>2, AppendBehind
    <3> QED
      BY <3>3, <3>4 DEF s, t
  <2>2. PrimesUpTo(Longer(k - 1), p) /\ Product(Longer(k - 1)) = Product(list) * Power(p, k - 1)
    BY <1>3
  <2>3. PrimesUpTo(Longer(k), p) /\ Product(Longer(k)) = Product(Longer(k - 1)) * p
    <3> HIDE DEF Longer
    <3> QED
      BY <2>1, <2>2, OneMorePrime
  <2>4. Power(p, k) = Power(p, k - 1) * p /\ Power(p, k - 1) \in Nat
    <3>1. k - 1 \in Nat /\ (k - 1) + 1 = k
      OBVIOUS
    <3>2. Power(p, (k - 1) + 1) = Power(p, k - 1) * p /\ Power(p, k - 1) \in Nat
      BY <3>1, PowerSteps
    <3> QED
      BY <3>1, <3>2
  <2>5. (Product(list) * Power(p, k - 1)) * p = Product(list) * (Power(p, k - 1) * p)
    <3> DEFINE x == Product(list)
               y == Power(p, k - 1)
    <3>1. x \in Nat /\ y \in Nat
      BY <1>1, <2>4
    <3> HIDE DEF x, y
    <3>2. (x * y) * p = x * (y * p)
      BY <3>1
    <3> QED
      BY <3>2 DEF x, y
  <2>6. Fits(k)
    <3> HIDE DEF Longer
    <3> QED
      BY <2>2, <2>3, <2>4, <2>5
  <2> QED
    BY <2>6
<1> HIDE DEF Fits
<1>4. c \in T
  <2> HIDE DEF T
  <2>1. \A k \in 0..c : k \in T
    BY <1>2, <1>3, CountUp
  <2> QED
    BY <2>1
<1> QED
  BY <1>4 DEF Fits

\* What was found and what is left make up m, and no number up to q divides
\* what is left.
Good(s, m, q) ==
  /\ s.rest \in Nat \ {0}
  /\ PrimesUpTo(s.prime_list, q) /\ m = Product(s.prime_list) * s.rest
  /\ PrimeKeys(s.primes_mul, q) /\ m = Powers(s.primes_mul, m) * s.rest
  /\ \A d \in 2..q : s.rest % d # 0

LEMMA Regrouped ==
  ASSUME NEW a \in Nat, NEW b \in Nat, NEW c \in Nat
  PROVE  a * (b * c) = (a * b) * c
OBVIOUS

\* The body of the loop, for the next prime.
LEMMA DividedByGood ==
  ASSUME NEW m \in Nat \ {0}, NEW q \in 1..m, IsPrime(q), NEW s, Good(s, m, q - 1)
  PROVE  Good(DividedBy(s, q), m, q)
<1> DEFINE n == s.rest
           c == HowOften(n, q)
           r == Left(n, q)[c]
           list == s.prime_list \o [i \in 1..c |-> q]
           map == IF c > 0 THEN insert(s.primes_mul, q, c) ELSE s.primes_mul
<1>1. /\ n \in Nat \ {0}
      /\ PrimesUpTo(s.prime_list, q - 1) /\ m = Product(s.prime_list) * n
      /\ PrimeKeys(s.primes_mul, q - 1) /\ m = Powers(s.primes_mul, m) * n
      /\ \A d \in 2..(q - 1) : n % d # 0
  BY DEF Good
<1>2. DividedBy(s, q) = [rest |-> r, prime_list |-> list, primes_mul |-> map]
  BY DEF DividedBy
<1>3. q \in Nat /\ q > 1 /\ q - 1 \in Nat /\ q - 1 <= q
  BY DEF IsPrime
<1>4. c \in Nat /\ r \in Nat \ {0} /\ r % q # 0 /\ n = Power(q, c) * r
  <2> HIDE DEF n
  <2> QED
    BY <1>1, <1>3, LoopEnds
<1>5. Power(q, c) \in Nat
  BY <1>3, <1>4, PowerSteps
<1> HIDE DEF n, c, r
<1>6. PrimesUpTo(list, q) /\ m = Product(list) * r
  <2>1. PrimesUpTo(list, q) /\ Product(list) = Product(s.prime_list) * Power(q, c)
    BY <1>1, <1>3, <1>4, ProductRepeated
  <2>2. Product(s.prime_list) \in Nat
    BY <1>1, ProductType DEF PrimesUpTo
  <2>3. Product(s.prime_list) * (Power(q, c) * r) = (Product(s.prime_list) * Power(q, c)) * r
    BY <1>4, <1>5, <2>2, Regrouped
  <2> HIDE DEF list
  <2> QED
    BY <1>1, <1>4, <2>1, <2>3
<1> HIDE DEF list
<1>7. PrimeKeys(map, q) /\ m = Powers(map, m) * r
  <2>1. IsMap(s.primes_mul) /\ \A k \in DOMAIN s.primes_mul :
                                 k \in Nat /\ IsPrime(k) /\ s.primes_mul[k] > 0 /\ k < q
    BY <1>1, <1>3 DEF PrimeKeys, IsMap
  <2>2. Powers(s.primes_mul, m) \in Nat
    BY <2>1, FactorsType
  <2>3. PrimeKeys(map, q) /\ Powers(map, m) = Powers(s.primes_mul, m) * Power(q, c)
    <3>1. CASE c > 0
      <4>1. map = insert(s.primes_mul, q, c)
        BY <3>1
      <4>2. q \notin DOMAIN s.primes_mul
        BY <1>3, <2>1
      <4>3. IsMap(map) /\ Powers(map, m) = Powers(s.primes_mul, m) * Power(q, c)
        BY <1>4, <2>1, <4>1, <4>2, PowersInsert
      <4>4. \A k \in DOMAIN map : IsPrime(k) /\ map[k] > 0 /\ k <= q
        BY <1>3, <2>1, <3>1, <4>1 DEF insert
      <4> QED
        BY <4>3, <4>4 DEF PrimeKeys
    <3>2. CASE c = 0
      <4>1. map = s.primes_mul
        BY <3>2
      <4>2. Power(q, c) = 1
        BY <1>3, <3>2, PowerSteps
      <4>3. PrimeKeys(s.primes_mul, q)
        BY <1>3, <2>1 DEF PrimeKeys
      <4> QED
        BY <2>2, <4>1, <4>2, <4>3
    <3> QED
      BY <1>4, <3>1, <3>2
  <2>4. Powers(s.primes_mul, m) * (Power(q, c) * r) = (Powers(s.primes_mul, m) * Power(q, c)) * r
    BY <1>4, <1>5, <2>2, Regrouped
  <2> HIDE DEF map
  <2> QED
    BY <1>1, <1>4, <2>3, <2>4
<1> HIDE DEF map
<1>8. ASSUME NEW d \in 2..q, r % d = 0
      PROVE  FALSE
  <2>1. d \in Nat \ {0} /\ d \in 2..(q - 1)
    <3>1. d # q
      BY <1>4, <1>8
    <3> QED
      BY <1>3, <3>1
  <2>2. PICK a \in Nat : r = d * a
    BY <1>4, <1>8, <2>1, Divided
  <2>3. n = d * (Power(q, c) * a) /\ Power(q, c) * a \in Nat
    <3> DEFINE x == Power(q, c)
    <3>1. x \in Nat /\ n = x * (d * a)
      BY <1>4, <1>5, <2>2
    <3> HIDE DEF x
    <3>2. x * (d * a) = d * (x * a) /\ x * a \in Nat
      BY <2>1, <2>2, <3>1
    <3> QED
      BY <3>1, <3>2 DEF x
  <2>4. n % d = 0
    BY <1>1, <2>1, <2>3, Divided
  <2> QED
    BY <1>1, <2>1, <2>4
<1>9. Good([rest |-> r, prime_list |-> list, primes_mul |-> map], m, q)
  BY <1>4, <1>6, <1>7, <1>8 DEF Good
<1> QED
  BY <1>2, <1>9
\* One turn of the outer loop, after those that h knows.
Turn(h, n, p) ==
  IF p = 0 THEN [rest |-> n, prime_list |-> <<>>, primes_mul |-> NoEntries]
  ELSE LET s == h[p - 1]
       IN  IF IsPrime(p) /\ s.rest # 1 THEN DividedBy(s, p) ELSE s

\* The loop makes its turns one after the other.
LEMMA LoopExists ==
  ASSUME NEW n, NEW limit \in Nat
  PROVE  \E f : f = [p \in 0..limit |-> Turn(f, n, p)]
<1> DEFINE Fits(f, m) == f = [p \in 0..m |-> f[p]] /\ \A p \in 0..m : f[p] = Turn(f, n, p)
           T == {m \in 0..limit : \E f : Fits(f, m)}
<1>1. 0 \in T
  <2> DEFINE f == [p \in 0..0 |-> [rest |-> n, prime_list |-> <<>>, primes_mul |-> NoEntries]]
  <2>1. /\ f = [p \in 0..0 |-> f[p]]
        /\ \A p \in 0..0 : p = 0 /\ f[p] = [rest |-> n, prime_list |-> <<>>, primes_mul |-> NoEntries]
    OBVIOUS
  <2> HIDE DEF f
  <2>2. Fits(f, 0)
    BY <2>1 DEF Turn
  <2> HIDE DEF Fits
  <2> QED
    BY <2>2
<1>2. ASSUME NEW m \in 1..limit, m - 1 \in T
      PROVE  m \in T
  <2>1. PICK f : Fits(f, m - 1)
    BY <1>2
  <2> DEFINE h == [p \in 0..m |-> IF p = m THEN Turn(f, n, p) ELSE f[p]]
  <2>2. /\ h = [p \in 0..m |-> h[p]]
        /\ \A p \in 0..m : h[p] = IF p = m THEN Turn(f, n, p) ELSE f[p]
    OBVIOUS
  <2> HIDE DEF h
  <2>3. ASSUME NEW p \in 0..(m - 1)
        PROVE  h[p] = f[p] /\ f[p] = Turn(f, n, p)
    <3>1. p \in 0..m /\ p # m
      OBVIOUS
    <3> QED
      BY <2>1, <2>2, <3>1
  <2>4. ASSUME NEW p \in 0..m
        PROVE  h[p] = Turn(h, n, p)
    <3>1. h[p] = Turn(f, n, p)
      <4>1. CASE p = m
        BY <2>2, <4>1
      <4>2. CASE p # m
        <5>1. p \in 0..(m - 1)
          BY <4>2
        <5> QED
          BY <2>3, <5>1
      <4> QED
        BY <4>1, <4>2
    <3>2. CASE p = 0
      BY <3>1, <3>2 DEF Turn
    <3>3. CASE p # 0
      <4>1. p - 1 \in 0..(m - 1)
        BY <3>3
      <4>2. h[p - 1] = f[p - 1]
        BY <2>3, <4>1
      <4> QED
        BY <3>1, <4>2 DEF Turn
    <3> QED
      BY <3>2, <3>3
  <2>5. Fits(h, m)
    BY <2>2, <2>4
  <2> HIDE DEF Fits
  <2> QED
    BY <2>5
<1> HIDE DEF T
<1>3. limit \in T
  <2>1. \A m \in 0..limit : m \in T
    BY <1>1, <1>2, CountUp
  <2> QED
    BY <2>1
<1>4. PICK f : Fits(f, limit)
  BY <1>3 DEF T
<1>5. f = [p \in 0..limit |-> Turn(f, n, p)]
  <2>1. f = [p \in 0..limit |-> f[p]] /\ \A p \in 0..limit : f[p] = Turn(f, n, p)
    BY <1>4
  <2> QED
    BY <2>1
<1> QED
  BY <1>5

\* When the loop is done, what is left has no divisor up to the root.
LEMMA LoopGood ==
  ASSUME NEW n \in Nat \ {0}
  PROVE  Good(Loop(n), n, Isqrt(n))
<1> DEFINE limit == Isqrt(n)
           loop == CHOOSE f : f = [p \in 0..limit |-> Turn(f, n, p)]
<1>1. Loop(n) = loop[limit]
  BY DEF Loop, Turn
<1>2. limit \in Nat /\ limit <= n
  BY Root
<1> HIDE DEF limit
<1>3. loop = [p \in 0..limit |-> Turn(loop, n, p)]
  BY <1>2, LoopExists
<1> HIDE DEF loop
<1>4. loop[0] = [rest |-> n, prime_list |-> <<>>, primes_mul |-> NoEntries]
  <2>1. loop[0] = Turn(loop, n, 0)
    BY <1>2, <1>3
  <2> QED
    BY <2>1 DEF Turn
<1>5. ASSUME NEW p \in 1..limit
      PROVE  loop[p] = IF IsPrime(p) /\ loop[p - 1].rest # 1 THEN DividedBy(loop[p - 1], p)
                       ELSE loop[p - 1]
  <2>1. loop[p] = Turn(loop, n, p) /\ p # 0
    BY <1>2, <1>3
  <2> QED
    BY <2>1 DEF Turn
<1> DEFINE T == {q \in 0..limit : Good(loop[q], n, q)}
<1>6. 0 \in T
  <2> SUFFICES Good(loop[0], n, 0)
    BY <1>2
  <2>1. PrimesUpTo(<<>>, 0) /\ n = Product(<<>>) * n
    BY EmptyProduct DEF PrimesUpTo
  <2>2. PrimeKeys(NoEntries, 0) /\ n = Powers(NoEntries, n) * n
    <3>1. IsMap(NoEntries) /\ Powers(NoEntries, n) = 1
      BY NoPowers
    <3>2. DOMAIN NoEntries = {}
      BY DEF NoEntries
    <3> QED
      BY <3>1, <3>2 DEF PrimeKeys
  <2> QED
    BY <1>4, <2>1, <2>2 DEF Good
<1>7. ASSUME NEW q \in 1..limit, q - 1 \in T
      PROVE  q \in T
  <2>1. Good(loop[q - 1], n, q - 1)
    BY <1>7
  <2> DEFINE s == loop[q - 1]
  <2> SUFFICES Good(loop[q], n, q)
    OBVIOUS
  <2>2. CASE IsPrime(q) /\ s.rest # 1
    <3>1. loop[q] = DividedBy(s, q)
      BY <1>5, <2>2
    <3>2. q \in 1..n
      BY <1>2
    <3> HIDE DEF s
    <3> QED
      BY <2>1, <2>2, <3>1, <3>2, DividedByGood DEF s
  <2>3. CASE ~ (IsPrime(q) /\ s.rest # 1)
    <3>1. loop[q] = s
      BY <1>5, <2>3
    <3>2. /\ s.rest \in Nat \ {0}
          /\ PrimesUpTo(s.prime_list, q - 1) /\ n = Product(s.prime_list) * s.rest
          /\ PrimeKeys(s.primes_mul, q - 1) /\ n = Powers(s.primes_mul, n) * s.rest
          /\ \A d \in 2..(q - 1) : s.rest % d # 0
      BY <2>1 DEF Good
    <3> HIDE DEF s
    <3>3. \A d \in 2..q : s.rest % d # 0
      <4>1. CASE s.rest = 1
        BY <4>1
      <4>2. CASE ~IsPrime(q)
        <5>1. s.rest \in Nat /\ q - 1 \in Nat /\ q + 1 \in Nat /\ (q + 1) - 1 = q
          BY <3>2
        <5>2. \A r \in ((q - 1) + 1)..((q + 1) - 1) : ~IsPrime(r)
          BY <4>2
        <5>3. \A d \in 2..((q + 1) - 1) : s.rest % d # 0
          BY <3>2, <5>1, <5>2, NoneBetween
        <5> QED
          BY <5>1, <5>3
      <4> QED
        BY <2>3, <4>1, <4>2
    <3>4. PrimesUpTo(s.prime_list, q)
      <4>1. \A k \in 1..Len(s.prime_list) : s.prime_list[k] \in Nat
        BY <3>2, ElementOfSeq DEF PrimesUpTo
      <4>2. q \in Nat
        BY <1>2
      <4>3. /\ s.prime_list \in Seq(Nat)
            /\ \A k \in 1..Len(s.prime_list) : IsPrime(s.prime_list[k]) /\ s.prime_list[k] <= q - 1
            /\ \A h, k \in 1..Len(s.prime_list) : h <= k => s.prime_list[h] <= s.prime_list[k]
        BY <3>2 DEF PrimesUpTo
      <4>4. \A k \in 1..Len(s.prime_list) : s.prime_list[k] <= q
        BY <4>1, <4>2, <4>3
      <4> QED
        BY <4>3, <4>4 DEF PrimesUpTo
    <3>5. PrimeKeys(s.primes_mul, q)
      BY <3>2 DEF PrimeKeys, IsMap
    <3> QED
      BY <3>1, <3>2, <3>3, <3>4, <3>5 DEF Good
  <2> QED
    BY <2>2, <2>3
<1> HIDE DEF T
<1>8. limit \in T
  <2>1. \A q \in 0..limit : q \in T
    BY <1>2, <1>6, <1>7, CountUp
  <2> QED
    BY <1>2, <2>1
<1> QED
  BY <1>1, <1>8 DEF T, limit

-----------------------------------------------------------------------------
(* Primes and products *)

\* A prime that divides a product divides one of the factors.
LEMMA PrimeDividesFactor ==
  ASSUME NEW p \in Nat, IsPrime(p), NEW a \in Nat, NEW b \in Nat, (a * b) % p = 0
  PROVE  a % p = 0 \/ b % p = 0
<1> SUFFICES ASSUME a % p # 0 PROVE b % p = 0
  OBVIOUS
<1> DEFINE e == gcd_ext(p, a)
           g == e.g
           x == e.s
           y == e.t
<1>1. p \in Nat \ {0} /\ p \in Int /\ a \in Int /\ b \in Int
  BY DEF IsPrime
<1>2. /\ g \in Nat /\ x \in Int /\ y \in Int /\ g = x * p + y * a
      /\ Divides(g, p) /\ Divides(g, a)
      /\ g = 0 <=> p = 0 /\ a = 0
  BY <1>1, GcdExact
<1> HIDE DEF g, x, y
<1>3. g = 1
  <2> SUFFICES ASSUME g > 1 PROVE FALSE
    BY <1>1, <1>2
  <2>1. g \in Nat \ {0}
    BY <1>2
  <2>2. p % g = 0
    BY <1>1, <1>2, <2>1, NoRemainder
  <2>3. g = p
    BY <1>2, <2>2, OnlyItself
  <2> QED
    BY <1>1, <1>2, <2>3, NoRemainder
<1>4. b = (p * x) * b + (a * b) * y
  <2>1. (x * p + y * a) * b = (p * x) * b + (a * b) * y
    BY <1>2
  <2>2. (x * p + y * a) * b = 1 * b
    BY <1>2, <1>3
  <2> QED
    BY <2>1, <2>2
<1>5. Divides(p, (p * x) * b) /\ Divides(p, (a * b) * y)
  <2>1. Divides(p, a * b) /\ a * b \in Int
    BY <1>1, NoRemainder
  <2>2. Divides(p, p * x) /\ p * x \in Int
    <3>1. Divides(p, p) /\ p * x \in Int
      BY <1>1, <1>2, DividesItself
    <3> QED
      BY <1>1, <1>2, <3>1, DividesMultiple
  <2> QED
    BY <1>1, <1>2, <2>1, <2>2, DividesMultiple
<1>6. Divides(p, b)
  <2>1. (p * x) * b \in Int /\ (a * b) * y \in Int
    BY <1>1, <1>2
  <2>2. Divides(p, (p * x) * b + (a * b) * y)
    BY <1>1, <1>5, <2>1, DividesSum
  <2> QED
    BY <1>4, <2>2
<1> QED
  BY <1>1, <1>6, NoRemainder

LEMMA PrimeInProduct ==
  ASSUME NEW p \in Nat, IsPrime(p), NEW s \in Seq(Nat), Product(s) % p = 0
  PROVE  \E k \in 1..Len(s) : s[k] % p = 0
<1>1. PICK f \in [0..Len(s) -> Nat] :
        Product(s) = f[Len(s)] /\ f[0] = 1 /\ \A k \in 1..Len(s) : f[k] = f[k - 1] * s[k]
  BY ProductSteps
<1> DEFINE n == Len(s)
           T == {k \in 0..n : f[k] % p = 0 => \E j \in 1..n : s[j] % p = 0}
<1>2. n \in Nat /\ \A k \in 1..n : k - 1 \in 0..n /\ s[k] \in Nat
  BY ElementOfSeq
<1>3. 0 \in T
  <2>1. 1 % p # 0
    BY DEF IsPrime
  <2> QED
    BY <1>1, <1>2, <2>1
<1>4. ASSUME NEW k \in 1..n, k - 1 \in T
      PROVE  k \in T
  <2> SUFFICES ASSUME f[k] % p = 0
               PROVE  \E j \in 1..n : s[j] % p = 0
    BY <1>2
  <2>1. f[k - 1] \in Nat /\ s[k] \in Nat /\ f[k] = f[k - 1] * s[k]
    BY <1>1, <1>2
  <2>2. f[k - 1] % p = 0 \/ s[k] % p = 0
    BY <2>1, PrimeDividesFactor
  <2> QED
    BY <1>4, <2>2
<1> HIDE DEF T
<1>5. n \in T
  <2>1. \A k \in 0..n : k \in T
    BY <1>2, <1>3, <1>4, CountUp
  <2> QED
    BY <1>2, <2>1
<1> QED
  BY <1>1, <1>5 DEF T

LEMMA PrimeInPower ==
  ASSUME NEW p \in Nat, IsPrime(p), NEW q \in Nat, IsPrime(q), NEW c \in Nat, Power(q, c) % p = 0
  PROVE  p = q
<1> DEFINE s == [k \in 1..c |-> q]
<1>1. s \in Seq(Nat) /\ Len(s) = c /\ \A k \in 1..c : s[k] = q
  BY ConstantSeq
<1>2. Power(q, c) = Product(s)
  BY DEF Power
<1> HIDE DEF s
<1>3. q % p = 0
  BY <1>1, <1>2, PrimeInProduct
<1> QED
  BY <1>3, OnlyItself DEF IsPrime

\* A factor divides the product; the others make up the rest.
LEMMA OtherFactors ==
  ASSUME NEW s \in Seq(Nat), NEW k \in 1..Len(s)
  PROVE  \E t \in Seq(Nat) : /\ Len(t) = Len(s) /\ t[k] = 1
                             /\ \A j \in 1..Len(s) : j # k => t[j] = s[j]
                             /\ Product(s) = Product(t) * s[k]
<1> DEFINE t == [j \in 1..Len(s) |-> IF j = k THEN 1 ELSE s[j]]
<1>1. \A j \in 1..Len(s) : s[j] \in Nat
  BY ElementOfSeq
<1>2. /\ t \in Seq(Nat) /\ Len(t) = Len(s) /\ t[k] = 1
      /\ \A j \in 1..Len(s) : j # k => t[j] = s[j]
  <2>1. Len(s) \in Nat /\ \A j \in 1..Len(s) : (IF j = k THEN 1 ELSE s[j]) \in Nat
    BY <1>1
  <2> QED
    BY <2>1
<1> HIDE DEF t
<1>3. Product(s) = Product(t) * s[k]
  BY <1>2, ProductReplaced
<1> QED
  BY <1>2, <1>3

\* In a product of primes a prime is a factor just when it divides.
LEMMA ListComplete ==
  ASSUME NEW list, NEW top, PrimesUpTo(list, top), NEW p \in Nat, IsPrime(p)
  PROVE  Product(list) % p = 0 <=> \E k \in 1..Len(list) : list[k] = p
<1>1. list \in Seq(Nat) /\ \A k \in 1..Len(list) : list[k] \in Nat /\ IsPrime(list[k])
  BY ElementOfSeq DEF PrimesUpTo
<1>2. ASSUME Product(list) % p = 0
      PROVE  \E k \in 1..Len(list) : list[k] = p
  <2>1. PICK k \in 1..Len(list) : list[k] % p = 0
    BY <1>1, <1>2, PrimeInProduct
  <2>2. p = list[k]
    BY <1>1, <2>1, OnlyItself DEF IsPrime
  <2> QED
    BY <2>2
<1>3. ASSUME NEW k \in 1..Len(list), list[k] = p
      PROVE  Product(list) % p = 0
  <2>1. PICK t \in Seq(Nat) : Product(list) = Product(t) * list[k]
    BY <1>1, OtherFactors
  <2>2. Product(t) \in Nat /\ p \in Nat \ {0} /\ Product(list) = p * Product(t) /\ Product(list) \in Nat
    <3>1. Product(t) \in Nat /\ Product(list) \in Nat
      BY <1>1, ProductType
    <3>2. p > 1
      BY DEF IsPrime
    <3> QED
      BY <1>3, <2>1, <3>1, <3>2
  <2> QED
    BY <2>2, Divided
<1> QED
  BY <1>2, <1>3

\* In a product of powers of primes every key divides just as often as the
\* map says, and no other prime does.
LEMMA MapComplete ==
  ASSUME NEW map, NEW m \in Nat \ {0}, PrimeKeys(map, m), Powers(map, m) = m
  PROVE  /\ \A p \in Nat : IsPrime(p) => (m % p = 0 <=> p \in DOMAIN map)
         /\ \A k \in DOMAIN map : /\ m % Power(k, map[k]) = 0
                                  /\ m % Power(k, map[k] + 1) # 0
<1> DEFINE s == Factors(map, m)
<1>1. /\ IsMap(map)
      /\ \A k \in DOMAIN map : k \in Nat /\ IsPrime(k) /\ map[k] \in Nat /\ map[k] > 0 /\ k <= m /\ k > 1
  BY DEF PrimeKeys, IsMap, IsPrime
<1>2. s \in Seq(Nat) /\ Len(s) = m /\ m = Product(s)
  BY <1>1, FactorsType
<1>3. \A k \in 1..m : s[k] = IF k \in DOMAIN map THEN Power(k, map[k]) ELSE 1
  BY DEF Factors
<1> HIDE DEF s
<1>4. \A p \in Nat : IsPrime(p) => 1 % p # 0
  BY DEF IsPrime
<1>5. ASSUME NEW p \in Nat, IsPrime(p), NEW k \in 1..m, s[k] % p = 0
      PROVE  p = k /\ p \in DOMAIN map
  <2>1. k \in DOMAIN map
    BY <1>3, <1>4, <1>5
  <2>2. Power(k, map[k]) % p = 0
    BY <1>3, <1>5, <2>1
  <2> QED
    BY <1>1, <1>5, <2>1, <2>2, PrimeInPower
<1>6. ASSUME NEW k \in DOMAIN map
      PROVE  /\ m % k = 0
             /\ m % Power(k, map[k]) = 0
             /\ m % Power(k, map[k] + 1) # 0
  <2> DEFINE c == map[k]
             P == Power(k, c)
             Q == Power(k, c - 1)
  <2>1. k \in 1..m /\ c \in Nat /\ c > 0 /\ IsPrime(k) /\ k \in Nat \ {0} /\ c - 1 \in Nat /\ (c - 1) + 1 = c
    BY <1>1
  <2>2. s[k] = P
    BY <1>3, <2>1
  <2> HIDE DEF c, P, Q
  <2>3. PICK t \in Seq(Nat) : /\ Len(t) = m /\ t[k] = 1
                              /\ \A j \in 1..m : j # k => t[j] = s[j]
                              /\ m = Product(t) * P
    <3>1. k \in 1..Len(s)
      BY <1>2, <2>1
    <3>2. \E t \in Seq(Nat) : /\ Len(t) = Len(s) /\ t[k] = 1
                              /\ \A j \in 1..Len(s) : j # k => t[j] = s[j]
                              /\ Product(s) = Product(t) * s[k]
      BY <1>2, <3>1, OtherFactors
    <3> QED
      BY <1>2, <2>2, <3>2
  <2> DEFINE R == Product(t)
  <2>4. /\ R \in Nat /\ P \in Nat /\ Q \in Nat
        /\ m = R * P /\ P = Q * k /\ Power(k, c + 1) = P * k
    <3>1. R \in Nat /\ m = R * P
      BY <2>3, ProductType
    <3>2. P \in Nat /\ Power(k, c + 1) = P * k
      BY <2>1, PowerSteps DEF P
    <3>3. Q \in Nat /\ Power(k, (c - 1) + 1) = Q * k
      BY <2>1, PowerSteps DEF Q
    <3> QED
      BY <2>1, <3>1, <3>2, <3>3 DEF P
  <2>5. R % k # 0
    <3> SUFFICES ASSUME R % k = 0 PROVE FALSE
      OBVIOUS
    <3>1. PICK j \in 1..m : t[j] % k = 0
      BY <2>1, <2>3, PrimeInProduct
    <3>2. j # k
      BY <1>4, <2>1, <2>3, <3>1
    <3>3. s[j] % k = 0
      BY <2>3, <3>1, <3>2
    <3> QED
      BY <1>5, <2>1, <3>2, <3>3
  <2> HIDE DEF R
  <2>6. m = R * P
    BY <2>4
  <2>7. P # 0
    BY <2>4, <2>6
  <2>8. m % P = 0
    <3>1. m = P * R /\ P \in Nat \ {0}
      BY <2>4, <2>6, <2>7
    <3> QED
      BY <2>4, <3>1, Divided
  <2>9. m % k = 0
    <3>1. R * (Q * k) = (R * Q) * k
      BY <2>1, <2>4, Regrouped
    <3>2. R * Q \in Nat /\ (R * Q) * k = k * (R * Q)
      BY <2>1, <2>4
    <3>3. m = k * (R * Q)
      BY <2>4, <3>1, <3>2
    <3> QED
      BY <2>1, <3>2, <3>3, Divided
  <2>10. m % (P * k) # 0
    <3> SUFFICES ASSUME m % (P * k) = 0 PROVE FALSE
      OBVIOUS
    <3>1. P * k \in Nat \ {0}
      BY <2>1, <2>4, <2>7
    <3>2. PICK x \in Nat : m = (P * k) * x
      BY <3>1, Divided
    <3>3. P * R = P * (k * x) /\ k * x \in Nat
      <4>1. P * (k * x) = (P * k) * x
        BY <2>1, <2>4, Regrouped
      <4>2. R * P = P * R
        BY <2>4
      <4>3. k * x \in Nat
        BY <2>1
      <4> QED
        BY <2>6, <3>2, <4>1, <4>2, <4>3
    <3>4. R = k * x
      <4> DEFINE z == k * x
      <4>1. z \in Int /\ P \in Int /\ R \in Int /\ P * R = P * z
        BY <2>4, <3>3
      <4> HIDE DEF z
      <4>2. R = z
        BY <2>7, <4>1, Cancelled
      <4> QED
        BY <4>2 DEF z
    <3>5. R % k = 0
      <4>1. R \in Nat /\ k \in Nat \ {0}
        BY <2>1, <2>4
      <4> QED
        BY <3>4, <4>1, Divided
    <3> QED
      BY <2>5, <3>5
  <2> QED
    BY <2>4, <2>8, <2>9, <2>10 DEF P, c
<1>7. ASSUME NEW p \in Nat, IsPrime(p), m % p = 0
      PROVE  p \in DOMAIN map
  <2>1. PICK k \in 1..m : s[k] % p = 0
    BY <1>2, <1>7, PrimeInProduct
  <2> QED
    BY <1>5, <1>7, <2>1
<1> QED
  BY <1>6, <1>7

-----------------------------------------------------------------------------
(* What the functions find *)

LEMMA AbsoluteValue ==
  ASSUME NEW n \in Int, n # 0
  PROVE  mpz_abs(n) \in Nat \ {0}
<1>1. CASE n < 0
  BY <1>1 DEF mpz_abs
<1>2. CASE ~ (n < 0)
  BY <1>2 DEF mpz_abs
<1> QED
  BY <1>1, <1>2

\* The list of a number has all its prime factors, smallest first and as often
\* as they divide: their product is the number without its sign
\* (prime_factors, ntheory.cpp:447).
THEOREM PrimeFactorsExact ==
  ASSUME NEW n \in Int, n # 0
  PROVE  LET list == prime_factors(n)
         IN  /\ list \in Seq(Nat)
             /\ \A k \in 1..Len(list) : IsPrime(list[k])
             /\ \A h, k \in 1..Len(list) : h <= k => list[h] <= list[k]
             /\ Product(list) = mpz_abs(n)
             /\ \A p \in Nat : IsPrime(p) =>
                  (mpz_abs(n) % p = 0 <=> \E k \in 1..Len(list) : list[k] = p)
<1> DEFINE m == mpz_abs(n)
           s == Loop(m)
<1>1. m \in Nat \ {0}
  BY AbsoluteValue
<1>2. prime_factors(n) = IF s.rest = 1 THEN s.prime_list ELSE Append(s.prime_list, s.rest)
  BY DEF prime_factors
<1> HIDE DEF m
<1>3. /\ s.rest \in Nat \ {0}
      /\ PrimesUpTo(s.prime_list, Isqrt(m)) /\ m = Product(s.prime_list) * s.rest
      /\ \A d \in 2..Isqrt(m) : s.rest % d # 0
  BY <1>1, LoopGood DEF Good
<1>4. Isqrt(m) \in Nat
  BY <1>1, Root
<1> HIDE DEF s
<1>5. Product(s.prime_list) \in Nat
  BY <1>3, ProductType DEF PrimesUpTo
<1> SUFFICES \E list, top : /\ prime_factors(n) = list /\ PrimesUpTo(list, top)
                            /\ Product(list) = m
  BY ListComplete DEF PrimesUpTo, m
<1>6. CASE s.rest = 1
  <2>1. Product(s.prime_list) = m
    BY <1>3, <1>5, <1>6
  <2> QED
    BY <1>2, <1>3, <1>6, <2>1
<1>7. CASE s.rest # 1
  <2> DEFINE x == s.rest
  <2>1. x \in Nat /\ x > 1 /\ m \in Nat /\ m > 0
    BY <1>1, <1>3, <1>7
  <2>2. IsPrime(x) /\ x > Isqrt(m)
    BY <1>3, <1>5, <2>1, RestIsPrime
  <2> HIDE DEF x
  <2>3. PrimesUpTo(Append(s.prime_list, x), x) /\ Product(Append(s.prime_list, x)) = Product(s.prime_list) * x
    BY <1>3, <1>4, <2>1, <2>2, OneMorePrime
  <2> QED
    BY <1>2, <1>3, <1>7, <2>3 DEF x
<1> QED
  BY <1>3, <1>6, <1>7

\* The keys of the map of a number are its prime factors, each with how often
\* it divides, and their powers make up the number without its sign
\* (prime_factor_multiplicities, ntheory.cpp:472).
THEOREM MultiplicitiesExact ==
  ASSUME NEW n \in Int, n # 0
  PROVE  LET map == prime_factor_multiplicities(n)
             m   == mpz_abs(n)
         IN  /\ DOMAIN map = {p \in Nat : IsPrime(p) /\ m % p = 0}
             /\ \A k \in DOMAIN map : /\ map[k] \in Nat \ {0}
                                      /\ m % Power(k, map[k]) = 0
                                      /\ m % Power(k, map[k] + 1) # 0
             /\ Powers(map, m) = m
<1> DEFINE m == mpz_abs(n)
           s == Loop(m)
<1>1. m \in Nat \ {0}
  BY AbsoluteValue
<1>2. prime_factor_multiplicities(n) = IF s.rest = 1 THEN s.primes_mul ELSE insert(s.primes_mul, s.rest, 1)
  BY DEF prime_factor_multiplicities
<1> HIDE DEF m
<1>3. /\ s.rest \in Nat \ {0}
      /\ PrimeKeys(s.primes_mul, Isqrt(m)) /\ m = Powers(s.primes_mul, m) * s.rest
      /\ \A d \in 2..Isqrt(m) : s.rest % d # 0
  BY <1>1, LoopGood DEF Good
<1>4. Isqrt(m) \in Nat /\ Isqrt(m) <= m
  BY <1>1, Root
<1> HIDE DEF s
<1>5. IsMap(s.primes_mul) /\ Powers(s.primes_mul, m) \in Nat
  BY <1>1, <1>3, FactorsType DEF PrimeKeys
<1> DEFINE found == prime_factor_multiplicities(n)
<1> SUFFICES PrimeKeys(found, m) /\ Powers(found, m) = m
  <2> HIDE DEF found
  <2>1. ASSUME PrimeKeys(found, m), Powers(found, m) = m
        PROVE  /\ DOMAIN found = {p \in Nat : IsPrime(p) /\ m % p = 0}
               /\ \A k \in DOMAIN found : /\ found[k] \in Nat \ {0}
                                          /\ m % Power(k, found[k]) = 0
                                          /\ m % Power(k, found[k] + 1) # 0
    <3>1. \A k \in DOMAIN found : k \in Nat /\ IsPrime(k) /\ found[k] \in Nat \ {0}
      BY <2>1 DEF PrimeKeys, IsMap
    <3>2. /\ \A p \in Nat : IsPrime(p) => (m % p = 0 <=> p \in DOMAIN found)
          /\ \A k \in DOMAIN found : /\ m % Power(k, found[k]) = 0
                                     /\ m % Power(k, found[k] + 1) # 0
      BY <1>1, <2>1, MapComplete
    <3> QED
      BY <3>1, <3>2
  <2> QED
    BY <2>1 DEF found, m
<1>6. CASE s.rest = 1
  <2>1. Powers(s.primes_mul, m) = m
    BY <1>3, <1>5, <1>6
  <2>2. PrimeKeys(s.primes_mul, m)
    BY <1>1, <1>3, <1>4 DEF PrimeKeys, IsMap
  <2> QED
    BY <1>2, <1>6, <2>1, <2>2
<1>7. CASE s.rest # 1
  <2> DEFINE x == s.rest
             map == insert(s.primes_mul, x, 1)
  <2>1. x \in Nat /\ x > 1 /\ m \in Nat /\ m > 0
    BY <1>1, <1>3, <1>7
  <2>2. IsPrime(x) /\ x > Isqrt(m) /\ x <= m
    BY <1>3, <1>5, <2>1, RestIsPrime
  <2> HIDE DEF x
  <2>3. \A k \in DOMAIN s.primes_mul : k \in Nat /\ IsPrime(k) /\ s.primes_mul[k] > 0 /\ k < x
    BY <1>3, <1>4, <2>1, <2>2 DEF PrimeKeys, IsMap
  <2>4. x \in 1..m /\ x \notin DOMAIN s.primes_mul
    BY <2>1, <2>2, <2>3
  <2>5. IsMap(map) /\ Powers(map, m) = Powers(s.primes_mul, m) * Power(x, 1)
    BY <1>5, <2>1, <2>4, PowersInsert
  <2>6. Power(x, 1) = x
    <3>1. Power(x, 0 + 1) = Power(x, 0) * x /\ Power(x, 0) = 1
      BY <2>1, PowerSteps
    <3> QED
      BY <2>1, <3>1
  <2>7. \A k \in DOMAIN map : IsPrime(k) /\ map[k] > 0 /\ k <= x
    BY <2>1, <2>2, <2>3 DEF insert
  <2>8. prime_factor_multiplicities(n) = map /\ m = Powers(s.primes_mul, m) * x
    BY <1>2, <1>3, <1>7 DEF x
  <2> HIDE DEF map
  <2>9. PrimeKeys(map, m) /\ Powers(map, m) = m
    <3>1. \A k \in DOMAIN map : k \in Nat
      BY <2>5 DEF IsMap
    <3> QED
      BY <2>1, <2>2, <2>5, <2>6, <2>7, <2>8, <3>1 DEF PrimeKeys
  <2> QED
    BY <2>8, <2>9
<1> QED
  BY <1>3, <1>6, <1>7

\* Trial division finds the least prime factor of a number, and none where there
\* is none but the number (_factor_trial_division_sieve, ntheory.cpp:195).
THEOREM TrialDivisionExact ==
  ASSUME NEW n \in Nat
  PROVE  LET r == factor_trial_division(n)
         IN  \/ r = NoFactor /\ (n < 2 \/ IsPrime(n))
             \/ /\ r = Found(r.f) /\ r.f \in Nat
                /\ IsPrime(r.f) /\ n % r.f = 0 /\ r.f * r.f <= n
                /\ \A d \in 2..(r.f - 1) : n % d # 0
<1> DEFINE divisors == {p \in 2..Isqrt(n) : IsPrime(p) /\ n % p = 0}
           least == CHOOSE p \in divisors : \A q \in divisors : p <= q
<1>1. factor_trial_division(n) = IF divisors = {} THEN NoFactor ELSE Found(least)
  BY DEF factor_trial_division, _factor_trial_division_sieve
<1>2. /\ Isqrt(n) \in Nat /\ Isqrt(n) * Isqrt(n) <= n
      /\ \A d \in Nat : d * d <= n => d <= Isqrt(n)
  BY Root
<1>3. \A d \in Nat : IsPrime(d) /\ d * d <= n /\ n % d = 0 => d \in divisors
  <2> SUFFICES ASSUME NEW d \in Nat, IsPrime(d), d * d <= n, n % d = 0
               PROVE  d \in 2..Isqrt(n)
    OBVIOUS
  <2>1. d > 1
    BY DEF IsPrime
  <2> QED
    BY <1>2, <2>1
<1>4. CASE divisors = {}
  <2>1. n < 2 \/ IsPrime(n)
    <3> SUFFICES ASSUME n > 1, ~IsPrime(n) PROVE FALSE
      OBVIOUS
    <3>1. \E d \in Nat : IsPrime(d) /\ d * d <= n /\ n % d = 0
      BY SmallDivisor
    <3> HIDE DEF divisors
    <3> QED
      BY <1>3, <1>4, <3>1
  <2> QED
    BY <1>1, <1>4, <2>1
<1>5. CASE divisors # {}
  <2>1. \E p \in divisors : \A q \in divisors : p <= q
    <3>1. divisors \in SUBSET Nat
      BY <1>2
    <3> HIDE DEF divisors
    <3> QED
      BY <1>5, <3>1, LeastNumber
  <2>2. least \in divisors /\ \A q \in divisors : least <= q
    BY <2>1
  <2> DEFINE r == factor_trial_division(n)
  <2>3. r = Found(least) /\ r.f = least
    BY <1>1, <1>5 DEF Found
  <2> HIDE DEF least, r
  <2>4. least \in 2..Isqrt(n) /\ IsPrime(least) /\ n % least = 0
    BY <2>2
  <2>5. least * least <= n
    <3> DEFINE i == Isqrt(n)
    <3>1. i \in Nat /\ i * i <= n /\ least \in Nat /\ least <= i
      BY <1>2, <2>4
    <3> HIDE DEF i
    <3>2. least * least <= least * i /\ i * least <= i * i /\ least * i = i * least
      BY <3>1, LargerFactor
    <3>3. least * least \in Nat /\ least * i \in Nat /\ i * i \in Nat
      BY <3>1, LargerFactor
    <3> QED
      BY <3>1, <3>2, <3>3
  <2>6. ASSUME NEW d \in 2..(least - 1), n % d = 0
        PROVE  FALSE
    <3>1. d \in Nat /\ d > 1 /\ d < least /\ d <= Isqrt(n)
      BY <1>2, <2>4
    <3>2. PICK e \in Nat : IsPrime(e) /\ e <= d /\ d % e = 0
      <4>1. CASE IsPrime(d)
        <5>1. d % d = 0
          BY <3>1
        <5> QED
          BY <3>1, <4>1, <5>1
      <4>2. CASE ~IsPrime(d)
        <5>1. PICK e \in Nat : IsPrime(e) /\ e * e <= d /\ d % e = 0
          BY <3>1, <4>2, SmallDivisor
        <5>2. e > 1
          BY <5>1 DEF IsPrime
        <5>3. e * 1 <= e * e /\ e * e \in Nat
          BY <5>2, LargerFactor
        <5> QED
          BY <3>1, <5>1, <5>2, <5>3
      <4> QED
        BY <4>1, <4>2
    <3>3. e > 1
      BY <3>2 DEF IsPrime
    <3>4. n % e = 0
      <4>1. d \in Nat \ {0} /\ e \in Nat \ {0}
        BY <3>1, <3>3
      <4> QED
        BY <2>6, <3>2, <4>1, DividesThrough
    <3>5. e \in divisors
      BY <1>2, <3>1, <3>2, <3>3, <3>4
    <3> HIDE DEF divisors
    <3>6. least <= e /\ least \in Nat
      BY <2>2, <2>4, <3>5
    <3> QED
      BY <3>1, <3>2, <3>6
  <2>7. least \in Nat
    BY <1>2, <2>4
  <2>8. /\ r = Found(r.f) /\ r.f \in Nat
        /\ IsPrime(r.f) /\ n % r.f = 0 /\ r.f * r.f <= n
        /\ \A d \in 2..(r.f - 1) : n % d # 0
    BY <2>3, <2>4, <2>5, <2>6, <2>7
  <2> QED
    BY <2>8 DEF r
<1> QED
  BY <1>4, <1>5
=============================================================================
