------------------------------ MODULE Ntheory ------------------------------
(***************************************************************************)
(* The functions of src/src/ntheory.cpp on powers and primes, and methods  *)
(* that find a factor; module Arithmetic has the basic ones, Factorization *)
(* those that divide by primes, Residues and Roots those modulo a number.  *)
(* A random choice is a parameter of its own: the caller takes every value *)
(* of it.                                                                  *)
(***************************************************************************)
EXTENDS Factorization, FiniteSets, SequencesExt

-----------------------------------------------------------------------------
(* The functions of GMP that the code calls *)

RECURSIVE PowNat(_, _, _)
PowNat(b, e, m) ==
  IF e = 0 THEN 1 % m
  ELSE LET h == PowNat(b, e \div 2, m)
       IN  IF e % 2 = 0 THEN (h * h) % m ELSE (((h * h) % m) * b) % m
\* The result is not negative, whatever the signs; a negative exponent
\* inverts the base.
mpz_powm(b, e, m) ==
  LET n == mpz_abs(m)
  IN  PowNat(IF e < 0 THEN mpz_invert(b, n) ELSE b % n, mpz_abs(e), n)

\* The largest x with x^k <= n.
mpz_root(n, k) == CHOOSE x \in 0..n : x^k <= n /\ (x + 1)^k > n
IsRoot(x, k, n) == x^k = n
mpz_perfect_square_p(n) == n >= 0 /\ IsRoot(mpz_root(n, 2), 2, n)
Log2(n) == CHOOSE i \in 0..30 : 2^i <= n /\ n \div 2 < 2^i
mpz_perfect_power_p(n) ==
  n \in {0, 1} \/ (n > 1 /\ \E k \in 2..Log2(n) : IsRoot(mpz_root(n, k), k, n))

isprime(n) == n > 1 /\ \A d \in 2..mpz_root(n, 2) : n % d /= 0
-----------------------------------------------------------------------------
(* Factorials, binomials and primes *)

RECURSIVE factorial(_), nextprime(_)
factorial(n) == IF n = 0 THEN 1 ELSE n * factorial(n - 1)
\* A negative n is allowed: n (n - 1) ... (n - k + 1) / k!.
binomial(n, k) ==
  tdiv_q(FoldLeft(LAMBDA f, i : f * (n - i + 1), 1, [i \in 1..k |-> i]), factorial(k))

probab_prime_p(a) == IF isprime(mpz_abs(a)) THEN 2 ELSE 0
nextprime(a) == IF a < 2 THEN 2 ELSE IF isprime(a + 1) THEN a + 1 ELSE nextprime(a + 1)
-----------------------------------------------------------------------------
(* Factors *)

\* What Sieve::iterator(limit) gives, one after the other (module Sieve).
Primes(limit) == SelectSeq([i \in 1..limit |-> i], isprime)
FirstDivisor(n, ps) == SelectInSeq(ps, LAMBDA p : n % p = 0)

\* Without ECM; the output is written whatever was found, with 0 for nothing.
factor(n) ==
  LET r == _factor_trial_division_sieve(n)
  IN  IF r = NoFactor THEN [ret |-> 0, f |-> 0] ELSE r

RECURSIVE LehmanFrom(_, _, _)
LehmanFrom(k, n, u_bound) ==
  IF k > u_bound THEN NoFactor
  ELSE LET first == 2 * mpz_root(k * n, 2)     \* sqrt of an mpz_class rounds down
           b == mpz_root(n, 6) \div (4 * mpz_root(k, 2)) + first
           hits == {a \in first..b : mpz_perfect_square_p(a * a - 4 * k * n)}
       IN  IF hits = {} THEN LehmanFrom(k + 1, n, u_bound)
           ELSE LET a == CHOOSE x \in hits : \A y \in hits : x <= y
                IN  Found(mpz_gcd(n, a + mpz_root(a * a - 4 * k * n, 2)))
_factor_lehman_method(n) ==
  IF n < 21 THEN Error
  ELSE LET u_bound == mpz_root(n, 3) + 1
           ps == Primes(u_bound)
           i  == FirstDivisor(n, ps)
       IN  IF i /= 0 THEN Found(n \div ps[i]) ELSE LehmanFrom(1, n, u_bound)
\* The output is written with 0 when nothing was found.
factor_lehman_method(n) ==
  LET r == _factor_lehman_method(n)
  IN  IF r = NoFactor THEN [ret |-> 0, f |-> 0] ELSE r

RECURSIVE PowerUpTo(_, _, _)
\* The power of p that p - 1 raises to for the bound B.
PowerUpTo(m, p, B) == IF m <= B \div p THEN PowerUpTo(m * p, p, B) ELSE m
_factor_pollard_pm1_method(n, c, B) ==
  IF n < 4 \/ B < 3 THEN Error
  ELSE LET last == FoldLeft(LAMBDA d, p : mpz_powm(d, PowerUpTo(1, p, B), n), c, Primes(B))
           f == mpz_gcd(last - 1, n)
       IN  IF f \in {1, n} THEN NoFactor ELSE Found(f)

\* The loop over the retries: the result of the first that does not fail.
FirstResult(results) ==
  LET i == SelectInSeq(results, LAMBDA r : r /= NoFactor)
  IN  IF i = 0 THEN NoFactor ELSE results[i]

\* choices: what mpz_urandomm gives, less than n - 4.
factor_pollard_pm1_method(n, B, choices) ==
  IF n = 4 /\ choices /= <<>> THEN Error
  ELSE FirstResult([i \in DOMAIN choices |->
                      _factor_pollard_pm1_method(n, choices[i] + 2, B)])

RECURSIVE RhoFrom(_, _, _, _, _)
RhoFrom(u, v, n, a, steps) ==
  IF steps = 0 THEN NoFactor
  ELSE LET Step(w) == tdiv_r(w * w + a, n)
           g == mpz_gcd(Step(u) - Step(Step(v)), n)
       IN  IF g = n THEN NoFactor
           ELSE IF g = 1 THEN RhoFrom(Step(u), Step(Step(v)), n, a, steps - 1)
           ELSE Found(g)
_factor_pollard_rho_method(n, a, s) == IF n < 5 THEN Error ELSE RhoFrom(s, s, n, a, 10000)
\* choices: pairs less than n - 1 and n - 4.
factor_pollard_rho_method(n, choices) ==
  IF n \in {1, 4} /\ choices /= <<>> THEN Error
  ELSE FirstResult([i \in DOMAIN choices |->
                      _factor_pollard_rho_method(n, choices[i][1], choices[i][2] + 1)])

\* A map is gone through in the order of its keys.
Keys(map) == SetToSortSeq(DOMAIN map, <)
=============================================================================
