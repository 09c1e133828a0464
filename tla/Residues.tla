------------------------------ MODULE Residues ------------------------------
(***************************************************************************)
(* Systems of congruences, primitive roots and orders, of                  *)
(* src/src/ntheory.cpp.                                                    *)
(***************************************************************************)
EXTENDS Ntheory

-----------------------------------------------------------------------------
(* The Chinese remainder theorem for lists of remainders *)

\* One modulus more for every residue of R and every one of rem.
JoinAll(R, m, rem, n) ==
  LET s == mpz_invert(m, n)
      One(r, x) == fdiv_r(r + m * s * (x - r), m * n)
  IN  FlattenSeq([j \in DOMAIN R |-> [k \in DOMAIN rem |-> One(R[j], rem[k])]])
_crt_cartesian(rem, modulus) ==
  FoldLeft(LAMBDA acc, i : <<JoinAll(acc[1], acc[2], rem[i], modulus[i]), acc[2] * modulus[i]>>,
           <<rem[1], modulus[1]>>, [i \in 1..(Len(modulus) - 1) |-> i + 1])[1]
-----------------------------------------------------------------------------
(* Primitive roots *)

RECURSIVE PrimePower(_, _, _)
PrimePower(n, e, i) ==
  IF mpz_perfect_power_p(n) /\ n >= 2
  THEN LET r == mpz_root(n, i)
       IN  IF IsRoot(r, i, n) THEN PrimePower(r, e * i, i) ELSE PrimePower(n, e, i + 1)
  ELSE IF isprime(n) THEN <<n, e>> ELSE None
_prime_power(n) == IF n < 2 THEN None ELSE PrimePower(n, 1, 2)

\* g generates the residues modulo the prime p.
Generates(g, p) == \A q \in Range(prime_factors(p - 1)) : mpz_powm(g, (p - 1) \div q, p) /= 1
LeastGenerator(p) ==
  CHOOSE g \in 2..p : (g >= p \/ Generates(g, p)) /\ \A h \in 2..(g - 1) : ~Generates(h, p)
\* From the prime p to p^e, and to 2p^e.
Raised(g, p, e) == IF e > 1 /\ mpz_powm(g, p - 1, p * p) = 1 THEN g + p ELSE g
MadeOdd(g, p, e, even) == IF even /\ g % 2 = 0 THEN g + p^e ELSE g
_primitive_root(p, e, even) == MadeOdd(Raised(LeastGenerator(p), p, e), p, e, even)

\* The reduction to a power of an odd prime that both functions begin with.
OddPart(n) == _prime_power(IF n % 2 = 0 THEN n \div 2 ELSE n)
primitive_root(signed) ==
  LET n == mpz_abs(signed)
      pe == OddPart(n)
  IN  IF n <= 1 THEN None
      ELSE IF n < 5 THEN <<n - 1>>
      ELSE IF n % 4 = 0 \/ pe = None THEN None
      ELSE <<_primitive_root(pe[1], pe[2], n % 2 = 0)>>

\* The roots modulo p^e that are h modulo p: one residue modulo p^2 is left out.
Lifted(h, p, e, even) ==
  LET n == p^e
      d == IF e = 1 THEN 0
           ELSE (tdiv_q(h - mpz_powm(h, 2 - p, p * p), p) + p) % p
      Odd(t) == IF even /\ t % 2 = 0 THEN t + n ELSE t
  IN  IF e = 1 THEN <<Odd(h)>>
      ELSE FlattenSeq([j \in 1..(p^(e - 2)) |->
             LET first == h + (j - 1) * p * p
             IN  [i \in 1..(p - 1) |-> Odd(first + p * (IF i - 1 < d THEN i - 1 ELSE i))]])
_primitive_root_list(p, e, even) ==
  LET g == _primitive_root(p, 1, FALSE)
      exponents == SelectSeq([i \in 1..(p - 1) |-> i], LAMBDA i : mpz_gcd(p - 1, i) = 1)
  IN  FlattenSeq([i \in DOMAIN exponents |-> Lifted(mpz_powm(g, exponents[i], p), p, e, even)])
primitive_root_list(signed) ==
  LET n == mpz_abs(signed)
      pe == OddPart(n)
  IN  IF n <= 1 THEN <<>>
      ELSE IF n < 5 THEN <<n - 1>>
      ELSE IF n % 4 = 0 \/ pe = None THEN <<>>
      ELSE SortSeq(_primitive_root_list(pe[1], pe[2], n % 2 = 0), <)
-----------------------------------------------------------------------------
(* Orders *)

totient(n) ==
  IF n = 0 THEN 1
  ELSE FoldLeft(LAMBDA phi, p : (phi \div p) * (p - 1), mpz_abs(n),
                Keys(prime_factor_multiplicities(n)))

\* Mutant of carmichael: powers of 2 are like those of other primes.
carmichael_two(n) ==
  LET times == prime_factor_multiplicities(n)
  IN  IF n = 0 THEN 1
      ELSE FoldLeft(LAMBDA l, p : mpz_lcm(l, p - 1) * p^(times[p] - 1), 1, Keys(times))

carmichael(n) ==
  LET times == prime_factor_multiplicities(n)
      \* The group modulo 2^m has exponent 2^(m - 2).
      Exponent(p) == IF p = 2 /\ times[p] > 2 THEN times[p] - 1 ELSE times[p]
  IN  IF n = 0 THEN 1
      ELSE FoldLeft(LAMBDA l, p : mpz_lcm(l, p - 1) * p^(Exponent(p) - 1), 1, Keys(times))

RECURSIVE RaiseOrder(_, _, _, _)
RaiseOrder(t, order, p, n) ==
  IF t = 1 THEN order ELSE RaiseOrder(mpz_powm(t, p, n), order * p, p, n)
\* From a multiple of the order to the order.
OrderFrom(lambda, a, n) ==
  LET times == prime_factor_multiplicities(lambda)
      One(order, p) ==
        LET without == order \div p^times[p]
        IN  RaiseOrder(mpz_powm(tdiv_r(a, n), without, n), without, p, n)
  IN  FoldLeft(One, lambda, Keys(times))
multiplicative_order(a, n) ==
  IF mpz_gcd(a, n) /= 1 THEN None
  ELSE IF n = 0 THEN Error
  ELSE <<OrderFrom(carmichael(n), a, n)>>

\* n is an odd prime; any number.
legendre(a, n) == IF a % n = 0 THEN 0 ELSE IF mpz_powm(a, (n - 1) \div 2, n) = 1 THEN 1 ELSE -1
\* The symbol modulo 2, and the product over the factors of n.
KroneckerTwo(a) == IF a % 2 = 0 THEN 0 ELSE IF a % 8 \in {1, 7} THEN 1 ELSE -1
kronecker(a, n) ==
  IF n = 0 THEN IF mpz_abs(a) = 1 THEN 1 ELSE 0
  ELSE FoldLeft(LAMBDA k, p : k * (IF p = 2 THEN KroneckerTwo(a) ELSE legendre(a, p)),
                IF n < 0 /\ a < 0 THEN -1 ELSE 1, prime_factors(n))
=============================================================================
