---------------------------- MODULE Factorization ----------------------------
(***************************************************************************)
(* The functions of src/src/ntheory.cpp that factor a number by division:  *)
(* factor_trial_division, prime_factors and prime_factor_multiplicities.   *)
(* They take the primes up to the square root of the number from an        *)
(* iterator of the sieve (module Sieve), one after the other.  Every call  *)
(* is given an empty list or map to fill, as all callers in src do.        *)
(***************************************************************************)
EXTENDS Arithmetic, PrimeNumbers

NoFactor == [ret |-> 0]
Found(f) == [ret |-> 1, f |-> f]

\* sqrt of a negative number stops the program.
_factor_trial_division_sieve(n) ==
  IF n < 0 THEN Error
  ELSE LET divisors == {p \in 2..Isqrt(n) : IsPrime(p) /\ n % p = 0}
       IN  IF divisors = {} THEN NoFactor
           ELSE Found(CHOOSE p \in divisors : \A q \in divisors : p <= q)
factor_trial_division(n) == _factor_trial_division_sieve(n)

\* What is left of n after 0, 1, 2, ... divisions by p.
Left(n, p) ==
  LET left[k \in 0..n] == IF k = 0 THEN n ELSE left[k - 1] \div p
  IN  left
\* Mutant of HowOften: divides once.
OnlyOnce(n, p) == IF n % p = 0 THEN 1 ELSE 0
\* The turns of the inner loop: as long as p divides what is left.
HowOften(n, p) ==
  LET left == Left(n, p)
  IN  CHOOSE k \in 0..n : left[k] % p # 0 /\ \A j \in 0..(k - 1) : left[j] % p = 0

\* std::map::insert: a key that is there keeps its value.
NoEntries == [k \in {} |-> 0]
insert(map, key, value) ==
  [k \in DOMAIN map \cup {key} |-> IF k \in DOMAIN map THEN map[k] ELSE value]

\* The body of the outer loop: the inner one, and what it found.
DividedBy(s, p) ==
  LET count == HowOften(s.rest, p)
  IN  [rest       |-> Left(s.rest, p)[count],
       prime_list |-> s.prime_list \o [i \in 1..count |-> p],
       primes_mul |-> IF count > 0 THEN insert(s.primes_mul, p, count) ELSE s.primes_mul]
\* The outer loop ends early when nothing is left.  prime_factors fills the list
\* and prime_factor_multiplicities the map, each in a loop like this one.
Loop(n) ==
  LET limit == Isqrt(n)
      loop[p \in 0..limit] ==
        IF p = 0 THEN [rest |-> n, prime_list |-> <<>>, primes_mul |-> NoEntries]
        ELSE LET s == loop[p - 1]
             IN  IF IsPrime(p) /\ s.rest # 1 THEN DividedBy(s, p) ELSE s
  IN  loop[limit]

\* What is left in the end is a prime factor too.
prime_factors(n) ==
  IF n = 0 THEN <<>>
  ELSE LET s == Loop(mpz_abs(n))
       IN  IF s.rest = 1 THEN s.prime_list ELSE Append(s.prime_list, s.rest)
\* A map from the primes to how often they divide.
prime_factor_multiplicities(n) ==
  IF n = 0 THEN NoEntries
  ELSE LET s == Loop(mpz_abs(n))
       IN  IF s.rest = 1 THEN s.primes_mul ELSE insert(s.primes_mul, s.rest, 1)
-----------------------------------------------------------------------------
(* What the lists and maps stand for *)

Product(s) ==
  LET product[k \in 0..Len(s)] == IF k = 0 THEN 1 ELSE product[k - 1] * s[k]
  IN  product[Len(s)]
Power(b, n) == Product([k \in 1..n |-> b])
\* The product of the keys up to n, each to the power it is mapped to.
Powers(map, n) == Product([k \in 1..n |-> IF k \in DOMAIN map THEN Power(k, map[k]) ELSE 1])
=============================================================================
