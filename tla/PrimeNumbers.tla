----------------------------- MODULE PrimeNumbers -----------------------------
(***************************************************************************)
(* Prime numbers and square roots, for the sieve and for what factors      *)
(* numbers with its primes (src/src/ntheory.cpp).                          *)
(***************************************************************************)
EXTENDS Integers

\* The square root rounded down: std::sqrt of a number that is then stored in an
\* unsigned, and sqrt of an mpz_class.
Isqrt(n) == CHOOSE r \in 0..n : r * r <= n /\ n < (r + 1) * (r + 1)

\* The definition that the properties refer to.
IsPrime(n) == n > 1 /\ \A d \in 2..(n - 1) : n % d # 0
=============================================================================
