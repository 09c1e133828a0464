------------------------------ MODULE Arithmetic ------------------------------
(***************************************************************************)
(* The arithmetic of integers that src/src/ntheory.cpp begins with: the    *)
(* functions of GMP that it calls, quotients, greatest common divisors,    *)
(* inverses, and systems of congruences.  Integers are unbounded there     *)
(* (mpz_class); an output parameter is a part of the result, and what a    *)
(* function throws, or GMP stops the program with, is the result Error.    *)
(* A function that returns whether it wrote its output gives <<output>>,   *)
(* or None.                                                                *)
(***************************************************************************)
EXTENDS Integers, Sequences

Error == [error |-> "exception"]
None == <<>>         \* the function returns false and leaves its output alone
-----------------------------------------------------------------------------
(* The functions of GMP that the code calls *)

mpz_abs(n) == IF n < 0 THEN -n ELSE n
sgn(n) == IF n < 0 THEN -1 ELSE IF n = 0 THEN 0 ELSE 1

\* operator/ and operator% of mpz_class round to zero; fdiv rounds down.
tdiv_q(n, d) == sgn(n) * sgn(d) * (mpz_abs(n) \div mpz_abs(d))
tdiv_r(n, d) == n - d * tdiv_q(n, d)
fdiv_q(n, d) == IF d > 0 THEN n \div d ELSE (-n) \div (-d)
fdiv_r(n, d) == n - d * fdiv_q(n, d)

\* The algorithm of Euclid: g, s and t with g = s * a + t * b, for a, b >= 0.
Euclid(a, b) ==
  LET euclid[c \in Nat \X (0..b)] ==
        IF c[2] = 0 THEN <<c[1], 1, 0>>
        ELSE LET e == euclid[<<c[2], c[1] % c[2]>>]
             IN  <<e[1], e[3], e[2] - (c[1] \div c[2]) * e[3]>>
  IN  euclid[<<a, b>>]
mpz_gcdext(a, b) ==
  LET e == Euclid(mpz_abs(a), mpz_abs(b)) IN <<e[1], sgn(a) * e[2], sgn(b) * e[3]>>
mpz_gcd(a, b) == mpz_gcdext(a, b)[1]
mpz_lcm(a, b) ==
  IF a = 0 \/ b = 0 THEN 0 ELSE (mpz_abs(a) \div mpz_gcd(a, b)) * mpz_abs(b)
Invertible(a, m) == mpz_gcd(a, m) = 1
mpz_invert(a, m) == mpz_gcdext(a, m)[2] % mpz_abs(m)
divisible(a, b) == IF b = 0 THEN a = 0 ELSE mpz_abs(a) % mpz_abs(b) = 0
-----------------------------------------------------------------------------
(* Basic functions *)

gcd(a, b) == mpz_gcd(a, b)
gcd_ext(a, b) == LET e == mpz_gcdext(a, b) IN [g |-> e[1], s |-> e[2], t |-> e[3]]
lcm(a, b) == mpz_lcm(a, b)
mod_inverse(a, m) ==
  IF m = 0 THEN Error
  ELSE IF Invertible(a, m) THEN [ret |-> TRUE, b |-> mpz_invert(a, m)] ELSE [ret |-> FALSE]

\* mpz_mod ignores the sign of d, mpz_fdiv_qr does not.
mod(n, d) == IF d = 0 THEN Error ELSE n % mpz_abs(d)
quotient_f(n, d) == IF d = 0 THEN Error ELSE fdiv_q(n, d)
quotient_mod(n, d) == IF d = 0 THEN Error ELSE [q |-> fdiv_q(n, d), r |-> fdiv_r(n, d)]
divides(a, b) == divisible(a, b)
-----------------------------------------------------------------------------
(* The Chinese remainder theorem *)

\* One modulus more: r modulo m and rem modulo n together.
Join(rm, rem, n) ==
  LET r == rm[1]
      m == rm[2]
      e == mpz_gcdext(m, n)
      t == rem - r
      lcm_ == m * tdiv_q(n, e[1])
  IN  IF ~divisible(t, e[1]) THEN None
      ELSE <<fdiv_r(r + m * e[2] * tdiv_q(t, e[1]), lcm_), lcm_>>
\* The first remainder is not reduced when there is no other.
crt(rem, modulus) ==
  LET joined[i \in 0..(Len(modulus) - 1)] ==
        IF i = 0 THEN <<rem[1], modulus[1]>>
        ELSE IF joined[i - 1] = None THEN None
        ELSE Join(joined[i - 1], rem[i + 1], modulus[i + 1])
      last == joined[Len(modulus) - 1]
  IN  IF Len(modulus) > Len(rem) \/ modulus = <<>> THEN Error
      ELSE IF last = None THEN None ELSE <<last[1]>>
=============================================================================
