------------------------------- MODULE Roots -------------------------------
(***************************************************************************)
(* Roots and powers modulo n, of src/src/ntheory.cpp.                      *)
(***************************************************************************)
EXTENDS Residues

CONSTANT Draw     \* where the random numbers that are tried for a non-square begin

-----------------------------------------------------------------------------
(* Square roots modulo a prime *)

RECURSIVE SquaresToOne(_, _)
SquaresToOne(t, p) == IF t = 1 THEN 0 ELSE 1 + SquaresToOne((t * t) % p, p)

RECURSIVE Shanks(_, _, _, _, _)
Shanks(rop, b, y, e, p) ==
  LET m == SquaresToOne(b, p)
      t == mpz_powm(y, 2^(e - m - 1), p)
      y2 == (t * t) % p
  IN  IF b = 1 THEN <<rop>>
      ELSE IF m = e THEN None
      ELSE Shanks((rop * t) % p, (b * y2) % p, y2, m, p)
\* n: the first of GMP's random numbers that is no square.
_sqrt_mod_tonelli_shanks(a, p, n) ==
  LET e == HowOften(p - 1, 2)
      q == (p - 1) \div 2^e
  IN  Shanks(mpz_powm(a, (q + 1) \div 2, p), mpz_powm(a, q, p), mpz_powm(n, q, p), e, p)

\* The loop keeps sq = i * i.
SmallestSquareRoot(a, p) ==
  LET i == SelectInSeq([j \in 1..(p - 1) |-> j], LAMBDA j : (j * j) % p = a % p)
  IN  IF i = 0 THEN None ELSE <<i>>
BruteForceBelow == 10000
NonSquare(p) ==
  LET drawn == [i \in 1..p |-> (Draw + i) % p]
  IN  drawn[SelectInSeq(drawn, LAMBDA n : legendre(n, p) = -1)]

_sqrt_mod_prime(a, p) ==
  IF p = 2 THEN <<tdiv_r(a, p)>>
  ELSE LET l == legendre(a, p)
       IN  IF l = -1 THEN None
           ELSE IF l = 0 THEN <<0>>
           ELSE IF p % 4 = 3 THEN <<mpz_powm(a, (p + 1) \div 4, p)>>
           ELSE IF p % 8 = 5
                THEN IF mpz_powm(a, (p - 1) \div 4, p) = 1
                     THEN <<mpz_powm(a, (p + 3) \div 8, p)>>
                     ELSE <<tdiv_r(2 * a * mpz_powm(4 * a, (p - 5) \div 8, p), p)>>
           ELSE IF p < BruteForceBelow THEN SmallestSquareRoot(a, p)
           ELSE _sqrt_mod_tonelli_shanks(a, p, NonSquare(p))
-----------------------------------------------------------------------------
(* Discrete logarithms *)

\* Baby steps and giant steps: the l < q with alpha^l = beta; l stays as it was
\* when there is none.
LogInTable(beta, alpha, q, p, l) ==
  LET m == IF IsRoot(mpz_root(q, 2), 2, q) THEN mpz_root(q, 2) ELSE mpz_root(q, 2) + 1
      Baby(j) == mpz_powm(alpha, j, p)
      giant == [i \in 1..m |-> tdiv_r(beta * PowNat(mpz_powm(alpha, -m, p), i - 1, p), p)]
      i == SelectInSeq(giant, LAMBDA d : \E j \in 0..(m - 1) : Baby(j) = d)
      \* The first power of alpha that is d is in the table.
      j == CHOOSE k \in 0..(m - 1) : Baby(k) = giant[i] /\ \A h \in 0..(k - 1) : Baby(h) /= giant[i]
  IN  IF i = 0 THEN l ELSE (i - 1) * m + j

\* Pohlig and Hellman: one digit in base q after the other, k of them.  st has
\* the logarithm so far, gamma and the last digit.
WithDigit(l, st, j, g, q, p) ==
  [log |-> st.log + l * q^j, gamma |-> st.gamma * mpz_powm(g, -l * q^j, p), l |-> l]
NextDigit(st, j, a, g, n, q, p) ==
  WithDigit(LogInTable(mpz_powm(st.gamma, n \div q^(j + 1), p), mpz_powm(g, n \div q, p), q, p, st.l),
            st, j, g, q, p)
\* log modulo q^k with g^log = a modulo p, g of order n.
_discrete_log(a, g, n, q, k, p) ==
  FoldLeft(LAMBDA st, j : NextDigit(st, j - 1, a, g, n, q, p),
           [log |-> 0, gamma |-> a, l |-> 0], [i \in 1..k |-> i]).log
-----------------------------------------------------------------------------
(* Roots modulo a power of an odd prime that a has no factor of *)

\* The q-part of a root of s: x^(q^times) = s1 modulo p.
PartRoot(s1, q, times, g, p) ==
  LET c  == HowOften(p - 1, q)
      h  == (p - 1) \div q^c
      qt == q^times
      z  == -(mpz_invert(h, qt) * h)
      v  == mpz_powm(s1, tdiv_q(1 + z, qt), p)
  IN  IF c = times THEN v
      ELSE (v * mpz_powm(g, -z * _discrete_log(mpz_powm(s1, h, p), mpz_powm(g, h * qt, p),
                                               q^(c - times), q, c - times, p), p)) % p

\* x^n = a modulo p.
RootModPrime(a, n, p) ==
  LET e == mpz_gcdext(n, p - 1)
      s == mpz_powm(a, e[2], p)
      times == prime_factor_multiplicities(e[1])
      g == _primitive_root(p, 2, FALSE)
  IN  IF e[1] = 1 THEN s
      ELSE IF e[1] = 2 THEN _sqrt_mod_prime(s, p)[1]
      ELSE FoldLeft(LAMBDA s1, q : PartRoot(s1, q, times[q], g, p), s, Keys(times))

\* The p-part of n: from s modulo p to s^(p^c) = a modulo p^k.
LiftPower(s, a, p, c, k) ==
  LET pc == p^c
      One(x, d) == x + tdiv_q(a * mpz_powm(x, 1 - pc, p^d) - x, pc)
  IN  FoldLeft(One, s, [i \in 1..(k - c - 1) |-> i + c + 1])

RECURSIVE Hensel(_, _, _, _, _, _)
\* The exponent of p doubles, up to k.
Hensel(root, s, r, p, d, k) ==
  IF d >= 2 * k THEN root
  ELSE LET pd == p^(IF d > k THEN k ELSE d)
           u == mpz_powm(root, r - 1, pd)
       IN  Hensel((root + (s - u * root) * mpz_invert(r * u, pd)) % pd, s, r, p, 2 * d, k)

\* From the root modulo p to one modulo p^k.
Lift(start, a, n, p, k) ==
  LET c == HowOften(n, p)
      r == n \div p^c
  IN  Hensel(start, IF c >= 1 THEN LiftPower(mpz_powm(start, r, p), a, p, c, k) ELSE a, r, p, 2, k)

\* The root times the powers of t, which is a root of one.
Turned(root, t, m, pk) ==
  [j \in 1..m |-> IF j = 1 THEN root ELSE (root * mpz_powm(t, j - 1, pk)) % pk]

\* x^n = a modulo p^k: a sequence of solutions, the empty one for false.
_nthroot_mod1(a, n, p, k, all_roots) ==
  LET pk  == p^k
      phi == (pk \div p) * (p - 1)
      m   == mpz_gcd(phi, n)
      t   == IF n = 2 THEN -1 ELSE mpz_powm(_primitive_root(p, 2, FALSE), phi \div m, pk)
  IN  IF mpz_powm(a, phi \div m, pk) /= 1 THEN <<>>
      ELSE Turned(Lift(RootModPrime(a, n, p), a, n, p, k), t, IF all_roots THEN m ELSE 1, pk)
-----------------------------------------------------------------------------
(* Roots modulo a power of a prime *)

\* Mutant of LiftTwo: the bit that is put right is the one after.
LiftTwoLate(a, c, k) ==
  LET One(root, j) ==
        IF divisible(mpz_powm(root, 2^c, 2^(j + 1)) - a, 2^(j + 1)) THEN root ELSE root + 2^(j - c + 1)
  IN  FoldLeft(One, 1, [i \in 1..(k - c - 2) |-> i + c + 1])
\* The bits that lift 1 to a root of x^(2^c) = a modulo 2^k.
LiftTwo(a, c, k) ==
  LET One(root, j) ==
        IF divisible(mpz_powm(root, 2^c, 2^(j + 1)) - a, 2^(j + 1)) THEN root ELSE root + 2^(j - c)
  IN  FoldLeft(One, 1, [i \in 1..(k - c - 2) |-> i + c + 1])

\* x^n = a modulo 2^k for an odd a; the roots of the list are not reduced.
RootsModTwo(a, n, k, all_roots) ==
  LET twos == HowOften(n, 2)
      c    == IF twos >= k - 2 THEN k - 2 ELSE twos
      s    == mpz_invert(n \div 2^twos, 2^(k - 2))
      root == mpz_powm(LiftTwo(a, c, k), s, 2^k)
      t    == 2^(k - c) * root
      Plus(j)  == root + j * t
      Minus(j) == t - Plus(2^c) + j * t
  IN  IF k = 1 THEN <<1>>
      ELSE IF k = 2
           THEN IF twos > 0 /\ tdiv_r(a, 4) = 3 THEN <<>>
                ELSE <<tdiv_r(a, 4)>> \o (IF all_roots /\ twos > 0 THEN <<3>> ELSE <<>>)
      ELSE IF c = 0 THEN <<mpz_powm(a, s, 2^k)>>
      ELSE IF a % 2^(c + 2) /= 1 THEN <<>>
      ELSE IF all_roots THEN [j \in 1..(2^c) |-> Plus(j - 1)] \o [j \in 1..(2^c) |-> Minus(j - 1)]
      ELSE <<root>>

\* Every solution modulo p^(k - m), as solutions modulo p^k.
Spread(roots, p, k, m) ==
  FlattenSeq([i \in DOMAIN roots |-> [j \in 1..(p^m) |-> roots[i] + (j - 1) * p^(k - m)]])

RECURSIVE _nthroot_mod_prime_power(_, _, _, _, _)
\* x^n = a modulo p^k: a sequence of solutions, the empty one for false.
_nthroot_mod_prime_power(a, n, p, k, all_roots) ==
  LET rest == tdiv_r(a, p^k)
      r    == HowOften(mpz_abs(rest), p)
      Below == _nthroot_mod_prime_power(tdiv_q(rest, p^r), n, p, k - r, all_roots)
      Scaled == [i \in DOMAIN Below |-> Below[i] * p^(r \div n)]
  IN  IF ~divisible(a, p)
      THEN IF p = 2 THEN RootsModTwo(a, n, k, all_roots) ELSE _nthroot_mod1(a, n, p, k, all_roots)
      ELSE IF rest = 0
      THEN IF all_roots
           THEN Spread(<<0>>, p, k, IF n >= k THEN k - 1 ELSE k - 1 - (k - 1) \div n)
           ELSE <<0>>
      ELSE IF r < n \/ r % n /= 0 \/ Below = <<>> THEN <<>>
      ELSE IF all_roots THEN Spread(Scaled, p, k, r - r \div n)
      ELSE <<Last(Scaled)>>
-----------------------------------------------------------------------------
(* Roots and powers modulo any number *)

\* The roots modulo each prime power of the modulus.
PartialRoots(a, n, m, all_roots) ==
  LET times == prime_factor_multiplicities(m)
  IN  [i \in DOMAIN Keys(times) |->
         _nthroot_mod_prime_power(a, n, Keys(times)[i], times[Keys(times)[i]], all_roots)]
Moduli(m) ==
  LET times == prime_factor_multiplicities(m)
  IN  [i \in DOMAIN Keys(times) |-> Keys(times)[i]^times[Keys(times)[i]]]

OneRoot(parts, m) ==
  IF \E i \in DOMAIN parts : parts[i] = <<>> THEN None
  ELSE crt([i \in DOMAIN parts |-> parts[i][1]], Moduli(m))
EveryRoot(parts, m) ==
  IF \E i \in DOMAIN parts : parts[i] = <<>> THEN <<>>
  ELSE SortSeq(_crt_cartesian(parts, Moduli(m)), <)

nthroot_mod(a, n, m) ==
  IF m <= 0 THEN None
  ELSE IF m = 1 THEN <<0>>
  ELSE OneRoot(PartialRoots(a, n, m, FALSE), m)
nthroot_mod_list(a, n, m) ==
  IF m <= 0 THEN <<>>
  ELSE IF m = 1 THEN <<0>>
  ELSE EveryRoot(PartialRoots(a, n, m, TRUE), m)

\* a^num modulo m for a sign of num; None when a has no inverse.
PowerOf(a, num, m) ==
  LET t == mpz_powm(a, mpz_abs(num), m)
  IN  IF num >= 0 THEN <<t>> ELSE IF Invertible(t, m) THEN <<mpz_invert(t, m)>> ELSE None
\* The exponent is num / den, reduced and with den > 0.
powermod(a, num, den, m) ==
  LET r == PowerOf(a, num, m)
  IN  IF m = 0 THEN Error
      ELSE IF r = None \/ den = 1 THEN r ELSE nthroot_mod(r[1], den, m)
powermod_list(a, num, den, m) ==
  LET r == PowerOf(a, num, m)
  IN  IF m = 0 THEN Error
      ELSE IF r = None \/ den = 1 THEN r ELSE nthroot_mod_list(r[1], den, m)
=============================================================================
