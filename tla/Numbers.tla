------------------------------- MODULE Numbers -------------------------------
(***************************************************************************)
(* The exact numbers of src/src/integer.h and src/src/rational.h.  Both    *)
(* classes are one kind of record, so that a Rational which is not in      *)
(* canonical form (2/4, 1/1) is a value of its own, as it is in the code.  *)
(* Complex is not modelled.                                                *)
(***************************************************************************)
EXTENDS Integers

Abs(i) == IF i < 0 THEN -i ELSE i
Sgn(i) == IF i < 0 THEN -1 ELSE IF i = 0 THEN 0 ELSE 1

RECURSIVE Gcd(_, _)
Gcd(a, b) == IF b = 0 THEN Abs(a) ELSE Gcd(b, a % Abs(b))

Integer(i) == [t |-> "Integer", n |-> i, d |-> 1]
Rational(n, d) == [t |-> "Rational", n |-> n, d |-> d]

zero == Integer(0)
one == Integer(1)
minus_one == Integer(-1)

is_Integer(e) == e.t = "Integer"
is_Rational(e) == e.t = "Rational"
is_a_Number(e) == e.t \in {"Integer", "Rational"}
is_zero(x) == x.n = 0
is_one(x) == x.n = x.d
is_negative(x) == x.n < 0

Rational_is_canonical(x) == x.d > 1 /\ Gcd(x.n, x.d) = 1

\* An mpq_class that is already canonical, as a Number.
from_mpq(n, d) == IF d = 1 THEN Integer(n) ELSE Rational(n, d)
\* canonicalize(), then from_mpq; mpq arithmetic canonicalizes its results.
Lowest(n, d, g) == from_mpq(n \div g, d \div g)
from_two_ints(n, d) == Lowest(n, d, Sgn(d) * Gcd(n, d))

addnum(x, y) == from_two_ints(x.n * y.d + y.n * x.d, x.d * y.d)
mulnum(x, y) == from_two_ints(x.n * y.n, x.d * y.d)
\* Throws when y is zero: callers rule that out.
divnum(x, y) == from_two_ints(x.n * y.d, x.d * y.n)

\* The number is built as a Rational even when the denominator is 1.
pow_negint(x, k) ==
  LET m == x.n ^ (-k) IN Rational(Sgn(m), Abs(m))

powint(x, k) == IF k < 0 THEN pow_negint(x, k) ELSE Integer(x.n ^ k)

powrat(x, k) ==
  LET num == x.n ^ Abs(k)
      den == x.d ^ Abs(k)
  IN  IF k >= 0 THEN from_mpq(num, den)
                ELSE from_mpq(den * Sgn(num), Abs(num))

\* x to an Integer power e.
pownum(x, e) == IF is_Integer(x) THEN powint(x, e.n) ELSE powrat(x, e.n)
=============================================================================
