------------------------------- MODULE Field -------------------------------
(***************************************************************************)
(* Numbers with a derivative, over the field of integers modulo a prime:   *)
(* what the values of expressions are taken in, so that they stay small.   *)
(***************************************************************************)
EXTENDS Integers

CONSTANT Prime   \* the modulus

ASSUME PrimeAssumption == \A i \in 2..(Prime - 1) : Prime % i # 0

Elements == 0..(Prime - 1)
Squares == {(i * i) % Prime : i \in 1..(Prime - 1)}

Inv == [a \in 1..(Prime - 1) |-> CHOOSE b \in Elements : (a * b) % Prime = 1]

\* A value and its derivative.  Undefined: a division by zero, or a root or
\* power that has no value.
Dual(v, e) == [v |-> v % Prime, e |-> e % Prime]
Undefined == [v |-> -1, e |-> -1]

Plus(a, b) ==
  IF Undefined \in {a, b} THEN Undefined ELSE Dual(a.v + b.v, a.e + b.e)
Times(a, b) ==
  IF Undefined \in {a, b} THEN Undefined ELSE Dual(a.v * b.v, a.v * b.e + a.e * b.v)
Inverse1(a) ==
  IF a = Undefined \/ a.v = 0 THEN Undefined
  ELSE LET i == Inv[a.v] IN Dual(i, -(a.e * ((i * i) % Prime)))

RECURSIVE IntPower(_, _)
IntPower(a, n) ==
  CASE n = 0 -> IF a = Undefined THEN a ELSE Dual(1, 0)
    [] n > 0 -> Times(a, IntPower(a, n - 1))
    [] n < 0 -> Inverse1(IntPower(a, -n))

\* The value of a number with numerator n and denominator d.
FractionValue(n, d) == Times(Dual(n, 0), Inverse1(Dual(d, 0)))

\* The value that was got is the value that was expected, where there is one.
Agrees(got, expected) == expected = Undefined \/ got = expected
=============================================================================
