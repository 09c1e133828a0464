--------------------------- MODULE MCCalculator ---------------------------
(* Small instances of Calculator for TLC.                                *)
EXTENDS Calculator

x == symbol("x")
y == symbol("y")

\* Both values are squares, and so are those of the numbers below that are
\* raised to a fractional power.
At == ("x" :> 4) @@ ("y" :> 9)

Polynomials == {x, y, Integer(2), Integer(-1)}
Radicals == {x, Integer(2), Integer(-1), Rational(3, 2)}

Proper == {<<1, 2>>}

Ints == {Integer(-1), Integer(2)}
Halves == Ints \cup {Rational(1, 2), Rational(3, 2), Rational(-1, 2)}
=============================================================================
