------------------------------ MODULE Meaning ------------------------------
(***************************************************************************)
(* What an expression denotes, independently of how the code simplifies    *)
(* it: its value at one point, together with its derivative there with     *)
(* respect to one symbol.  The values are taken in the field of integers   *)
(* modulo a prime, so that they stay small; the prime is 3 modulo 4, so    *)
(* that the numbers with a square root behave like the positive reals:     *)
(* each has one square root that has a square root itself, products and    *)
(* inverses stay among them, and -1 is not one of them.                    *)
(***************************************************************************)
EXTENDS Expr, Field

CONSTANT Point    \* [name of a symbol -> its value, a non-zero square]

ASSUME RootsAssumption == Prime % 4 = 3
ASSUME PointAssumption == \A name \in DOMAIN Point : Point[name] \in Squares

Root == [a \in Squares |-> CHOOSE b \in Squares : (b * b) % Prime = a]

SquareRoot(a) ==
  IF a = Undefined \/ a.v \notin Squares THEN Undefined
  ELSE LET r == Root[a.v] IN Dual(r, a.e * Inv[(2 * r) % Prime])

Power(a, n) ==
  CASE n.d = 1 -> IntPower(a, n.n)
    [] n.d = 2 -> IntPower(SquareRoot(a), n.n)
    [] OTHER   -> Undefined

NumberValue(n) == FractionValue(n.n, n.d)

RECURSIVE Value(_, _)
\* The value of e where every symbol has the value that pt gives its name.
Value(e, pt) ==
  LET Powered(b, n) == IF is_a_Number(n) THEN Power(Value(b, pt), n) ELSE Undefined
  IN  CASE is_a_Number(e)    -> NumberValue(e)
        [] is_a("Symbol", e) -> pt[e.name]
        [] is_a("Add", e)    ->
             FoldSet(LAMBDA k, v : Plus(v, Times(NumberValue(e.dict[k]), Value(k, pt))),
                     NumberValue(e.coef), DOMAIN e.dict)
        [] is_a("Mul", e)    ->
             FoldSet(LAMBDA k, v : Times(v, Powered(k, e.dict[k])),
                     NumberValue(e.coef), DOMAIN e.dict)
        [] is_a("Pow", e)    -> Powered(e.base, e.exp)
=============================================================================
