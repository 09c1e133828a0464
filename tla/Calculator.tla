---------------------------- MODULE Calculator ----------------------------
(***************************************************************************)
(* A program that uses the library through its C interface                 *)
(* (src/src/cwrapper.cpp): two variables that hold expressions, combined   *)
(* by any sequence of calls.  Its reachable states are all pairs of        *)
(* expressions, up to a size, that such a program can build; the           *)
(* properties say what the next call must give for every such pair.        *)
(***************************************************************************)
EXTENDS Meaning

CONSTANTS Atoms,      \* the expressions a program starts from
          Fractions,  \* the pairs <<n, d>> it makes rational numbers of
          Exponents,  \* the numbers it raises expressions to
          Symbolic,   \* whether it raises expressions to other expressions
          Wrt,        \* the symbol it differentiates by and substitutes for
          MaxSize,    \* bound on the size of an expression in variable a
          MaxOther,   \* bound on the size of an expression in variable b
          MaxNum      \* bound on numerators and denominators

VARIABLES a, b        \* the two variables

vars == <<a, b>>

-----------------------------------------------------------------------------
(* The bounds *)

RECURSIVE Size(_)
Size(e) ==
  LET DictSize == FoldSet(LAMBDA k, n : n + Size(k) + IF e.dict[k] = one THEN 0 ELSE Size(e.dict[k]),
                          0, DOMAIN e.dict)
  IN  CASE is_a("Symbol", e) \/ is_a_Number(e) -> 1
        [] is_a("Add", e) -> DictSize + IF is_zero(e.coef) THEN 0 ELSE 1
        [] is_a("Mul", e) -> DictSize + IF is_one(e.coef) THEN 0 ELSE 1
        [] is_a("Pow", e) -> Size(e.base) + Size(e.exp)

RECURSIVE Numbers(_)
\* Every number in an expression.
Numbers(e) ==
  CASE is_a_Number(e)    -> {e}
    [] is_a("Symbol", e) -> {}
    [] is_a("Pow", e)    -> Numbers(e.base) \cup Numbers(e.exp)
    [] OTHER             -> {e.coef} \cup UNION {Numbers(k) \cup Numbers(e.dict[k]) : k \in DOMAIN e.dict}

Small(e) ==
  /\ \A n \in Numbers(e) : Abs(n.n) <= MaxNum /\ n.d <= MaxNum
  /\ Size(e) <= MaxSize
-----------------------------------------------------------------------------
Init == a \in Atoms /\ b \in Atoms

\* The result of a call goes into variable a.  A program that makes a larger
\* expression ends there: nothing is computed from it, but CanonicalForms looks
\* at it.
Result(e) == Small(e) /\ a' = e /\ UNCHANGED b

basic_assign == \/ a' = b /\ UNCHANGED b
                \/ Size(a) <= MaxOther /\ b' = a /\ UNCHANGED a
symbol_set ==
  \E e \in Atoms :
    \/ a' = e /\ UNCHANGED b
    \/ b' = e /\ UNCHANGED a
\* The fraction is taken as it is given, without canonicalize().
rational_set_si == \E q \in Fractions : Result(from_mpq(q[1], q[2]))
basic_add == Result(add(a, b))
basic_sub == Result(sub(a, b))
basic_mul == Result(mul(a, b))
basic_div == Result(div(a, b))
basic_neg == Result(neg(a))

\* The powers a program may ask for.
MayRaise == /\ b \in Exponents \/ (Symbolic /\ ~is_a_Number(b))
            /\ ~NeedsComplex(a, b)
basic_pow == MayRaise /\ Result(pow(a, b))

basic_diff == Result(diff(a, Wrt))
basic_expand == \E r \in expand(a) : Result(r)

Next ==
  \/ basic_assign \/ symbol_set \/ rational_set_si
  \/ basic_add \/ basic_sub \/ basic_mul \/ basic_div \/ basic_neg \/ basic_pow

Spec == Init /\ [][Next]_vars

\* The programs that also call the functions that are not arithmetic.
CalculusNext == Next \/ basic_diff \/ basic_expand
CalculusSpec == Init /\ [][CalculusNext]_vars
-----------------------------------------------------------------------------
Here == [name \in DOMAIN Point |-> Dual(Point[name], IF symbol(name) = Wrt THEN 1 ELSE 0)]
Val(e) == Value(e, Here)

RECURSIVE NoSurd(_)
\* No number in e has an exponent.
NoSurd(e) ==
  CASE is_a("Add", e) -> \A k \in DOMAIN e.dict : NoSurd(k)
    [] is_a("Mul", e) -> \A k \in DOMAIN e.dict : ~is_a_Number(k) /\ NoSurd(k) /\ NoSurd(e.dict[k])
    [] is_a("Pow", e) -> ~is_a_Number(e.base) /\ NoSurd(e.base) /\ NoSurd(e.exp)
    [] OTHER          -> TRUE

Clean(e) == Canonical(e) /\ NoSurd(e)

RECURSIVE SumFree(_)
\* There is no sum in e.
SumFree(e) ==
  CASE is_a("Mul", e) -> \A k \in DOMAIN e.dict : SumFree(k)
    [] is_a("Pow", e) -> SumFree(e.base)
    [] OTHER          -> ~is_a("Add", e)

RECURSIVE Flat(_)
\* No term of a sum in e has a sum in it.
Flat(e) ==
  CASE is_a("Add", e) -> \A k \in DOMAIN e.dict : SumFree(k)
    [] is_a("Mul", e) -> \A k \in DOMAIN e.dict : Flat(k)
    [] is_a("Pow", e) -> Flat(e.base)
    [] OTHER          -> TRUE

RECURSIVE Polynomial(_)
\* Every exponent in e is a natural number.
Polynomial(e) ==
  LET Exponent(n) == is_Integer(n) /\ n.n >= 0
  IN  CASE is_a("Add", e) -> \A k \in DOMAIN e.dict : Polynomial(k)
        [] is_a("Mul", e) -> \A k \in DOMAIN e.dict : Polynomial(k) /\ Exponent(e.dict[k])
        [] is_a("Pow", e) -> Polynomial(e.base) /\ Exponent(e.exp)
        [] OTHER          -> TRUE

RECURSIVE PlainPowers(_)
\* No sum that has a product for a term is raised to a power.
PlainPowers(e) ==
  LET Plain(k, n) == is_a("Add", k) /\ n # one => \A j \in DOMAIN k.dict : ~is_a("Mul", j)
  IN  CASE is_a("Add", e) -> \A k \in DOMAIN e.dict : PlainPowers(k)
        [] is_a("Mul", e) -> \A k \in DOMAIN e.dict : PlainPowers(k) /\ Plain(k, e.dict[k])
        [] is_a("Pow", e) -> PlainPowers(e.base) /\ Plain(e.base, e.exp)
        [] OTHER          -> TRUE

\* The expressions that expand brings to a normal form.
Expandable(e) == Canonical(e) /\ Polynomial(e) /\ Flat(e) /\ PlainPowers(e)

-----------------------------------------------------------------------------
(* Properties of arithmetic *)

\* What the next call may give, however large it is.  The expansion of a sum
\* that has a product for a term, raised to a power, is left out.
Returned ==
  {add(a, b), sub(a, b), mul(a, b), div(a, b), neg(a), diff(a, Wrt)}
    \cup (IF MayRaise THEN {pow(a, b)} ELSE {})
    \cup (IF PlainPowers(a) THEN expand(a) ELSE {})

\* Whatever is called in whatever order, what it gives meets the is_canonical
\* that its constructor asserts, all the way down; except for the expansions
\* that Returned leaves out, where pow_expand gives a Mul with a Mul as a key.
CanonicalForms == \A e \in {a, b} \cup Returned : Canonical(e)

\* Automatic simplification (add, sub, mul, div, pow) does not change a value.
ArithmeticAgrees ==
  /\ Agrees(Val(add(a, b)), Plus(Val(a), Val(b)))
  /\ Agrees(Val(sub(a, b)), Plus(Val(a), Times(Dual(-1, 0), Val(b))))
  /\ Agrees(Val(mul(a, b)), Times(Val(a), Val(b)))
  /\ Agrees(Val(div(a, b)), Times(Val(a), Inverse1(Val(b))))
  /\ MayRaise /\ is_a_Number(b) => Agrees(Val(pow(a, b)), Power(Val(a), b))

\* Simplification does not change the value of canonical expressions in which
\* no number has an exponent.
ArithmeticSound == Clean(a) /\ Clean(b) => ArithmeticAgrees

\* Dividing by what was multiplied by gives the very expression back: the
\* dictionary of exponents and the coefficient undo each other exactly.
DivisionCancels ==
  Clean(a) /\ Clean(b) /\ b # zero => div(mul(a, b), b) = a

-----------------------------------------------------------------------------
(* Properties of differentiation, substitution and expansion *)

\* diff gives the derivative, wherever the expression has a value.
DiffAgrees == Val(a) # Undefined => Val(diff(a, Wrt)).v = Val(a).e

\* diff gives the derivative of every expression in which no sum is a part
\* of a term of another sum (and no number has an exponent).
DiffSound == Flat(a) /\ Clean(a) => DiffAgrees

\* subs gives the expression whose value is that of a where the symbol has
\* the value of b.
SubsAgrees == Agrees(Val(subs(a, Wrt :> b)), Value(a, [Here EXCEPT ![Wrt.name] = Val(b)]))

\* subs replaces a symbol by anything but a sum, in every expression in
\* which no sum is a part of a term of another sum.
SubsSound == Flat(a) /\ ~is_a("Add", b) => SubsAgrees

\* expand does not change a value.
ExpandAgrees == \A r \in expand(a) : Agrees(Val(r), Val(a))

\* A polynomial can be expanded, without an exception and to the same value.
ExpandSound == Canonical(a) /\ Polynomial(a) => expand(a) # {} /\ ExpandAgrees

\* The order of hash values, in which mul_expand picks its factors, does not
\* show in the result.
ExpandConfluent == Cardinality(expand(a)) <= 1

\* Polynomials that are equal have the same expansion, however they are
\* written, so the difference of a polynomial and its expansion expands to
\* zero, and a product may be expanded before or after it is multiplied out.
ExpandDecidesEquality ==
  LET ab == mul(a, b)
  IN  Expandable(a) /\ Expandable(b) =>
        \A p \in expand(a) :
          /\ expand(sub(a, p)) = {zero}
          /\ Expandable(ab) => \A q \in expand(b) : expand(mul(p, q)) = expand(ab)
=============================================================================
