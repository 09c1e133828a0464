------------------------------ MODULE Special ------------------------------
(***************************************************************************)
(* The hyperbolic functions and their inverses, and the special functions, *)
(* of src/src/functions.cpp: how a call simplifies its arguments, and the  *)
(* objects it makes.                                                       *)
(***************************************************************************)
EXTENDS Trig, Sequences

CONSTANT MaxInt   \* the largest value of the type int

\* What a call gives that calls itself for ever.
Diverges == [t |-> "Diverges"]

Sinh(arg) == [t |-> "Sinh", arg |-> arg]
Cosh(arg) == [t |-> "Cosh", arg |-> arg]
Tanh(arg) == [t |-> "Tanh", arg |-> arg]
Coth(arg) == [t |-> "Coth", arg |-> arg]
ASinh(arg) == [t |-> "ASinh", arg |-> arg]
ACosh(arg) == [t |-> "ACosh", arg |-> arg]
ATanh(arg) == [t |-> "ATanh", arg |-> arg]
ACoth(arg) == [t |-> "ACoth", arg |-> arg]
LambertW(arg) == [t |-> "LambertW", arg |-> arg]
KroneckerDelta(i, j) == [t |-> "KroneckerDelta", args |-> <<i, j>>]
LeviCivita(args) == [t |-> "LeviCivita", args |-> args]
Zeta(s, a) == [t |-> "Zeta", args |-> <<s, a>>]
Dirichlet_eta(s) == [t |-> "Dirichlet_eta", arg |-> s]
Gamma(arg) == [t |-> "Gamma", arg |-> arg]
LowerGamma(s, x) == [t |-> "LowerGamma", args |-> <<s, x>>]
UpperGamma(s, x) == [t |-> "UpperGamma", args |-> <<s, x>>]
AbsOf(arg) == [t |-> "Abs", arg |-> arg]
-----------------------------------------------------------------------------
(* Hyperbolic functions *)

HasMinus(arg) == (is_a_Number(arg) /\ is_negative(arg)) \/ could_extract_minus(arg)

\* A function calls itself on -arg as long as a minus can be taken off.  For a
\* product of a negative number and a sum of negative terms there is always one
\* more: -(-x - y) is the sum -x - y again.
NeverPositive(arg) == HasMinus(arg) /\ HasMinus(neg(arg))

\* Mutant of OddFunction: leaves the sign out.
OddFunction_unsigned(arg, node) == IF NeverPositive(arg) THEN Diverges ELSE node

\* An odd, an even function of arg: node is what the constructor makes of the
\* argument without its minus.
OddFunction(arg, node) ==
  CASE NeverPositive(arg) -> Diverges
    [] HasMinus(arg) /\ ~HasMinus(neg(arg)) -> mul(minus_one, node)
    [] OTHER -> node
EvenFunction(arg, node) == IF NeverPositive(arg) THEN Diverges ELSE node
Positive(arg) == IF HasMinus(arg) THEN neg(arg) ELSE arg

sinh(arg) == IF arg = zero THEN zero ELSE OddFunction(arg, Sinh(Positive(arg)))
cosh(arg) == IF arg = zero THEN one ELSE EvenFunction(arg, Cosh(Positive(arg)))
tanh(arg) == IF arg = zero THEN zero ELSE OddFunction(arg, Tanh(Positive(arg)))
coth(arg) == IF arg = zero THEN Thrown ELSE OddFunction(arg, Coth(Positive(arg)))
asinh(arg) ==
  CASE arg = zero -> zero
    [] arg = one -> log(add(one, sq2))
    [] arg = minus_one -> log(sub(sq2, one))
    [] OTHER -> OddFunction(arg, ASinh(Positive(arg)))
acosh(arg) == IF arg = one THEN zero ELSE ACosh(arg)
atanh(arg) == IF arg = zero THEN zero ELSE OddFunction(arg, ATanh(Positive(arg)))
acoth(arg) == OddFunction(arg, ACoth(Positive(arg)))

Sinh_is_canonical(arg) == arg # zero /\ ~HasMinus(arg)
Cosh_is_canonical(arg) == arg # zero /\ ~HasMinus(arg)
Tanh_is_canonical(arg) == arg # zero /\ ~HasMinus(arg)
Coth_is_canonical(arg) == arg # zero /\ ~HasMinus(arg)
ASinh_is_canonical(arg) == arg \notin {zero, one, minus_one} /\ ~HasMinus(arg)
ACosh_is_canonical(arg) == arg # one
ATanh_is_canonical(arg) == arg # zero /\ ~HasMinus(arg)
ACoth_is_canonical(arg) == ~HasMinus(arg)

Sinh_expand_as_exp(e) == div(sub(exp(e.arg), exp(mul(e.arg, minus_one))), i2)
Cosh_expand_as_exp(e) == div(add(exp(e.arg), exp(mul(e.arg, minus_one))), i2)
Tanh_expand_as_exp(e) ==
  LET p == exp(e.arg)
      n == exp(mul(minus_one, e.arg))
  IN  div(sub(p, n), add(p, n))
Coth_expand_as_exp(e) ==
  LET p == exp(e.arg)
      n == exp(mul(minus_one, e.arg))
  IN  div(add(p, n), sub(p, n))

Sinh_diff(e, x) == mul(cosh(e.arg), diff(e.arg, x))
Cosh_diff(e, x) == mul(sinh(e.arg), diff(e.arg, x))
Tanh_diff(e, x) == mul(sub(one, pow(tanh(e.arg), i2)), diff(e.arg, x))
Coth_diff(e, x) == mul(div(minus_one, pow(sinh(e.arg), i2)), diff(e.arg, x))
\* (The inverses square the symbol x, not the argument.)
ASinh_diff(e, x) == mul(div(one, sqrt(add(pow(x, i2), one))), diff(e.arg, x))
ACosh_diff(e, x) == mul(div(one, sqrt(sub(pow(x, i2), one))), diff(e.arg, x))
ATanh_diff(e, x) == mul(div(one, sub(one, pow(x, i2))), diff(e.arg, x))
ACoth_diff(e, x) == mul(div(one, sub(one, pow(x, i2))), diff(e.arg, x))

\* create(arg) of the class of e
CreateHyperbolic(e, arg) ==
  CASE is_a("Sinh", e) -> sinh(arg)
    [] is_a("Cosh", e) -> cosh(arg)
    [] is_a("Tanh", e) -> tanh(arg)
    [] is_a("Coth", e) -> coth(arg)
    [] is_a("ASinh", e) -> asinh(arg)
    [] is_a("ACosh", e) -> acosh(arg)
    [] is_a("ATanh", e) -> atanh(arg)
    [] is_a("ACoth", e) -> acoth(arg)

Hyperbolic_subs(e, s) ==
  IF Untouched(e.arg, s) THEN e ELSE CreateHyperbolic(e, subs(e.arg, s))
-----------------------------------------------------------------------------
(* Lambert's W function *)

HalfLog2 == div(log(i2), Integer(-2))

lambertw(arg) ==
  CASE arg = zero -> zero
    [] arg = E -> one
    [] arg = div(one, E) -> minus_one
    [] arg = HalfLog2 -> mul(minus_one, log(i2))
    [] OTHER -> LambertW(arg)

LambertW_is_canonical(arg) == arg \notin {zero, E, div(one, E), HalfLog2}

LambertW_diff(e, x) ==
  LET w == lambertw(e.arg) IN mul(div(w, mul(e.arg, add(w, one))), diff(e.arg, x))
-----------------------------------------------------------------------------
(* Discrete functions *)

\* The difference of i and j, expanded.
Difference(i, j) == CHOOSE d \in expand(sub(i, j)) : TRUE

kronecker_delta(i, j) ==
  IF expand(sub(i, j)) = {} THEN Thrown
  ELSE LET d == Difference(i, j)
       IN  CASE d = zero -> one
             [] d # zero /\ is_a_Number(d) -> zero
             [] OTHER -> KroneckerDelta(i, j)

KroneckerDelta_is_canonical(i, j) == ~is_a_Number(Difference(i, j))

has_dup(args) == \E i, j \in DOMAIN args : i < j /\ args[i] = args[j]
AllNumbers(args) == \A i \in DOMAIN args : is_a_Number(args[i])

\* The product of the differences of the arguments, divided by the factorials.
eval_levicivita(args) ==
  LET Differences(i, r) ==
        FoldSet(LAMBDA j, p : mul(sub(args[j], args[i]), p), r, (i + 1)..Len(args))
      Divide(i, r) == div(Differences(i, r), Integer(Factorial[i - 1]))
  IN  FoldSet(LAMBDA i, r : Divide(i, r), one, 1..Len(args))

levi_civita(args) ==
  CASE AllNumbers(args) -> eval_levicivita(args)
    [] ~AllNumbers(args) /\ has_dup(args) -> zero
    [] OTHER -> LeviCivita(args)

LeviCivita_is_canonical(args) == ~AllNumbers(args) /\ ~has_dup(args)
-----------------------------------------------------------------------------
(* Zeta and gamma functions *)

zeta(s, a) ==
  CASE is_a_Number(s) /\ is_zero(s) ->
         IF is_a_Number(a) /\ is_negative(a) THEN sub(Rational(-1, 2), a)
                                             ELSE sub(Rational(1, 2), a)
    [] is_a_Number(s) /\ is_one(s) -> Thrown
    [] OTHER -> Zeta(s, a)

Zeta_is_canonical(s, a) == s \notin {zero, one}

Zeta_diff(e, x) ==
  LET s == e.args[1]
      a == e.args[2]
  IN  mul(mul(mul(minus_one, s), zeta(add(s, one), a)), diff(a, x))

EtaFactor(s) == sub(one, pow(i2, sub(one, s)))

dirichlet_eta(s) ==
  IF is_a_Number(s) /\ is_one(s) THEN log(i2)
  ELSE LET z == zeta(s, one)
       IN  IF is_a("Zeta", z) THEN Dirichlet_eta(s) ELSE mul(EtaFactor(s), z)

Dirichlet_eta_is_canonical(s) == s # one /\ is_a("Zeta", zeta(s, one))

rewrite_as_zeta(e) == mul(EtaFactor(e.arg), zeta(e.arg, one))

RECURSIVE OddFactorial(_)
\* 3 * 5 * ... up to n, in an int: -1 when it does not fit.
OddFactorial(n) ==
  IF n < 3 THEN 1
  ELSE LET j == OddFactorial(n - 2)
       IN  IF j = -1 \/ j > MaxInt \div n THEN -1 ELSE j * n

\* The gamma function at a half, n + 1/2 or 1/2 - n.
GammaAtHalf(arg) ==
  LET positive == ~is_negative(arg)
      n == Abs(arg.n) \div arg.d + IF positive THEN 0 ELSE 1
      j == OddFactorial(2 * n - 1)
      coeff == Integer(IF positive \/ n % 2 = 0 THEN j ELSE -j)
      twos == pow(i2, Integer(n))
  IN  CASE j = -1 -> Garbage
        [] j # -1 /\ positive  -> div(mul(coeff, sqrt(pi)), twos)
        [] j # -1 /\ ~positive -> div(mul(twos, sqrt(pi)), coeff)

gamma(arg) ==
  CASE is_Integer(arg) -> IF arg.n > 0 THEN Integer(Factorial[arg.n - 1]) ELSE Thrown
    [] is_Rational(arg) /\ arg.d = 2 -> GammaAtHalf(arg)
    [] OTHER -> Gamma(arg)

Gamma_is_canonical(arg) == ~(is_a_Number(arg) /\ arg.d \in {1, 2})

\* x^s * exp(-x)
PowerTimesExp(x, s) == mul(pow(x, s), exp(mul(minus_one, x)))

\* The recursion for a half has no end: it goes from 1/2 to 3/2 and back.
IsHalf(s) == is_Rational(s) /\ s.d = 2

RECURSIVE lowergamma(_, _)
lowergamma(s, x) ==
  LET s1 == Integer(s.n - 1)
  IN  CASE is_Integer(s) /\ s.n = 1 -> sub(one, exp(mul(minus_one, x)))
        [] is_Integer(s) /\ s.n > 1 ->
             sub(mul(s1, lowergamma(s1, x)), PowerTimesExp(x, s1))
        [] IsHalf(s) -> Diverges
        [] OTHER -> LowerGamma(s, x)

\* (For an integer that is not positive the result is a LowerGamma.)
RECURSIVE uppergamma(_, _)
uppergamma(s, x) ==
  LET s1 == Integer(s.n - 1)
  IN  CASE is_Integer(s) /\ s.n = 1 -> exp(mul(minus_one, x))
        [] is_Integer(s) /\ s.n > 1 ->
             add(mul(s1, uppergamma(s1, x)), PowerTimesExp(x, s1))
        [] IsHalf(s) -> Diverges
        [] is_Integer(s) /\ s.n < 1 -> LowerGamma(s, x)
        [] OTHER -> UpperGamma(s, x)

HasNoClosedForm(s) == s # one /\ ~is_Integer(mul(i2, s))
LowerGamma_is_canonical(s, x) == HasNoClosedForm(s)
UpperGamma_is_canonical(s, x) == HasNoClosedForm(s)

abs(arg) ==
  CASE is_a_Number(arg) /\ is_negative(arg) -> neg(arg)
    [] is_a_Number(arg) /\ ~is_negative(arg) -> arg
    [] OTHER -> AbsOf(arg)

Abs_is_canonical(arg) == ~is_a_Number(arg)
=============================================================================
