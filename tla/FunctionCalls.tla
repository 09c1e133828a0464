--------------------------- MODULE FunctionCalls ---------------------------
(***************************************************************************)
(* A program that calls the functions of src/src/functions.h: a variable   *)
(* holds an expression, to which the program adds and multiplies simple    *)
(* ones, and which it gives to any function, to diff and to subs.  The     *)
(* properties say what the next call must give for every expression built  *)
(* so, up to a size.                                                       *)
(***************************************************************************)
EXTENDS FunctionMeaning, SymbolicMeaning

CONSTANTS Simple,     \* the expressions a program starts from, adds and multiplies by
          Angles,     \* the multiples of pi it starts from
          Turns,      \* the multiples of pi it adds
          Wrt,        \* the symbol it differentiates by and substitutes for
          MaxSize,    \* bound on the parts of the expression
          MaxOrder,   \* bound on the symbols of a derivative
          MaxNum      \* bound on numerators and denominators

VARIABLE a            \* the expression the program works on

-----------------------------------------------------------------------------
(* The bounds *)

RECURSIVE Parts(_)
\* Every expression in e, with e itself.
Parts(e) ==
  LET OfDict == DOMAIN e.dict \cup Range(e.dict)
      Inside == CASE e.t \in {"Add", "Mul"} -> {e.coef} \cup OfDict
                  [] is_a("Pow", e)         -> {e.base, e.exp}
                  [] is_a("ATan2", e)       -> {e.num, e.den}
                  [] is_a("Subs", e)        -> {e.arg} \cup OfDict
                  [] is_a("Derivative", e)  -> {e.arg} \cup Range(e.args)
                  [] is_a_Number(e) \/ e.t \in {"Symbol", "Constant"} \cup Outcomes -> {}
                  [] OTHER -> IF "arg" \in DOMAIN e THEN {e.arg} ELSE Range(e.args)
  IN  {e} \cup UNION {Parts(p) : p \in Inside}

NamedFunctions == {"FunctionSymbol", "Derivative", "Subs"}
IsFunction(e) ==
  ~is_a_Number(e) /\ e.t \notin {"Symbol", "Constant", "Add", "Mul", "Pow"} \cup Outcomes
HasFunction(e) == \E p \in Parts(e) : IsFunction(p)
\* No call threw, read outside of a table or went on for ever.
NoOutcome(parts) == \A p \in parts : p.t \notin Outcomes
Completed(e) == NoOutcome(Parts(e))

Ordinary(n) == (Abs(n.n) <= MaxNum /\ n.d <= MaxNum) \/ n \in Angles \cup Turns
Small(parts) ==
  /\ Cardinality(parts \ {zero, one}) <= MaxSize
  /\ \A p \in parts : /\ is_a_Number(p) => Ordinary(p)
                      /\ is_a("Derivative", p) => Len(p.args) <= MaxOrder
Fits(parts) == NoOutcome(parts) /\ Small(parts)
-----------------------------------------------------------------------------
\* What the inverse functions have tables for.
TableValues == UNION {{v, div(one, v)} : v \in DOMAIN inverse_cst \cup DOMAIN inverse_tct}

Init == a \in Simple \cup TableValues \cup {mul(n, pi) : n \in Angles}

\* A call that throws leaves the variable alone.
Result(e) == Fits(Parts(e)) /\ a' = e

\* Arithmetic makes the arguments of functions, and products of functions with
\* the symbol.
AddSimple == ~HasFunction(a) /\ \E e \in Simple : Result(add(a, e))
MulSimple == \E e \in Simple : (~HasFunction(a) \/ e = Wrt) /\ Result(mul(a, e))
AddTurn == pi \notin Parts(a) /\ \E n \in Turns : Result(add(a, mul(n, pi)))

Function(type, args) == Result(Apply(type, args))
\* Only names go into functions that are names, and no function into others.
HasOnly(types) == \A p \in Parts(a) : IsFunction(p) => p.t \in types

Trigonometric == HasOnly({}) /\ \E f \in TrigTypes : Function(f, <<a>>)
Hyperbolic == HasOnly({}) /\ \E f \in HyperbolicTypes : Function(f, <<a>>)
Exponential == HasOnly({}) /\ (Result(exp(a)) \/ Function("Log", <<a>>))
OneArgument ==
  HasOnly({}) /\ \E f \in {"LambertW", "Dirichlet_eta", "Gamma", "Abs"} : Function(f, <<a>>)
\* Each with a simple expression, in both orders.
Paired(f) == \E e \in Simple : Function(f, <<a, e>>) \/ Function(f, <<e, a>>)
HasFew == Cardinality(Parts(a) \ {zero, one}) <= 2
TwoArguments ==
  HasFew /\ HasOnly({}) /\ \E f \in {"ATan2", "KroneckerDelta", "LeviCivita", "Zeta",
                                     "LowerGamma", "UpperGamma"} : Paired(f)
Named ==
  HasOnly(NamedFunctions) /\ (Function("FunctionSymbol", <<a>>) \/ (HasFew /\ Paired("FunctionSymbol")))
Diff == Result(diff(a, Wrt))
Substitute == \E e \in Simple : Result(subs(a, Wrt :> e))

Next ==
  \/ AddSimple \/ MulSimple \/ AddTurn
  \/ Trigonometric \/ Hyperbolic \/ Exponential \/ OneArgument \/ TwoArguments \/ Named
  \/ Diff \/ Substitute

Spec == Init /\ [][Next]_a
-----------------------------------------------------------------------------
(* Values *)

CONSTANT Here     \* [name of a symbol -> what it stands for]

V(e) == Val(e, Here)
Node(type, arg) == [t |-> type, arg |-> arg]

\* A call with a minus that can be taken off for ever does not return.
Returns(e) == ~NeverPositive(e)

\* The argument is a multiple of pi up to a turn, or an expression with
\* quarter turns added to it or none.
Reducible(arg) ==
  LET s == get_pi_shift(arg)
  IN  arg # zero /\ (s.ok => s.n.n >= 0 /\ (s.x # zero => s.n.n % 6 = 0))

\* The six functions of an argument have the values that sine and cosine have
\* there, whatever part of the argument is taken off: for the arguments from
\* which a call takes a multiple of pi/2.
DirectTrigSound ==
  Reducible(a) => \A f \in DirectTrig : Agrees(V(Apply(f, <<a>>)), V(Node(f, a)))

\* The same for every argument, of the calls that return an expression.
TrigAgrees ==
  \A f \in DirectTrig :
    LET r == Apply(f, <<a>>) IN Completed(r) => Agrees(V(r), V(Node(f, a)))

\* An inverse function that finds its argument in a table gives an angle of its
\* range that has this very sine, cosine or tangent.
Turned1(r) == IF r = zero THEN zero ELSE divnum(TermsOf(r)[pi], one)
InRange(n, low, high) == ~is_negative(sub(n, low)) /\ ~is_negative(sub(high, n))
Known(f, r) == ~is_a(f, r)
\* The function whose inverse f is, of the angle with z = cos + i sin.
OfAngle(f, z) ==
  CASE f = "ASin" -> SinOf(z)
    [] f = "ACos" -> CosOf(z)
    [] f = "ATan" -> TanOf(z)
    [] f = "ACot" -> Over(CosOf(z), SinOf(z))
    [] f = "ACsc" -> Inverse1(SinOf(z))
    [] f = "ASec" -> Inverse1(CosOf(z))
InverseAgrees(f) ==
  LET r == Apply(f, <<a>>)
      half == Rational(1, 2)
  IN  Completed(r) /\ Known(f, r) =>
        /\ Agrees(OfAngle(f, CisValue(r, Here)), V(a))
        /\ IF f \in {"ASin", "ATan", "ACsc"} THEN InRange(Turned1(r), neg(half), half)
                                             ELSE InRange(Turned1(r), zero, one)
\* (The tables have wrong values for the sines of 36 and of 75 degrees.)
WrongEntries == UNION {{c, neg(c), div(one, c), neg(div(one, c))} : c \in {C4, C5}}
InverseSound ==
  Symbols(a) = {} /\ a \notin WrongEntries => \A f \in InverseTrig : InverseAgrees(f)

\* sin, cos, tan, cot, sec, csc and their inverses have the values they are
\* asked for, found in a table or not.
TrigSound == DirectTrigSound /\ InverseSound

\* The hyperbolic functions and their inverses take a minus off their arguments
\* without changing their values.
HyperbolicSound ==
  Returns(a) =>
    /\ \A f \in DirectHyperbolic \cup {"ATanh", "ACoth"} :
         Agrees(V(Apply(f, <<a>>)), V(Node(f, a)))
    /\ \A f \in DirectHyperbolic : LET e == Node(f, a) IN
         Agrees(V(CASE f = "Sinh" -> Sinh_expand_as_exp(e)
                    [] f = "Cosh" -> Cosh_expand_as_exp(e)
                    [] f = "Tanh" -> Tanh_expand_as_exp(e)
                    [] f = "Coth" -> Coth_expand_as_exp(e)), V(e))

\* The gamma functions: gamma(n+1) = n gamma(n); the two parts of the integral
\* of t^(s-1) e^-t add up to it, and its derivative at the upper limit is the
\* integrand.
GammaOf(n) == Apply("Gamma", <<n>>)
GammaRecurrence ==
  \A k \in -6..6 :
    LET n == add(a, Integer(k))
    IN  GammaOf(n) \notin {Thrown, Gamma(n)} =>
          Agrees(V(GammaOf(add(n, one))), Times(V(n), V(GammaOf(n))))
GammaParts ==
  \A n \in 1..4 :
    LET s == Integer(n)
        lower == V(Apply("LowerGamma", <<s, a>>))
        integrand == Times(IntPower(V(a), n - 1), ExpValue(neg(a), Here))
    IN  integrand # Undefined /\ lower # Undefined =>
          /\ Agrees(Plus(lower, V(Apply("UpperGamma", <<s, a>>))), V(GammaOf(s)))
          /\ lower.e = (integrand.v * V(a).e) % Prime
GammaSound == (is_a_Number(a) => GammaRecurrence) /\ (V(a) # Undefined => GammaParts)

\* The two families that reduce their arguments by calling themselves.
RecursionSound == HyperbolicSound /\ GammaSound

\* The derivative of an expression with functions in it is its derivative.
FunctionDiffAgrees == V(a) # Undefined => V(diff(a, Wrt)).v = V(a).e

\* What diff has right for any program: no number in front of a term of a sum
\* whose derivative is a sum, no number with an exponent, and no inverse
\* hyperbolic function of anything but the symbol itself.
PlainTerms(e) ==
  \A k \in DOMAIN e.dict :
    IF is_a("Add", e) THEN e.dict[k] = one \/ ~is_a("Add", diff(k, Wrt)) ELSE ~is_a_Number(k)
Differentiable(e) ==
  \A p \in Parts(e) : /\ p.t \in {"Add", "Mul"} => PlainTerms(p)
                      /\ p.t \in InverseHyperbolic => p.arg = Wrt
FunctionDiffSound == Differentiable(a) => FunctionDiffAgrees

\* Substituting for a symbol gives the value at the point where the symbol has
\* that value.
FunctionSubsAgrees ==
  \A e \in Simple :
    LET r == subs(a, Wrt :> e)
    IN  Completed(r) => Agrees(V(r), Val(a, [Here EXCEPT ![Wrt.name] = PointOf(e, Here)]))
SubstitutedInside == DirectTrig \cup DirectHyperbolic \cup {"ATanh", "ACoth"}
\* (A number in front of a sum is lost here too.)
NoScaledSum(e) ==
  \A p \in Parts(e) :
    is_a("Add", p) => \A k \in DOMAIN p.dict : p.dict[k] = one \/ ~is_a("Add", k)
FunctionSubsSound ==
  NoScaledSum(a) /\ (\A p \in Parts(a) : IsFunction(p) => p.t \in SubstitutedInside)
  => FunctionSubsAgrees

\* The derivative of an expression with functions that are only names in it,
\* and substitution in one, are right for any functions of these names.
SymbolicSound ==
  HasPoly(a) /\ Differentiable(a) /\ NoScaledSum(a) =>
    /\ LET d == diff(a, Wrt) IN HasPoly(d) /\ Poly(d) = PolyDiff(Poly(a), Wrt.name)
    /\ \A e \in {f \in Simple : HasPoly(f)} :
         LET r == subs(a, Wrt :> e)
         IN  HasPoly(r) /\ Poly(r) = PolySubs(Poly(a), Wrt.name :> Poly(e))

\* Every object that is built meets the is_canonical that its constructor
\* asserts.
ConstructorsAssert == Canonical(a)
=============================================================================
