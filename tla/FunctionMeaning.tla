-------------------------- MODULE FunctionMeaning --------------------------
(***************************************************************************)
(* What an expression with functions in it denotes: its value at one point *)
(* and its derivative there with respect to one symbol, independently of   *)
(* how the code simplifies it.                                             *)
(*                                                                         *)
(* The values are taken in a field with 240 roots of unity, so every       *)
(* multiple of an eightieth of a turn has an exact sine and cosine.  A     *)
(* symbol x stands for three independent numbers, x, e^x and cos x + i     *)
(* sin x: identities between functions of x hold for all of them, and what *)
(* the derivative of each is follows from that of x.  What has no value    *)
(* that could be told apart so is Undefined.                               *)
(***************************************************************************)
EXTENDS Symbolic, Field

CONSTANTS Step,     \* cos + i sin of an angle of 1.5 degrees
          ExpOne,   \* the value of e
          PiValue   \* the value of pi, where it is no angle

RECURSIVE StepPower(_)
StepPower(n) ==
  LET half == StepPower(n \div 2)
  IN  IF n = 0 THEN 1 ELSE (half * ((half * IF n % 2 = 1 THEN Step ELSE 1) % Prime)) % Prime

ASSUME StepAssumption == /\ Prime % 240 = 1
                         /\ StepPower(240) = 1
                         /\ StepPower(120) # 1 /\ StepPower(80) # 1 /\ StepPower(48) # 1

\* Turned[n] is cos + i sin of n steps.
Turned == [n \in 0..239 |-> StepPower(n)]
Cis(n) == Dual(Turned[n % 240], 0)
I == Turned[60]

Number(n) == Dual(n, 0)
Minus(u) == Times(Number(-1), u)
Half(u) == Times(u, FractionValue(1, 2))
CosOf(z) == Half(Plus(z, Inverse1(z)))
SinOf(z) == Times(Half(Plus(z, Minus(Inverse1(z)))), Inverse1(Number(I)))
Over(u, w) == Times(u, Inverse1(w))
\* The function value v with the derivative slope * u.e
WithSlope(v, slope, u) ==
  IF Undefined \in {slope, u} THEN Undefined ELSE Dual(v, slope.v * u.e)

\* The positive roots that occur in the tables, as chords of the circle.
Sqrt2 == (Turned[30] + Turned[210]) % Prime
Sqrt3 == (Turned[20] + Turned[220]) % Prime
Sqrt5 == (1 + 2 * (Turned[48] + Turned[192])) % Prime
TanOf(z) == Over(SinOf(z), CosOf(z))
PositiveRoots == {Sqrt2, Sqrt3, Sqrt5, TanOf(Cis(48)).v,
                  Times(Number(2 * Sqrt2), SinOf(Cis(24))).v}
RootsOf(a) == {r \in Elements : (r * r) % Prime = a}
RootOf == [a \in Squares |-> CHOOSE r \in RootsOf(a) : RootsOf(a) \cap PositiveRoots \subseteq {r}]

RootWithSlope(r, u) == Dual(r, u.e * Inv[(2 * r) % Prime])
SqrtOf(u) ==
  IF u = Undefined \/ u.v \notin Squares THEN Undefined ELSE RootWithSlope(RootOf[u.v], u)

\* u^n for the numbers n with denominators 1 and 2.
PowerBy(u, n) ==
  IF n.d \in {1, 2} THEN IntPower(IF n.d = 1 THEN u ELSE SqrtOf(u), n.n) ELSE Undefined

\* Any odd function will do for the value of one that has no algebraic
\* relation to the others: only its derivative matters.
Opaque(k, v) == (v * v * v + k * v) % Prime

\* A point gives each name the values v of the symbol x, h of e^x and c of
\* cos x + i sin x; those of a variable, with the derivative 1, and of a constant.
Variable(v, h, c) == [v |-> Dual(v, 1), h |-> Dual(h, h), c |-> Dual(c, I * c)]
Fixed(v, h, c) == [v |-> Number(v), h |-> Number(h), c |-> Number(c)]

\* u as a sum: the dictionary of the terms and their numbers.
TermsOf(u) ==
  CASE is_a_Number(u)  -> NoDict
    [] is_a("Add", u)  -> u.dict
    [] is_a("Mul", u)  -> Mul_from_dict(one, u.dict) :> u.coef
    [] OTHER           -> u :> one
ConstantOf(u) ==
  CASE is_a_Number(u) -> u
    [] is_a("Add", u) -> u.coef
    [] OTHER          -> zero
Multiple(u, n) == IF is_Integer(n) THEN IntPower(u, n.n) ELSE Undefined

RECURSIVE Val(_, _), ExpValue(_, _), CisValue(_, _)

\* e^u
ExpValue(u, pt) ==
  LET terms == TermsOf(u)
      OfTerm(k) == CASE is_a("Symbol", k) -> pt[k.name].h
                     [] is_a("Add", k)    -> ExpValue(k, pt)
                     [] is_a("Log", k)    -> Val(k.arg, pt)
                     [] OTHER             -> Undefined
  IN  FoldSet(LAMBDA k, r : Times(r, Multiple(OfTerm(k), terms[k])),
              Multiple(Number(ExpOne), ConstantOf(u)), DOMAIN terms)

\* cos u + i sin u
CisValue(u, pt) ==
  LET terms == TermsOf(u)
      OfPi(n) == LET steps == mulnum(Integer(120), n)
                 IN  IF is_Integer(steps) THEN Cis(steps.n) ELSE Undefined
      OfTerm(k) == CASE is_a("Symbol", k) -> Multiple(pt[k.name].c, terms[k])
                     [] is_a("Add", k)    -> Multiple(CisValue(k, pt), terms[k])
                     [] k = pi            -> OfPi(terms[k])
                     [] OTHER             -> Undefined
  IN  FoldSet(LAMBDA k, r : Times(r, OfTerm(k)),
              IF is_zero(ConstantOf(u)) THEN Number(1) ELSE Undefined, DOMAIN terms)

\* b^u for an exponent that is no number, where v and w are the values of b
\* and u, and z that of e^u.
SymbolicPower(b, z, v, w) ==
  CASE b = E -> z
    [] b # E /\ (Undefined \in {v, z, w} \/ v.v = 0) -> Undefined
    [] OTHER -> Dual(z.v, z.v * ((w.e * Opaque(1, v.v) + w.v * ((v.e * Inv[v.v]) % Prime)) % Prime))

\* What there is a root of in the derivative of an inverse function at u, and
\* that derivative.
OneLess(v) == Plus(Number(1), Minus(v))
Radicand(type, u2) ==
  CASE type \in {"ASin", "ACos"} -> OneLess(u2)
    [] type \in {"ASec", "ACsc"} -> OneLess(Inverse1(u2))
    [] type = "ASinh"            -> Plus(Number(1), u2)
    [] type = "ACosh"            -> Minus(OneLess(u2))
Denominator(type, u2) ==
  CASE type \in {"ASin", "ACos", "ASinh", "ACosh"} -> SqrtOf(Radicand(type, u2))
    [] type \in {"ASec", "ACsc"}   -> Times(u2, SqrtOf(Radicand(type, u2)))
    [] type \in {"ATan", "ACot"}   -> Plus(Number(1), u2)
    [] type \in {"ATanh", "ACoth"} -> OneLess(u2)
InverseSlope(type, u) ==
  Over(Number(IF type \in {"ACos", "ACsc", "ACot"} THEN -1 ELSE 1), Denominator(type, IntPower(u, 2)))

DirectTrig == {"Sin", "Cos", "Tan", "Cot", "Csc", "Sec"}
DirectHyperbolic == {"Sinh", "Cosh", "Tanh", "Coth"}
InverseTrig == TrigTypes \ DirectTrig
InverseHyperbolic == HyperbolicTypes \ DirectHyperbolic

\* The value of a function of one argument u, where z is cos u + i sin u and h
\* is e^u.
Sine(h) == Half(Plus(h, Minus(Inverse1(h))))
Cosine(h) == Half(Plus(h, Inverse1(h)))
FunctionValue(type, z, h, u) ==
  CASE type = "Log"  -> IF u = Undefined \/ u.v = 0 THEN Undefined
                        ELSE WithSlope(Opaque(1, u.v), Inverse1(u), u)
    [] type = "Sin"  -> SinOf(z)
    [] type = "Cos"  -> CosOf(z)
    [] type = "Tan"  -> TanOf(z)
    [] type = "Cot"  -> Over(CosOf(z), SinOf(z))
    [] type = "Csc"  -> Inverse1(SinOf(z))
    [] type = "Sec"  -> Inverse1(CosOf(z))
    [] type = "Sinh" -> Sine(h)
    [] type = "Cosh" -> Cosine(h)
    [] type = "Tanh" -> Over(Sine(h), Cosine(h))
    [] type = "Coth" -> Over(Cosine(h), Sine(h))
    [] type \in InverseTrig \cup InverseHyperbolic ->
         IF u = Undefined THEN Undefined
         ELSE WithSlope(Opaque(2, u.v), InverseSlope(type, u), u)
    [] OTHER -> Undefined

\* The value of an expression.
Val(e, pt) ==
  LET Powered(b, n) ==
        IF is_a_Number(n) THEN PowerBy(Val(b, pt), n)
                          ELSE SymbolicPower(b, ExpValue(n, pt), Val(b, pt), Val(n, pt))
  IN  CASE is_a_Number(e)    -> FractionValue(e.n, e.d)
        [] is_a("Symbol", e) -> pt[e.name].v
        [] e = pi            -> Number(PiValue)
        [] e = E             -> Number(ExpOne)
        [] is_a("Add", e)    ->
             FoldSet(LAMBDA k, v : Plus(v, Times(Val(e.dict[k], pt), Val(k, pt))),
                     Val(e.coef, pt), DOMAIN e.dict)
        [] is_a("Mul", e)    ->
             FoldSet(LAMBDA k, v : Times(v, Powered(k, e.dict[k])),
                     Val(e.coef, pt), DOMAIN e.dict)
        [] is_a("Pow", e)    -> Powered(e.base, e.exp)
        [] "arg" \in DOMAIN e /\ ~is_a("Derivative", e) /\ ~is_a("Subs", e) ->
             FunctionValue(e.t, CisValue(e.arg, pt), ExpValue(e.arg, pt), Val(e.arg, pt))
        [] OTHER             -> Undefined

\* The point where a name has the value of u.
PointOf(u, pt) == [v |-> Val(u, pt), h |-> ExpValue(u, pt), c |-> CisValue(u, pt)]
=============================================================================
