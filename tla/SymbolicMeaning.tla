-------------------------- MODULE SymbolicMeaning --------------------------
(***************************************************************************)
(* What the functions that are only names denote when each is given a      *)
(* polynomial: f(x), its derivatives and the substitutions in them are     *)
(* then polynomials too, computed here without the classes of the code.    *)
(***************************************************************************)
EXTENDS Symbolic

\* A polynomial gives each of its monomials a number other than zero; a
\* monomial gives each of its names an exponent greater than zero.
NoPoly == [m \in {} |-> 0]
Unit == [name \in {} |-> 0]
Coefficient(p, m) == IF m \in DOMAIN p THEN p[m] ELSE 0
Exponent(m, name) == IF name \in DOMAIN m THEN m[name] ELSE 0
Nonzero(p) == Restrict(p, {m \in DOMAIN p : p[m] # 0})

ConstantPoly(n) == Nonzero(Unit :> n)
Name(name) == (name :> 1) :> 1
PolyPlus(p, q) ==
  Nonzero([m \in DOMAIN p \cup DOMAIN q |-> Coefficient(p, m) + Coefficient(q, m)])
MonomialTimes(m, n) ==
  [name \in DOMAIN m \cup DOMAIN n |-> Exponent(m, name) + Exponent(n, name)]
PolyTimes(p, q) ==
  FoldSet(LAMBDA mn, r : PolyPlus(r, MonomialTimes(mn[1], mn[2]) :> p[mn[1]] * q[mn[2]]),
          NoPoly, (DOMAIN p) \X (DOMAIN q))

RECURSIVE PolyPower(_, _)
PolyPower(p, n) == IF n = 0 THEN ConstantPoly(1) ELSE PolyTimes(p, PolyPower(p, n - 1))

Lowered(m, name) ==
  IF m[name] = 1 THEN Restrict(m, DOMAIN m \ {name}) ELSE [m EXCEPT ![name] = @ - 1]
PolyDiff(p, name) ==
  FoldSet(LAMBDA m, r : PolyPlus(r, Lowered(m, name) :> p[m] * m[name]),
          NoPoly, {m \in DOMAIN p : name \in DOMAIN m})

\* p where every name of s stands for its polynomial, all at once.
PolySubs(p, s) ==
  LET Factor(name) == IF name \in DOMAIN s THEN s[name] ELSE Name(name)
      Replaced(m) == FoldSet(LAMBDA name, r : PolyTimes(r, PolyPower(Factor(name), m[name])),
                             ConstantPoly(1), DOMAIN m)
  IN  FoldSet(LAMBDA m, r : PolyPlus(r, PolyTimes(ConstantPoly(p[m]), Replaced(m))),
              NoPoly, DOMAIN p)

\* f(u) = u^2 + u and f(u, v) = u^2 v + 2 u v.
Interpretation ==
  << ("1" :> 2) :> 1 @@ ("1" :> 1) :> 1,
     ("1" :> 2 @@ "2" :> 1) :> 1 @@ ("1" :> 1 @@ "2" :> 1) :> 2 >>
Parameters == <<"1", "2">>

RECURSIVE PolyDiffAll(_, _)
\* p differentiated by each of the symbols in turn.
PolyDiffAll(p, symbols) ==
  IF symbols = <<>> THEN p ELSE PolyDiffAll(PolyDiff(p, Head(symbols).name), Tail(symbols))

RECURSIVE HasPoly(_)
HasPoly(e) ==
  LET Natural(n) == is_Integer(n) /\ n.n >= 0
      Arguments == \A i \in DOMAIN e.args : HasPoly(e.args[i])
  IN  CASE is_a_Number(e) -> is_Integer(e)
        [] is_a("Symbol", e) -> TRUE
        [] is_a("Add", e) ->
             is_Integer(e.coef) /\ \A k \in DOMAIN e.dict : HasPoly(k) /\ is_Integer(e.dict[k])
        [] is_a("Mul", e) ->
             is_Integer(e.coef) /\ \A k \in DOMAIN e.dict : HasPoly(k) /\ Natural(e.dict[k])
        [] is_a("Pow", e) -> HasPoly(e.base) /\ Natural(e.exp)
        [] is_a("FunctionSymbol", e) -> Len(e.args) \in DOMAIN Interpretation /\ Arguments
        [] is_a("Derivative", e) -> HasPoly(e.arg) /\ \A i \in DOMAIN e.args : is_a("Symbol", e.args[i])
        [] is_a("Subs", e) ->
             HasPoly(e.arg) /\ \A k \in DOMAIN e.dict : is_a("Symbol", k) /\ HasPoly(e.dict[k])
        [] OTHER -> FALSE

RECURSIVE Poly(_)
\* The polynomial that e denotes.
Poly(e) ==
  CASE is_Integer(e) -> ConstantPoly(e.n)
    [] is_a("Symbol", e) -> Name(e.name)
    [] is_a("Add", e) ->
         FoldSet(LAMBDA k, r : PolyPlus(r, PolyTimes(Poly(e.dict[k]), Poly(k))),
                 Poly(e.coef), DOMAIN e.dict)
    [] is_a("Mul", e) ->
         FoldSet(LAMBDA k, r : PolyTimes(r, PolyPower(Poly(k), e.dict[k].n)),
                 Poly(e.coef), DOMAIN e.dict)
    [] is_a("Pow", e) -> PolyPower(Poly(e.base), e.exp.n)
    [] is_a("FunctionSymbol", e) ->
         PolySubs(Interpretation[Len(e.args)],
                  [p \in {Parameters[i] : i \in DOMAIN e.args} |->
                     Poly(e.args[CHOOSE i \in DOMAIN e.args : Parameters[i] = p])])
    [] is_a("Derivative", e) -> PolyDiffAll(Poly(e.arg), e.args)
    [] is_a("Subs", e) ->
         PolySubs(Poly(e.arg), [name \in {k.name : k \in DOMAIN e.dict} |-> Poly(e.dict[symbol(name)])])
=============================================================================
