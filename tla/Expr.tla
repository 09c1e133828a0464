-------------------------------- MODULE Expr --------------------------------
(***************************************************************************)
(* Expressions and automatic simplification: classes Symbol, Add, Mul and  *)
(* Pow, the functions add, mul and pow that build them, and expand, diff   *)
(* and subs, which build new ones from them                                *)
(* (src/src/add.cpp, mul.cpp, pow.cpp, basic.cpp).                         *)
(*                                                                         *)
(* An expression is a record; the dictionaries of Add ({term: number}) and *)
(* of Mul ({base: exponent}) are functions on their keys.  The order in    *)
(* which the code walks a dictionary is the order of hash values, so it is *)
(* not part of an expression.  Only mul_expand lets it show: it splits off *)
(* the factor that comes first.  So expand is the set of the results that  *)
(* any order gives; it is empty when the code throws.                      *)
(***************************************************************************)
EXTENDS Numbers, FiniteSets, FiniteSetsExt, Functions, TLC

\* Call(f, args): a function of the library, called on args, or a virtual method
\* called on the first of them.  The functions call one another, directly and
\* through what they share: always through this one operator.  It stands for
\* ExprCalls, defined at the end, or for what adds the methods of other classes.
CONSTANT Call(_, _)

symbol(name) == [t |-> "Symbol", name |-> name]
Add(coef, dict) == [t |-> "Add", coef |-> coef, dict |-> dict]
Mul(coef, dict) == [t |-> "Mul", coef |-> coef, dict |-> dict]
Pow(base, exp) == [t |-> "Pow", base |-> base, exp |-> exp]
Log(arg) == [t |-> "Log", arg |-> arg]

\* The base of natural logarithms; the constants are all of one class.
Constant(name) == [t |-> "Constant", name |-> name]
E == Constant("E")

\* What a call gives that throws an exception.
Thrown == [t |-> "Thrown"]

is_a(type, e) == e.t = type

NoDict == [k \in {} |-> zero]
Erase(d, k) == Restrict(d, DOMAIN d \ {k})
Insert(d, k, v) == (k :> v) @@ d
OnlyKey(d) == CHOOSE k \in DOMAIN d : TRUE

add(a, b) == Call("add", <<a, b>>)
mul(a, b) == Call("mul", <<a, b>>)
pow(a, b) == Call("pow", <<a, b>>)
expand(e) == Call("expand", <<e>>)
diff(e, x) == Call("diff", <<e, x>>)
subs(e, s) == Call("subs", <<e, s>>)

\* (mul.cpp, but the sums need it too.)
Mul_from_dict(coef, d) ==
  CASE is_zero(coef) -> zero
    [] ~is_zero(coef) /\ d = NoDict -> coef
    [] OTHER ->
         IF Cardinality(DOMAIN d) = 1 /\ is_one(coef)
         THEN LET k == OnlyKey(d) IN IF d[k] = one THEN k ELSE pow(k, d[k])
         ELSE Mul(coef, d)
-----------------------------------------------------------------------------
(* add.cpp *)

Add_is_canonical(coef, dict) ==
  /\ dict # NoDict
  /\ Cardinality(DOMAIN dict) = 1 => ~is_zero(coef)
  /\ \A k \in DOMAIN dict :
       /\ ~is_a_Number(k)
       /\ dict[k] # zero
       /\ is_a("Mul", k) => is_one(k.coef)

\* Mutant of Add_dict_add_term: leaves a term with the number zero behind.
Add_dict_keep_zero(d, coef, t) ==
  IF t \notin DOMAIN d
  THEN IF is_zero(coef) THEN d ELSE Insert(d, t, coef)
  ELSE [d EXCEPT ![t] = addnum(d[t], coef)]

\* Adds coef*t to the dictionary d.
Add_dict_add_term(d, coef, t) ==
  IF t \notin DOMAIN d
  THEN IF is_zero(coef) THEN d ELSE Insert(d, t, coef)
  ELSE LET c == addnum(d[t], coef)
       IN  IF is_zero(c) THEN Erase(d, t) ELSE [d EXCEPT ![t] = c]

\* The number in front of an expression, and the rest.
Add_as_coef_term(e) ==
  CASE is_a("Mul", e)  -> [coef |-> e.coef, term |-> Mul_from_dict(one, e.dict)]
    [] is_a_Number(e)  -> [coef |-> e, term |-> one]
    [] OTHER           -> [coef |-> one, term |-> e]

Add_from_dict(coef, d) ==
  IF d = NoDict THEN coef
  ELSE IF Cardinality(DOMAIN d) > 1 \/ ~is_zero(coef) THEN Add(coef, d)
  ELSE LET k == OnlyKey(d)
       IN  CASE d[k] = zero    -> zero
             [] d[k] = one     -> k
             [] is_a("Mul", k) -> Mul_from_dict(d[k], k.dict)
             [] is_a("Pow", k) -> Mul(d[k], k.base :> k.exp)
             [] OTHER          -> Mul(d[k], k :> one)

AddPair(d, ct) == Add_dict_add_term(d, ct.coef, ct.term)
AddTerm(d, e) == AddPair(d, Add_as_coef_term(e))

AddToSum(s, e) ==
  IF is_a_Number(e) THEN Add_from_dict(addnum(s.coef, e), s.dict)
                    ELSE Add_from_dict(s.coef, AddTerm(s.dict, e))

\* add(a, b)
SumOf(a, b) ==
  CASE is_a("Add", a) /\ is_a("Add", b) ->
         Add_from_dict(addnum(a.coef, b.coef),
           FoldSet(LAMBDA k, d : Add_dict_add_term(d, b.dict[k], k), a.dict, DOMAIN b.dict))
    [] is_a("Add", a) /\ ~is_a("Add", b) -> AddToSum(a, b)
    [] ~is_a("Add", a) /\ is_a("Add", b) -> AddToSum(b, a)
    [] OTHER ->
         LET d == AddTerm(AddTerm(NoDict, a), b)
         IN  IF one \in DOMAIN d THEN Add_from_dict(d[one], Erase(d, one))
                                 ELSE Add_from_dict(zero, d)
-----------------------------------------------------------------------------
(* mul.cpp *)

Mul_is_canonical(coef, dict) ==
  /\ ~is_zero(coef)
  /\ dict # NoDict
  /\ Cardinality(DOMAIN dict) = 1 => ~is_one(coef)
  /\ \A k \in DOMAIN dict :
       /\ ~(is_a_Number(k) /\ is_Integer(dict[k]))
       /\ k \notin {zero, one}
       /\ dict[k] # zero
       /\ ~is_a("Mul", k)
       /\ ~is_a("Pow", k)

\* The sum of two exponents: the fast path for numbers, and the general one.
ExpSum(e, f) == IF is_a_Number(e) /\ is_a_Number(f) THEN addnum(e, f) ELSE add(e, f)

\* Multiplies the dictionary d by t^exp, whatever t is.
Mul_dict_add_term(d, exp, t) ==
  IF t \notin DOMAIN d THEN Insert(d, t, exp)
  ELSE LET e == ExpSum(d[t], exp)
       IN  IF e = zero THEN Erase(d, t) ELSE [d EXCEPT ![t] = e]

\* A product under construction.
Product(coef, d) == [coef |-> coef, dict |-> d]

\* Gives the base t of the product p the exponent e; an integer power of a
\* number goes into the coefficient.
SetPower(p, e, t) ==
  CASE is_Integer(e) /\ is_a_Number(t) ->
         Product(mulnum(p.coef, pownum(t, e)), Erase(p.dict, t))
    [] ~is_a_Number(t) /\ e = zero /\ t \in DOMAIN p.dict ->
         Product(p.coef, Erase(p.dict, t))
    [] OTHER -> Product(p.coef, Insert(p.dict, t, e))

\* Mutants of Mul_dict_add_term_new: replaces the exponent instead of adding
\* to it; leaves a base with the exponent zero behind.
Mul_dict_replace_term(p, exp, t) == SetPower(p, exp, t)
Mul_dict_keep_zero(p, exp, t) ==
  IF ~is_a_Number(t) /\ t \in DOMAIN p.dict
  THEN Product(p.coef, Insert(p.dict, t, ExpSum(p.dict[t], exp)))
  ELSE SetPower(p, exp, t)

\* Multiplies the product p by t^exp.
Mul_dict_add_term_new(p, exp, t) ==
  SetPower(p, IF t \in DOMAIN p.dict THEN ExpSum(p.dict[t], exp) ELSE exp, t)

\* A number smaller than one in size is the inverse of a larger one.
Mul_as_base_exp(e) ==
  CASE is_Rational(e) /\ Abs(e.n) < e.d -> [exp |-> minus_one, base |-> divnum(one, e)]
    [] is_a("Pow", e)                   -> [exp |-> e.exp, base |-> e.base]
    [] OTHER                            -> [exp |-> one, base |-> e]

MulPair(p, be) == Mul_dict_add_term_new(p, be.exp, be.base)
MulTerm(p, e) == MulPair(p, Mul_as_base_exp(e))

\* Multiplies the product p by every t^e of the dictionary d.
MulDict(p, d) == FoldSet(LAMBDA k, q : Mul_dict_add_term_new(q, d[k], k), p, DOMAIN d)

FromProduct(p) == Mul_from_dict(p.coef, p.dict)

MulInto(m, e) ==
  IF is_a_Number(e) THEN Mul_from_dict(mulnum(m.coef, e), m.dict)
                    ELSE FromProduct(MulTerm(Product(m.coef, m.dict), e))

\* mul(a, b)
ProductOf(a, b) ==
  CASE is_a("Mul", a) /\ is_a("Mul", b) ->
         FromProduct(MulDict(Product(mulnum(a.coef, b.coef), a.dict), b.dict))
    [] is_a("Mul", a) /\ ~is_a("Mul", b) -> MulInto(a, b)
    [] ~is_a("Mul", a) /\ is_a("Mul", b) -> MulInto(b, a)
    [] OTHER -> FromProduct(MulTerm(MulTerm(Product(one, NoDict), a), b))

neg(a) == mul(minus_one, a)
sub(a, b) == add(a, mul(minus_one, b))
div(a, b) == mul(a, pow(b, minus_one))

Mul_power_all_terms(m, exp) ==
  LET PowerTerm(p, e, k) ==
        IF is_a_Number(e) /\ is_zero(e) THEN p ELSE Mul_dict_add_term_new(p, e, k)
      Powered == FoldSet(LAMBDA k, p : PowerTerm(p, mul(m.dict[k], exp), k),
                         Product(one, NoDict), DOMAIN m.dict)
      TimesCoef(p, c) ==
        IF is_a_Number(c) THEN Mul_from_dict(mulnum(p.coef, c), p.dict)
                          ELSE mul(mul(c, p.coef), Mul_from_dict(one, p.dict))
  IN  TimesCoef(Powered, pow(m.coef, exp))
-----------------------------------------------------------------------------
(* pow.cpp *)

Pow_is_canonical(base, exp) ==
  /\ base \notin {zero, one}
  /\ exp \notin {zero, one}
  /\ is_Integer(exp) => ~is_a_Number(base) /\ base.t \notin {"Mul", "Pow"}
  /\ is_a_Number(base) /\ is_Rational(exp) => exp.n >= 0 /\ exp.n <= exp.d

\* A number to a fractional power: a power between 0 and 1 is kept, any other
\* is split into an integer power and one between 0 and 1.
PowFraction(a, b) ==
  LET q == b.n \div b.d
      f == from_mpq(b.n % b.d, b.d)
  IN  IF b.n >= 0 /\ b.n <= b.d THEN Pow(a, b)
      ELSE IF is_Integer(a) THEN Mul(powint(a, q), a :> f)
      ELSE mul(div(powrat(a, q), Integer(a.d)),
               mul(Pow(Integer(a.n), f), Pow(Integer(a.d), sub(one, f))))

\* pow(a, b)
PowerOf(a, b) ==
  CASE b = zero -> one
    [] b = one -> a
    [] a = zero /\ b \notin {zero, one} -> zero
    [] a = one /\ b \notin {zero, one} -> one
    [] a = minus_one /\ is_Integer(b) /\ b \notin {zero, one} ->
         IF is_Integer(div(b, Integer(2))) THEN one ELSE minus_one
    [] OTHER ->
         CASE is_a_Number(a) /\ is_Integer(b) -> pownum(a, b)
           [] is_a_Number(a) /\ is_Rational(b) -> PowFraction(a, b)
           [] is_a("Mul", a) /\ is_Integer(b) -> Mul_power_all_terms(a, b)
           [] is_a("Pow", a) /\ is_Integer(b) -> pow(a.base, mul(a.exp, b))
           [] OTHER -> Pow(a, b)

\* Roots of negative numbers, which the code writes with the Complex unit I:
\* outside of this model.
NeedsComplex(a, b) == is_a_Number(a) /\ is_negative(a) /\ ~is_Integer(b)

exp(x) == pow(E, x)

Log_is_canonical(arg) ==
  /\ arg \notin {zero, one, E}
  /\ is_a_Number(arg) => is_Integer(arg) /\ ~is_negative(arg)

\* log(arg); the logarithm of a fraction is a difference.
log(arg) ==
  LET LogOf(n) == IF n = one THEN zero ELSE Log(n)
  IN  CASE arg = zero \/ (is_a_Number(arg) /\ is_negative(arg)) -> Thrown
        [] arg = one -> zero
        [] arg = E   -> one
        [] is_Rational(arg) -> sub(LogOf(Integer(arg.n)), LogOf(Integer(arg.d)))
        [] OTHER -> Log(arg)
-----------------------------------------------------------------------------
(* expand *)

\* A sum under construction.
Sum(coef, d) == [coef |-> coef, dict |-> d]
NoSum == Sum(zero, NoDict)
FromSum(s) == Add_from_dict(s.coef, s.dict)
AddToDict(s, coef, t) == [s EXCEPT !.dict = Add_dict_add_term(@, coef, t)]
AddToCoef(s, n) == [s EXCEPT !.coef = addnum(@, n)]
AddScaled(s, n, ct) == AddToDict(s, mulnum(n, ct.coef), ct.term)

\* Mutant of AddExpanded: forgets the number in front of a constant.
AddExpandedNoScale(s, n, e) ==
  LET AddPart(k, r) == AddScaled(r, mulnum(n, e.dict[k]), Add_as_coef_term(k))
  IN  IF is_a("Add", e)
      THEN AddToCoef(FoldSet(AddPart, s, DOMAIN e.dict), e.coef)
      ELSE AddScaled(s, n, Add_as_coef_term(e))

\* Adds n*e to the sum s, e an expanded term.
AddExpanded(s, n, e) ==
  LET AddPart(k, r) == AddScaled(r, mulnum(n, e.dict[k]), Add_as_coef_term(k))
  IN  IF is_a("Add", e)
      THEN AddToCoef(FoldSet(AddPart, s, DOMAIN e.dict), mulnum(n, e.coef))
      ELSE AddScaled(s, n, Add_as_coef_term(e))

add_expand(e) ==
  LET ExpandTerm(k, S) == {AddExpanded(s, e.dict[k], t) : s \in S, t \in expand(k)}
  IN  {FromSum(s) : s \in FoldSet(ExpandTerm, {Sum(e.coef, NoDict)}, DOMAIN e.dict)}

\* Adds n*e to the sum s, e a product of two terms.
AddProduct(s, n, e) == IF is_a_Number(e) THEN AddToCoef(s, e) ELSE AddToDict(s, n, e)

\* Mutant of SumTimesSum: forgets the number in the first sum.
SumTimesSumNoCoef(a, b) ==
  LET Row(k, s) ==
        AddToDict(FoldSet(LAMBDA j, r : AddProduct(r, mulnum(a.dict[k], b.dict[j]), mul(k, j)),
                          s, DOMAIN b.dict),
                  mulnum(b.coef, a.dict[k]), k)
  IN  FromSum(FoldSet(Row, Sum(mulnum(a.coef, b.coef), NoDict), DOMAIN a.dict))

SumTimesSum(a, b) ==
  LET Row(k, s) ==
        AddToDict(FoldSet(LAMBDA j, r : AddProduct(r, mulnum(a.dict[k], b.dict[j]), mul(k, j)),
                          s, DOMAIN b.dict),
                  mulnum(b.coef, a.dict[k]), k)
      Rows == FoldSet(Row, Sum(mulnum(a.coef, b.coef), NoDict), DOMAIN a.dict)
  IN  FromSum(FoldSet(LAMBDA j, s : AddToDict(s, mulnum(a.coef, b.dict[j]), j),
                      Rows, DOMAIN b.dict))

TermTimesSum(ct, b) ==
  LET terms == FoldSet(LAMBDA j, s : AddProduct(s, mulnum(ct.coef, b.dict[j]), mul(ct.term, j)),
                       NoSum, DOMAIN b.dict)
      AddConstant(s, n) == IF ct.term = one THEN AddToCoef(s, n) ELSE AddToDict(s, n, ct.term)
  IN  FromSum(AddConstant(terms, mulnum(b.coef, ct.coef)))

mul_expand_two(a, b) ==
  CASE is_a("Add", a) /\ is_a("Add", b)   -> SumTimesSum(a, b)
    [] is_a("Add", a) /\ ~is_a("Add", b)  -> TermTimesSum(Add_as_coef_term(b), a)
    [] ~is_a("Add", a) /\ is_a("Add", b)  -> TermTimesSum(Add_as_coef_term(a), b)
    [] OTHER                              -> mul(a, b)

\* Mutant of mul_expand: leaves the other factors as they are.
mul_expand_first(e) ==
  UNION {{mul_expand_two(a, Mul_from_dict(e.coef, Erase(e.dict, k))) :
            a \in expand(pow(k, e.dict[k]))} : k \in DOMAIN e.dict}

mul_expand(e) ==
  UNION {{mul_expand_two(a, b) : a \in expand(pow(k, e.dict[k])),
                                 b \in expand(Mul_from_dict(e.coef, Erase(e.dict, k)))}
         : k \in DOMAIN e.dict}

Factorial[n \in Nat] == IF n = 0 THEN 1 ELSE n * Factorial[n - 1]
\* The powers of m terms in the expansion of an n-th power, with the number
\* in front: what multinomial_coefficients_mpz leaves in its map.
Powers(keys, n) == {p \in [keys -> 0..n] : FoldFunction(+, 0, p) = n}
Multinomial(p, n) == Factorial[n] \div FoldSet(LAMBDA k, r : r * Factorial[p[k]], 1, DOMAIN p)

\* The product q times (n*k)^i.
MulPower(q, k, n, i) ==
  LET e == Integer(i)
      Base == CASE is_Integer(k)     -> Product(mulnum(q.coef, powint(k, i)), q.dict)
                [] is_a("Symbol", k) -> Product(q.coef, Mul_dict_add_term(q.dict, e, k))
                [] OTHER             -> MulTerm(q, pow(k, e))
      TimesNumber(r) == IF is_one(n) THEN r ELSE Product(mulnum(r.coef, pownum(n, e)), r.dict)
  IN  IF i = 0 THEN q ELSE TimesNumber(Base)

\* Adds n*e to the sum s, e a product of powers.
AddPowers(s, n, e) ==
  CASE is_a_Number(e) -> AddToCoef(s, mulnum(e, n))
    [] is_a("Mul", e) /\ ~is_one(e.coef) ->
         AddToDict(s, mulnum(n, e.coef), Mul_from_dict(one, e.dict))
    [] OTHER -> AddToDict(s, n, e)

\* Throws on a negative power of a sum.
pow_expand(e) ==
  IF ~(is_Integer(e.exp) /\ is_a("Add", e.base)) THEN {e}
  ELSE IF e.exp.n < 0 THEN {}
  ELSE LET n == e.exp.n
           d == IF is_zero(e.base.coef) THEN e.base.dict ELSE e.base.dict @@ (e.base.coef :> one)
           Monomial(p) ==
             FromProduct(FoldSet(LAMBDA k, q : MulPower(q, k, d[k], p[k]),
                                 Product(one, NoDict), DOMAIN d))
       IN  {FromSum(FoldSet(LAMBDA p, s : AddPowers(s, Integer(Multinomial(p, n)), Monomial(p)),
                            NoSum, Powers(DOMAIN d, n)))}

\* expand(e)
ExpansionOf(e) ==
  CASE is_a("Add", e) -> add_expand(e)
    [] is_a("Mul", e) -> mul_expand(e)
    [] is_a("Pow", e) -> pow_expand(e)
    [] OTHER          -> {e}
-----------------------------------------------------------------------------
(* diff *)

AddSum(s, e) ==
  AddToCoef(FoldSet(LAMBDA k, r : AddToDict(r, e.dict[k], k), s, DOMAIN e.dict), e.coef)

\* Mutant of AddChanged: forgets the number in front of a constant.
AddChangedNoCoef(s, n, e) ==
  CASE is_a_Number(e)   -> AddToCoef(s, e)
    [] is_a("Add", e)   -> AddSum(s, e)
    [] OTHER            -> AddScaled(s, one, Add_as_coef_term(mul(n, e)))

\* Adds the derivative (or the substituted value) e of a term, whose number
\* is n, to the sum s.
AddChanged(s, n, e) ==
  CASE is_a_Number(e) -> AddToCoef(s, mulnum(n, e))
    [] is_a("Add", e) -> AddSum(s, e)
    [] OTHER          -> AddScaled(s, one, Add_as_coef_term(mul(n, e)))

\* The product p times the derivative (or the substituted value) e of a factor.
MulChanged(p, e) ==
  CASE is_a_Number(e)   -> [p EXCEPT !.coef = mulnum(@, e)]
    [] is_a("Mul", e)   -> MulDict(Product(mulnum(p.coef, e.coef), p.dict), e.dict)
    [] OTHER            -> MulTerm(p, e)

Add_diff(e, x) ==
  FromSum(FoldSet(LAMBDA k, s : AddChanged(s, e.dict[k], diff(k, x)), NoSum, DOMAIN e.dict))

\* Mutant of Mul_diff: leaves the factor itself in the product.
Mul_diff_no_erase(e, x) ==
  LET DiffFactor(k, r, f) ==
        IF f = zero THEN r ELSE add(r, FromProduct(MulChanged(Product(e.coef, e.dict), f)))
  IN  FoldSet(LAMBDA k, r : DiffFactor(k, r, diff(pow(k, e.dict[k]), x)), zero, DOMAIN e.dict)

Mul_diff(e, x) ==
  LET DiffFactor(k, r, f) ==
        IF f = zero THEN r
        ELSE add(r, FromProduct(MulChanged(Product(e.coef, Erase(e.dict, k)), f)))
  IN  FoldSet(LAMBDA k, r : DiffFactor(k, r, diff(pow(k, e.dict[k]), x)), zero, DOMAIN e.dict)

\* (Bases whose logarithm is not implemented make it throw.)
Pow_diff(e, x) ==
  CASE is_a_Number(e.exp) -> mul(mul(e.exp, pow(e.base, sub(e.exp, one))), diff(e.base, x))
    [] ~is_a_Number(e.exp) /\ log(e.base) # Thrown ->
         mul(pow(e.base, e.exp), diff(mul(e.exp, log(e.base)), x))
    [] OTHER -> Thrown

Log_diff(e, x) == mul(div(one, e.arg), diff(e.arg, x))

\* diff(e, x), the derivative with respect to the symbol x
DerivativeOf(e, x) ==
  CASE is_a("Symbol", e) -> IF e = x THEN one ELSE zero
    [] is_a_Number(e)    -> zero
    [] is_a("Constant", e) -> zero
    [] is_a("Add", e)    -> Add_diff(e, x)
    [] is_a("Mul", e)    -> Mul_diff(e, x)
    [] is_a("Pow", e)    -> Pow_diff(e, x)
    [] is_a("Log", e)    -> Log_diff(e, x)
    [] OTHER             -> Call("virtual_diff", <<e, x>>)
-----------------------------------------------------------------------------
(* subs: s is the dictionary {old: new} *)

\* subs returns the very same object, not an equal one.
RECURSIVE Untouched(_, _)
Untouched(e, s) ==
  /\ e \notin DOMAIN s
  /\ CASE e.t \in {"Add", "Mul"} -> FALSE
       [] is_a("Pow", e) -> Untouched(e.base, s) /\ Untouched(e.exp, s)
       [] e.t \in {"Symbol", "Constant", "Log"} \/ is_a_Number(e) -> TRUE
       [] OTHER -> Call("virtual_untouched", <<e, s>>)

Add_subs(e, s) ==
  FromSum(FoldSet(LAMBDA k, r : IF Untouched(k, s) THEN AddToDict(r, e.dict[k], k)
                                ELSE AddChanged(r, e.dict[k], subs(k, s)),
                  Sum(e.coef, NoDict), DOMAIN e.dict))

Mul_subs(e, s) ==
  LET Old(k) == pow(k, e.dict[k])
      SubsFactor(k, p) ==
        IF Untouched(Old(k), s) THEN Mul_dict_add_term_new(p, e.dict[k], k)
                                ELSE MulChanged(p, subs(Old(k), s))
  IN  IF \E k \in DOMAIN e.dict : ~Untouched(Old(k), s) /\ subs(Old(k), s) = zero THEN zero
      ELSE FromProduct(FoldSet(SubsFactor, Product(e.coef, NoDict), DOMAIN e.dict))

Pow_subs(e, s) ==
  IF Untouched(e, s) THEN e ELSE pow(subs(e.base, s), subs(e.exp, s))

\* subs(e, s)
SubstitutionIn(e, s) ==
  CASE e \in DOMAIN s /\ ~is_a("Subs", e)    -> s[e]
    [] e \notin DOMAIN s /\ is_a("Add", e)   -> Add_subs(e, s)
    [] e \notin DOMAIN s /\ is_a("Mul", e)   -> Mul_subs(e, s)
    [] e \notin DOMAIN s /\ is_a("Pow", e)   -> Pow_subs(e, s)
    [] e \notin DOMAIN s /\ (e.t \in {"Symbol", "Constant", "Log"} \/ is_a_Number(e)) -> e
    [] OTHER                                 -> Call("virtual_subs", <<e, s>>)
-----------------------------------------------------------------------------
\* What Call stands for where there are no classes but those of this module.
ExprCalls(f, args) ==
  LET e == args[1]
  IN  CASE f = "add"    -> SumOf(e, args[2])
        [] f = "mul"    -> ProductOf(e, args[2])
        [] f = "pow"    -> PowerOf(e, args[2])
        [] f = "expand" -> ExpansionOf(e)
        [] f = "diff"   -> DerivativeOf(e, args[2])
        [] f = "subs"   -> SubstitutionIn(e, args[2])
-----------------------------------------------------------------------------
\* Every node of an expression meets the is_canonical of its class: the
\* assertions of the constructors hold all the way down.
RECURSIVE Canonical(_)
Canonical(e) ==
  CASE e.t \in {"Integer", "Symbol", "Constant"} -> TRUE
    [] is_a("Log", e) -> Log_is_canonical(e.arg) /\ Canonical(e.arg)
    [] e.t \notin {"Rational", "Add", "Mul", "Pow"} -> Call("virtual_is_canonical", <<e>>)
    [] is_Rational(e) -> Rational_is_canonical(e)
    [] is_a("Add", e) -> /\ Add_is_canonical(e.coef, e.dict)
                         /\ Canonical(e.coef)
                         /\ \A k \in DOMAIN e.dict : Canonical(k) /\ Canonical(e.dict[k])
    [] is_a("Mul", e) -> /\ Mul_is_canonical(e.coef, e.dict)
                         /\ Canonical(e.coef)
                         /\ \A k \in DOMAIN e.dict : Canonical(k) /\ Canonical(e.dict[k])
    [] is_a("Pow", e) -> /\ Pow_is_canonical(e.base, e.exp)
                         /\ Canonical(e.base) /\ Canonical(e.exp)
=============================================================================
