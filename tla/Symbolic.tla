------------------------------ MODULE Symbolic ------------------------------
(***************************************************************************)
(* Functions that are only names, f(x, y), with their derivatives and the  *)
(* substitutions that cannot be carried out in them: classes               *)
(* FunctionSymbol, Derivative and Subs of src/src/functions.cpp.  And the  *)
(* virtual methods of all the classes of that file.                        *)
(***************************************************************************)
EXTENDS Special

FunctionSymbol(name, args) == [t |-> "FunctionSymbol", name |-> name, args |-> args]
Derivative(arg, x) == [t |-> "Derivative", arg |-> arg, args |-> x]
Subs(arg, dict) == [t |-> "Subs", arg |-> arg, dict |-> dict]

RECURSIVE Symbols(_)
\* The names of the symbols that occur in an expression.
Symbols(e) ==
  LET OfDict == UNION {Symbols(k) \cup Symbols(e.dict[k]) : k \in DOMAIN e.dict}
      OfArgs == UNION {Symbols(e.args[i]) : i \in DOMAIN e.args}
  IN  CASE is_a("Symbol", e) -> {e.name}
        [] is_a_Number(e) \/ is_a("Constant", e) -> {}
        [] e.t \in {"Add", "Mul"} -> OfDict
        [] is_a("Pow", e) -> Symbols(e.base) \cup Symbols(e.exp)
        [] is_a("ATan2", e) -> Symbols(e.num) \cup Symbols(e.den)
        [] is_a("Subs", e) -> OfDict \cup Symbols(e.arg)
        [] is_a("Derivative", e) -> OfArgs \cup Symbols(e.arg)
        [] OTHER -> IF "arg" \in DOMAIN e THEN Symbols(e.arg) ELSE OfArgs

has_symbol(e, s) == s.name \in Symbols(e)
-----------------------------------------------------------------------------
(* FunctionSymbol *)

\* The names that diff tries in turn.
Fresh == <<symbol("_x"), symbol("__x"), symbol("___x"), symbol("____x")>>
FreshFor(e) ==
  Fresh[CHOOSE i \in DOMAIN Fresh : /\ ~has_symbol(e, Fresh[i])
                                    /\ \A j \in 1..(i - 1) : has_symbol(e, Fresh[j])]

Depends(e, x) == diff(e, x) # zero

\* Mutant of FunctionSymbol_diff: forgets the inner derivative.
FunctionSymbol_diff_outer(e, x) ==
  LET dependent == {i \in DOMAIN e.args : Depends(e.args[i], x)}
      s == FreshFor(e)
      Chain(i) == Subs(Derivative(FunctionSymbol(e.name, [e.args EXCEPT ![i] = s]), <<s>>),
                       s :> e.args[i])
  IN  IF \E i \in dependent : dependent = {i} /\ e.args[i] = x THEN Derivative(e, <<x>>)
      ELSE FoldSet(LAMBDA i, r : add(r, Chain(i)), zero, dependent)

\* The derivative itself where x is an argument and in no other one, and the
\* chain rule, with a new symbol for the argument, in any other case.
FunctionSymbol_diff(e, x) ==
  LET dependent == {i \in DOMAIN e.args : Depends(e.args[i], x)}
      s == FreshFor(e)
      Chain(i) ==
        mul(diff(e.args[i], x),
            Subs(Derivative(FunctionSymbol(e.name, [e.args EXCEPT ![i] = s]), <<s>>),
                 s :> e.args[i]))
  IN  IF \E i \in dependent : dependent = {i} /\ e.args[i] = x THEN Derivative(e, <<x>>)
      ELSE FoldSet(LAMBDA i, r : add(r, Chain(i)), zero, dependent)

FunctionSymbol_subs(e, s) ==
  FunctionSymbol(e.name, [i \in DOMAIN e.args |-> subs(e.args[i], s)])
-----------------------------------------------------------------------------
(* Derivative *)

\* (Only the first symbol is looked for among the arguments.)
Derivative_is_canonical(arg, x) ==
  /\ \A i \in DOMAIN x : is_a("Symbol", x[i])
  /\ \/ /\ is_a("FunctionSymbol", arg)
        /\ \E i \in DOMAIN arg.args :
             /\ arg.args[i] = x[1]
             /\ \A j \in DOMAIN arg.args \ {i} : ~Depends(arg.args[j], x[1])
     \/ is_a("Abs", arg)

Derivative_diff(e, x) ==
  IF Depends(e.arg, x) THEN Derivative(e.arg, Append(e.args, x)) ELSE zero

\* Mutant of Inward: takes a new value in although it depends on one of the
\* symbols.
InwardAlways(e, old, new) == TRUE

\* The new value may be put into the function: it has nothing to do with the
\* symbols of the derivative, or is a symbol that takes the place of another.
Inward(e, old, new) ==
  \/ is_a("Symbol", old) /\ is_a("Symbol", new) /\ ~Depends(e.arg, new)
  \/ \A i \in DOMAIN e.args : ~Depends(old, e.args[i]) /\ ~Depends(new, e.args[i])

Derivative_subs(e, s) ==
  LET concerned == {k \in DOMAIN s : subs(e.arg, k :> s[k]) # e.arg}
      n == Restrict(s, {k \in concerned : Inward(e, k, s[k])})
      m == Restrict(s, {k \in concerned : ~Inward(e, k, s[k])})
      inner == Derivative(subs(e.arg, n), [i \in DOMAIN e.args |-> subs(e.args[i], n)])
  IN  IF DOMAIN m = {} THEN inner ELSE Subs(inner, m)
-----------------------------------------------------------------------------
(* Subs *)

Subs_is_canonical(arg, dict) == is_a("Derivative", arg)

\* The symbol is bound when it is a key; every key that is a symbol and whose
\* value depends on x adds a term.
Subs_diff(e, x) ==
  LET direct == IF x \in DOMAIN e.dict THEN zero ELSE subs(diff(e.arg, x), e.dict)
      dependent == {k \in DOMAIN e.dict : Depends(e.dict[k], x)}
      Chain(k) == mul(diff(e.dict[k], x), subs(diff(e.arg, k), e.dict))
  IN  IF \E k \in dependent : ~is_a("Symbol", k) THEN Derivative(e, <<x>>)
      ELSE FoldSet(LAMBDA k, r : add(r, Chain(k)), direct, dependent)

\* (It does not look for e itself in s.)
Subs_subs(e, s) ==
  LET free == {k \in DOMAIN s : \A b \in DOMAIN e.dict : subs(b, k :> s[k]) = b}
  IN  Subs(subs(e.arg, Restrict(s, free)), [b \in DOMAIN e.dict |-> subs(e.dict[b], s)])
-----------------------------------------------------------------------------
(* The virtual methods *)

TrigTypes == {"Sin", "Cos", "Tan", "Cot", "Csc", "Sec",
              "ASin", "ACos", "ASec", "ACsc", "ATan", "ACot"}
HyperbolicTypes == {"Sinh", "Cosh", "Tanh", "Coth", "ASinh", "ACosh", "ATanh", "ACoth"}
Outcomes == {"Thrown", "Garbage", "Diverges"}

DiffOf(e, x) ==
  CASE e.t \in TrigTypes -> Trig_diff(e, x)
    [] is_a("ATan2", e) -> ATan2_diff(e, x)
    [] is_a("Sinh", e) -> Sinh_diff(e, x)
    [] is_a("Cosh", e) -> Cosh_diff(e, x)
    [] is_a("Tanh", e) -> Tanh_diff(e, x)
    [] is_a("Coth", e) -> Coth_diff(e, x)
    [] is_a("ASinh", e) -> ASinh_diff(e, x)
    [] is_a("ACosh", e) -> ACosh_diff(e, x)
    [] is_a("ATanh", e) -> ATanh_diff(e, x)
    [] is_a("ACoth", e) -> ACoth_diff(e, x)
    [] is_a("LambertW", e) -> LambertW_diff(e, x)
    [] is_a("Zeta", e) -> Zeta_diff(e, x)
    [] is_a("Abs", e) -> IF Depends(e.arg, x) THEN Derivative(e, <<x>>) ELSE zero
    [] is_a("FunctionSymbol", e) -> FunctionSymbol_diff(e, x)
    [] is_a("Derivative", e) -> Derivative_diff(e, x)
    [] is_a("Subs", e) -> Subs_diff(e, x)
    [] OTHER -> Derivative(e, <<x>>)

\* (The other classes look for themselves in s, and not at their arguments.)
SubsOf(e, s) ==
  CASE e.t \in TrigTypes -> Trig_subs(e, s)
    [] e.t \in HyperbolicTypes -> Hyperbolic_subs(e, s)
    [] is_a("FunctionSymbol", e) -> FunctionSymbol_subs(e, s)
    [] is_a("Derivative", e) -> Derivative_subs(e, s)
    [] is_a("Subs", e) -> Subs_subs(e, s)
    [] OTHER -> e

UntouchedIn(e, s) ==
  CASE e.t \in TrigTypes \cup HyperbolicTypes -> Untouched(e.arg, s)
    [] e.t \in {"FunctionSymbol", "Derivative", "Subs"} -> FALSE
    [] OTHER -> TRUE

\* The assertion of the constructor.
FunctionIsCanonical(e) ==
  CASE is_a("Sin", e) -> Sin_is_canonical(e.arg)
    [] is_a("Cos", e) -> Cos_is_canonical(e.arg)
    [] is_a("Tan", e) -> Tan_is_canonical(e.arg)
    [] is_a("Cot", e) -> Cot_is_canonical(e.arg)
    [] is_a("Csc", e) -> Csc_is_canonical(e.arg)
    [] is_a("Sec", e) -> Sec_is_canonical(e.arg)
    [] is_a("ASin", e) -> ASin_is_canonical(e.arg)
    [] is_a("ACos", e) -> ACos_is_canonical(e.arg)
    [] is_a("ASec", e) -> ASec_is_canonical(e.arg)
    [] is_a("ACsc", e) -> ACsc_is_canonical(e.arg)
    [] is_a("ATan", e) -> ATan_is_canonical(e.arg)
    [] is_a("ACot", e) -> ACot_is_canonical(e.arg)
    [] is_a("ATan2", e) -> ATan2_is_canonical(e.num, e.den)
    [] is_a("Sinh", e) -> Sinh_is_canonical(e.arg)
    [] is_a("Cosh", e) -> Cosh_is_canonical(e.arg)
    [] is_a("Tanh", e) -> Tanh_is_canonical(e.arg)
    [] is_a("Coth", e) -> Coth_is_canonical(e.arg)
    [] is_a("ASinh", e) -> ASinh_is_canonical(e.arg)
    [] is_a("ACosh", e) -> ACosh_is_canonical(e.arg)
    [] is_a("ATanh", e) -> ATanh_is_canonical(e.arg)
    [] is_a("ACoth", e) -> ACoth_is_canonical(e.arg)
    [] is_a("LambertW", e) -> LambertW_is_canonical(e.arg)
    [] is_a("KroneckerDelta", e) -> KroneckerDelta_is_canonical(e.args[1], e.args[2])
    [] is_a("LeviCivita", e) -> LeviCivita_is_canonical(e.args)
    [] is_a("Zeta", e) -> Zeta_is_canonical(e.args[1], e.args[2])
    [] is_a("Dirichlet_eta", e) -> Dirichlet_eta_is_canonical(e.arg)
    [] is_a("Gamma", e) -> Gamma_is_canonical(e.arg)
    [] is_a("LowerGamma", e) -> LowerGamma_is_canonical(e.args[1], e.args[2])
    [] is_a("UpperGamma", e) -> UpperGamma_is_canonical(e.args[1], e.args[2])
    [] is_a("Abs", e) -> Abs_is_canonical(e.arg)
    [] is_a("Derivative", e) -> Derivative_is_canonical(e.arg, e.args)
    [] is_a("Subs", e) -> Subs_is_canonical(e.arg, e.dict)
    [] OTHER -> TRUE

\* The constructor of e, and those of the arguments of e, did not fail.
CanonicalFunction(e) ==
  /\ e.t \notin Outcomes
  /\ FunctionIsCanonical(e)
  /\ "arg" \in DOMAIN e => Canonical(e.arg)
  /\ "args" \in DOMAIN e => \A i \in DOMAIN e.args : Canonical(e.args[i])
  /\ is_a("ATan2", e) => Canonical(e.num) /\ Canonical(e.den)
  /\ is_a("Subs", e) => \A k \in DOMAIN e.dict : Canonical(k) /\ Canonical(e.dict[k])

\* The functions of the library, by the name of the class of what they make.
ApplyTo(type, args) ==
  CASE type \in TrigTypes       -> CreateTrig([t |-> type], args[1])
    [] type \in HyperbolicTypes -> CreateHyperbolic([t |-> type], args[1])
    [] type = "ATan2"           -> atan2(args[1], args[2])
    [] type = "LambertW"        -> lambertw(args[1])
    [] type = "KroneckerDelta"  -> kronecker_delta(args[1], args[2])
    [] type = "LeviCivita"      -> levi_civita(args)
    [] type = "Zeta"            -> zeta(args[1], args[2])
    [] type = "Dirichlet_eta"   -> dirichlet_eta(args[1])
    [] type = "Gamma"           -> gamma(args[1])
    [] type = "LowerGamma"      -> lowergamma(args[1], args[2])
    [] type = "UpperGamma"      -> uppergamma(args[1], args[2])
    [] type = "Abs"             -> abs(args[1])
    [] type = "Log"             -> log(args[1])
    [] type = "FunctionSymbol"  -> FunctionSymbol("f", args)

\* What the constant Call stands for.
AllCalls(f, args) ==
  LET e == args[1]
  IN  CASE f = "virtual_diff"         -> DiffOf(e, args[2])
        [] f = "virtual_subs"         -> SubsOf(e, args[2])
        [] f = "virtual_untouched"    -> UntouchedIn(e, args[2])
        [] f = "virtual_is_canonical" -> CanonicalFunction(e)
        [] f = "apply"                -> ApplyTo(e, args[2])
        [] OTHER                      -> ExprCalls(f, args)

Apply(type, args) == Call("apply", <<type, args>>)
=============================================================================
