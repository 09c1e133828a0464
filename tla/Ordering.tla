------------------------------ MODULE Ordering ------------------------------
(***************************************************************************)
(* The order of expressions, in which std::map keeps the keys of a         *)
(* dictionary: by hash value, and by Basic::__cmp__ where two hash values  *)
(* are the same (src/src/basic.h, basic.cpp, dict.cpp, and the methods     *)
(* __hash__ and compare of every class).  Expressions are those of module  *)
(* Expr; an object of another class has its arguments in the fields "arg", *)
(* "args", "num" and "den" that modules Trig, Special and Symbolic give    *)
(* it.  Two expressions are __eq__ when the records are equal.             *)
(*                                                                         *)
(* A hash value has HashBits bits.  It has 64 in the program, where two    *)
(* expressions have the same one when they differ in a multiple of 2^63    *)
(* in an integer; in a small word more of them do.                         *)
(***************************************************************************)
EXTENDS Expr, Sequences, SequencesExt, Bitwise

CONSTANTS HashBits,    \* at most 16
          Names,       \* the names of symbols, in the order of strings
          NameHash     \* the hash values of names, by their places in Names

TypeID == <<"Symbol", "Mul", "Add", "Pow", "Log",
            "Number", "Integer", "Rational", "Complex", "Constant",
            "Sin", "Cos", "Tan", "Cot", "Csc", "Sec",
            "ASin", "ACos", "ASec", "ACsc", "ATan", "ACot", "ATan2",
            "Sinh", "Cosh", "Tanh", "Coth", "ASinh", "ACosh", "ATanh", "ACoth",
            "LambertW", "Zeta", "Dirichlet_eta", "KroneckerDelta",
            "LeviCivita", "Gamma", "LowerGamma", "UpperGamma",
            "FunctionSymbol", "FunctionWrapper", "Derivative", "Subs", "Abs">>
Place(s, e) == CHOOSE i \in DOMAIN s : s[i] = e
get_type_code(e) == Place(TypeID, e.t) - 1

RECURSIVE hash(_), KeyLess(_, _), cmp(_, _)

\* The entries of a dictionary in the order of a map: keys and values in turn.
Entries(d) ==
  LET keys == SetToSortSeq(DOMAIN d, LAMBDA k, l : KeyLess(k, l))
  IN  FlattenSeq([i \in DOMAIN keys |-> <<keys[i], d[keys[i]]>>])
-----------------------------------------------------------------------------
(* Hash values *)

Word == 2^HashBits
\* mpz_get_si: the low bits of the absolute value, with the sign.
get_si(n) == LET Half == Word \div 2 IN IF n >= 0 THEN n % Half ELSE -1 - ((-n - 1) % Half)
\* seed ^= h + 0x9e3779b9 + (seed << 6) + (seed >> 2), the low 16 bits of it.
hash_combine(seed, h) == seed ^^ ((h + 31161 + seed * 64 + seed \div 4) % Word)
Combined(seed, hs) == FoldLeft(hash_combine, seed % Word, hs)
NameHashOf(name) == NameHash[Place(Names, name)] % Word

\* The parts of an expression that its hash value is made from, in this order.
HashedParts(e) ==
  CASE e.t \in {"Add", "Mul"} -> <<e.coef>> \o Entries(e.dict)
    [] is_a("Pow", e)         -> <<e.base, e.exp>>
    [] is_a("ATan2", e)       -> <<e.num, e.den>>
    [] is_a("Derivative", e)  -> <<e.arg>> \o e.args
    [] is_a("Subs", e)        -> <<e.arg>> \o Entries(e.dict)
    [] OTHER                  -> IF "arg" \in DOMAIN e THEN <<e.arg>> ELSE e.args

\* __hash__, without the copy that hash() keeps.
hash(e) ==
  LET Code == get_type_code(e)
      OfParts == LET parts == HashedParts(e) IN [i \in DOMAIN parts |-> hash(parts[i])]
  IN  CASE is_a("Symbol", e)         -> NameHashOf(e.name)
        [] is_Integer(e)             -> get_si(e.n) % Word
        [] is_Rational(e)            -> Combined(Code, <<get_si(e.n) % Word, get_si(e.d) % Word>>)
        [] is_a("Constant", e)       -> Combined(Code, <<NameHashOf(e.name)>>)
        [] is_a("FunctionSymbol", e) -> Combined(Code, Append(OfParts, NameHashOf(e.name)))
        [] OTHER                     -> Combined(Code, OfParts)
-----------------------------------------------------------------------------
(* Comparison: -1, 0 or 1 *)

Three(m, n) == IF m < n THEN -1 ELSE IF m = n THEN 0 ELSE 1
\* The first difference between two sequences of the same length.
FirstDifference(s, t) ==
  LET i == SelectInSeq([j \in DOMAIN s |-> cmp(s[j], t[j])], LAMBDA c : c # 0)
  IN  IF i = 0 THEN 0 ELSE cmp(s[i], t[i])
vec_basic_compare(s, t) == IF Len(s) # Len(t) THEN Three(Len(s), Len(t)) ELSE FirstDifference(s, t)
map_compare(d, f) == vec_basic_compare(Entries(d), Entries(f))

\* (The arguments of logarithms and of substitutions are not compared with one
\* another; the second argument of zeta and of the delta of Kronecker is not
\* compared at all.)
compare(e, o) ==
  CASE e.t \in {"Symbol", "Constant"} -> Three(Place(Names, e.name), Place(Names, o.name))
    [] is_a_Number(e) -> Three(e.n * o.d, o.n * e.d)
    [] e.t \in {"Add", "Mul"} ->
         IF Cardinality(DOMAIN e.dict) # Cardinality(DOMAIN o.dict) \/ e.coef = o.coef
         THEN map_compare(e.dict, o.dict) ELSE cmp(e.coef, o.coef)
    [] is_a("Pow", e)   -> FirstDifference(<<e.base, e.exp>>, <<o.base, o.exp>>)
    [] is_a("Log", e)   -> cmp(e.arg, o)
    [] is_a("ATan2", e) -> cmp(div(e.num, e.den), div(o.num, o.den))
    [] is_a("FunctionSymbol", e) ->
         IF e.name # o.name THEN Three(Place(Names, e.name), Place(Names, o.name))
         ELSE vec_basic_compare(e.args, o.args)
    [] is_a("Derivative", e) ->
         IF e.arg # o.arg THEN cmp(e.arg, o.arg) ELSE vec_basic_compare(e.args, o.args)
    [] is_a("Subs", e) -> map_compare(e.dict, o.dict)
    [] is_a("LeviCivita", e) -> vec_basic_compare(e.args, o.args)
    [] e.t \in {"LowerGamma", "UpperGamma"} -> FirstDifference(e.args, o.args)
    [] e.t \in {"KroneckerDelta", "Zeta"} -> cmp(e.args[1], o.args[1])
    [] OTHER -> cmp(e.arg, o.arg)

\* __cmp__
cmp(e, o) ==
  IF e.t = o.t THEN compare(e, o) ELSE Three(get_type_code(e), get_type_code(o))

\* Mutant of KeyLess: what has the same hash value is taken for the same key.
KeyLess_hash(x, y) == hash(x) < hash(y)
\* RCPBasicKeyLess
KeyLess(x, y) ==
  LET xh == hash(x)
      yh == hash(y)
  IN  IF xh # yh THEN xh < yh ELSE x # y /\ cmp(x, y) = -1
-----------------------------------------------------------------------------
(* std::map: the sequence of its keys *)

Insert1(m, k) ==
  LET i == SelectInSeq(m, LAMBDA l : ~KeyLess(l, k))     \* the lower bound
  IN  IF i = 0 THEN Append(m, k)
      ELSE IF KeyLess(k, m[i]) THEN InsertAt(m, i, k) ELSE m
MapOf(keys) == FoldLeft(Insert1, <<>>, keys)

\* (An element of one list that is in the other twice is found twice.)
vec_basic_eq_perm(s, t) ==
  Len(s) = Len(t) /\ \A i \in DOMAIN s : \E j \in DOMAIN t : s[i] = t[j]
=============================================================================
