----------------------------- MODULE Polynomials -----------------------------
(***************************************************************************)
(* Sparse polynomials (src/src/rings.cpp, monomials.cpp) and the           *)
(* coefficients of the powers of a sum (multinomial_coefficients_mpz of    *)
(* src/src/pow.cpp).  A dictionary with vectors for keys is a function on  *)
(* functions from 0..n-1.  A call that throws gives <<>>, and one that      *)
(* returns r gives <<r>>.                                                  *)
(***************************************************************************)
EXTENDS Expr, Sequences

NoTerms == [v \in {} |-> 0]
-----------------------------------------------------------------------------
(* Multinomial coefficients *)

\* What operator[] reads from a map, and the entry it makes for a key that is
\* not there.
At(r, t) == IF t \in DOMAIN r THEN r[t] ELSE 0
WithEntries(r, keys) == r @@ [t \in keys |-> 0]

\* Mutant of NextTuple: the sum leaves out the first of its terms.
NextTuple_late(st, m, n) ==
  LET j == st.j
      tj == st.t[j]
      moved == IF j = 0 THEN st.t ELSE [st.t EXCEPT ![j] = 0, ![0] = tj]
      up == [moved EXCEPT ![j + 1] = @ + 1]
      start == IF tj > 1 THEN 2 ELSE j + 2
      below == {[up EXCEPT ![k] = @ - 1] : k \in {k \in start..(m - 1) : up[k] > 0}}
      read == below \cup IF tj > 1 THEN {} ELSE {moved}
      v == FoldSet(LAMBDA u, s : s + At(st.r, u), 0, read)
      t == [up EXCEPT ![0] = @ - 1]
  IN  [t |-> t, j |-> IF tj > 1 THEN 0 ELSE j + 1,
       r |-> (t :> (v * tj) \div (n - t[0])) @@ WithEntries(st.r, read)]

\* One turn of the loop: from the tuple t to the next one.  Its coefficient is
\* a sum of those of the tuples "below" it, with one more in component 0.
NextTuple(st, m, n) ==
  LET j == st.j
      tj == st.t[j]
      moved == IF j = 0 THEN st.t ELSE [st.t EXCEPT ![j] = 0, ![0] = tj]
      up == [moved EXCEPT ![j + 1] = @ + 1]
      start == IF tj > 1 THEN 1 ELSE j + 2
      below == {[up EXCEPT ![k] = @ - 1] : k \in {k \in start..(m - 1) : up[k] > 0}}
      read == below \cup IF tj > 1 THEN {} ELSE {moved}
      v == FoldSet(LAMBDA u, s : s + At(st.r, u), 0, read)
      t == [up EXCEPT ![0] = @ - 1]
  IN  [t |-> t, j |-> IF tj > 1 THEN 0 ELSE j + 1,
       r |-> (t :> (v * tj) \div (n - t[0])) @@ WithEntries(st.r, read)]

RECURSIVE TuplesFrom(_, _, _)
TuplesFrom(st, m, n) == IF st.j >= m - 1 THEN st.r ELSE TuplesFrom(NextTuple(st, m, n), m, n)
multinomial_coefficients(m, n) ==
  LET first == [k \in 0..(m - 1) |-> IF k = 0 THEN n ELSE 0]
  IN  IF m < 2 \/ n < 0 THEN <<>>
      ELSE IF n = 0 THEN <<first :> 1>>
      ELSE <<TuplesFrom([t |-> first, j |-> 0, r |-> first :> 1], m, n)>>
-----------------------------------------------------------------------------
(* Polynomials: syms has the index of every symbol *)

\* The bases of a term of a sum with their exponents.
PowersOf(k) ==
  CASE is_a("Mul", k)    -> k.dict
    [] is_a("Pow", k)    -> k.base :> k.exp
    [] is_a("Symbol", k) -> k :> one
    [] OTHER             -> NoDict
Convertible(k, syms) ==
  /\ k.t \in {"Mul", "Pow", "Symbol"}
  /\ \A b \in DOMAIN PowersOf(k) : b \in DOMAIN syms /\ is_Integer(PowersOf(k)[b])
ExponentsOf(k, syms) ==
  LET d == PowersOf(k)
      Of(i) == {b \in DOMAIN d : syms[b] = i}
  IN  [i \in 0..(Cardinality(DOMAIN syms) - 1) |->
         IF Of(i) = {} THEN 0 ELSE d[CHOOSE b \in Of(i) : TRUE].n]
\* The polynomial of a sum; its number coef is not looked at.
expr2poly(p, syms) ==
  IF ~is_a("Add", p) \/ \E k \in DOMAIN p.dict : ~is_Integer(p.dict[k]) \/ ~Convertible(k, syms)
  THEN <<>>
  ELSE <<FoldSet(LAMBDA k, P : (ExponentsOf(k, syms) :> p.dict[k].n) @@ P, NoTerms, DOMAIN p.dict)>>

monomial_mul(v, w) == [i \in DOMAIN v |-> v[i] + w[i]]
\* The product is added to what C holds.
poly_mul(P, Q, C) ==
  FoldSet(LAMBDA pair, R :
            LET v == monomial_mul(pair[1], pair[2])
            IN  (v :> At(R, v) + P[pair[1]] * Q[pair[2]]) @@ R,
          C, (DOMAIN P) \X (DOMAIN Q))
=============================================================================
