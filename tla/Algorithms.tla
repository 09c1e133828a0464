----------------------------- MODULE Algorithms -----------------------------
(***************************************************************************)
(* A program that calls the library's algorithms on numbers, matrices,     *)
(* dictionaries and polynomials: one call of a function of ntheory.cpp,    *)
(* dense_matrix.cpp, dict.cpp, pow.cpp or rings.cpp.  The properties       *)
(* compare what comes back with the definition of what was asked for.      *)
(***************************************************************************)
EXTENDS Ordering, Polynomials

CONSTANTS
  Draw,           \* where the random numbers tried for a non-square begin
  SomeModuli,     \* the numbers that are factored, and the moduli
  Operands,       \* what a root is taken of, or an order asked for
  Degrees,        \* the degrees of roots and binomials
  LargePrime,     \* a modulus from which the method of Shanks is taken
  Radicands,      \* what its roots are taken of
  Draws,          \* what mpz_urandomm gives
  Matrices,       \* the square matrices, and
  Wide,           \* the ones with more columns than rows
  Factors,        \* the triangular matrices with a positive diagonal that
                  \* Cholesky and QR find again
  Turns,          \* the orthogonal matrices of their size
  Right,          \* the entries of the right sides
  KeyPool,        \* a sequence of expressions that dictionaries have for keys
  Sums,           \* what is turned into polynomials
  Orders          \* the orders of multinomial coefficients

\* The constant Call of module Expr stands for LibraryCalls, below: what the
\* function f of the library gives for args.
Num == INSTANCE Roots
Dense == INSTANCE DenseMatrix

VARIABLES
  call,           \* the function called and its arguments
  result          \* what it gave

vars == <<call, result>>

NoCall == [f |-> "none", args |-> <<>>]
-----------------------------------------------------------------------------
(* The functions by their names; the prefix of a name that several of them *)
(* share, for an algorithm of its own, is the name of the algorithm.       *)

NumberCall(f, a, b, args) ==
  CASE f = "quotient_f"          -> Num!quotient_f(a, b)
    [] f = "quotient_mod"        -> Num!quotient_mod(a, b)
    [] f = "mod"                 -> Num!mod(a, b)
    [] f = "gcd"                 -> Num!gcd(a, b)
    [] f = "lcm"                 -> Num!lcm(a, b)
    [] f = "divides"             -> Num!divides(a, b)
    [] f = "binomial"            -> Num!binomial(a, b)
    [] f = "probab_prime_p"      -> Num!probab_prime_p(a)
    [] f = "nextprime"           -> Num!nextprime(a)
    [] f = "factor"              -> Num!factor(a)
    [] f = "trial_division"      -> Num!factor_trial_division(a)
    [] f = "lehman"              -> Num!factor_lehman_method(a)
    [] f = "pollard_pm1"         -> Num!factor_pollard_pm1_method(a, 10, b)
    [] f = "pollard_rho"         -> Num!factor_pollard_rho_method(a, b)
    [] f = "prime_factors"       -> Num!prime_factors(a)
    [] f = "multiplicities"      -> Num!prime_factor_multiplicities(a)
    [] f = "totient"             -> Num!totient(a)
    [] f = "carmichael"          -> Num!carmichael(a)
    [] f = "primitive_root"      -> Num!primitive_root(a)
    [] f = "primitive_root_list" -> Num!primitive_root_list(a)
    [] f = "order"               -> Num!multiplicative_order(a, b)
    [] f = "kronecker"           -> Num!kronecker(a, b)
    [] f = "gcd_ext"             -> Num!gcd_ext(a, b)
    [] f = "mod_inverse"         -> Num!mod_inverse(a, b)
    [] f = "nthroot_mod"         -> Num!nthroot_mod(a, b, args[3])
    [] f = "nthroot_mod_list"    -> Num!nthroot_mod_list(a, b, args[3])
    [] f = "powermod"            -> Num!powermod(a, b, args[3], args[4])
    [] f = "powermod_list"       -> Num!powermod_list(a, b, args[3], args[4])
    [] f = "crt"                 -> Num!crt(a, b)
NumberFunctions ==
  {"quotient_f", "quotient_mod", "mod", "gcd", "lcm", "divides", "binomial", "probab_prime_p",
   "nextprime", "factor", "trial_division", "lehman", "pollard_pm1", "pollard_rho",
   "prime_factors", "multiplicities", "totient", "carmichael", "primitive_root",
   "primitive_root_list", "order", "kronecker", "gcd_ext", "mod_inverse", "nthroot_mod",
   "nthroot_mod_list", "powermod", "powermod_list", "crt"}

MatrixCall(f, M, b) ==
  CASE f = "gauss"             -> Dense!pivoted_gaussian_elimination(M)
    [] f = "ff_gauss"          -> Dense!fraction_free_gaussian_elimination(M)
    [] f = "pivoted_ff_gauss"  -> Dense!pivoted_fraction_free_gaussian_elimination(M)
    [] f = "jordan"            -> Dense!pivoted_gauss_jordan_elimination(M)
    [] f = "ff_jordan"         -> Dense!fraction_free_gauss_jordan_elimination(M)
    [] f = "pivoted_ff_jordan" -> Dense!pivoted_fraction_free_gauss_jordan_elimination(M)
    [] f = "ff_gauss_solve"    -> Dense!fraction_free_gaussian_elimination_solve(M, b)
    [] f = "ff_jordan_solve"   -> Dense!fraction_free_gauss_jordan_solve(M, b)
    [] f = "ff_LU_solve"       -> Dense!fraction_free_LU_solve(M, b)
    [] f = "LU_solve"          -> Dense!LU_solve(M, b)
    [] f = "LDL_solve"         -> Dense!LDL_solve(M, b)
    [] f = "LU"                -> Dense!LU(M)
    [] f = "ff_LDU"            -> Dense!fraction_free_LDU(M)
    [] f = "LDL"               -> Dense!LDL(M)
    [] f = "cholesky"          -> Dense!cholesky(M)
    [] f = "QR"                -> Dense!QR(M)
    [] f = "bareis"            -> Dense!det_bareis(M)
    [] f = "berkowitz"         -> Dense!det_berkowitz(M)
    [] f = "char_poly"         -> Dense!char_poly(M)
    [] f = "LU_inverse"        -> Dense!inverse_LU(M)
    [] f = "ff_LU_inverse"     -> Dense!inverse_fraction_free_LU(M)
    [] f = "jordan_inverse"    -> Dense!inverse_gauss_jordan(M)
Eliminating == {"gauss", "ff_gauss", "pivoted_ff_gauss", "jordan"}
SquareEliminating == {"ff_jordan", "pivoted_ff_jordan"}
Solvers == {"ff_gauss_solve", "ff_jordan_solve", "ff_LU_solve", "LU_solve", "LDL_solve"}
Decomposing == {"LU", "ff_LDU", "LDL", "cholesky", "QR"}
Inverses == {"LU_inverse", "ff_LU_inverse", "jordan_inverse"}
MatrixFunctions ==
  Eliminating \cup SquareEliminating \cup Solvers \cup Decomposing \cup Inverses
    \cup {"bareis", "berkowitz", "char_poly"}

SymbolIndex == symbol("x") :> 0 @@ symbol("y") :> 1
LibraryCalls(f, args) ==
  LET a == args[1]
      b == args[2]
  IN  CASE f \in NumberFunctions -> NumberCall(f, a, b, args)
        [] f \in MatrixFunctions -> MatrixCall(f, a, b)
        [] f = "hash"            -> hash(a)
        [] f = "KeyLess"         -> KeyLess(a, b)
        [] f = "map"             -> MapOf(args)
        [] f = "eq_perm"         -> vec_basic_eq_perm(a, b)
        [] f = "multinomial"     -> multinomial_coefficients(a, b)
        [] f = "expr2poly"       -> expr2poly(a, SymbolIndex)
        [] f = "poly_mul"        -> poly_mul(a, b, NoTerms)
        [] f = "mul_expand_two"  -> mul_expand_two(a, b)
        [] OTHER                 -> ExprCalls(f, args)
-----------------------------------------------------------------------------
Ask(f, args) == call' = [f |-> f, args |-> args] /\ result' = Call(f, args)

Arithmetic ==
  \E n \in Operands :
    \/ \E d \in Operands, f \in {"quotient_f", "quotient_mod", "mod", "gcd", "lcm", "divides"} :
         Ask(f, <<n, d>>)
    \/ \E k \in Degrees : Ask("binomial", <<n, k>>)
    \/ \E f \in {"probab_prime_p", "nextprime"} : Ask(f, <<n>>)

Factoring ==
  \E n \in SomeModuli :
    \/ \E f \in {"factor", "trial_division", "lehman"} : Ask(f, <<n>>)
    \/ \E c \in Draws : c < n - 4 /\ Ask("pollard_pm1", <<n, <<c>>>>)
    \/ \E a, s \in Draws : a < n - 1 /\ s < n - 4 /\ Ask("pollard_rho", <<n, <<<<a, s>>>>>>)
    \/ \E s \in {-1, 1}, f \in {"prime_factors", "multiplicities"} : Ask(f, <<s * n>>)

Multiplicative ==
  \E n \in SomeModuli :
    \/ \E f \in {"totient", "carmichael", "primitive_root", "primitive_root_list"} : Ask(f, <<n>>)
    \/ \E a \in Operands, f \in {"order", "kronecker"} : Ask(f, <<a, n>>)

Congruences ==
  \E m \in SomeModuli :
    \/ \E a \in Operands :
         \/ \E f \in {"gcd_ext", "mod_inverse"} : Ask(f, <<a, m>>)
         \/ \E n \in Degrees, f \in {"nthroot_mod", "nthroot_mod_list"} : Ask(f, <<a, n, m>>)
         \/ \E e \in {<<-1, 1>>, <<3, 1>>, <<-1, 2>>, <<3, 2>>, <<-2, 3>>},
               f \in {"powermod", "powermod_list"} : Ask(f, <<a, e[1], e[2], m>>)
    \/ \E m2 \in SomeModuli, a, b \in Draws :
         m <= 12 /\ m2 <= 12 /\ Ask("crt", <<<<a, b>>, <<m, m2>>>>)

LargeRoots == \E a \in Radicands : Ask("nthroot_mod", <<a, 2, LargePrime>>)

Eliminations ==
  \/ \E M \in Matrices \cup Wide, f \in Eliminating : Ask(f, <<M>>)
  \/ \E M \in Matrices, f \in SquareEliminating : Ask(f, <<M>>)

Columns(n) == {Dense!Fill(n, 1, LAMBDA i, j : Integer(c[i + 1])) : c \in [1..n -> Right]}
Solutions ==
  \E M \in Matrices, f \in Solvers : \E b \in Columns(M.row) : Ask(f, <<M, b>>)

Times(M, N) == Dense!mul_dense_dense(M, N)
Decompositions ==
  \/ \E M \in Matrices :
       \/ \E f \in {"LU", "ff_LDU"} : Ask(f, <<M>>)
       \/ Dense!is_symmetric_dense(M) /\ Ask("LDL", <<M>>)
  \/ \E L \in Factors : Ask("cholesky", <<Times(L, Dense!transpose_dense(L))>>)
  \/ \E O \in Turns, L \in Factors : Ask("QR", <<Times(O, Dense!transpose_dense(L))>>)

Determinants ==
  \E M \in Matrices, f \in Inverses \cup {"bareis", "berkowitz", "char_poly"} : Ask(f, <<M>>)

\* A std::map that three keys are put into, and the comparison of two lists.
Dictionaries ==
  \E i, j, k \in DOMAIN KeyPool :
    LET a == KeyPool[i]
        b == KeyPool[j]
        c == KeyPool[k]
    IN  \/ i < j /\ j <= k /\ Ask("map", <<a, b, c>>)
        \/ \E t \in {<<b, a>>, <<b, c>>, <<a, b, c>>} :
             {i, j, k} \subseteq 1..8 /\ Ask("eq_perm", <<<<a, b>>, t>>)

PolynomialOf(p) == Call("expr2poly", <<p>>)
PolynomialCalls ==
  \/ \E m \in -1..4, n \in Orders : Ask("multinomial", <<m, n>>)
  \/ \E p \in Sums : Ask("expr2poly", <<p>>)
  \/ \E p, q \in Sums :
       /\ PolynomialOf(p) # Num!None /\ PolynomialOf(q) # Num!None
       /\ call' = [f |-> "poly_mul", args |-> <<p, q>>]
       /\ result' = Call("poly_mul", <<PolynomialOf(p)[1], PolynomialOf(q)[1]>>)

Init == call = NoCall /\ result = Num!None

Next ==
  /\ call = NoCall
  /\ \/ Arithmetic \/ Factoring \/ Multiplicative \/ Congruences \/ LargeRoots
     \/ Eliminations \/ Solutions \/ Decompositions \/ Determinants
     \/ PolynomialCalls \/ Dictionaries

Spec == Init /\ [][Next]_vars
-----------------------------------------------------------------------------
(* Definitions to compare with: numbers *)

Called(fs) == call.f \in fs
arg(k) == call.args[k]
Elements(s) == {s[k] : k \in DOMAIN s}
Distinct(s) == Cardinality(Elements(s)) = Len(s)

Divisors(n) == {d \in 1..n : n % d = 0}
PrimeDivisors(n) == {d \in Divisors(n) : Cardinality(Divisors(d)) = 2}
Proper(d, n) == d \in Divisors(n) \ {1, n}
Coprime(a, n) == \A d \in Divisors(n) : a % d = 0 => d = 1
Units(n) == {a \in 1..n : Coprime(a, n)}

RECURSIVE Power(_, _, _)
Power(a, k, n) == IF k = 0 THEN 1 % n ELSE (a * Power(a, k - 1, n)) % n
Order(a, n) == CHOOSE k \in 1..n : Power(a, k, n) = 1 % n /\ \A h \in 1..(k - 1) : Power(a, h, n) # 1 % n
Generators(n) == {g \in Units(n) : Order(g, n) = Cardinality(Units(n))}
Solves(x, a, n, m) == (Power(x % m, n, m) - a) % m = 0
Solved(a, n, m) == {x \in 0..(m - 1) : Solves(x, a, n, m)}
\* The power of a with an exponent that may be negative; None without inverse.
PowerModulo(a, num, m) ==
  IF num >= 0 THEN <<Power(a % m, num, m)>>
  ELSE IF Coprime(a, m) THEN <<Power(CHOOSE b \in 0..(m - 1) : (a * b) % m = 1 % m, -num, m)>>
  ELSE Num!None
-----------------------------------------------------------------------------
(* Properties: numbers *)

\* A factor that is reported is a proper one; trial division reports the least
\* one, and nothing of a prime; the method of Lehman misses no factor up to the
\* cube root.  The prime factors are all there, as often as they divide.  The
\* least common multiple is one, next to the greatest common divisor; no prime
\* is passed over by nextprime.
FactorsSound ==
  LET n == arg(1)
      m == Num!mpz_abs(n)
  IN  /\ Called({"factor", "trial_division"}) =>
           IF PrimeDivisors(n) \subseteq {n} THEN result.ret = 0
           ELSE result.ret = 1 /\ \A d \in PrimeDivisors(n) : result.f <= d /\ result.f \in PrimeDivisors(n)
      /\ Called({"lehman", "pollard_pm1", "pollard_rho"}) /\ result # Num!Error /\ result.ret = 1 =>
           Proper(result.f, n)
      /\ Called({"lehman"}) /\ result # Num!Error /\ result.ret = 0 => \A d \in PrimeDivisors(n) : d^3 > n
      /\ Called({"prime_factors"}) =>
           /\ Elements(result) = PrimeDivisors(m)
           /\ FoldLeft(LAMBDA x, y : x * y, 1, result) = m
      /\ Called({"multiplicities"}) =>
           /\ DOMAIN result = PrimeDivisors(m)
           /\ \A d \in DOMAIN result : m % d^result[d] = 0 /\ m % d^(result[d] + 1) # 0
      /\ Called({"lcm"}) =>
           LET k == arg(2)
           IN  /\ Num!divides(result, n) /\ Num!divides(result, k)
               /\ Num!mpz_gcd(n, k) * result = Num!mpz_abs(n * k)
      /\ Called({"nextprime"}) =>
           /\ result > n /\ PrimeDivisors(result) = {result}
           /\ \A q \in (Num!mpz_abs(n) + 1)..(result - 1) : PrimeDivisors(q) # {q}

\* The group of units: its order, its exponent, the orders of its elements and
\* its generators, all of them where a list is asked for.  The symbol of
\* Kronecker agrees with the squares where the modulus is an odd prime, and is
\* multiplicative elsewhere.
UnitsSound ==
  LET n == Last(call.args)
      a == arg(1)
  IN  /\ Called({"totient"}) => result = Cardinality(Units(n))
      /\ Called({"carmichael"}) =>
           /\ \A u \in Units(n) : Power(u, result, n) = 1 % n
           /\ \A d \in Divisors(result) \ {result} : \E u \in Units(n) : Power(u, d, n) # 1 % n
      /\ Called({"order"}) => result = IF Coprime(a, n) THEN <<Order(a % n, n)>> ELSE Num!None
      /\ Called({"primitive_root"}) /\ n > 1 =>
           IF result = Num!None THEN Generators(n) = {} ELSE result[1] \in Generators(n)
      /\ Called({"primitive_root_list"}) /\ n > 1 =>
           Elements(result) = Generators(n) /\ Distinct(result)
      /\ Called({"kronecker"}) /\ n > 2 /\ PrimeDivisors(n) = {n} =>
           result = IF a % n = 0 THEN 0 ELSE IF Solved(a, 2, n) # {} THEN 1 ELSE -1

\* Roots and powers: what is reported solves the congruence, nothing is reported
\* when there is no solution, and a list has every solution once (up to the
\* modulus).  Quotients are rounded down, so that the remainder has the sign of
\* the divisor; mod differs from it for a negative divisor, as it gives what is
\* not negative.  Binomials of any sign add up as in the triangle of Pascal.
\* Left out: the root of an even degree of a negative number modulo a
\* multiple of 4, where the remainder of the negative number is taken for that
\* of a positive one (ntheory.cpp:1212).
Misread(a, n, m) == a < 0 /\ n % 2 = 0 /\ m % 4 = 0
RootOf(a, n, m) ==
  IF result = Num!None THEN Solved(a, n, m) = {} ELSE Solves(result[1], a, n, m)
AllRoots(a, n, m) ==
  /\ {x % m : x \in Elements(result)} = Solved(a, n, m)
  /\ Len(result) = Cardinality(Solved(a, n, m))
Quotient(n, d) ==
  /\ Called({"quotient_mod"}) => /\ n = result.q * d + result.r /\ result.q = Num!quotient_f(n, d)
                                 /\ Num!mpz_abs(result.r) < Num!mpz_abs(d) /\ result.r * d >= 0
  /\ Called({"mod"}) => result \in 0..(Num!mpz_abs(d) - 1) /\ Num!divides(n - result, d)
CongruencesSound ==
  LET a == arg(1)
      m == Last(call.args)
      r == PowerModulo(a, arg(2), m)
  IN  /\ Called({"quotient_mod", "mod"}) /\ m # 0 => Quotient(a, m)
      /\ Called({"binomial"}) => Num!binomial(a + 1, m + 1) = result + Num!binomial(a, m + 1)
      /\ Called({"gcd_ext"}) => /\ result.g = result.s * a + result.t * m
                                /\ a % result.g = 0 /\ m % result.g = 0
      /\ Called({"mod_inverse"}) /\ m > 1 =>
           IF result.ret THEN (a * result.b) % m = 1 ELSE ~Coprime(a, m)
      /\ Called({"nthroot_mod"}) /\ ~Misread(a, arg(2), m) => RootOf(a, arg(2), m)
      /\ Called({"nthroot_mod_list"}) /\ ~Misread(a, arg(2), m) => AllRoots(a, arg(2), m)
      /\ Called({"powermod"}) =>
           IF r = Num!None THEN result = Num!None ELSE RootOf(r[1], arg(3), m)
      /\ Called({"powermod_list"}) =>
           IF r = Num!None THEN result = Num!None ELSE AllRoots(r[1], arg(3), m)
      /\ Called({"crt"}) =>
           LET Fits(x) == \A k \in 1..2 : (x - arg(1)[k]) % arg(2)[k] = 0
           IN  IF result = Num!None THEN \A x \in 0..(arg(2)[1] * arg(2)[2]) : ~Fits(x)
               ELSE Fits(result[1])
-----------------------------------------------------------------------------
(* Definitions to compare with: matrices *)


RECURSIVE Minor(_, _, _)
\* The determinant of the rows and columns in two sequences of indexes, by its
\* expansion along the first row.
Minor(M, rows, cols) ==
  IF rows = <<>> THEN one
  ELSE FoldLeft(LAMBDA s, k :
                  LET c == mulnum(M.m[rows[1], cols[k]], Minor(M, Tail(rows), RemoveAt(cols, k)))
                  IN  addnum(s, IF k % 2 = 1 THEN c ELSE Dense!neg(c)),
                zero, [k \in DOMAIN cols |-> k])
First(n) == [k \in 1..n |-> k - 1]
Det(M) == Minor(M, First(M.row), First(M.row))
Increasing(n, k) == {s \in [1..k -> 0..(n - 1)] : \A h \in 1..(k - 1) : s[h] < s[h + 1]}
HasRank(M, k) ==
  \E rows \in Increasing(M.row, k), cols \in Increasing(M.col, k) : Minor(M, rows, cols) # zero
RankOf(M) == CHOOSE k \in 0..M.row : HasRank(M, k) /\ ~HasRank(M, k + 1)
Stacked(M, N) ==
  Dense!Fill(M.row + N.row, M.col, LAMBDA i, j : IF i < M.row THEN M.m[i, j] ELSE N.m[i - M.row, j])
SameRows(M, N) == RankOf(M) = RankOf(N) /\ RankOf(Stacked(M, N)) = RankOf(M)

\* Every leading minor up to order n is there: elimination needs no exchange.
Regular(M, n) == \A k \in 1..n : Minor(M, First(k), First(k)) # zero
Permuted(M, list) == Dense!Fill(M.row, M.col, LAMBDA i, j : M.m[list[i], j])
Triangular(M) == \A c \in DOMAIN M.m : c[1] > c[2] => M.m[c] = zero
Diagonal(M) == \A c \in DOMAIN M.m : c[1] # c[2] /\ c[2] < M.row => M.m[c] = zero
\* Every column up to the last gave a pivot.
NoneSkipped(st, M) == st.index >= (IF M.col - 1 < M.row THEN M.col - 1 ELSE M.row)
EntryIsMinor(M, B, i, j) == B.m[i, j] = Minor(M, First(i + 1), Append(First(i), j))

Reduced(B, index) ==
  \A i \in 0..(B.row - 1) :
    LET cols == {j \in 0..(B.col - 1) : B.m[i, j] # zero}
        lead == CHOOSE j \in cols : \A k \in cols : j <= k
    IN  IF i >= index THEN cols = {}
        ELSE B.m[i, lead] = one /\ \A h \in (0..(B.row - 1)) \ {i} : B.m[h, lead] = zero
-----------------------------------------------------------------------------
(* Properties: matrices *)

\* An elimination leaves the space of the rows as it was, and zeros where it
\* promises them; the entries of the fraction-free ones are minors of the
\* matrix, so that its divisions leave no fractions; the list of pivots is the
\* order that the rows were taken in.  Left out, but for the elimination of
\* Jordan with pivots: matrices where a column gives no pivot, as the code goes
\* on with the row of the column's number (dense_matrix.cpp:320), and those
\* where a pivot must be sought and no pivot is (:346).
EliminationSound ==
  LET M == arg(1)
      n == IF M.col - 1 < M.row THEN M.col - 1 ELSE M.row
      B == result.B
  IN  /\ Called({"gauss"}) /\ NoneSkipped(result, M) =>
           SameRows(M, B) /\ Triangular(B)
      /\ Called({"ff_gauss"}) /\ Regular(M, n) =>
           /\ Triangular(result)
           /\ \A c \in DOMAIN M.m : c[1] <= c[2] => EntryIsMinor(M, result, c[1], c[2])
      /\ Called({"pivoted_ff_gauss"}) /\ NoneSkipped(result, M) =>
           /\ Triangular(B)
           /\ \A c \in DOMAIN M.m :
                c[1] <= c[2] => EntryIsMinor(Permuted(M, result.list), B, c[1], c[2])
      /\ Called({"jordan"}) =>
           SameRows(M, B) /\ RankOf(M) = result.index /\ Reduced(B, result.index)
      /\ Called({"ff_jordan"}) /\ Regular(M, M.row) =>
           Diagonal(result) /\ \A i \in 0..(M.row - 1) : result.m[i, i] = Det(M)
      /\ Called({"pivoted_ff_jordan"}) /\ Det(M) # zero =>
           Diagonal(B) /\ \A i \in 0..(M.row - 1) : B.m[i, i] = Det(Permuted(M, result.list))

\* The factors of a decomposition have their shape and give the matrix back,
\* and so do the inverses; what a solver gives solves the system, for a matrix
\* with no zero among its leading minors: without a search for pivots the other
\* ones divide by zero, which gives zero (pow.cpp:169).  Determinants by
\* elimination, by the recursion of Berkowitz and by definition agree for every
\* matrix, and the characteristic polynomial is the determinant of k - M for
\* every number k.
ValueAt(poly, k) ==
  FoldLeft(LAMBDA v, i : addnum(mulnum(v, Integer(k)), poly.m[i, 0]), zero, First(poly.row))
Shifted(M, k) ==
  Dense!add_dense_dense(Dense!mul_dense_scalar(Dense!eye(M.row, 0, 0), Integer(k)),
                        Dense!mul_dense_scalar(M, minus_one))
DecompositionSound ==
  LET M == arg(1)
      n == M.row
      T(N) == Dense!transpose_dense(N)
      Inverted(D) == Dense!Fill(n, n, LAMBDA i, j : Dense!div(D.m[i, j], mulnum(D.m[i, i], D.m[i, i])))
      b == arg(2)
  IN  /\ Called(Solvers) /\ Regular(M, n) =>
           \/ result = Dense!NotSymmetric /\ ~Dense!is_symmetric_dense(M)
           \/ Times(M, result) = b
      /\ Called({"LU"}) /\ Regular(M, n - 1) =>
           Triangular(T(result.L)) /\ Triangular(result.U) /\ Times(result.L, result.U) = M
      /\ Called({"ff_LDU"}) /\ Regular(M, n - 1) =>
           /\ Triangular(T(result.L)) /\ Triangular(result.U) /\ Diagonal(result.D)
           /\ Times(Times(result.L, Inverted(result.D)), result.U) = M
      /\ Called({"LDL"}) /\ Regular(M, n - 1) =>
           /\ Triangular(T(result.L)) /\ Diagonal(result.D)
           /\ Times(Times(result.L, result.D), T(result.L)) = M
      /\ Called({"cholesky"}) => Triangular(T(result)) /\ Times(result, T(result)) = M
      /\ Called({"QR"}) =>
           /\ Triangular(result.R) /\ Times(result.Q, result.R) = M
           /\ Times(T(result.Q), result.Q) = Dense!Identity(n)
      /\ Called({"bareis", "berkowitz"}) => result = Det(M)
      /\ Called({"char_poly"}) => \A k \in -2..2 : ValueAt(result, k) = Det(Shifted(M, k))
      /\ Called(Inverses) /\ Regular(M, n) => Times(M, result) = Dense!Identity(n)
-----------------------------------------------------------------------------
(* Properties: dictionaries and polynomials *)

\* The classes whose compare() does not see all of what makes objects differ,
\* or compares the wrong parts (pow.cpp:515, functions.cpp:1130, 1746, 2439,
\* 2625).
Misordered(e) == e.t \in {"Log", "ATan2", "Subs", "KroneckerDelta", "Zeta"}

\* A std::map has each of the keys that were put in once, in an order that is
\* total and does not depend on the order of insertion, also where different
\* keys have the same hash value.  Left out: two keys of a class whose order is
\* wrong that do have the same hash value.  Two lists are found equal up to
\* their order when they are, if the first one has no element twice.
DictionariesExact ==
  LET Colliding(a, b) == a # b /\ Misordered(a) /\ a.t = b.t /\ Call("hash", <<a>>) = Call("hash", <<b>>)
      keys == Elements(call.args)
  IN  /\ Called({"map"}) /\ (\A a, b \in keys : ~Colliding(a, b)) =>
           /\ Elements(result) = keys /\ Distinct(result)
           /\ \A h, l \in DOMAIN result : Call("KeyLess", <<result[h], result[l]>>) <=> h < l
      /\ Called({"eq_perm"}) /\ Distinct(arg(1)) =>
           result = (Len(arg(2)) = 2 /\ Elements(arg(1)) = Elements(arg(2)))

\* The multinomial coefficients of order n are there, one for every tuple of m
\* numbers with the sum n and no other one, and the recurrence that gives them
\* leaves no remainders.  The product of the polynomials of two sums is the
\* polynomial of what expand makes of the product of the sums.  Left out: sums with a number,
\* which their polynomials have not (rings.cpp:14).
Without0(P) == [v \in {v \in DOMAIN P : P[v] # 0} |-> P[v]]
PolynomialsSound ==
  LET m == arg(1)
      n == arg(2)
      tuples == {t \in [0..(m - 1) -> 0..n] : FoldFunction(+, 0, t) = n}
  IN  /\ Called({"multinomial"}) =>
           IF m < 2 \/ n < 0 THEN result = Num!None
           ELSE result = <<[t \in tuples |-> Multinomial(t, n)]>>
      /\ Called({"poly_mul"}) /\ is_zero(m.coef) /\ is_zero(n.coef) =>
           Without0(result) = Without0(PolynomialOf(Call("mul_expand_two", <<m, n>>))[1])
=============================================================================
