---------------------------- MODULE MCAlgorithms ----------------------------
(* A small instance of Algorithms for TLC. *)
EXTENDS Algorithms

UpTo64 == 1..64 \cup {72, 81, 100, 121, 125, 128, 143}
Small == -3..12
Exponents == {1, 2, 3, 4, 6, 9}
RightSides == {-1, 2}
SomeSquares == {2, 4, 5, 7, 10, 1234}

Square(n, rows) == Dense!Fill(n, n, LAMBDA i, j : Integer(rows[i + 1][j + 1]))

Order2 == {Square(2, <<<<c[1], c[2]>>, <<c[3], c[4]>>>>) : c \in [1..4 -> {-1, 0, 2}]}
Order3 == {Square(3, <<<<c[1], c[2], c[3]>>, <<c[4], 1, c[5]>>, <<c[6], c[7], 2>>>>) :
             c \in [1..7 -> 0..1]}
Order4 == {Square(4, <<<<a, 1, 0, 2>>, <<1, b, 1, 0>>, <<0, 1, c, 1>>, <<2, 0, 1, d>>>>) :
             a, b, c, d \in 0..1}
AllMatrices == {Square(1, <<<<3>>>>)} \cup Order2 \cup Order3 \cup Order4

Wide23 == {Dense!Fill(2, 3, LAMBDA i, j : Integer(c[3 * i + j + 1])) : c \in [1..6 -> {0, 1, 2}]}

Lower == {Square(3, <<<<a, 0, 0>>, <<1, b, 0>>, <<c, -1, 2>>>>) : a, b, c \in 1..2}
Rotations == {Square(3, <<<<0, 1, 0>>, <<0, 0, 1>>, <<1, 0, 0>>>>),
              Square(3, <<<<-1, 0, 0>>, <<0, 0, 1>>, <<0, 1, 0>>>>)}

-----------------------------------------------------------------------------
x == symbol("x")
y == symbol("y")
pi == Constant("pi")
N(n) == Integer(n)
One(type, a) == [t |-> type, arg |-> a]
Many(type, args) == [t |-> type, args |-> args]
f(args) == [t |-> "FunctionSymbol", name |-> "f", args |-> args]
d(e, s) == [t |-> "Derivative", arg |-> e, args |-> s]

\* In words of three bits the numbers 1, 5 and 9 have the same hash value, and
\* so have expressions that differ in these; the name g has that of 5.
StringOrder == <<"E", "f", "g", "pi", "x", "y">>
StringHash == <<3, 6, 1, 0, 2, 2>>
SomeKeys ==
  <<x, y, N(1), N(5), N(-3), Rational(1, 2), Rational(9, 2), pi,
    E, symbol("g"), N(9),
    pow(x, N(5)), pow(x, N(9)), pow(y, N(5)),
    mul(N(5), x), mul(N(9), x),
    add(x, N(1)), add(x, N(5)), add(x, y),
    One("Sin", x), One("Sin", y), One("Gamma", x),
    One("Log", N(5)), One("Log", N(9)),
    f(<<x>>), f(<<x, N(5)>>), f(<<x, N(9)>>),
    d(f(<<x>>), <<x>>), d(f(<<x, y>>), <<x>>),
    Many("LeviCivita", <<x, N(5)>>), Many("LowerGamma", <<x, N(5)>>), Many("LowerGamma", <<x, N(1)>>),
    Many("KroneckerDelta", <<x, N(5)>>), Many("Zeta", <<x, N(1)>>),
    [t |-> "Subs", arg |-> d(f(<<x>>), <<x>>), dict |-> x :> N(5)],
    [t |-> "ATan2", num |-> x, den |-> y]>>

SomeOrders == {-1, 0, 1, 2, 5}
Monomials == {x, y, mul(x, y), pow(x, N(2)), pow(y, N(3))}
SomeSums ==
  {e \in {add(mul(N(a), m), add(n, N(b))) :
            a \in {-1, 2}, b \in {0, 3}, m, n \in Monomials} : e.t = "Add"}
  \cup {add(x, add(mul(N(-1), y), mul(pow(x, N(2)), y))),
        add(symbol("g"), x), add(mul(Rational(1, 2), x), y)}
=============================================================================
