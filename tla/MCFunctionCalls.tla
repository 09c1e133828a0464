-------------------------- MODULE MCFunctionCalls --------------------------
(* Small instances of FunctionCalls for TLC.                              *)
EXTENDS FunctionCalls

x == symbol("x")
y == symbol("y")

\* In the field of integers modulo 241, where 7 generates all numbers.
Values == ("x" :> Variable(107, 13, 17)) @@ ("y" :> Fixed(32, 29, 41))

Terms == {x, y, Integer(-1)}
Twelfth(n) == divnum(Integer(n), Integer(12))
Circle == {Twelfth(n) : n \in 1..26}
Quarters == {Twelfth(n) : n \in {1, 6, 12, 18, 24, 42}}
=============================================================================
