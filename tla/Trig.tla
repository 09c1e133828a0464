-------------------------------- MODULE Trig --------------------------------
(***************************************************************************)
(* The trigonometric functions and their inverses (src/src/functions.cpp   *)
(* and the tables of src/src/constants.cpp): how a call simplifies its     *)
(* argument, and the objects it makes.                                     *)
(***************************************************************************)
EXTENDS Expr

pi == Constant("pi")
sqrt(arg) == pow(arg, div(one, Integer(2)))

\* What reading a table outside of its bounds gives: anything.
Garbage == [t |-> "Garbage"]

Sin(arg) == [t |-> "Sin", arg |-> arg]
Cos(arg) == [t |-> "Cos", arg |-> arg]
Tan(arg) == [t |-> "Tan", arg |-> arg]
Cot(arg) == [t |-> "Cot", arg |-> arg]
Csc(arg) == [t |-> "Csc", arg |-> arg]
Sec(arg) == [t |-> "Sec", arg |-> arg]
ASin(arg) == [t |-> "ASin", arg |-> arg]
ACos(arg) == [t |-> "ACos", arg |-> arg]
ASec(arg) == [t |-> "ASec", arg |-> arg]
ACsc(arg) == [t |-> "ACsc", arg |-> arg]
ATan(arg) == [t |-> "ATan", arg |-> arg]
ACot(arg) == [t |-> "ACot", arg |-> arg]
ATan2(num, den) == [t |-> "ATan2", num |-> num, den |-> den]
-----------------------------------------------------------------------------
(* constants.cpp *)

i2 == Integer(2)
i3 == Integer(3)
i5 == Integer(5)
sq2 == sqrt(i2)
sq3 == sqrt(i3)
sq5 == sqrt(i5)

C0 == div(sub(sq3, one), mul(i2, sq2))
C1 == div(one, i2)
C2 == div(sq2, i2)
C3 == div(sq3, i2)
C4 == div(add(sq3, one), mul(i2, sq2))
C5 == div(sqrt(sub(i5, sq5)), Integer(8))
C6 == div(sub(sq5, one), Integer(4))

FirstQuarter == <<zero, C0, C1, C2, C3, C4, one>>
sin_table ==
  [i \in 0..23 |->
     LET j == i % 12
         c == FirstQuarter[1 + IF j <= 6 THEN j ELSE 12 - j]
     IN  IF i < 12 THEN c ELSE neg(c)]

\* A table and what it says of the negative arguments.
WithNegatives(d) ==
  d @@ [k \in {neg(j) : j \in DOMAIN d} |-> neg(d[CHOOSE j \in DOMAIN d : neg(j) = k])]

\* [value -> the n for which pi/n has that sine]
inverse_cst ==
  WithNegatives(C3 :> i3 @@ C2 :> Integer(4) @@ C4 :> Integer(12) @@ C5 :> i5
                @@ C6 :> Integer(10) @@ C1 :> Integer(6))

\* [value -> the n for which pi/n has that tangent]
inverse_tct ==
  WithNegatives(div(one, sq3) :> Integer(6) @@ sq3 :> i3
                @@ add(one, sq2) :> Rational(8, 3)
                @@ sqrt(add(i5, mul(i2, sq5))) :> Rational(5, 2) @@ one :> Integer(4))
  @@ sub(sq2, one) :> Integer(8) @@ sub(one, sq2) :> Integer(-8)
  @@ sub(i2, sq3) :> Integer(12) @@ sub(sq3, i2) :> Integer(-12)
-----------------------------------------------------------------------------
(* The argument of a function *)

NoShift == [ok |-> FALSE, n |-> zero, x |-> zero]
Shift(n, x) == [ok |-> TRUE, n |-> n, x |-> x]
Twelfths(c) == mul(c, Integer(12))

ShiftIfWhole(n, x) == IF is_Integer(n) THEN Shift(n, x) ELSE NoShift
WithoutPi(sum) ==
  FoldSet(LAMBDA k, x : add(mul(k, sum.dict[k]), x), sum.coef, DOMAIN sum.dict \ {pi})

\* arg as x + n*pi/12, where it has that form.
get_pi_shift(arg) ==
  CASE is_a("Add", arg) /\ pi \in DOMAIN arg.dict ->
         ShiftIfWhole(Twelfths(arg.dict[pi]), WithoutPi(arg))
    [] is_a("Mul", arg) /\ arg.dict = (pi :> one) -> ShiftIfWhole(Twelfths(arg.coef), zero)
    [] arg = pi -> Shift(Integer(12), zero)
    [] OTHER -> NoShift

\* (The constant of a sum is not looked at.)
could_extract_minus(arg) ==
  CASE is_a("Mul", arg) -> is_negative(arg.coef)
    [] is_a("Add", arg) -> \A k \in DOMAIN arg.dict : is_negative(arg.dict[k])
    [] OTHER            -> FALSE

handle_minus(arg) ==
  IF could_extract_minus(arg) THEN [arg |-> mul(minus_one, arg), minus |-> TRUE]
                              ELSE [arg |-> arg, minus |-> FALSE]

\* The remainder of C++, which has the sign of a.
Rem(a, b) == IF a >= 0 THEN a % b ELSE -((-a) % b)

SignOf(flipped) == IF flipped THEN -1 ELSE 1
Reduced(conjugate, arg, index, sign) ==
  [conjugate |-> conjugate, arg |-> arg, index |-> index, sign |-> sign]

\* Mutant of ReducedBy: does not turn the sign over after half a period.
ReducedBy_no_half(s, h, m, odd, conj_odd) ==
  CASE ~s.ok -> Reduced(FALSE, h.arg, -1, SignOf(odd /\ h.minus))
    [] s.ok /\ s.x = zero -> Reduced(FALSE, zero, m, 1)
    [] s.ok /\ s.x # zero /\ m % 12 = 0 -> Reduced(FALSE, h.arg, 0, SignOf(odd /\ h.minus))
    [] s.ok /\ s.x # zero /\ m % 12 # 0 /\ m % 6 = 0 ->
         Reduced(TRUE, h.arg, 0, SignOf(m # 6) * SignOf(~h.minus /\ conj_odd))
    [] OTHER -> Reduced(FALSE, s.x, -1, 1)

\* What is left of the shifted argument s, without its sign (h), where the
\* multiple of pi is m twelfths up to a period.
ReducedBy(s, h, m, odd, conj_odd) ==
  CASE ~s.ok -> Reduced(FALSE, h.arg, -1, SignOf(odd /\ h.minus))
    [] s.ok /\ s.x = zero -> Reduced(FALSE, zero, m, 1)
    [] s.ok /\ s.x # zero /\ m % 12 = 0 ->
         Reduced(FALSE, h.arg, 0, SignOf(m # 0) * SignOf(odd /\ h.minus))
    [] s.ok /\ s.x # zero /\ m % 12 # 0 /\ m % 6 = 0 ->
         Reduced(TRUE, h.arg, 0, SignOf(m # 6) * SignOf(~h.minus /\ conj_odd))
    [] OTHER -> Reduced(FALSE, s.x, -1, 1)

Unshifted(s, arg) == IF s.ok THEN s.x ELSE arg
ReducedFrom(s, arg, period, odd, conj_odd) ==
  ReducedBy(s, handle_minus(Unshifted(s, arg)), Rem(s.n.n, 12 * period), odd, conj_odd)

\* The argument with the multiple of pi, and the sign, taken off; or the place
\* of the value in the table.  Whether the conjugate function is to be returned.
eval(arg, period, odd, conj_odd) == ReducedFrom(get_pi_shift(arg), arg, period, odd, conj_odd)
-----------------------------------------------------------------------------
(* The functions *)

SinAt(index) == IF index \in 0..23 THEN sin_table[index] ELSE Garbage
CosAt(index) == SinAt(Rem(index + 6, 24))
Ratio(x, y) == IF Garbage \in {x, y} THEN Garbage ELSE div(x, y)

Signed(sign, e) == IF sign = 1 THEN e ELSE mul(minus_one, e)

\* What is returned for the argument r: a function, its conjugate, or a value
\* from the table.
Simplified(r, function, conjugate, value) ==
  CASE r.conjugate                   -> Signed(r.sign, conjugate)
    [] ~r.conjugate /\ r.arg # zero  -> Signed(r.sign, function)
    [] ~r.conjugate /\ r.arg = zero  -> IF value = Garbage THEN Garbage
                                        ELSE mul(Integer(r.sign), value)

SinReduced(r) == Simplified(r, Sin(r.arg), Cos(r.arg), SinAt(r.index))
CosReduced(r) == Simplified(r, Cos(r.arg), Sin(r.arg), CosAt(r.index))
TanReduced(r) == Simplified(r, Tan(r.arg), Cot(r.arg), Ratio(SinAt(r.index), CosAt(r.index)))
CotReduced(r) == Simplified(r, Cot(r.arg), Tan(r.arg), Ratio(CosAt(r.index), SinAt(r.index)))
CscReduced(r) == Simplified(r, Csc(r.arg), Sec(r.arg), Ratio(one, SinAt(r.index)))
SecReduced(r) == Simplified(r, Sec(r.arg), Csc(r.arg), Ratio(one, CosAt(r.index)))

sin(arg) == IF arg = zero THEN zero ELSE SinReduced(eval(arg, 2, TRUE, FALSE))
cos(arg) == IF arg = zero THEN one ELSE CosReduced(eval(arg, 2, FALSE, TRUE))
tan(arg) == IF arg = zero THEN zero ELSE TanReduced(eval(arg, 1, TRUE, TRUE))
cot(arg) == CotReduced(eval(arg, 1, TRUE, TRUE))
csc(arg) == CscReduced(eval(arg, 2, TRUE, FALSE))
sec(arg) == SecReduced(eval(arg, 2, FALSE, TRUE))

Angle(n) == div(pi, n)
\* The angle whose cosine is the sine of pi/n.
Coangle(n) == IF could_extract_minus(n) THEN add(pi, Angle(n)) ELSE sub(Angle(i2), Angle(n))

asin(arg) ==
  CASE arg = zero -> zero
    [] arg = one -> Angle(i2)
    [] arg = minus_one -> neg(Angle(i2))
    [] arg \in DOMAIN inverse_cst -> Angle(inverse_cst[arg])
    [] OTHER -> ASin(arg)
acos(arg) ==
  CASE arg = zero -> Angle(i2)
    [] arg = one -> zero
    [] arg = minus_one -> pi
    [] arg \in DOMAIN inverse_cst -> Coangle(inverse_cst[arg])
    [] OTHER -> ACos(arg)
asec(arg) ==
  LET inverse == div(one, arg)
  IN  CASE arg = one -> zero
        [] arg = minus_one -> pi
        [] arg \notin {one, minus_one} /\ inverse \in DOMAIN inverse_cst ->
             Coangle(inverse_cst[inverse])
        [] OTHER -> ASec(arg)
acsc(arg) ==
  LET inverse == div(one, arg)
  IN  CASE arg = one -> Angle(i2)
        [] arg = minus_one -> Angle(Integer(-2))
        [] arg \notin {one, minus_one} /\ inverse \in DOMAIN inverse_cst ->
             Angle(inverse_cst[inverse])
        [] OTHER -> ACsc(arg)
atan(arg) ==
  CASE arg = zero -> zero
    [] arg = one -> Angle(Integer(4))
    [] arg = minus_one -> neg(Angle(Integer(4)))
    [] arg \notin {zero, one, minus_one} /\ arg \in DOMAIN inverse_tct -> Angle(inverse_tct[arg])
    [] OTHER -> ATan(arg)
acot(arg) ==
  CASE arg = zero -> Angle(i2)
    [] arg = one -> Angle(Integer(4))
    [] arg = minus_one -> mul(i3, Angle(Integer(4)))
    [] arg \notin {zero, one, minus_one} /\ arg \in DOMAIN inverse_tct -> Coangle(inverse_tct[arg])
    [] OTHER -> ACot(arg)

\* The angle of the point (den, num).
atan2(num, den) ==
  LET quotient == div(num, den)
      angle == Angle(inverse_tct[quotient])
      Axis(n, negative, positive) ==
        CASE is_zero(n) -> Thrown
          [] is_negative(n) -> negative
          [] OTHER -> positive
      Numbers2 == is_a_Number(num) /\ is_a_Number(den)
  IN  CASE num = zero /\ is_a_Number(den) -> Axis(den, pi, zero)
        [] num # zero /\ den = zero /\ is_a_Number(num) ->
             Axis(num, Angle(i2), Angle(Integer(-2)))
        [] OTHER ->
             IF quotient \notin DOMAIN inverse_tct THEN ATan2(num, den)
             ELSE CASE Numbers2 /\ is_negative(den) ->
                         IF is_negative(num) THEN sub(angle, pi) ELSE add(angle, pi)
                    [] OTHER -> angle
-----------------------------------------------------------------------------
(* What the constructors assert *)

IsZero(arg) == is_Integer(arg) /\ is_zero(arg)
HasTableValue(arg) == IsZero(arg) \/ get_pi_shift(arg).ok

Sin_is_canonical(arg) == ~HasTableValue(arg)
Cos_is_canonical(arg) == ~HasTableValue(arg)
Tan_is_canonical(arg) == ~HasTableValue(arg)
Cot_is_canonical(arg) == ~HasTableValue(arg)
Csc_is_canonical(arg) == ~HasTableValue(arg)
Sec_is_canonical(arg) == ~HasTableValue(arg)

ASin_is_canonical(arg) == arg \notin {zero, one, minus_one} \cup DOMAIN inverse_cst
ACos_is_canonical(arg) == arg \notin {zero, one, minus_one} \cup DOMAIN inverse_cst
ASec_is_canonical(arg) == arg \notin {one, minus_one} /\ div(one, arg) \notin DOMAIN inverse_cst
ACsc_is_canonical(arg) == arg \notin {one, minus_one} /\ div(one, arg) \notin DOMAIN inverse_cst
ATan_is_canonical(arg) == arg \notin {zero, one, minus_one} \cup DOMAIN inverse_tct
\* (The table of sines, not of tangents.)
ACot_is_canonical(arg) == arg \notin {zero, one, minus_one} \cup DOMAIN inverse_cst
ATan2_is_canonical(num, den) ==
  num \notin {zero, den, mul(minus_one, den)} /\ div(num, den) \notin DOMAIN inverse_tct
-----------------------------------------------------------------------------
(* Derivatives and substitution *)

\* The derivative of a trigonometric function with respect to its argument.
Slope(e) ==
  LET a == e.arg
      a2 == pow(a, i2)
  IN  CASE is_a("Sin", e) -> cos(a)
        [] is_a("Cos", e) -> mul(minus_one, sin(a))
        [] is_a("Tan", e) -> add(one, pow(tan(a), i2))
        [] is_a("Cot", e) -> mul(add(one, pow(cot(a), i2)), minus_one)
        [] is_a("Csc", e) -> mul(mul(cot(a), csc(a)), minus_one)
        [] is_a("Sec", e) -> mul(tan(a), sec(a))
        [] is_a("ASin", e) -> div(one, sqrt(sub(one, a2)))
        [] is_a("ACos", e) -> div(minus_one, sqrt(sub(one, a2)))
        [] is_a("ASec", e) -> div(one, mul(a2, sqrt(sub(one, div(one, a2)))))
        [] is_a("ACsc", e) -> div(minus_one, mul(a2, sqrt(sub(one, div(one, a2)))))
        [] is_a("ATan", e) -> div(one, add(one, a2))
        [] is_a("ACot", e) -> div(minus_one, add(one, a2))

\* Mutant of Trig_diff: forgets the derivative of the argument.
Trig_diff_outer(e, x) == Slope(e)

Trig_diff(e, x) == mul(Slope(e), diff(e.arg, x))

ATan2_diff(e, x) ==
  LET n2 == pow(e.num, i2)
      d2 == pow(e.den, i2)
  IN  mul(div(d2, add(d2, n2)), diff(div(e.num, e.den), x))

\* create(arg) of the class of e
CreateTrig(e, arg) ==
  CASE is_a("Sin", e) -> sin(arg)
    [] is_a("Cos", e) -> cos(arg)
    [] is_a("Tan", e) -> tan(arg)
    [] is_a("Cot", e) -> cot(arg)
    [] is_a("Csc", e) -> csc(arg)
    [] is_a("Sec", e) -> sec(arg)
    [] is_a("ASin", e) -> asin(arg)
    [] is_a("ACos", e) -> acos(arg)
    [] is_a("ASec", e) -> asec(arg)
    [] is_a("ACsc", e) -> acsc(arg)
    [] is_a("ATan", e) -> atan(arg)
    [] is_a("ACot", e) -> acot(arg)

\* Mutant of Trig_subs: substitutes only for the argument as a whole.
Trig_subs_whole(e, s) == IF e.arg \in DOMAIN s THEN CreateTrig(e, s[e.arg]) ELSE e

Trig_subs(e, s) == IF Untouched(e.arg, s) THEN e ELSE CreateTrig(e, subs(e.arg, s))
=============================================================================
