---------------------------- MODULE MCDiophantine ----------------------------
(* Small instances of Diophantine for TLC. *)
EXTENDS Diophantine

\* Two equations in three unknowns: the coefficients of the first reach 2.
TwoEquations ==
  {[r \in Rows |-> IF r = 0 THEN u ELSE v] : u \in [Cols -> -2..2], v \in [Cols -> -1..1]}
=============================================================================
