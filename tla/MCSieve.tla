------------------------------- MODULE MCSieve -------------------------------
(* Small instances of Sieve for TLC.                                        *)
EXTENDS Sieve, TLC

CONSTANTS i1, i2

\* What the theorems of Sieve_proofs suppose.
ASSUME InstanceAssumption == OneSegment /\ Bertrand

Symmetry == {[i \in {i1, i2} |-> i], (i1 :> i2 @@ i2 :> i1)}
=============================================================================
