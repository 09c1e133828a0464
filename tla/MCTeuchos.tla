----------------------------- MODULE MCTeuchos -----------------------------
(* Small instances of Teuchos for TLC.                                     *)
EXTENDS Teuchos, TLC

CONSTANTS v1, v2, o1, o2, n1, n2

\* Variables, addresses of objects and addresses of nodes are interchangeable.
Symmetry == Permutations({v1, v2}) \cup Permutations({o1, o2})
              \cup Permutations({n1, n2})
=============================================================================
