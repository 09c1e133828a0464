---------------------------- MODULE MCCSRMatrix ----------------------------
(* A small instance of CSRMatrix for TLC.                                 *)
EXTENDS CSRMatrix

\* Two triplets give every order, a sum and a sum of zero.  The first element
\* is positive: subtraction gives the other signs.
Pairs ==
  {coo \in SeqOf([i : 0..Row-1, j : 0..Col-1, x : {-1, 1}], 2) :
     coo # <<>> => coo[1].x = 1}

Signs == {-1, 0, 1}
ZeroOrMinusOne == {0, -1}
=============================================================================
