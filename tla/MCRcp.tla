------------------------------- MODULE MCRcp -------------------------------
(* A small instance of Rcp for TLC.                                        *)
EXTENDS Rcp, TLC

CONSTANTS t1, t2, s1, s2, s3, o1, o2, o3

\* Two threads: one with two variables and one with one.
TwoOwners == (s1 :> t1) @@ (s2 :> t1) @@ (s3 :> t2)
=============================================================================
