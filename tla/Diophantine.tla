---------------------------- MODULE Diophantine ----------------------------
(***************************************************************************)
(* homogeneous_lde of src/src/diophantine.cpp: a depth-first search for    *)
(* the minimal solutions of A x = 0 in natural numbers, on a stack P of    *)
(* vectors.  An entry of the stack may not grow in its frozen components;  *)
(* the table Frozen has one row for every entry, and as many rows as A has *)
(* columns.  A vector of bool is the set of the indexes where it is true.  *)
(***************************************************************************)
EXTENDS Integers, Sequences, FiniteSets

CONSTANTS p, q,      \* the rows and the columns of the system
          Systems,   \* the systems that a program solves
          Reach      \* bound on the components of the solutions looked for at the end

ASSUME DimensionAssumption == p \in Nat \ {0} /\ q \in Nat /\ q > 1

Rows == 0..(p - 1)
Cols == 0..(q - 1)
Vectors == [Cols -> Nat]
row_zero == [j \in Cols |-> 0]

ASSUME SystemsAssumption == Systems \subseteq [Rows -> [Cols -> Int]]

VARIABLES
  A,        \* the system
  P,        \* the stack; its top is the last element
  Frozen,   \* the frozen components of each entry, by its index in P
  basis,    \* the solutions found
  t,        \* the entry taken from the stack
  F,        \* its frozen components
  i         \* the component that the loop over t's successors has come to

vars == <<A, P, Frozen, basis, t, F, i>>
-----------------------------------------------------------------------------
\* The sum of the first n numbers f[0], f[1], ...: a loop that adds them up.
SumTo(f, n) ==
  LET sum[k \in Nat] == IF k = 0 THEN 0 ELSE sum[k - 1] + f[k - 1]
  IN  sum[n]

Product(v) == [j \in Rows |-> SumTo([k \in Cols |-> A[j][k] * v[k]], q)]
IsSolution(v) == Product(v) = [j \in Rows |-> 0]
\* The product of A v with column c of A.
Dot(v, c) ==
  LET product == Product(v)
  IN  SumTo([j \in Rows |-> product[j] * A[j][c]], p)

\* v is at least b everywhere, and more somewhere.
order(v, b) == v # b /\ \A j \in Cols : v[j] >= b[j]
is_minimum(v) == \A k \in DOMAIN basis : ~order(v, basis[k])

Init ==
  /\ A \in Systems
  /\ P = <<row_zero>>
  /\ Frozen = [n \in Cols |-> IF n = 0 THEN {} ELSE Cols]
  /\ basis = <<>>
  /\ t = row_zero
  /\ F = {}
  /\ i = q

Searching == i = q /\ P # <<>>     \* the while loop takes the next entry
Extending == i < q                 \* the for loop over its successors
Done == i = q /\ P = <<>>

\* The entry on the top; a solution has no successors.
Take ==
  LET v == P[Len(P)]
      solved == IsSolution(v) /\ v # row_zero
  IN  /\ Searching
      /\ P' = SubSeq(P, 1, Len(P) - 1)
      /\ t' = v
      /\ IF solved THEN basis' = Append(basis, v) /\ UNCHANGED <<F, i>>
                   ELSE F' = Frozen[Len(P) - 1] /\ i' = 0 /\ UNCHANGED basis
      /\ UNCHANGED <<A, Frozen>>

\* Mutant of Grows: no comparison with the solutions that are known.
GrowsAnyway(T) == i \notin F /\ (Dot(t, i) < 0 \/ t = row_zero)

\* The step towards the solutions: it turns A t back.
Grows(T) == i \notin F /\ ((Dot(t, i) < 0 /\ is_minimum(T)) \/ t = row_zero)

\* Mutant of Push: the component is not frozen for the successors that follow.
PushUnfrozen ==
  LET T == [t EXCEPT ![i] = t[i] + 1]
  IN  /\ Extending
      /\ Grows(T)
      /\ P' = Append(P, T)
      /\ Frozen' = [Frozen EXCEPT ![Len(P)] = F]
      /\ i' = i + 1
      /\ UNCHANGED <<A, F, basis, t>>

\* The successor in component i; the ones after it may not grow there.
Push ==
  LET T == [t EXCEPT ![i] = t[i] + 1]
  IN  /\ Extending
      /\ Grows(T)
      /\ P' = Append(P, T)
      /\ Frozen' = [Frozen EXCEPT ![Len(P)] = F]
      /\ F' = F \cup {i}
      /\ i' = i + 1
      /\ UNCHANGED <<A, basis, t>>

\* Mutant of Skip: the loop waits at a frozen component.
SkipUnfrozen ==
  /\ Extending
  /\ i \notin F /\ ~Grows([t EXCEPT ![i] = t[i] + 1])
  /\ i' = i + 1
  /\ UNCHANGED <<A, P, Frozen, basis, t, F>>

Skip ==
  /\ Extending
  /\ ~Grows([t EXCEPT ![i] = t[i] + 1])
  /\ i' = i + 1
  /\ UNCHANGED <<A, P, Frozen, basis, t, F>>

Next == Take \/ Push \/ Skip

Spec == Init /\ [][Next]_vars /\ WF_vars(Next)
-----------------------------------------------------------------------------
(* Properties *)

TypeOK ==
  /\ A \in Systems
  /\ P \in Seq(Vectors)
  /\ Frozen \in [Cols -> SUBSET Cols]
  /\ basis \in Seq(Vectors)
  /\ t \in Vectors
  /\ F \in SUBSET Cols
  /\ i \in 0..q

\* The stack is never deeper than the table of frozen components has rows, so
\* that a row is there for every entry that is pushed and taken
\* (diophantine.cpp:66, :85, :116).  Nothing in the code compares the two: it
\* is so because the n-th entry of the stack has n frozen components.
StackBounded == Len(P) <= q /\ (Extending /\ i \notin F => Len(P) < q)

\* Every entry has as many frozen components as there are entries under it.
FrozenDepth ==
  /\ \A n \in 0..(Len(P) - 1) : n \in Cols /\ Cardinality(Frozen[n]) >= n
  /\ Extending => Cardinality(F) >= Len(P)

Below(v) == {w \in [Cols -> 0..SumTo(v, q)] : order(v, w)}

\* What is in the basis is a solution, different from the others there, and no
\* other solution is smaller: the search reaches every solution, but must take
\* the minimal ones first for is_minimum to keep the others out.  When it ends
\* none is missing: every other solution is more than one in the basis.
BasisExact ==
  /\ \A k \in DOMAIN basis :
       /\ IsSolution(basis[k])
       /\ \A w \in Below(basis[k]) : w = row_zero \/ ~IsSolution(w)
  /\ \A k, l \in DOMAIN basis : basis[k] = basis[l] => k = l
  /\ Done => \A v \in [Cols -> 0..Reach] \ {row_zero} :
               IsSolution(v) => \E k \in DOMAIN basis : v = basis[k] \/ order(v, basis[k])

\* The search ends.
Terminates == <>Done
=============================================================================
