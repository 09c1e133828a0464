----------------------------- MODULE PrimeStream -----------------------------
(***************************************************************************)
(* What the prime sieve promises its users, with no shared list of primes  *)
(* in sight: iterators that go through the primes up to a limit, none left *)
(* out and none given twice, and lists of all primes up to a limit.        *)
(* Module Sieve implements this one (property StreamSpec there).           *)
(***************************************************************************)
EXTENDS Integers, Sequences, FiniteSetsExt, Functions

CONSTANTS Iters,      \* names of iterators
          IterLimits, \* the limits iterators are made with: 0 is no limit
          ListLimits, \* the limits that lists of primes are asked up to
          Primes,     \* the primes in ascending order, as many as matter
          Unused      \* the limit of an iterator that does not exist

VARIABLES limit,      \* [Iters -> IterLimits \cup {Unused}]
          p,          \* [Iters -> Nat]: the number an iterator has given last
          primes      \* the list of primes that was asked for last

vars == <<limit, p, primes>>

Init ==
  /\ limit = [i \in Iters |-> Unused]
  /\ p = [i \in Iters |-> 0]
  /\ primes = <<>>

Open(i) ==
  /\ limit[i] = Unused
  /\ \E l \in IterLimits : limit' = [limit EXCEPT ![i] = l]
  /\ UNCHANGED <<p, primes>>

Close(i) ==
  /\ limit[i] # Unused
  /\ limit' = [limit EXCEPT ![i] = Unused]
  /\ p' = [p EXCEPT ![i] = 0]
  /\ UNCHANGED primes

\* The next prime; past the limit, any number that says so.
Advance(i) ==
  LET next == Min({n \in Range(Primes) : n > p[i]})
  IN  /\ limit[i] # Unused
      /\ UNCHANGED <<limit, primes>>
      /\ p' = [p EXCEPT ![i] = p'[i]]
      /\ IF limit[i] = 0 \/ (p[i] <= limit[i] /\ next <= limit[i])
         THEN p'[i] = next
         ELSE p'[i] > limit[i]

List ==
  /\ UNCHANGED <<limit, p>>
  /\ \E l \in ListLimits :
       primes' = SubSeq(Primes, 1, Cardinality({k \in DOMAIN Primes : Primes[k] <= l}))

Next == \/ \E i \in Iters : Open(i) \/ Close(i) \/ Advance(i)
        \/ List

Spec == Init /\ [][Next]_vars
=============================================================================
