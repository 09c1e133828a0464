-------------------------------- MODULE Sieve --------------------------------
(***************************************************************************)
(* The prime sieve of src/src/ntheory.cpp: class Sieve, whose static list  *)
(* of primes is shared by every iterator and every function that looks for *)
(* primes, grows when it is too short, and is cut back to its first ten by *)
(* whoever finishes.  The build is the one without library primesieve.     *)
(***************************************************************************)
EXTENDS Integers, Sequences, SequencesExt, FiniteSetsExt, PrimeNumbers

CONSTANTS Iters,       \* iterators that may be alive at the same time
          IterLimits,  \* the limits iterators are made with: 0 is no limit
          ListLimits,  \* the limits generate_primes is called with
          SieveSizes,  \* what set_sieve_size is called with, in kilobytes
          MaxPrime,    \* bound: iterators are not asked beyond this number
          Bound,       \* a number above every prime that matters
          None         \* no iterator

ASSUME BoundAssumption == MaxPrime \in Nat /\ Bound \in Nat /\ Bound > 2 * MaxPrime + 2 /\ Bound >= 29
\* With a sieve size of 0, _extend would not come to an end.
ASSUME LimitsAssumption ==
  IterLimits \subseteq Nat /\ ListLimits \subseteq 0..Bound /\ SieveSizes \subseteq Nat \ {0}
ASSUME NoneAssumption == None \notin IterLimits /\ None \notin [_index : Nat, _limit : IterLimits]

VARIABLES
  buffer,      \* the memory of the vector _primes, past its end as well
  size,        \* _primes.size()
  _clear,
  _sieve_size, \* in bits
  iter,        \* per iterator: its _index and _limit, or None
  p,           \* per iterator: the variable its user keeps the last number in
  primes       \* the vector that generate_primes has filled last

vars == <<buffer, size, _clear, _sieve_size, iter, p, primes>>

FirstTen == <<2, 3, 5, 7, 11, 13, 17, 19, 23, 29>>

Init ==
  /\ buffer = FirstTen /\ size = 10
  /\ _clear = TRUE
  /\ _sieve_size = 32 * 1024 * 8
  /\ iter = [i \in Iters |-> None]
  /\ p = [i \in Iters |-> 0]
  /\ primes = <<>>

_primes == SubSeq(buffer, 1, size)

\* The list becomes l, of which the first n remain.  Memory that l does not
\* reach is as it was (when push_back moves the vector, it is full, and all of
\* it is copied).
Store(l, n) ==
  /\ buffer' = l \o SubSeq(buffer, Len(l) + 1, Len(buffer))
  /\ size' = n
-----------------------------------------------------------------------------
(* Sieve::_extend *)

\* The numbers of S in ascending order, for a set of numbers in 1..bound.
Ascending(S, bound) ==
  LET After(n) == CHOOSE m \in (n + 1)..bound : m \in S /\ \A q \in (n + 1)..(m - 1) : q \notin S
      list[k \in 0..Cardinality(S)] ==
        IF k = 0 THEN <<>>
        ELSE LET below == list[k - 1]
             IN  Append(below, After(IF k = 1 THEN 0 ELSE Last(below)))
  IN  list[Cardinality(S)]

\* What one segment makes of the list l: the numbers start + 1, start + 3, ...
\* up to finish that no odd prime of l divides are added.  The flag of the last
\* one may be behind the end of is_prime: what is in that memory decides.
Segment(l, start, finish) ==
  LET divisors == {l[k] : k \in {k \in 2..Len(l) : l[k] * l[k] <= finish}}
      count == (finish - start + 1) \div 2
      numbers == {start + 2 * k - 1 : k \in 1..count}
      behind == {start + 2 * k - 1 : k \in (_sieve_size + 1)..count}
      is_prime == {n \in numbers : \A d \in divisors : n % d # 0}
  IN  {l \o Ascending(is_prime \ none, finish) : none \in SUBSET behind}

\* The segments from the end of the list l to the limit.
Sieved(l, limit) ==
  LET first == Last(l) + 1
      segments == 1 + (limit - first) \div (2 * _sieve_size)
      start(k) == first + 2 * _sieve_size * (k - 1)
      lists[k \in 0..segments] ==
        IF k = 0 THEN {l}
        ELSE LET finish == Min({start(k) + 2 * _sieve_size + 1, limit})
             IN  UNION {Segment(m, start(k), finish) : m \in lists[k - 1]}
  IN  lists[segments]

\* What the list l may become; the primes up to the square root come first.
Extended(l, limit) ==
  LET extended[n \in 0..limit] ==
        IF n <= Last(l) + 1 THEN {l}
        ELSE UNION {Sieved(m, n) :
                      m \in IF Isqrt(n) > Last(l) THEN extended[Isqrt(n)] ELSE {l}}
  IN  extended[limit]
-----------------------------------------------------------------------------
(* Calls of the static functions *)

set_clear ==
  /\ _clear' \in BOOLEAN
  /\ UNCHANGED <<buffer, size, _sieve_size, iter, p, primes>>

\* Mutant of clear: gives the memory back.
clear_and_shrink ==
  /\ size' = 10
  /\ buffer' = SubSeq(buffer, 1, 10)
  /\ UNCHANGED <<_clear, _sieve_size, iter, p, primes>>

clear == size' = 10 /\ UNCHANGED <<buffer, _clear, _sieve_size, iter, p, primes>>

set_sieve_size ==
  /\ \E s \in SieveSizes : _sieve_size' = s * 1024 * 8
  /\ UNCHANGED <<buffer, size, _clear, iter, p, primes>>

\* How many numbers of the list l are before the first one above the limit.
upper_bound(l, limit) == Cardinality({k \in DOMAIN l : l[k] <= limit})

generate_primes(limit) ==
  \E l \in Extended(_primes, limit) :
    /\ primes' = SubSeq(l, 1, upper_bound(l, limit))
    /\ Store(l, IF _clear THEN 10 ELSE Len(l))
    /\ UNCHANGED <<_clear, _sieve_size, iter, p>>

-----------------------------------------------------------------------------
(* Sieve::iterator *)

iterator(i, limit) ==
  /\ iter[i] = None
  /\ iter' = [iter EXCEPT ![i] = [_index |-> 0, _limit |-> limit]]
  /\ UNCHANGED <<buffer, size, _clear, _sieve_size, p, primes>>

delete_iterator(i) ==
  /\ iter[i] # None
  /\ iter' = [iter EXCEPT ![i] = None]
  /\ p' = [p EXCEPT ![i] = 0]
  /\ size' = IF _clear THEN 10 ELSE size
  /\ UNCHANGED <<buffer, _clear, _sieve_size, primes>>

\* Mutant of ExtendTo: twice the last number of the list instead.
ExtendToTwiceBack(it) ==
  LET twice == 2 * Last(_primes)
  IN  IF it._limit > 0 /\ it._limit < twice THEN it._limit ELSE twice

\* How far an iterator has the list extended.  The number it has given last
\* is read where it was, which may be past the end of a list cut back.
ExtendTo(it) ==
  LET twice == 2 * buffer[it._index]
  IN  IF it._limit > 0 /\ it._limit < twice THEN it._limit ELSE twice

\* The number goes to the user's variable.
Give(i, n, index) ==
  /\ p' = [p EXCEPT ![i] = n]
  /\ iter' = [iter EXCEPT ![i]._index = index]

next_prime(i) ==
  LET it == iter[i]
  IN  /\ it # None
      /\ p[i] <= MaxPrime
      /\ \E l \in IF it._index < size THEN {_primes} ELSE Extended(_primes, ExtendTo(it)) :
           /\ Store(l, Len(l))
           /\ IF it._index < Len(l) THEN Give(i, l[it._index + 1], it._index + 1)
                                    ELSE Give(i, it._limit + 1, it._index)
      /\ UNCHANGED <<_clear, _sieve_size, primes>>

Next ==
  \/ set_clear \/ clear \/ set_sieve_size
  \/ \E l \in ListLimits : generate_primes(l)
  \/ \E i \in Iters, l \in IterLimits : iterator(i, l)
  \/ \E i \in Iters : delete_iterator(i) \/ next_prime(i)

Spec == Init /\ [][Next]_vars
-----------------------------------------------------------------------------
(* Properties *)

\* The primes up to Bound, by definition.
Primes == Ascending({n \in 1..Bound : IsPrime(n)}, Bound)

\* The list as far as one segment reaches, where nothing is read behind the end
\* of is_prime.
OneSegment == \A n \in SieveSizes \cup {32} : Bound <= 2 * (n * 1024 * 8)

\* There is a prime between a number and its double: next_prime relies on it.
\* It is true of all numbers (the postulate of Bertrand).
Bertrand == \A n \in 1..MaxPrime : \E q \in (n + 1)..(2 * n) : IsPrime(q)

\* What PrimeStream calls the limit of an iterator.
limit == [i \in Iters |-> IF iter[i] = None THEN None ELSE iter[i]._limit]
Stream == INSTANCE PrimeStream WITH Unused <- None

TypeOK ==
  /\ buffer \in Seq(2..Bound) /\ size \in 10..Len(buffer)
  /\ _clear \in BOOLEAN /\ _sieve_size \in Nat
  /\ iter \in [Iters -> [_index : Nat, _limit : IterLimits] \cup {None}]
  /\ p \in [Iters -> Nat]
  /\ primes \in Seq(2..Bound)

\* However often it has grown and been cut back, from whatever end and to
\* whatever limit, the list is the list of the first prime numbers; and an
\* iterator whose list has been cut back under it finds, past the end of the
\* list, the prime it has given last.
ListExact ==
  /\ TypeOK
  /\ \A k \in 1..size : buffer[k] = Primes[k]
  /\ \A i \in Iters : iter[i] # None /\ iter[i]._index > size =>
       /\ iter[i]._index <= Len(buffer)
       /\ p[i] \in {buffer[iter[i]._index], iter[i]._limit + 1}

\* Whatever the flags behind the end of a segment are and however many segments
\* there are, the list has primes only, in their order, none is missing up to its
\* end (one may be there twice, ntheory.cpp:542), and so it is with what
\* generate_primes gives up to its limit.  Of an iterator it only says that each
\* number is a prime or the limit and one: if a prime that is there twice goes
\* when the list is cut back, the index of the iterator is one too far.
ListSound ==
  /\ \A k \in 1..size : IsPrime(buffer[k])
  /\ \A h, k \in 1..size : h <= k => buffer[h] <= buffer[k]
  /\ \A n \in 2..buffer[size] : IsPrime(n) => \E k \in 1..size : buffer[k] = n
  /\ primes = <<>> \/ \E l \in ListLimits : Range(primes) = {n \in 2..l : IsPrime(n)}
  /\ \A h, k \in DOMAIN primes : h <= k => primes[h] <= primes[k]
  /\ \A i \in Iters : iter[i] # None /\ p[i] # 0 => IsPrime(p[i]) \/ p[i] = iter[i]._limit + 1

\* Iterators go through the primes, none left out and none given twice, and
\* generate_primes fills in all primes up to its limit, whatever other users
\* do to the list in between.
StreamSpec == Stream!Spec
=============================================================================
