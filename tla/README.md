# CSymPy in TLA+

CSymPy is a C++ library for symbolic mathematics: it keeps expressions as
immutable trees that share their subexpressions, simplifies them while it
builds them, and offers number theory, matrices and polynomials on top.  This
directory holds TLA+ models of its parts, TLC configurations that check them on
small instances, and proofs that TLAPS checks for every instance.

Paths below are those of the repository.  `PROJECT.json` lists the components,
the runs, the hazards in the code, the source lines that every definition
stands for, and for every checked property a mutation of the model, a plausible
bug, that the property catches.

## 1. The system

Almost everything is a value: an expression is created once, never changed, and
freed when nobody refers to it.  State that changes is in five places: the
reference counters, the storage of matrices, the shared list of primes, the
stack of the Diophantine search, and the dictionaries that are filled while an
expression is under construction.

| component | state | operations | what is hard | what makes it correct |
|---|---|---|---|---|
| Reference counting (`csympy_rcp.h`, `basic.h`) | `refcount_` in every object, `ptr_` in every RCP | copy, move, assign, reset, cast, destroy | threads sharing expressions; an assignment that destroys the object its source is in; destructors inside destructors | the counter is the number of holders; freed once, after the last holder, and then certainly |
| Teuchos RCP (`src/teuchos`) | nodes with two counters, handles, the list of active nodes | construct, copy, weak and strong handles, assign, release, extra data | two builds; a deallocator that throws; addresses that are used again; weak handles inside the object | counts exact, object alive exactly as long as it is held, list of nodes exact |
| Numbers (`integer`, `rational`, `complex`) | none | exact arithmetic, powers, roots | signs, negative powers, lowest terms | exact values, one representation for each |
| Automatic simplification (`add`, `mul`, `pow`) | the dictionary under construction | `add`, `sub`, `mul`, `div`, `neg`, `pow` | two branches for the two operand orders, numbers that move between coefficient and dictionary | value kept, canonical form |
| Calculus (`expand`, `diff`, `subs`) | the dictionary under construction | one method per class | sums spliced into sums, the order of hashes | value kept, or the derivative; expansion is a normal form |
| C wrapper (`cwrapper.cpp`) | two or more variables with expressions | one call per operation | any order of calls | what the library guarantees, for every expression that can be built |
| Elementary functions (`functions.cpp`, `constants.cpp`) | static tables of values | forty classes: constructor, `diff`, `subs` | multiples of pi in any form, recursion on the argument, derivatives of functions that are only names | the value or the derivative |
| Hashing and ordering (`basic-inl.h`, `basic.cpp`, `dict.cpp`) | cached hash | `hash`, `__eq__`, `__cmp__` | equal hash values of different expressions | a total order that agrees with equality |
| Sparse matrices (`sparse_matrix.cpp`) | `p_`, `j_`, `x_` | `get`, `set`, `from_coo`, element-wise operations, scaling, product | three vectors in step, unsigned arithmetic at empty rows, exceptions halfway | the storage means the matrix, in canonical format |
| Dense matrices (`dense_matrix.cpp`) | the elements | elimination, LU, QR, Cholesky, determinant, inverse | columns without a pivot, exact divisions | same row space; the factors give the matrix back |
| Prime sieve (`ntheory.cpp`) | one static list of primes, iterators | `generate_primes`, iterators, `clear` | the list is cut back while others use it | everyone gets exactly the primes |
| Number theory (`ntheory.cpp`) | none | factorisation, remainders, roots and logarithms modulo n | special cases, random tries | the definitions of number theory |
| Diophantine equations (`diophantine.cpp`) | stack of vectors, frozen flags | `homogeneous_lde` | depth-first search with pruning; two arrays in step | the minimal solutions, all of them, after finitely many steps |
| Polynomials (`rings`, `monomials`) | hash maps of exponent vectors | conversion, multiplication | none concurrent | same polynomial |
| Multinomial coefficients (`pow.cpp`) | a map under construction | two versions | a recurrence with exact divisions; overflow of one version | the definition |
| Visitors, numeric evaluation, printing, Python wrapper | none | one step per node | nothing discrete | - |

How they interact.  Every handle in every component is an RCP.  `add`, `mul`,
`pow`, `expand`, `diff` and `subs` call one another recursively, through the
shared helpers `dict_add_term`, `as_coef_term`, `from_dict`; the functions hang
on to them with their own virtual `diff` and `subs`.  Equality of expressions,
which is equality of dictionaries, is what all of them test.  Matrices and the
Diophantine solver call the arithmetic; factorisation calls the sieve; the C
and Python wrappers call everything.  There are no messages, nothing is
persisted, and the only concurrency is that of a program whose threads share
expressions (the build with `WITH_CSYMPY_THREAD_SAFE` makes the counters
atomic).

## 2. Modules

| module | models | kind |
|---|---|---|
| `RcpOwnership` | abstract: shared ownership without a counter | specification |
| `Rcp` | class RCP, `refcount_`, nested destruction | state machine, one action per access to shared memory |
| `Rcp_proofs` | | the theorems about `Rcp` |
| `Teuchos` | the RCP of `src/teuchos`, both builds | state machine, one action per step of a destruction or an assignment |
| `Teuchos_proofs` | | the theorems about `Teuchos` |
| `Numbers` | Integer, Rational | operators |
| `Expr` | Add, Mul, Pow; add, mul, pow, expand, diff, subs | operators |
| `Trig` | multiples of pi, the six functions and their inverses, tables | operators |
| `Special` | hyperbolic functions, gamma, zeta, Lambert W, Kronecker delta, ... | operators |
| `Symbolic` | FunctionSymbol, Derivative, Subs; the dispatch on classes | operators |
| `Field`, `Meaning`, `FunctionMeaning`, `SymbolicMeaning` | what an expression denotes | reference definitions |
| `Calculator` | a program that uses the C interface | state machine, one action per call |
| `FunctionCalls` | a program that applies functions | state machine, one action per kind of call |
| `Matrix` | abstract: a matrix, element by element | specification |
| `CSRMatrix` | class CSRMatrix and the `csr_` functions | state machine, one action per operation |
| `CSRMatrix_proofs` | | what set, the scalings and the readers of `CSRMatrix` do |
| `CSRMatrix_refinement` | | the theorems about the specification of `CSRMatrix` |
| `PrimeNumbers` | primes and integer square roots | operators |
| `PrimeStream` | abstract: iterators over the primes | specification |
| `Sieve` | class Sieve and its iterators | state machine, one action per call |
| `Sieve_proofs` | | the theorems about `Sieve` |
| `Diophantine` | `homogeneous_lde` | state machine, one action per pop and per turn of the inner loop |
| `Diophantine_proofs` | | the theorems about `Diophantine` |
| `Arithmetic` | quotients, gcd, inverses, `crt` | operators |
| `Factorization` | trial division, `prime_factors`, `prime_factor_multiplicities` | operators |
| `Ntheory_proofs` | | the theorems about `Arithmetic` and `Factorization` |
| `Ntheory`, `Residues`, `Roots` | the other functions of `ntheory.cpp` | operators |
| `DenseMatrix` | the functions of `dense_matrix.cpp` | operators |
| `Ordering` | hash values, comparison, `std::map` | operators |
| `Polynomials` | `expr2poly`, `poly_mul`, multinomial coefficients | operators |
| `Algorithms` | a program that makes one call of a function of the modules above from `Arithmetic` on | state machine, with the definitions its results are compared with |
| `BasicLemmas` | | lemmas on numbers and sequences that the proofs share |
| `MC...` | | values for TLC |

`Trig`, `Special` and `Symbolic` extend `Expr` one after the other;
`FunctionCalls` joins them with their meaning.  `Roots` extends `Residues`,
which extends `Ntheory`, which extends `Factorization`, which extends
`Arithmetic`; `Algorithms` extends `Ordering` and `Polynomials` and instantiates
`Roots` (as `Num`) and `DenseMatrix` (as `Dense`).

### Rcp

A *holder* is anything that has a pointer to an object: an RCP variable of a
thread (`Slots`), the temporary of the expression a thread is evaluating, or an
RCP that is a member of an expression (`Members`).  `ptr` is `ptr_` of every
holder, `life` what the object's memory is, `dtor[t]` the stack of destructors
a thread is inside of, `pc[t]` where in an operation it is.

Every action is one access to a counter with what goes with it.  Copy
assignment is three actions (`AssignIncrement`, `AssignDecrement`,
`AssignStore`), because the decrement may run any number of destructors, and
other threads run between; the destructor and `reset` are two; a constructor or
a move is one.  `Decrement` is the atomic `--refcount_ == 0` together with the
entry into the destructor, which then releases the members one at a time
(`DestroyMember`), each of which may enter another, and frees the memory
(`Free`).  `stale` holds the variables whose count is given up but whose `ptr_`
is still set: code that used them then would be wrong, and `Visible` says what
a thread may use.

The object under construction (`built`) copies or moves its members in before
the first RCP is made; afterwards nothing writes them.  Moving into the members
is `std::move(dict)` of the constructors of Add and Mul.

There is one place where the code moves out of an expression that others may
hold.  `Add::from_dict` of a single term that is a product (`add.cpp:174`,
`add.cpp:208`) gives the dictionary of that product to a new one: moved when its
count is one, copied otherwise.  `FromDict` makes the temporary through which the
product is read, `TakeMember` moves or copies one member after the other, and
`TakeDone` drops the temporary.  (The test is only compiled in the build without
threads; the other one always copies, which is the other branch here.)

`rcp_static_cast` and its like return a new RCP (`Cast`, `CastDone`).  One
consequence: `Add::from_dict` reads the counter through such a temporary and
never finds it to be one; the dictionary is always copied, which is slower than
the comment at `add.cpp:175` means it to be, and safe.

### Teuchos

A handle is strong or weak and shares a node, which has one count for each and
knows the object.  `debug` is chosen once: the build with `TEUCHOS_DEBUG` also
keeps the list of active nodes (`active`), refuses a second owner, and its
`operator=` releases the target before it copies the source (`AssignReset`,
`AssignCopy`), where the other build copies and swaps (`AssignSwap`,
`DropTemp`).  `stack` has the calls of `unbindOne()` in progress: releasing a
handle may delete an object, whose members are handles (`DropMember`), then
the node leaves the list (`RemoveRCPNode`), the count goes down (`CountDown`),
and the last handle deletes the node with its extra data.  `FreeThrows` is the
deallocator that throws, after which everything must be as before.  Addresses
of objects and nodes are used again.  `Pinned` and `Holds` say what a client
may touch: a member only of an object it holds, by a variable other than the one
it assigns to.  That is assumed of the client, not checked by the code:
`p = p->next` in the debug build deletes the source before it is copied
(`Teuchos_RCP.hpp:306`; `Teuchos_RCPDecl.hpp:558` documents the order), and no
property speaks of it.  In the other build the variable assigned to may itself
be what keeps the source alive.

### Expr, Meaning, Calculator

An expression is a record, a dictionary a function from keys to values.  So two
expressions are equal exactly when `__eq__` says so, and the order of a
dictionary, which is the order of hashes, is left out here (module `Ordering`
has it).  Where the code folds over a dictionary TLC takes one order; the one
place where the order decides which path is taken, `mul_expand`, tries all of
them, so `expand` is a set of results (empty when the code throws).

The functions call one another, directly and through what they share.  All
those calls go through one constant operator, `Call(f, args)`, so that a module
that adds classes adds their methods to it: it stands for `ExprCalls` of
`Expr` in the runs on rational expressions, for `AllCalls` of `Symbolic` (the
virtual methods of all the classes of `functions.h` as well) in runs with
functions, and for `LibraryCalls` of `Algorithms` there.  The other operators
read like the C++ functions of the same name.  `Numbers` keeps the class of a
number in the record, so that a Rational that is not in lowest terms, or has
the denominator one, is different from the number it equals, as it is in the
code.

`Meaning` says independently what an expression denotes: its value and its
derivative at a point, computed in the integers modulo a prime (`Field`) that
is 3 modulo 4.  There the squares behave like the positive reals: each has one
square root that is a square, so `sqrt(a)*sqrt(b) = sqrt(a*b)` holds as it does
for them.  The symbols have squares for values.  Division by zero, and roots of
what has none, are `Undefined`, and no property speaks of them.

`Calculator` is a program with two variables that makes any sequence of calls
of the C wrapper.  Its reachable states are the expressions the properties are
about: not any record, only what a program can build.

Left out: Complex (the guard `MayRaise` rules out roots of negative numbers).

### Trig, Special, Symbolic and FunctionCalls

The constructors translate `functions.cpp`: `get_pi_shift` finds a multiple of
pi/12 in the argument, `eval` reduces it to a quarter and a table (`sin_table`,
read outside of which is `Garbage`), the inverse functions look their
argument up in `inverse_cst` and `inverse_tct`, and the families with a parity
take a minus off and call themselves.  A call that does not come back is
`Diverges`, one that throws `Thrown`.  `Fresh` makes the symbol of the chain
rule: one that is nowhere else, as the code prefixes the name until it is.

`FunctionMeaning` gives an expression a value in a field with 240 roots of
unity (modulo 241): every multiple of an eightieth of a turn has an exact sine
and cosine there, and a symbol stands for three independent numbers, its value,
its exponential and its point on the unit circle.  An identity between
functions of it must hold for all.  `SymbolicMeaning` reads a function that is
only a name as a polynomial with unknown coefficients: a derivative or a
substitution is right for every function when it is for this one.

### CSRMatrix, Matrix

`p` is the vector `p_`, `e` the vectors `j_` and `x_`, which the code always
changes together.  The elements are integers.  `Matrix` has the same operations
on a plain matrix, and `CSRMatrix` implements it.

`from_coo` is three passes, each a recursion along the vectors: `Buckets` puts
the triplets in their rows, `SortedRow` is what `std::sort` leaves, entry by
entry, and `SumRuns` adds an entry to the run it continues.  The code does the
first with row starts that it moves forward and back; here the row starts are
computed when rows are joined (`FromRows`).  `Merge` is one step of the walk of
`csr_binop_csr_canonical` through two rows, its three loops being one.

The scan for duplicates and for unsorted columns compares neighbours up to
`p_[i + 1] - 1`, an unsigned number: where leading rows are empty it wraps
around, and the scan runs over all rows and, if it finds nothing, out of the
vectors.  What it finds there can be anything: a scan has a set of answers, and
`crashed` records the program that has gone that way.  `csr_binop` never loses
an element by it (a false alarm makes it sum duplicates that are not there),
so `MatrixSpec` holds; the assertion of the constructor does not.

The program has a matrix and an operand, which is filled by `from_coo` and used
up by the next operation; this bounds the states and loses nothing, as an
operand that stays is one that is filled again.  A program that crashed does
nothing more, and a matrix as large as the bound can only be changed in place:
runs do not check for deadlock.

### Sieve, PrimeStream

`buffer` is the memory of the vector `_primes`, `size` its length: memory past
the end keeps what was there, which matters, because `next_prime` reads
`_primes[_index - 1]` even when somebody else has cut the list back to ten.
(`erase` at the end of a vector of integers leaves the memory alone, and when
the vector moves it is full and copied completely.  A standard library that
checks indices would stop the program there.)

`Segment` and `Sieved` are the loop over segments; the numbers a segment keeps
are those no prime of the list divides, which is what crossing out the odd
multiples leaves.  Its last number may have its flag one behind the end of the
array: memory decides, so the list has several outcomes.  `Ascending` is the
order in which the numbers of a set are appended.  `_extend` calls itself for
the square root of its limit and then goes through segments: two recursive
functions, `extended` and `lists`.

`p` is the variable in which the user of an iterator keeps its last number
(`while ((p = pi.next_prime()) <= limit)`).  `PrimeStream` has no list:
an iterator gives the next prime, or past its limit a number above the limit.

### Diophantine

`P` is the stack of vectors, `Frozen` the table of flags that runs along with
it, `t` and `F` the entry that was taken and its frozen components, `i` the
component that the loop over its successors has come to.  `Take` is the
beginning of a turn of the while loop, with the test for a solution; `Push` and
`Skip` are the two ways of a turn of the for loop.  The code adds one to
component `i` of `T` and takes it back from the one before; here `T` is made
from `t`.  The matrix is any of `Systems`, chosen at the start.

### Factorization

`Loop` is the loop over the primes up to the root of a number, which
`prime_factors` and `prime_factor_multiplicities` have both: its state is a record
with what is left of the number (`rest`) and what was found, as a list and as a
map.  `DividedBy` is its body.  The inner loop is `HowOften`, its number of
turns, and `Left`, what is left after each.  The iterator of the sieve is taken by
what `PrimeStream` promises: it gives the primes up to its limit, in order.  A call
begins with an empty list or map, as all calls in `src` do.  Numbers are below
2^64, so that the root fits an unsigned ("N too large to factor" is not
modelled).  `factor_trial_division` of a negative number is `Error`: `sqrt`
stops the program.

### Arithmetic, Ntheory, Residues, Roots

The functions of `ntheory.cpp` with the C++ names; GMP is modelled by what it
computes, down to the sign of a remainder (`tdiv`, `fdiv`) and what `mpz_invert`
does modulo 1.  Out-parameters and return codes become a record, or a sequence
that is empty (`None`) where the code returns false; a call that throws is
`Error`.  Random choices are arguments (`Draws`): every outcome is tried.
The pieces of long functions have names: `RootsModTwo`, `LiftTwo`, `Hensel`,
`LiftPower` and `Spread` are the branches of `_nthroot_mod_prime_power`.

### DenseMatrix

A matrix is a record with a function on its cells.  The loops over cells of one
step are one function; the order of steps, exchanges of rows, the place of the
divisions and division by zero (which is zero, `pow.cpp:169`) are those of the
code.  `WithPivot` is the loop that four eliminations have in common, `CrossStep`
the fraction-free step.  Cells that a step leaves unread get zero in `CrossStep`
where `det_bareis` leaves what was there.

### Ordering

`hash` follows `__hash__` class by class, in words of `HashBits` bits instead
of 64: two integers that differ by a multiple of the word have the same hash,
which in the program takes numbers above 2^63.  What happens to a map with
colliding keys is the same.  `cmp` and `compare` are `__cmp__` and the `compare`
of the classes; `MapOf` inserts keys into a map by its lower bound.

### Polynomials

`expr2poly` and `poly_mul` of `rings.cpp`, and the recurrence of
`multinomial_coefficients_mpz` with the entries that `operator[]` makes when it
reads.  `Expr` uses the closed form of the same coefficients.

### Algorithms

One call with arguments of a pool, then its result: a state for every call.  The
module holds the definitions to compare with: divisors, units, powers and
solutions by enumeration, determinants by minors, row spaces by ranks.

## 3. Runs

| run | question | answer |
|---|---|---|
| `rcp_threads` | two threads, one with two variables, three objects with two members; liveness | counters are exact, nothing dangles, is destroyed twice or lost, members do not change; the counter implements `RcpOwnership`: abandoned memory is reclaimed |
| `teuchos_handles` | two variables, objects and nodes, up to five handles, both builds | counts, lifetimes and the list of nodes hold through every nested destruction |
| `calc_calculus` | programs that compute, differentiate and expand rational expressions | canonical forms; derivatives and substitution where no sum is a part of a term of another sum; expansion keeps the value, does not depend on the order of hashes, and decides equality |
| `calc_power` | exponents that are halves or symbols | values; division undoes multiplication to the very object |
| `functions` | programs that apply every function of `functions.h` | the values of trigonometric functions and their inverses, of the recursive families, derivatives and substitutions |
| `csr_matrix` | 3x2 matrices with up to three stored elements | canonical format; readers agree with the matrix; the abstract matrix is implemented; only triplets store zeros |
| `sieve_stream` | two iterators and `generate_primes` on one list | the list is always exact; the stream of primes is implemented |
| `lde_search` | all systems of two equations in three unknowns with small coefficients | the stack fits its table, the basis is exact, the search ends |
| `algorithms` | one call of any function of the modules of operators | the definitions of number theory and linear algebra, the dictionaries and the polynomials |
| `calc_expand`, `csr_assert`, `trig_shift` | | violated: see section 6 |

Bounds, and why they are enough:

- `Rcp`: a race on a counter needs two threads and one object; an assignment
  whose source lies in the object it destroys needs a second object, and a
  chain of destructors a third.  Two members per object make diamonds.  An
  object is allocated once: a freed address that is used again is a new object.
- `Teuchos`: one member per object makes the chain `p = p->next`, a cycle, and
  a weak handle in the object it refers to; two nodes can follow one another
  for the same address.  Variables, objects and nodes are interchangeable
  (symmetry; there is no liveness in the run).
- `Calculator`: `MaxSize` counts the nodes of variable `a`, `MaxOther` those
  of `b`, `MaxNum` bounds numerators and denominators.  Size 4 has products of
  sums, sums of products, powers of sums and nested powers.  A result above the
  bound is not stored in a variable, but the properties look at it:
  `CanonicalForms` at everything that one call with `a` and `b` returns, except
  where `pow_expand` breaks the form (section 6).  The violation of
  `calc_expand` needs 5 nodes.
- `FunctionCalls`: `MaxSize` 4 gives a function of a sum or product, plus one
  turn of pi; `Circle` has every multiple of pi/12 of a full turn and beyond,
  up to 26/12; `Turns` goes past one turn; derivatives have up to two symbols.
- `CSRMatrix`: three rows have a first, a middle and a last one, each of which
  can be empty; two columns have an order; pairs of triplets can be equal,
  cancel, or come in the wrong order.
- `Sieve`: an iterator has to go beyond 29, where the list of ten ends, and
  beyond 58, where the list ends after its first extension (`MaxPrime` 53, next
  59); 967 is a limit above 31*31, the first number that is wrongly taken for
  a prime if the primes up to the square root are not there first.  In
  this run everything fits in one segment.
- `Diophantine`: three unknowns give the stack a depth where the order of
  frozen components matters; `Reach` bounds the solutions looked for at the end.
- `Algorithms`: moduli up to 64 have every case of the code (1, 2, 4, powers
  of two up to 64, odd primes, their powers and doubles, mixed products), and
  larger ones (72 to 143) have squares and products of two large primes;
  `LargePrime` 10009 is above the limit of 10000 for brute force and is
  1 modulo 8, so that the method of Shanks is taken.  Matrices have all entries
  of a small set in order 2 and 3, and order 4 is the first that `det_bareis`
  eliminates.  The keys have every class with a `compare` of its own, and three
  bits make several of them collide.

Fairness.  `Rcp`: `WF_vars(Continue(t))`, a thread that is inside an operation
runs on until it ends it.  There are no locks and no waiting in these
operations, so this is what any scheduler that does not suspend a thread for
good gives.  Starting an operation is not fair: a program may keep an
expression for ever.  `Diophantine`: `WF_vars(Next)`, one thread that keeps
running.  No other module has a liveness property: a call is one step there.

Deadlock is checked where the system cannot stop (`sieve_stream`); elsewhere a
program may end, or reach a bound.

## 4. Proofs

### Rcp_proofs

For any finite sets of threads, variables and objects and any number of members
(the assumptions `FiniteAssumption` and `DistinctAssumption` of `Rcp`: the sets
are finite, and the names of variables, threads, members and `Null` are
different):

- `TypeCorrect`, `CountingIsExact`, `NoUseAfterFree`, `NoDoubleDelete`,
  `AbandonedForGood`, `ExpressionsImmutable`, `NothingLeaks`: the safety
  properties of the run `rcp_threads`;
- `LiveObjectsHeld`: a live object is counted at least once, so an object nobody
  holds is not live;
- `ImplementsOwnership`: every step of `Rcp` is a step of `RcpOwnership` or
  none (the safety part of `OwnershipSpec`).

All of them follow from `InductiveInvariant`.  That the counters are exact
(`RefcountExact`) and that counted holders point to live objects
(`NoDangling`) cannot be shown by themselves: whether `AssignStore` may
overwrite a variable depends on whether its old count was given up, and whether
the temporary counts depends on where the thread is.  `IInv` adds this:
`PcOK` (what each program counter says of the variable, the temporary
and the object under construction), `StaleOK` (who has given up a count),
`BuiltOnce` and `DestroyOnce` (each object is in one hand).

The argument for a step: every action adds one holder to the count of an
object that another visible, hence counted, holder keeps alive
(`IncrementKeeps`), moves a count from one holder to another (no set of
counted holders changes its size), or drops one (`Decrement`); when it
was the last, the object dies with no holder left, so nothing dangles.
`LiveKept` is the common part.  Cardinalities come from `FiniteSetTheorems`.

`NothingLeaks` (`[]NoOrphans`) needs no induction along the references.  Its
invariant is `Acyclic`: every set of live objects has one that no member of the
set points to.  A step that makes no object live leaves the members of live
objects alone (`MemberStep`); the only one that makes an object live is
`Adopt` (`LiveByAdoption`), and to that object no member points yet.  The object
`Acyclic` gives has a count (`LiveObjectsHeld`), the count is exact, and so
there is a holder outside the set.

`ExpressionsImmutable` and `Acyclic` need that `Add::from_dict` copies.  The
invariant `CastHeld` says that the variable a temporary was made from is still
there, with a count of its own, as the thread does nothing else meanwhile
(`CastsHeld`); variable and temporary make two, and the count is exact
(`CountThroughCast`), so the test for one fails.

### Teuchos_proofs

For any finite sets of variables, objects and nodes, any number of members per
object, any bound on the handles, and both builds (`FiniteHolders`,
`DistinctHolders`): `CountsAreExact`, `LifetimeIsOwned`, `NothingUsedAfterFree`
and `TracerIsExact` are the four properties of the run `teuchos_handles`.

None of them is inductive, because a destruction stops in many places and each
place relies on why it was reached.  `IInv` describes the stack of
`unbindOne()` calls: every call has the last handle of its strength, and past
the object the node knows that it is empty (`FramesHold`); no handle has two
calls (`FramesDiffer`); a call was made by the one before it, for the extra data
of that node or for a member of that object (`Chained`), or by the client, who
keeps the object of the member that it lets go of (`Based`); an object in its
destructor has one call (`Dying`).  `Counted`, `HeldAlive` and `Owned` are about
handles, nodes and objects; `Listed` says which nodes the debug build
knows in the middle of a destruction, and `Waiting` what the client keeps while
an `operator=` has released its target and not yet copied.

The heart is `NotOnStack`: what a call goes on to release is not being released
by an earlier one.  If it is the extra data of the node, an earlier call on the
same node has a handle of the other kind (two of one kind make a count of two),
which was at its end, and a call at its end only goes on when its handle is the
last of both kinds.  If it is a member, the earlier call would be in the
destructor of the same object, or the client would hold an object that is
dying.  From there `Unbound` keeps the invariant for every handle let go of by
whomever; the other steps are one lemma each.  The list of nodes is needed for
the lifetimes: that `addNewRCPNode()` finds a second owner relies on every
node that knows an object being listed.

### Diophantine_proofs

For any number of equations and unknowns and any set of systems
(`DimensionAssumption`, `SystemsAssumption`):

- `TableSuffices`: `[]StackBounded`, the stack never outgrows the table; from
  `DepthCounted`;
- `OnlyMinimal`: whatever is in the basis, at any time, is a minimal solution;
- `NoneMissing`: when the search is over, every minimal solution is in the basis;
- `BasisIsExact`: `[]BasisExact`, the property of the run.

Nothing in the code compares the depth of the stack with the size of the table,
and `StackBounded` is not inductive: what bounds the depth is that the entry
above `n` others has at least `n` frozen components, of which there are `q`, and
that an entry grows only in one that is not frozen.  That is `FrozenDepth`,
with the half of it that speaks of the loop: while the successors of `t` are
pushed, `F` has as many elements as the stack has entries.  `Take` hands the
row of the top over to `F`; `Push` stores `F` in the row of the new top and adds
the component it grew in.

That the basis is exact is the theorem of Contejean and Devie, proved here for
the algorithm as it is written, with its stack, its flags and the successors in
the order of the loop.  A minimal solution `v` is *covered* by an entry of the
stack that is below it and has frozen only components in which it already equals `v`
(`Covered`); so somebody still has to come to `v`, or it is in the basis.  When
the entry is taken, some component `i` in which `t` is below `v` turns the
product back: `v - t` leads from `A t` to zero, so the products of `A t` with
the columns it is made of sum up to `-|A t|^2`, and one of them is negative
(`Turn`).  The first of these that the loop
reaches is not frozen, and the entry pushed for it covers `v`; what the loop
froze before it are components in which `t` has reached `v` already.  No minimal
solution is dropped, because what `is_minimum` drops is above a solution of the
basis.  And nothing else gets in (`Found`): a vector that is taken is not above
an older entry of the stack, as it is less in a component that is frozen since,
nor above a solution of the basis (`Apart`); so a minimal solution below it would
be covered by nothing.  Sums are recursive functions (`SumTo`); that such a function
exists, and that it is linear, is shown from the least number that would
disagree.

### CSRMatrix_proofs and CSRMatrix_refinement

For matrices of any size, any numbers, factors and lists of triplets
(`SizeAssumption`, `ElementAssumption`, `TripletAssumption`):

- `Invariance`, `Spec => []TypeOK`: both matrices are in canonical format, always;
- `Implementation`, `Spec => MatrixSpec`: the program is one of `Matrix`, with the
  elements that `get` reads in place of the storage;
- `ReadersAlwaysExact`, `Spec => []ReadersSound`;
- `ZerosStayOut`, `Spec => ZerosFromTriplets`.

The canonical format is an inductive invariant as it stands.  So the work is in
the operations, and there is a lemma for each: from the canonical format it leads to
the canonical format, with the elements that `Matrix` says.  `CSRMatrix_proofs` does
this for what works in place (theorems `SetSound` and `InPlaceRefines`) and for the
readers (`ReadersExact`), `CSRMatrix_refinement` for what makes new rows.

*In place.*  By `ScanEnds` with `GetStored` and `GetNothing`, in an ascending row
the scan stops at the entry of its column, if there is one.  An insertion and a
removal are the same relation between two matrices, read in the two directions
(`OneMore`): the rows before the place stay, the rows after it are moved by one
(`Moved`), and in the row itself all columns but one stay.  `EqualElements` says
that matrices that store no zero are stored alike when their elements are the
same: the first place at which two rows differ would be a column that one of
them has and the other cannot have any more (`NextPlace`).

*New rows.*  A matrix is its rows joined (`JoinedRows`, `Rejoined`), so it is enough
to speak of one row: `Stands(row, j, v)` says that `v` is the element in column
`j`, `Adds(row, j, v)` that the entries of column `j` add up to `v`.  For the merge
the invariant of the walk (`Merged`) says that what has been stored is ascending,
has no zero, and has the right element in every column whose entries are behind the walk,
and that every column it has is before what the walk finds next; a step takes one
column more (`MergeStep`), and after as many steps as both rows have entries the
walk is at the end (`MergeExact`).  For `from_coo`, the buckets add up
to the elements (`TripletsKept`: `Buckets` and `FromTriplets` side by side), sorting
keeps what they add up to (`RowSorted`), and summing the runs of a row whose columns
do not descend makes it ascending, with the sums as elements (`RunsSummed`).  Where
the test for duplicates goes astray, duplicates are summed in a
matrix that has none, which does nothing (`NoDuplicates`); that is why
`MatrixSpec` holds whatever the test reads outside of the vectors.

Recursive functions exist, and are what their definition says, by `Recursion`;
induction along them is `CountUp`, over a set of the steps that are as wanted.
Both rest on `LeastNumber` (`BasicLemmas`).

### Sieve_proofs

For any iterators, limits and sizes of a segment (`BoundAssumption`,
`LimitsAssumption`, `NoneAssumption`: a segment is not empty, and no number gets
above the bound):

- `SieveSound`, `Spec => []ListSound`: the list has primes only, in their order,
  and all of them up to its end; so does the list of `generate_primes`, up to
  its limit; the number of an iterator is a prime, or its limit and one.  Nothing
  is said of the order of an iterator's numbers: when a prime is in the list
  twice and the list is cut back, its index may be one too far;
- `SieveExact`, `OneSegment` implies `Spec => []ListExact`;
- `SieveStream`, `OneSegment` and `Bertrand` imply `Spec => StreamSpec`.

The first holds over any number of segments and for whatever the flags behind
their ends are.  A prime may then be in the list twice, so the other two
suppose `OneSegment`: no limit is above what one segment has flags for, which is
524288 for the 32 kilobytes that are the default.  `Bertrand` says that there is a
prime between a number up to `MaxPrime` and its double, which is true of all
numbers.  The code relies on it: after it has extended the list to twice the last
prime, it reads the next one without looking.  The module `MCSieve` has TLC
evaluate both for the instance.

*The extension.*  A number that is not a prime has a divisor, which is a prime,
up to its square root (`SmallDivisor`, `Root`).  So a list that is complete up
to the square root of a limit decides every odd number up to that limit
(`SegmentSound`, for one segment with any outcome of the flags; `Reach` for where
segments begin and end; `SievedSound` for all of them), and the list is complete
up to the square root because the recursive call comes first (`ExtendedSound`, by
induction on the limit).  What it needs of the list is `IsList`: it begins with
2, it has primes only, in their order, and none is missing up to its end.  A list
cut back to ten is such a list (`FirstTenSound`), and so is whatever an extension
leaves; that is the heart of `SoundInv`.

*The positions.*  `SoundInv` is not enough for the iterators.  When the list has
been cut back, an iterator reads memory past the end.  `ExactInv` adds that the
whole memory, not the list only, begins with the primes (`Begins`), and that the
number an iterator has given last is where its index says, or that it is past
its limit (`PositionsInv`).  The memory stays like this because an extension
writes the same primes at the same places again (`Stored`, `Grown`, `SameStart`),
however far it gets.  `next_prime` gives the prime at its index: either it is in
the list, or the list becomes long enough, by `Bertrand`, or it ends at the limit
(`NextExact`, `PastLimit`).

*The refinement.*  For `StreamInv` the primes up to the index are those
that have been given; `NextIsAdvance` shows that the next one is the least prime
above the last (`AfterPosition`), and `StreamStep` that every other call is a step
of `PrimeStream` or none.

### Ntheory_proofs

`CongruencesSolved`: `crt`, for any number of congruences and moduli other than 0
(GMP stops the program for 0), of any sign and with common factors, gives a
solution of all of them, and returns false only if there is none.  The invariant
of its loop is `Joined`: the first `n` congruences have no solution, or they
are one congruence, modulo a multiple of all moduli.  A modulus more
(`OneMoreModulus`) is a join of two (`JoinExact`): it takes the factors of
Bezout that `gcd_ext` gives.  On the way it is shown that what is assumed
of GMP in `Arithmetic` is what the functions of `ntheory.cpp` promise with it:
`GcdExact`, `LcmExact`, `InverseExact` and `QuotientsExact`, for all integers.

For every integer but 0, `PrimeFactorsExact` and `MultiplicitiesExact`: the list
has just the primes that divide the number, in order, and its product is the
number; the keys of the map are the same primes, each divides the number just as
often as the map says, and the powers make up the number.  For every number
that is not negative, `TrialDivisionExact`: the result is the least prime factor,
and there is none only if the number is prime, 0 or 1.  They are what
`FactorsSound` says of these functions.  The functions throw for numbers whose root
does not fit an unsigned, which is left out here.

*The inner loop* ends (`LoopEnds`): what is left gets smaller in every turn and
is never 0, and a turn moves one factor from what is left to the power that was
found.

*The outer loop.*  `Good` is its invariant: what was found and what is left make up
the number, what was found is prime, in order, and not above the last number
`q`, and no number from 2 to `q` divides what is left.  The body keeps it
for a prime (`DividedByGood`: `ProductRepeated` for the list, `PowersInsert` for
the map).  A number that is no prime brings no new divisor (`NoneBetween`,
by `SmallDivisor`), so that it is enough to try the primes.  The early end of
the loop is right as nothing divides 1.  At the root nothing up to it divides what is
left, which is therefore 1, or a prime above everything that was found
(`RestIsPrime`).

*Nothing else divides.*  A prime that divides a product divides a factor
(`PrimeDividesFactor`, by the factors of Bezout that `GcdExact` gives;
`PrimeInProduct`).  So no other prime divides the number (`ListComplete`), and
no key divides it more often than the map says (`MapComplete`).

### Only model-checked

Liveness (`OwnershipSpec` with fairness, `Terminates`), which TLAPS does
not do; all that is about recursive operators, that is, needs induction over data:
expressions, functions, the number theory of `Ntheory`, `Residues` and `Roots`,
dense matrices and polynomials.

## 5. Hazards

`PROJECT.json` lists each at its line with the properties that
watch it.  The themes: reference counts changed by several threads and by
destructors inside assignments; destructions that nest and deallocators that
throw; sums spliced into sums under construction with the number in front of
them; numbers that come out of a simplification a second time; dictionaries
whose order is that of hashes, and keys whose hashes collide; shifts by
multiples of pi; unsigned arithmetic at empty rows; exact divisions in
elimination; special cases of moduli; a shared list cut back under its users;
two arrays that run in step.

Some have no property.  Roots of negative numbers, as Complex is not modelled; a
result matrix that is used again (`sparse_matrix.cpp:523`); and the flag behind
the end of a segment, for which the instance is too small: the theorem
`SieveSound` says what remains true with it.  And where the code is wrong, so that
a property can only speak of the other cases: the sums spliced at `add.cpp:370`,
the second simplification at `add.cpp:269`, `Log::compare` (`pow.cpp:515`), the
row after a column without a pivot (`dense_matrix.cpp:320`) and the number of a
sum in `expr2poly` (`rings.cpp:14`); section 6 has the examples.

## 6. What was found

Runs that end in a counterexample:

1. `calc_expand`: `mul_expand_two` (`mul.cpp:416`, `mul.cpp:445`) forgets the
   numbers of two terms whose product is a number: `(x - y)*(1/y)` expands to
   `x/y + 1`.
2. `csr_assert`: `from_coo` on triplets that leave the first row empty fails
   the assertion of the constructor (`sparse_matrix.cpp:25`), though the matrix
   is in canonical format.
3. `trig_shift`: a shift that is no multiple of pi/2 is dropped
   (`functions.cpp:227`): `sin(x + pi/12)` gives `sin(x)`.

What the properties leave out, because the code is wrong there (each was seen
as a counterexample before the restriction was made, and its comment names the
line):

- *Expressions.*  `Add::diff` (`add.cpp:370`) adds the terms of a derivative
  that is a sum without the number in front of the term: `x - (x^2 + x)` has the
  derivative `2 + 2*x`; `Add::subs` (`add.cpp:412`) has the same branch.  Adding
  0 to `-1/sqrt(2)` gives `-sqrt(2)`, against the assumption stated at
  `add.cpp:247`.  `pow_expand` and a root of a product leave a Mul as a key of a
  Mul, which `is_canonical` forbids (`mul.cpp:54`).  `2*2^x` stays as it is while
  `2^x*2` becomes `2^(x + 1)`.  `rational_set_si(2, 4)` is stored unreduced.
- *Functions.*  Negative multiples of pi read `sin_table` below its start
  (`functions.cpp:198`), as do `cot(0)` and `csc(0)`; `tan(y - pi/2)` has the
  wrong sign; the tables are wrong for two angles (`constants.cpp:81`, `:103`);
  `sinh(-x - y)` calls itself for ever; the incomplete gamma functions of halves
  do not come back; gamma of large halves overflows an int; the derivatives of
  the inverse hyperbolic functions use a constant in place of their argument;
  several classes inherit `subs` and substitute nothing in their arguments.
- *Roots modulo n.*  The even root of a negative number modulo a multiple of 4:
  `nthroot_mod(-1, 2, 4)` gives -1, and there is none (`ntheory.cpp:1212`).
- *Factors.*  The method of Lehman takes a square root in integers and misses
  factors above the cube root (35, 55, 77, ...); the property asks for those below.
- *Elimination.*  After a column without a pivot,
  `pivoted_gaussian_elimination` goes on with the wrong row
  (`dense_matrix.cpp:320`), and the fraction-free forms divide by zero, which
  gives zero; so does everything that searches no pivot: `inverse_LU` of
  `[[0, 1], [1, 0]]` is wrong without a word.
- *Dictionaries.*  `Log::compare` (`pow.cpp:515`) compares the argument of one
  logarithm with the other logarithm, so of two logarithms with one hash value
  (`log(5)` and `log(5 + 2^64)`) a map keeps one; Zeta, KroneckerDelta, Subs and
  ATan2 have the like.  `vec_basic_eq_perm` (`dict.cpp:213`) finds `x, x` equal to
  `x, y`.
- *Polynomials.*  `expr2poly` (`rings.cpp:14`) loses the number of a sum.

Seen without a property: `generate_primes` up to 28000 with a sieve of one
kilobyte may give 16553 twice (`ntheory.cpp:542`); `csr_binop_csr_canonical`
appends to a result that was used before; `eye(N, M)` is always square, while
the comment at `dense_matrix.cpp:1228` says that it follows NumPy; an assertion of
`fraction_free_gauss_jordan_solve` assigns (`dense_matrix.cpp:623`); the branches
of `Add::from_dict` that take over a dictionary (`add.cpp:174`, `add.cpp:208`) are
never taken, though the comment at `add.cpp:175` says they avoid a copy;
`p = p->next` uses freed memory in the debug build of Teuchos; assigning
a weak handle to the last strong handle of the same object deletes the object, in
both builds, while the documentation calls an assignment between handles of one
object harmless (`Teuchos_RCPDecl.hpp:562`).

## 7. What is left

- The sparse product and results that are reused; Complex; `Numbers` beyond
  what expressions use.  `Visitors`: only `has_symbol` has an effect on others.
- Compositions: `Factorization` uses `Sieve` only through the primes that
  `PrimeStream` promises, and expressions use `Rcp` only through what is proved
  there (the members of a live object do not change).
- Theorems: what the functions on dense matrices return, once their loops are
  recursive functions.

## 8. Not modelled

Numeric evaluation (floating point in a library); printing; the Python wrapper
and `FunctionWrapper`, which calls back into it; Complex; the traversals of
`visitor.cpp`, which have no state, and whose coefficient visitor gives 0 for
every sum as it is still to be written; in `src/teuchos`, casts, the printing of
the list of nodes, `Ptr`, and the support for other smart pointers; the builds
with libraries primesieve, ECM and Arb.
