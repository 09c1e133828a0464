-------------------------------- MODULE Rcp --------------------------------
(***************************************************************************)
(* Intrusive reference counting: class RCP<T> of src/src/csympy_rcp.h and  *)
(* the counter refcount_ inside class Basic (src/src/basic.h).             *)
(*                                                                         *)
(* Every RCP variable is a holder: a local variable of a thread (Slots), a *)
(* temporary of the expression a thread is evaluating (one per thread), or *)
(* a member of an expression (dict_, base_, arg_, ...: Members).           *)
(*                                                                         *)
(* One step is one access to shared memory, as in the build with           *)
(* WITH_CSYMPY_THREAD_SAFE, where refcount_ is a std::atomic: an increment *)
(* or `--refcount_ == 0' is a step, what follows it in the same function   *)
(* is another.  With one thread the same steps are the other build.        *)
(***************************************************************************)
EXTENDS Naturals, FiniteSets, Sequences

CONSTANTS Threads,  \* threads that copy, assign and drop RCP variables
          Slots,    \* RCP variables that are not members of an object
          owner,    \* [Slots -> Threads]: the thread whose variable it is
          Objs,     \* expressions that are ever allocated
          Arity,    \* RCP members per expression
          Null

Members == Objs \X (1..Arity)
Holders == Slots \cup Threads \cup Members

ASSUME FiniteAssumption ==
  /\ IsFiniteSet(Slots) /\ IsFiniteSet(Threads) /\ IsFiniteSet(Objs)
  /\ Arity \in Nat
  /\ owner \in [Slots -> Threads]
ASSUME DistinctAssumption ==
  /\ Null \notin Objs \cup Slots
  /\ Slots \cap Threads = {}
  /\ Slots \cap Members = {}
  /\ Threads \cap Members = {}

VARIABLES
  ptr,       \* RCP::ptr_ of every holder
  stale,     \* holders whose count is given up but whose ptr_ is still set
  life,      \* "none", "new" (not wrapped yet), "live", "dying", "freed"
  refcount,  \* Basic::refcount_
  dtor,      \* per thread: objects inside whose destructors it is, innermost last
  pc,        \* per thread: where in an RCP operation it is
  tgt,       \* per thread: the slot that operation is going to write
  built      \* per thread: the object under construction

vars == <<ptr, stale, life, refcount, dtor, pc, tgt, built>>

Counted(h) == ptr[h] # Null /\ h \notin stale
CountedAt(o) == {h \in Holders : ptr[h] = o /\ h \notin stale}

\* The RCP variables thread t may read: its own, and the members of the
\* (immutable) expressions its own variables point to.
Visible(t) ==
  {s \in Slots : owner[s] = t}
    \cup {m \in Members : \E s \in Slots : owner[s] = t /\ ptr[s] = m[1]}

\* A variable nobody has started to write: ready to be initialised.
Blank(s) == ptr[s] = Null /\ \A t \in Threads : tgt[t] # s

Idle(t) == pc[t] = "idle" /\ dtor[t] = <<>>

Init ==
  /\ ptr = [h \in Holders |-> Null]
  /\ stale = {}
  /\ life = [o \in Objs |-> "none"]
  /\ refcount = [o \in Objs |-> 0]
  /\ dtor = [t \in Threads |-> <<>>]
  /\ pc = [t \in Threads |-> "idle"]
  /\ tgt = [t \in Threads |-> Null]
  /\ built = [t \in Threads |-> Null]

-----------------------------------------------------------------------------
(* The two accesses to the counter.                                        *)

\* if (!is_null()) (ptr_->refcount_)++;
Increment(o) ==
  refcount' = IF o = Null THEN refcount ELSE [refcount EXCEPT ![o] = @ + 1]

\* Mutant: the last owner is taken to be the one before it.
DecrementOffByOne(t, o) ==
  IF o = Null
  THEN UNCHANGED <<refcount, life, dtor>>
  ELSE /\ refcount' = [refcount EXCEPT ![o] = @ - 1]
       /\ IF refcount[o] <= 2
          THEN /\ life' = [life EXCEPT ![o] = "dying"]
               /\ dtor' = [dtor EXCEPT ![t] = Append(@, o)]
          ELSE UNCHANGED <<life, dtor>>

\* Mutant: the count reaches zero and nothing is deleted.
DecrementNoDelete(t, o) ==
  /\ refcount' = IF o = Null THEN refcount ELSE [refcount EXCEPT ![o] = @ - 1]
  /\ UNCHANGED <<life, dtor>>

\* if (ptr_ != nullptr && --(ptr_->refcount_) == 0) delete ptr_;
\* `delete' enters the destructor of the object: it goes on top of dtor[t].
Decrement(t, o) ==
  IF o = Null
  THEN UNCHANGED <<refcount, life, dtor>>
  ELSE /\ refcount' = [refcount EXCEPT ![o] = @ - 1]
       /\ IF refcount[o] = 1
          THEN /\ life' = [life EXCEPT ![o] = "dying"]
               /\ dtor' = [dtor EXCEPT ![t] = Append(@, o)]
          ELSE UNCHANGED <<life, dtor>>

-----------------------------------------------------------------------------
(* rcp(new T(...)): allocation, the constructor's members, the first RCP.  *)

New(t, o) ==
  /\ Idle(t)
  /\ life[o] = "none"
  /\ life' = [life EXCEPT ![o] = "new"]
  /\ pc' = [pc EXCEPT ![t] = "build"]
  /\ built' = [built EXCEPT ![t] = o]
  /\ UNCHANGED <<ptr, stale, refcount, dtor, tgt>>

\* A member initialised from another RCP: base_{base}, a dict_ entry copied.
CopyMember(t, i, h) ==
  LET m == <<built[t], i>>
  IN  /\ pc[t] = "build"
      /\ ptr[m] = Null
      /\ h \in Visible(t)
      /\ ptr[h] # Null
      /\ ptr' = [ptr EXCEPT ![m] = ptr[h]]
      /\ Increment(ptr[h])
      /\ UNCHANGED <<stale, life, dtor, pc, tgt, built>>

\* A member moved in: dict_{std::move(dict)}.
MoveMember(t, i, s) ==
  LET m == <<built[t], i>>
  IN  /\ pc[t] = "build"
      /\ ptr[m] = Null
      /\ owner[s] = t
      /\ ptr[s] # Null
      /\ ptr' = [ptr EXCEPT ![m] = ptr[s], ![s] = Null]
      /\ UNCHANGED <<stale, life, refcount, dtor, pc, tgt, built>>

\* explicit RCP(T *p)
Adopt(t, s) ==
  LET o == built[t]
  IN  /\ pc[t] = "build"
      /\ owner[s] = t
      /\ Blank(s)
      /\ ptr' = [ptr EXCEPT ![s] = o]
      /\ Increment(o)
      /\ life' = [life EXCEPT ![o] = "live"]
      /\ pc' = [pc EXCEPT ![t] = "idle"]
      /\ built' = [built EXCEPT ![t] = Null]
      /\ UNCHANGED <<stale, dtor, tgt>>

-----------------------------------------------------------------------------
(* Constructors and move assignment: one access each.                      *)

\* RCP(const RCP &rp), also of an RCP a thread hands to another one.
CopyCtor(t, s, h) ==
  /\ Idle(t)
  /\ Blank(s)
  /\ h \in Visible(t)
  /\ ptr[h] # Null
  /\ ptr' = [ptr EXCEPT ![s] = ptr[h]]
  /\ Increment(ptr[h])
  /\ UNCHANGED <<stale, life, dtor, pc, tgt, built>>

\* Mutant: rp.ptr_ = nullptr is forgotten.
MoveCtorKeepsSource(t, s, r) ==
  /\ Idle(t)
  /\ Blank(s)
  /\ owner[r] = t
  /\ ptr[r] # Null
  /\ ptr' = [ptr EXCEPT ![s] = ptr[r]]
  /\ UNCHANGED <<stale, life, refcount, dtor, pc, tgt, built>>

\* RCP(RCP &&rp)
MoveCtor(t, s, r) ==
  /\ Idle(t)
  /\ Blank(s)
  /\ owner[r] = t
  /\ ptr[r] # Null
  /\ ptr' = [ptr EXCEPT ![s] = ptr[r], ![r] = Null]
  /\ UNCHANGED <<stale, life, refcount, dtor, pc, tgt, built>>

\* operator=(RCP &&): std::swap(ptr_, r_ptr.ptr_)
MoveAssign(t, s, r) ==
  /\ Idle(t)
  /\ owner[s] = t /\ owner[r] = t
  /\ ptr[s] # ptr[r]
  /\ ptr' = [ptr EXCEPT ![s] = ptr[r], ![r] = ptr[s]]
  /\ UNCHANGED <<stale, life, refcount, dtor, pc, tgt, built>>

-----------------------------------------------------------------------------
(* ~RCP() and reset(): decrement, destroy if it was the last, forget.      *)

Release(t, s) ==
  /\ Idle(t)
  /\ owner[s] = t
  /\ ptr[s] # Null
  /\ Decrement(t, ptr[s])
  /\ stale' = stale \cup {s}
  /\ pc' = [pc EXCEPT ![t] = "release"]
  /\ tgt' = [tgt EXCEPT ![t] = s]
  /\ UNCHANGED <<ptr, built>>

ReleaseDone(t) ==
  /\ pc[t] = "release"
  /\ dtor[t] = <<>>
  /\ ptr' = [ptr EXCEPT ![tgt[t]] = Null]
  /\ stale' = stale \ {tgt[t]}
  /\ pc' = [pc EXCEPT ![t] = "idle"]
  /\ tgt' = [tgt EXCEPT ![t] = Null]
  /\ UNCHANGED <<life, refcount, dtor, built>>

-----------------------------------------------------------------------------
(* operator=(const RCP &r_ptr).  r_ptr may be a member of the very object  *)
(* the assignment destroys: its ptr_ is copied and counted first.          *)

\* Mutant: the source is counted only when it is stored.
AssignNoIncrement(t, s, h) ==
  /\ Idle(t)
  /\ owner[s] = t
  /\ h \in Visible(t)
  /\ ptr' = [ptr EXCEPT ![t] = ptr[h]]
  /\ pc' = [pc EXCEPT ![t] = "assign"]
  /\ tgt' = [tgt EXCEPT ![t] = s]
  /\ UNCHANGED <<refcount, stale, life, dtor, built>>

AssignIncrement(t, s, h) ==
  /\ Idle(t)
  /\ owner[s] = t
  /\ h \in Visible(t)
  /\ ptr' = [ptr EXCEPT ![t] = ptr[h]]    \* T *r_ptr_ptr_ = r_ptr.ptr_
  /\ Increment(ptr[h])
  /\ pc' = [pc EXCEPT ![t] = "assign"]
  /\ tgt' = [tgt EXCEPT ![t] = s]
  /\ UNCHANGED <<stale, life, dtor, built>>

AssignDecrement(t) ==
  /\ pc[t] = "assign"
  /\ Decrement(t, ptr[tgt[t]])
  /\ stale' = IF ptr[tgt[t]] = Null THEN stale ELSE stale \cup {tgt[t]}
  /\ pc' = [pc EXCEPT ![t] = "store"]
  /\ UNCHANGED <<ptr, tgt, built>>

AssignStore(t) ==
  /\ pc[t] = "store"
  /\ dtor[t] = <<>>
  /\ ptr' = [ptr EXCEPT ![tgt[t]] = ptr[t], ![t] = Null]
  /\ stale' = stale \ {tgt[t]}
  /\ pc' = [pc EXCEPT ![t] = "idle"]
  /\ tgt' = [tgt EXCEPT ![t] = Null]
  /\ UNCHANGED <<life, refcount, dtor, built>>

-----------------------------------------------------------------------------
(* rcp_static_cast<T2>(p) makes a temporary RCP; what is read through it   *)
(* is read while it lives, and it is destroyed with the full expression.   *)

Cast(t, s) ==
  /\ Idle(t)
  /\ owner[s] = t
  /\ ptr[s] # Null
  /\ ptr' = [ptr EXCEPT ![t] = ptr[s]]
  /\ Increment(ptr[s])
  /\ pc' = [pc EXCEPT ![t] = "cast"]
  /\ UNCHANGED <<stale, life, dtor, tgt, built>>

CastDone(t) ==
  /\ pc[t] = "cast"
  /\ Decrement(t, ptr[t])
  /\ ptr' = [ptr EXCEPT ![t] = Null]
  /\ pc' = [pc EXCEPT ![t] = "idle"]
  /\ UNCHANGED <<stale, tgt, built>>

-----------------------------------------------------------------------------
(* Add::from_dict of one term that is a product: the new Mul is to have    *)
(* the dictionary of that Mul, p->first.  The dictionary is moved out of   *)
(* p->first if its count is one, and copied otherwise.  p->first is read   *)
(* through a temporary of rcp_static_cast (the test and the copy make one  *)
(* each: here it is one), and the local dictionary and the members of the  *)
(* Mul it is moved into are one.  The test is compiled in the build        *)
(* without threads; the other one always copies.                           *)

FromDict(t, s) ==
  /\ pc[t] = "build"
  /\ \A i \in 1..Arity : ptr[<<built[t], i>>] = Null
  /\ owner[s] = t
  /\ ptr[s] # Null
  /\ ptr' = [ptr EXCEPT ![t] = ptr[s]]
  /\ Increment(ptr[s])
  /\ pc' = [pc EXCEPT ![t] = "from_dict"]
  /\ UNCHANGED <<stale, life, dtor, tgt, built>>

\* Mutant: d2 is a reference to dict_ in both branches, and is moved from.
TakeMemberByReference(t, i) ==
  LET from == <<ptr[t], i>>
      to == <<built[t], i>>
  IN  /\ pc[t] = "from_dict"
      /\ ptr[from] # Null
      /\ ptr[to] = Null
      /\ ptr' = [ptr EXCEPT ![to] = ptr[from], ![from] = Null]
      /\ UNCHANGED <<stale, life, refcount, dtor, pc, tgt, built>>

TakeMember(t, i) ==
  LET from == <<ptr[t], i>>
      to == <<built[t], i>>
  IN  /\ pc[t] = "from_dict"
      /\ ptr[from] # Null
      /\ ptr[to] = Null
      /\ IF refcount[ptr[t]] = 1
         THEN /\ ptr' = [ptr EXCEPT ![to] = ptr[from], ![from] = Null]
              /\ UNCHANGED refcount
         ELSE /\ ptr' = [ptr EXCEPT ![to] = ptr[from]]
              /\ Increment(ptr[from])
      /\ UNCHANGED <<stale, life, dtor, pc, tgt, built>>

TakeDone(t) ==
  /\ pc[t] = "from_dict"
  /\ \A i \in 1..Arity :
       ptr[<<ptr[t], i>>] # Null => ptr[<<built[t], i>>] # Null
  /\ Decrement(t, ptr[t])
  /\ ptr' = [ptr EXCEPT ![t] = Null]
  /\ pc' = [pc EXCEPT ![t] = "build"]
  /\ UNCHANGED <<stale, tgt, built>>

-----------------------------------------------------------------------------
(* delete ptr_: the destructor releases the members of the innermost       *)
(* object one by one (each may enter another destructor), then the memory  *)
(* is freed.                                                               *)

Innermost(t) == dtor[t][Len(dtor[t])]

DestroyMember(t, i) ==
  LET m == <<Innermost(t), i>>
      c == ptr[m]
  IN  /\ dtor[t] # <<>>
      /\ c # Null
      /\ Decrement(t, c)
      /\ ptr' = [ptr EXCEPT ![m] = Null]
      /\ UNCHANGED <<stale, pc, tgt, built>>

Free(t) ==
  LET o == Innermost(t)
  IN  /\ dtor[t] # <<>>
      /\ \A i \in 1..Arity : ptr[<<o, i>>] = Null
      /\ life' = [life EXCEPT ![o] = "freed"]
      /\ dtor' = [dtor EXCEPT ![t] = SubSeq(@, 1, Len(@) - 1)]
      /\ UNCHANGED <<ptr, stale, refcount, pc, tgt, built>>

-----------------------------------------------------------------------------
\* The steps a thread that has entered an operation goes through.
Continue(t) ==
  \/ ReleaseDone(t)
  \/ AssignDecrement(t)
  \/ AssignStore(t)
  \/ CastDone(t)
  \/ \E i \in 1..Arity : TakeMember(t, i)
  \/ TakeDone(t)
  \/ \E i \in 1..Arity : DestroyMember(t, i)
  \/ Free(t)

\* The operations a thread may enter.
Enter(t) ==
  \/ \E o \in Objs : New(t, o)
  \/ \E i \in 1..Arity, h \in Holders : CopyMember(t, i, h)
  \/ \E i \in 1..Arity, s \in Slots : MoveMember(t, i, s)
  \/ \E s \in Slots : Adopt(t, s)
  \/ \E s \in Slots, h \in Holders : CopyCtor(t, s, h)
  \/ \E s, r \in Slots : MoveCtor(t, s, r)
  \/ \E s, r \in Slots : MoveAssign(t, s, r)
  \/ \E s \in Slots : Release(t, s)
  \/ \E s \in Slots, h \in Holders : AssignIncrement(t, s, h)
  \/ \E s \in Slots : Cast(t, s)
  \/ \E s \in Slots : FromDict(t, s)

Next == \E t \in Threads : Continue(t) \/ Enter(t)

\* A thread runs the operation it is in to its end; it need not start one.
Spec == Init /\ [][Next]_vars /\ \A t \in Threads : WF_vars(Continue(t))

-----------------------------------------------------------------------------
(* Properties.                                                             *)

TypeOK ==
  /\ ptr \in [Holders -> Objs \cup {Null}]
  /\ stale \subseteq Slots
  /\ life \in [Objs -> {"none", "new", "live", "dying", "freed"}]
  /\ refcount \in [Objs -> Nat]
  /\ dtor \in [Threads -> Seq(Objs)]
  /\ pc \in [Threads ->
              {"idle", "build", "release", "assign", "store", "cast",
               "from_dict"}]
  /\ tgt \in [Threads -> Slots \cup {Null}]
  /\ built \in [Threads -> Objs \cup {Null}]

\* The counter of an object is the number of RCP variables, temporaries and
\* members that have counted themselves and not yet given their count up,
\* whatever operation each thread is in the middle of.
RefcountExact ==
  \A o \in Objs : refcount[o] = Cardinality(CountedAt(o))

\* No use after free: whoever holds a count points to a live object, also
\* while an assignment destroys the object its source is a member of.
NoDangling ==
  \A h \in Holders : Counted(h) => life[ptr[h]] = "live"

\* No double delete: the destructors in progress, of all threads, are those
\* of the dying objects, each of them entered once.
DestroyOnce ==
  /\ \A t, u \in Threads : \A j \in 1..Len(dtor[t]), k \in 1..Len(dtor[u]) :
       dtor[t][j] = dtor[u][k] => t = u /\ j = k
  /\ \A o \in Objs : life[o] = "dying" <=>
       \E t \in Threads : \E k \in 1..Len(dtor[t]) : dtor[t][k] = o

\* No leak: no set of live objects is held up by its own members only, so
\* each of them is reachable from a variable, a temporary, or an object that
\* is being built or destroyed.
NoOrphans ==
  \A S \in SUBSET {o \in Objs : life[o] = "live"} :
    S # {} => \E h \in Holders : /\ Counted(h) /\ ptr[h] \in S
                                 /\ h \in Members => h[1] \notin S

\* An object whose last count is gone is never counted again.
StaysAbandoned ==
  [][\A o \in Objs : life[o] \in {"dying", "freed"} =>
        life'[o] \in {"dying", "freed"} /\ refcount'[o] = 0]_vars

\* Expressions are immutable: while an object is live no member changes (the
\* cached hash and the sharing of subexpressions rest on it).  Add::from_dict
\* may move a dictionary out of a live expression, and what keeps it from one
\* that somebody holds is the count: the temporary through which the count is
\* read counts as well, so it is never the one that the test asks for.
MembersImmutable ==
  [][\A m \in Members :
        life[m[1]] = "live" /\ life'[m[1]] = "live" => ptr'[m] = ptr[m]]_vars

\* The counter implements shared ownership (module RcpOwnership): memory is
\* reclaimed only when no holder is left, and then it is reclaimed.
refersTo == [h \in Holders |-> IF h \in stale THEN Null ELSE ptr[h]]

memory == [o \in Objs |->
             CASE life[o] = "new"   -> "fresh"
               [] life[o] = "live"  -> "held"
               [] life[o] = "dying" -> "abandoned"
               [] OTHER             -> life[o]]

Ownership == INSTANCE RcpOwnership

OwnershipSpec == Ownership!Spec

\* Its safety part: every step is a step of RcpOwnership or a stutter.
OwnershipSafety == Ownership!Init /\ [][Ownership!Next]_(Ownership!vars)

-----------------------------------------------------------------------------
(* The inductive invariant.  Exact counts alone are not inductive: what a  *)
(* thread in the middle of an operation holds, and which variable it has   *)
(* uncounted, has to be said as well.                                      *)

\* What the program counter of a thread says about the variable it is about to
\* write, about its temporary and about the object it is building.
PcOK ==
  \A t \in Threads :
    /\ pc[t] \in {"release", "assign", "store"} =>
         tgt[t] \in Slots /\ owner[tgt[t]] = t
    /\ pc[t] \in {"idle", "build", "cast", "from_dict"} => tgt[t] = Null
    /\ pc[t] \in {"idle", "build", "release"} => ptr[t] = Null
    /\ pc[t] \in {"cast", "from_dict"} => ptr[t] # Null
    /\ pc[t] \in {"build", "from_dict"} =>
         built[t] \in Objs /\ life[built[t]] = "new"
    /\ pc[t] = "release" => tgt[t] \in stale
    /\ pc[t] = "assign" => tgt[t] \notin stale
    /\ pc[t] = "store" => tgt[t] \in stale \/ ptr[tgt[t]] = Null

\* Only the target of an operation past its decrement is uncounted.
StaleOK ==
  \A s \in stale : \E t \in Threads :
    tgt[t] = s /\ pc[t] \in {"release", "store"}

\* While a temporary of rcp_static_cast lives, so does the variable it was
\* made from, with a count of its own.
CastHeld ==
  \A t \in Threads : pc[t] \in {"cast", "from_dict"} =>
    \E s \in Slots : owner[s] = t /\ s \notin stale /\ ptr[s] = ptr[t]

\* Two threads never build the same object.
BuiltOnce ==
  \A t, u \in Threads :
    pc[t] \in {"build", "from_dict"} /\ pc[u] \in {"build", "from_dict"}
      /\ built[t] = built[u] => t = u

Shape == TypeOK /\ PcOK /\ StaleOK /\ BuiltOnce /\ DestroyOnce

\* Counting and lifetime, together with where every thread is.
IInv == Shape /\ RefcountExact /\ NoDangling
=============================================================================
