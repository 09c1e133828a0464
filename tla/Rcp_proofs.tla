----------------------------- MODULE Rcp_proofs -----------------------------
(***************************************************************************)
(* Proofs about Rcp, for any finite sets of threads, variables and objects *)
(* and any number of members per object.                                   *)
(***************************************************************************)
EXTENDS Rcp, FiniteSetTheorems, TLAPS

-----------------------------------------------------------------------------
(* Finite sets of holders.                                                 *)

LEMMA MembersFinite == IsFiniteSet(Members)
  <1>1. IsFiniteSet(1..Arity)
    BY FS_Interval, FiniteAssumption
  <1>2. QED
    BY <1>1, FS_Product, FiniteAssumption DEF Members

LEMMA HoldersFinite == IsFiniteSet(Holders)
  BY MembersFinite, FS_Union, FiniteAssumption DEF Holders

LEMMA CountedFinite == \A o : IsFiniteSet(CountedAt(o))
  BY HoldersFinite, FS_Subset DEF CountedAt

LEMMA CardinalityAdd ==
  ASSUME NEW S, IsFiniteSet(S), NEW x, x \notin S
  PROVE  Cardinality(S \cup {x}) = Cardinality(S) + 1
  BY FS_AddElement

LEMMA CardinalityDrop ==
  ASSUME NEW S, IsFiniteSet(S), NEW x \in S
  PROVE  /\ Cardinality(S \ {x}) = Cardinality(S) - 1
         /\ Cardinality(S) \in Nat
  BY FS_RemoveElement, FS_CardinalityType

LEMMA CardinalitySwap ==
  ASSUME NEW S, IsFiniteSet(S), NEW x \in S, NEW y, y \notin S
  PROVE  Cardinality((S \ {x}) \cup {y}) = Cardinality(S)
  <1>1. IsFiniteSet(S \ {x}) /\ y \notin S \ {x}
    BY FS_Subset
  <1>2. Cardinality((S \ {x}) \cup {y}) = Cardinality(S \ {x}) + 1
    BY <1>1, CardinalityAdd
  <1>3. QED
    BY <1>2, CardinalityDrop

\* A counted holder keeps its object's count above zero.
LEMMA CountedPositive ==
  ASSUME IInv, NEW h \in Holders, Counted(h)
  PROVE  ptr[h] \in Objs /\ refcount[ptr[h]] \in Nat \ {0} /\ life[ptr[h]] = "live"
  <1>1. ptr[h] \in Objs
    BY DEF IInv, Shape, TypeOK, Counted
  <1>2. h \in CountedAt(ptr[h])
    BY DEF Counted, CountedAt
  <1>3. Cardinality(CountedAt(ptr[h])) \in Nat \ {0}
    BY <1>2, CountedFinite, FS_EmptySet, FS_CardinalityType
  <1>4. QED
    BY <1>1, <1>3 DEF IInv, RefcountExact, NoDangling

\* The converse: an object that is not live is counted by nobody.
LEMMA UncountedZero ==
  ASSUME IInv, NEW o \in Objs, life[o] # "live"
  PROVE  CountedAt(o) = {} /\ refcount[o] = 0
  <1>1. \A h \in CountedAt(o) : h \in Holders /\ ptr[h] = o /\ Counted(h)
    BY DistinctAssumption DEF CountedAt, Counted
  <1>2. CountedAt(o) = {}
    BY <1>1 DEF IInv, NoDangling
  <1>3. QED
    BY <1>2, FS_EmptySet DEF IInv, RefcountExact

\* The variables a thread may read are never half released.
LEMMA VisibleCounted ==
  ASSUME IInv, NEW t \in Threads, pc[t] \in {"idle", "build"},
         NEW h \in Visible(t)
  PROVE  h \in Holders /\ h \notin stale
  <1>1. CASE h \in Slots
    <2>1. owner[h] = t
      BY <1>1, DistinctAssumption DEF Visible
    <2>2. ASSUME h \in stale PROVE FALSE
      <3>1. PICK u \in Threads : tgt[u] = h /\ pc[u] \in {"release", "store"}
        BY <2>2 DEF IInv, Shape, StaleOK
      <3>2. owner[h] = u
        BY <3>1 DEF IInv, Shape, PcOK
      <3>3. QED
        BY <2>1, <3>1, <3>2
    <2>3. QED
      BY <1>1, <2>2 DEF Holders
  <1>2. CASE h \in Members
    BY <1>2, DistinctAssumption DEF IInv, Shape, TypeOK, Holders
  <1>3. QED
    BY <1>1, <1>2 DEF Visible

\* Nor is a variable that is ready to be initialised.
LEMMA BlankCounted ==
  ASSUME IInv, NEW s \in Slots, Blank(s)
  PROVE  s \notin stale /\ ptr[s] = Null
  BY DEF IInv, Shape, StaleOK, Blank

-----------------------------------------------------------------------------
(* What the accesses to the counter do to the invariant.  In each lemma    *)
(* the set of holders counted at an object changes in step with it.        *)

\* Objects that stop being live have lost their last holder, and new holders
\* point to live objects.
LEMMA LiveKept ==
  ASSUME IInv, RefcountExact', TypeOK',
         \A o \in Objs : life[o] = "live" =>
           life'[o] = "live" \/ refcount'[o] = 0,
         \A h \in Holders : Counted(h)' =>
           life[ptr'[h]] = "live" \/ life'[ptr'[h]] = "live"
  PROVE  NoDangling'
  <1> SUFFICES ASSUME NEW h \in Holders, Counted(h)', NEW o,
                      o = ptr'[h], life'[o] # "live"
               PROVE  FALSE
    BY DEF NoDangling
  <1>1. o \in Objs /\ refcount'[o] = 0
    BY DEF TypeOK, Counted
  <1>2. h \in CountedAt(o)'
    BY DEF Counted, CountedAt
  <1>3. IsFiniteSet(CountedAt(o)')
    BY HoldersFinite, FS_Subset DEF CountedAt
  <1>4. Cardinality(CountedAt(o)') = 0
    BY <1>1 DEF RefcountExact
  <1>5. QED
    BY <1>2, <1>3, <1>4, FS_EmptySet

\* One more holder h of an object that holder g counts already.
LEMMA IncrementKeeps ==
  ASSUME IInv, TypeOK', life' = life,
         NEW g \in Holders, Counted(g), Increment(ptr[g]),
         NEW h \in Holders, ~ Counted(h),
         \A o \in Objs : CountedAt(o)' =
           IF o = ptr[g] THEN CountedAt(o) \cup {h} ELSE CountedAt(o)
  PROVE  RefcountExact' /\ NoDangling'
  <1>1. /\ ptr[g] \in Objs /\ ptr[g] # Null /\ life[ptr[g]] = "live"
        /\ refcount \in [Objs -> Nat]
    BY CountedPositive DEF IInv, Shape, TypeOK, Counted
  <1>2. refcount' = [refcount EXCEPT ![ptr[g]] = @ + 1]
    BY <1>1 DEF Increment
  <1>3. h \notin CountedAt(ptr[g])
    BY <1>1 DEF Counted, CountedAt
  <1>4. RefcountExact'
    <2> SUFFICES ASSUME NEW o \in Objs
                 PROVE  refcount'[o] = Cardinality(CountedAt(o)')
      BY DEF RefcountExact
    <2>1. refcount[o] = Cardinality(CountedAt(o))
      BY DEF IInv, RefcountExact
    <2>2. CASE o = ptr[g]
      BY <1>1, <1>2, <1>3, <2>1, <2>2, CardinalityAdd, CountedFinite
    <2>3. CASE o # ptr[g]
      BY <1>1, <1>2, <2>1, <2>3
    <2>4. QED
      BY <2>2, <2>3
  <1>5. NoDangling'
    <2> SUFFICES ASSUME NEW k \in Holders, Counted(k)', NEW o, o = ptr'[k]
                 PROVE  life[o] = "live"
      BY <1>4, LiveKept
    <2>1. o \in Objs /\ o # Null /\ k \in CountedAt(o)'
      BY DEF TypeOK, Counted, CountedAt
    <2>2. CASE o = ptr[g]
      BY <2>2, <1>1
    <2>3. CASE o # ptr[g]
      <3>1. k \in CountedAt(o)
        BY <2>1, <2>3
      <3>2. ptr[k] = o /\ Counted(k)
        BY <3>1, <2>1 DEF CountedAt, Counted
      <3>3. QED
        BY <3>2 DEF IInv, NoDangling
    <2>4. QED
      BY <2>2, <2>3
  <1>6. QED
    BY <1>4, <1>5

\* One holder h less: the last one makes the object dying.
LEMMA DecrementKeeps ==
  ASSUME IInv, NEW t \in Threads,
         NEW h \in Holders, Counted(h), Decrement(t, ptr[h]),
         ptr' \in [Holders -> Objs \cup {Null}],
         \A o \in Objs : CountedAt(o)' = CountedAt(o) \ {h}
  PROVE  /\ RefcountExact'
         /\ NoDangling'
         /\ DestroyOnce'
         /\ refcount' \in [Objs -> Nat]
         /\ dtor' \in [Threads -> Seq(Objs)]
         /\ \A o \in Objs : life'[o] # life[o] =>
              life[o] = "live" /\ life'[o] = "dying" /\ refcount'[o] = 0
         /\ life' \in [Objs -> {"none", "new", "live", "dying", "freed"}]
  <1> DEFINE p == ptr[h]
  <1>1. /\ p \in Objs /\ p # Null /\ life[p] = "live"
        /\ refcount \in [Objs -> Nat] /\ refcount[p] \in Nat \ {0}
        /\ dtor \in [Threads -> Seq(Objs)]
        /\ life \in [Objs -> {"none", "new", "live", "dying", "freed"}]
    BY CountedPositive DEF IInv, Shape, TypeOK, Counted
  <1>2. refcount' = [refcount EXCEPT ![p] = @ - 1]
    BY <1>1 DEF Decrement
  <1>3. refcount' \in [Objs -> Nat]
    BY <1>1, <1>2
  <1>4. RefcountExact'
    <2> SUFFICES ASSUME NEW o \in Objs
                 PROVE  refcount'[o] = Cardinality(CountedAt(o)')
      BY DEF RefcountExact
    <2>1. refcount[o] = Cardinality(CountedAt(o))
      BY DEF IInv, RefcountExact
    <2>2. CASE o = p
      <3>1. h \in CountedAt(o)
        BY <2>2 DEF CountedAt, Counted
      <3>2. QED
        BY <3>1, <1>1, <1>2, <2>1, <2>2, CardinalityDrop, CountedFinite
    <2>3. CASE o # p
      <3>1. CountedAt(o) \ {h} = CountedAt(o)
        BY <2>3 DEF CountedAt
      <3>2. QED
        BY <3>1, <1>1, <1>2, <2>1, <2>3
    <2>4. QED
      BY <2>2, <2>3
  <1>5. ASSUME refcount[p] = 1
        PROVE  /\ DestroyOnce'
               /\ dtor' \in [Threads -> Seq(Objs)]
               /\ \A o \in Objs : life'[o] # life[o] =>
                    life[o] = "live" /\ life'[o] = "dying" /\ refcount'[o] = 0
               /\ life' \in [Objs -> {"none", "new", "live", "dying", "freed"}]
    <2>1. /\ life' = [life EXCEPT ![p] = "dying"]
          /\ dtor' = [dtor EXCEPT ![t] = Append(@, p)]
      BY <1>1, <1>5 DEF Decrement
    <2>2. refcount'[p] = 0
      BY <1>1, <1>2, <1>5
    <2>3. \A u \in Threads : \A k \in 1..Len(dtor[u]) : dtor[u][k] # p
      BY <1>1 DEF IInv, Shape, DestroyOnce
    <2>4. \A u \in Threads :
            /\ u # t => dtor'[u] = dtor[u]
            /\ Len(dtor'[t]) = Len(dtor[t]) + 1
            /\ dtor'[t][Len(dtor[t]) + 1] = p
            /\ \A k \in 1..Len(dtor[t]) : dtor'[t][k] = dtor[t][k]
      BY <1>1, <2>1
    <2>5. DestroyOnce'
      <3>1. \A o \in Objs : life[o] = "dying" <=>
              \E u \in Threads : \E k \in 1..Len(dtor[u]) : dtor[u][k] = o
        BY DEF IInv, Shape, DestroyOnce
      <3>2. \A u, v \in Threads :
              \A j \in 1..Len(dtor[u]), k \in 1..Len(dtor[v]) :
                dtor[u][j] = dtor[v][k] => u = v /\ j = k
        BY DEF IInv, Shape, DestroyOnce
      <3>3. \A u \in Threads : Len(dtor[u]) \in Nat
        BY <1>1
      <3>4. ASSUME NEW u \in Threads, NEW v \in Threads,
                   NEW j \in 1..Len(dtor'[u]), NEW k \in 1..Len(dtor'[v]),
                   NEW e, dtor'[u][j] = e, dtor'[v][k] = e
            PROVE  u = v /\ j = k
        <4>1. CASE e = p
          <5>1. u = t /\ j = Len(dtor[t]) + 1
            BY <2>3, <2>4, <3>3, <3>4, <4>1
          <5>2. v = t /\ k = Len(dtor[t]) + 1
            BY <2>3, <2>4, <3>3, <3>4, <4>1
          <5>3. QED
            BY <5>1, <5>2
        <4>2. CASE e # p
          <5>1. j \in 1..Len(dtor[u]) /\ dtor'[u][j] = dtor[u][j]
            BY <2>4, <3>3, <3>4, <4>2
          <5>2. k \in 1..Len(dtor[v]) /\ dtor'[v][k] = dtor[v][k]
            BY <2>4, <3>3, <3>4, <4>2
          <5>3. QED
            BY <3>2, <3>4, <5>1, <5>2
        <4>3. QED
          BY <4>1, <4>2
      <3>5. ASSUME NEW o \in Objs
            PROVE  life'[o] = "dying" <=>
              \E u \in Threads : \E k \in 1..Len(dtor'[u]) : dtor'[u][k] = o
        <4>1. CASE o = p
          <5>1. life'[o] = "dying"
            BY <1>1, <2>1, <4>1
          <5>2. Len(dtor[t]) + 1 \in 1..Len(dtor'[t])
            BY <2>4, <3>3
          <5>3. QED
            BY <2>4, <4>1, <5>1, <5>2
        <4>2. CASE o # p
          <5>1. life'[o] = life[o]
            BY <1>1, <2>1, <4>2
          <5>2. ASSUME NEW u \in Threads, NEW k \in 1..Len(dtor[u]),
                       dtor[u][k] = o
                PROVE  k \in 1..Len(dtor'[u]) /\ dtor'[u][k] = o
            BY <2>4, <3>3, <5>2
          <5>3. ASSUME NEW u \in Threads, NEW k \in 1..Len(dtor'[u]),
                       dtor'[u][k] = o
                PROVE  k \in 1..Len(dtor[u]) /\ dtor[u][k] = o
            BY <2>4, <3>3, <4>2, <5>3
          <5>4. QED
            BY <3>1, <5>1, <5>2, <5>3
        <4>3. QED
          BY <4>1, <4>2
      <3>6. QED
        BY <3>4, <3>5 DEF DestroyOnce
    <2>6. \A o \in Objs : life'[o] # life[o] =>
              life[o] = "live" /\ life'[o] = "dying" /\ refcount'[o] = 0
      BY <1>1, <2>1, <2>2
    <2>7. /\ dtor' \in [Threads -> Seq(Objs)]
          /\ life' \in [Objs -> {"none", "new", "live", "dying", "freed"}]
      BY <1>1, <2>1
    <2>8. QED
      BY <2>5, <2>6, <2>7
  <1>6. ASSUME refcount[p] # 1
        PROVE  /\ DestroyOnce'
               /\ dtor' \in [Threads -> Seq(Objs)]
               /\ \A o \in Objs : life'[o] # life[o] =>
                    life[o] = "live" /\ life'[o] = "dying" /\ refcount'[o] = 0
               /\ life' \in [Objs -> {"none", "new", "live", "dying", "freed"}]
    <2>1. life' = life /\ dtor' = dtor
      BY <1>1, <1>6 DEF Decrement
    <2>2. DestroyOnce'
      BY <2>1 DEF IInv, Shape, DestroyOnce
    <2>3. QED
      BY <1>1, <2>1, <2>2
  <1>7. /\ DestroyOnce'
        /\ dtor' \in [Threads -> Seq(Objs)]
        /\ \A o \in Objs : life'[o] # life[o] =>
              life[o] = "live" /\ life'[o] = "dying" /\ refcount'[o] = 0
        /\ life' \in [Objs -> {"none", "new", "live", "dying", "freed"}]
    BY <1>5, <1>6
  <1>8. NoDangling'
    <2> SUFFICES ASSUME NEW k \in Holders, Counted(k)', NEW o,
                        o = ptr'[k], life'[o] # "live"
                 PROVE  FALSE
      BY DEF NoDangling
    <2>1. o \in Objs /\ o # Null /\ k \in CountedAt(o)'
      BY DEF Counted, CountedAt
    <2>2. k \in CountedAt(o)
      BY <2>1
    <2>3. ptr[k] = o /\ Counted(k)
      BY <2>2, <2>1 DEF CountedAt, Counted
    <2>4. refcount'[o] = 0
      BY <2>3, <2>1, <1>7 DEF IInv, NoDangling
    <2>5. IsFiniteSet(CountedAt(o)')
      BY HoldersFinite, FS_Subset DEF CountedAt
    <2>6. Cardinality(CountedAt(o)') = 0
      BY <1>4, <2>1, <2>4 DEF RefcountExact
    <2>7. QED
      BY <2>1, <2>5, <2>6, FS_EmptySet
  <1>9. QED
    BY <1>3, <1>4, <1>7, <1>8

\* Holders change places: the counters stay, and so do the sizes of the sets.
LEMMA MoveKeeps ==
  ASSUME IInv, TypeOK', refcount' = refcount,
         \A o \in Objs : life[o] = "live" => life'[o] = "live",
         \A o \in Objs : Cardinality(CountedAt(o)') = Cardinality(CountedAt(o)),
         \A h \in Holders : Counted(h)' =>
           \E g \in Holders : Counted(g) /\ ptr[g] = ptr'[h]
  PROVE  RefcountExact' /\ NoDangling'
  <1>1. RefcountExact'
    BY DEF IInv, RefcountExact
  <1>2. \A h \in Holders : Counted(h)' => life[ptr'[h]] = "live"
    BY DEF IInv, NoDangling
  <1>3. QED
    BY <1>1, <1>2, LiveKept DEF IInv, Shape, TypeOK

-----------------------------------------------------------------------------
(* One lemma per action.                                                   *)

LEMMA InitIInv == Init => IInv
  <1> SUFFICES ASSUME Init PROVE IInv
    OBVIOUS
  <1>1. TypeOK
    BY DEF Init, TypeOK, Holders
  <1>2. \A o \in Objs : CountedAt(o) = {}
    BY DistinctAssumption DEF Init, CountedAt
  <1>3. RefcountExact
    BY <1>2, FS_EmptySet DEF Init, RefcountExact
  <1>4. PcOK /\ StaleOK /\ BuiltOnce
    BY DEF Init, PcOK, StaleOK, BuiltOnce, Holders
  <1>5. DestroyOnce
    BY DEF Init, DestroyOnce
  <1>6. NoDangling
    BY DEF Init, NoDangling, Counted
  <1>7. QED
    BY <1>1, <1>3, <1>4, <1>5, <1>6 DEF IInv, Shape

LEMMA NewKeeps ==
  ASSUME IInv, NEW t \in Threads, NEW o \in Objs, New(t, o)
  PROVE  IInv'
  <1>1. TypeOK'
    BY DEF IInv, Shape, TypeOK, New
  <1>2. PcOK'
    BY DEF IInv, Shape, TypeOK, PcOK, New, Idle
  <1>3. StaleOK'
    BY DEF IInv, Shape, TypeOK, StaleOK, New, Idle
  <1>4. BuiltOnce'
    BY DEF IInv, Shape, TypeOK, PcOK, BuiltOnce, New
  <1>5. DestroyOnce'
    BY DEF IInv, Shape, TypeOK, DestroyOnce, New
  <1>6. \A p \in Objs : CountedAt(p)' = CountedAt(p)
    BY DEF New, CountedAt
  <1>7. \A h \in Holders : Counted(h)' => Counted(h) /\ ptr'[h] = ptr[h]
    BY DEF New, Counted
  <1>8. /\ refcount' = refcount
        /\ \A p \in Objs : life[p] = "live" => life'[p] = "live"
    BY DEF IInv, Shape, TypeOK, New
  <1>9. RefcountExact' /\ NoDangling'
    BY <1>1, <1>6, <1>7, <1>8, MoveKeeps
  <1>10. QED
    BY <1>1, <1>2, <1>3, <1>4, <1>5, <1>9 DEF IInv, Shape

\* What a thread building an object may rely on.
LEMMA BuildFacts ==
  ASSUME IInv, NEW t \in Threads, pc[t] \in {"build", "from_dict"}
  PROVE  /\ built[t] \in Objs /\ life[built[t]] = "new"
         /\ \A i \in 1..Arity : /\ <<built[t], i>> \in Members
                                /\ <<built[t], i>> \in Holders
                                /\ <<built[t], i>> \notin Slots
                                /\ <<built[t], i>> \notin Threads
                                /\ <<built[t], i>> \notin stale
  <1>1. built[t] \in Objs /\ life[built[t]] = "new"
    BY DEF IInv, Shape, PcOK
  <1>2. \A i \in 1..Arity : <<built[t], i>> \in Members
    BY <1>1 DEF Members
  <1>3. QED
    BY <1>1, <1>2, DistinctAssumption DEF Holders, IInv, Shape, TypeOK

LEMMA CopyMemberKeeps ==
  ASSUME IInv, NEW t \in Threads, NEW i \in 1..Arity, NEW h \in Holders,
         CopyMember(t, i, h)
  PROVE  IInv'
  <1> DEFINE m == <<built[t], i>>
  <1>1. /\ m \in Holders /\ m \notin Slots /\ m \notin Threads /\ m \notin stale
        /\ ptr[m] = Null /\ ptr' = [ptr EXCEPT ![m] = ptr[h]]
        /\ UNCHANGED <<stale, life, dtor, pc, tgt, built>>
    BY BuildFacts DEF CopyMember
  <1> HIDE DEF m
  <1>2. h \notin stale /\ ptr[h] # Null /\ Increment(ptr[h])
    BY VisibleCounted DEF CopyMember
  <1>3. TypeOK'
    BY <1>1, <1>2 DEF IInv, Shape, TypeOK, Increment
  <1>4. PcOK' /\ StaleOK' /\ BuiltOnce' /\ DestroyOnce'
    BY <1>1 DEF IInv, Shape, TypeOK, PcOK, StaleOK, BuiltOnce, DestroyOnce
  <1>5. \A o \in Objs : CountedAt(o)' =
           IF o = ptr[h] THEN CountedAt(o) \cup {m} ELSE CountedAt(o)
    BY <1>1, <1>2, DistinctAssumption DEF IInv, Shape, TypeOK, CountedAt
  <1>6. Counted(h) /\ ~ Counted(m)
    BY <1>1, <1>2 DEF Counted
  <1>7. RefcountExact' /\ NoDangling'
    BY <1>1, <1>2, <1>3, <1>5, <1>6, IncrementKeeps
  <1>8. QED
    BY <1>3, <1>4, <1>7 DEF IInv, Shape

LEMMA CopyCtorKeeps ==
  ASSUME IInv, NEW t \in Threads, NEW s \in Slots, NEW h \in Holders,
         CopyCtor(t, s, h)
  PROVE  IInv'
  <1>1. /\ s \in Holders /\ s \notin Threads /\ s \notin stale
        /\ ptr[s] = Null /\ ptr' = [ptr EXCEPT ![s] = ptr[h]]
        /\ \A u \in Threads : tgt[u] # s
        /\ UNCHANGED <<stale, life, dtor, pc, tgt, built>>
    BY BlankCounted, DistinctAssumption DEF CopyCtor, Blank, Holders
  <1>2. h \notin stale /\ ptr[h] # Null /\ Increment(ptr[h])
    BY VisibleCounted DEF CopyCtor, Idle
  <1>3. TypeOK'
    BY <1>1, <1>2 DEF IInv, Shape, TypeOK, Increment
  <1>4. PcOK' /\ StaleOK' /\ BuiltOnce' /\ DestroyOnce'
    BY <1>1 DEF IInv, Shape, TypeOK, PcOK, StaleOK, BuiltOnce, DestroyOnce
  <1>5. \A o \in Objs : CountedAt(o)' =
           IF o = ptr[h] THEN CountedAt(o) \cup {s} ELSE CountedAt(o)
    BY <1>1, <1>2, DistinctAssumption DEF IInv, Shape, TypeOK, CountedAt
  <1>6. Counted(h) /\ ~ Counted(s)
    BY <1>1, <1>2 DEF Counted
  <1>7. RefcountExact' /\ NoDangling'
    BY <1>1, <1>2, <1>3, <1>5, <1>6, IncrementKeeps
  <1>8. QED
    BY <1>3, <1>4, <1>7 DEF IInv, Shape

LEMMA CastKeeps ==
  ASSUME IInv, NEW t \in Threads, NEW s \in Slots, Cast(t, s)
  PROVE  IInv'
  <1>1. /\ t \in Holders /\ s \in Holders /\ t \notin stale /\ t \notin Slots
        /\ ptr[t] = Null /\ ptr' = [ptr EXCEPT ![t] = ptr[s]]
        /\ pc[t] = "idle" /\ pc' = [pc EXCEPT ![t] = "cast"]
        /\ UNCHANGED <<stale, life, dtor, tgt, built>>
    BY DistinctAssumption
    DEF Cast, Idle, Holders, IInv, Shape, TypeOK, PcOK
  <1>2. s \in Visible(t) /\ pc[t] \in {"idle", "build"}
    BY <1>1 DEF Cast, Visible
  <1>3. s \notin stale /\ ptr[s] # Null /\ Increment(ptr[s])
    BY <1>2, VisibleCounted DEF Cast
  <1>4. TypeOK'
    BY <1>1, <1>3 DEF IInv, Shape, TypeOK, Increment
  <1>5. PcOK' /\ StaleOK' /\ BuiltOnce' /\ DestroyOnce'
    BY <1>1, <1>3, DistinctAssumption
    DEF IInv, Shape, TypeOK, PcOK, StaleOK, BuiltOnce, DestroyOnce
  <1>6. \A o \in Objs : CountedAt(o)' =
           IF o = ptr[s] THEN CountedAt(o) \cup {t} ELSE CountedAt(o)
    BY <1>1, <1>3, DistinctAssumption DEF IInv, Shape, TypeOK, CountedAt
  <1>7. Counted(s) /\ ~ Counted(t)
    BY <1>1, <1>3 DEF Counted
  <1>8. RefcountExact' /\ NoDangling'
    BY <1>1, <1>3, <1>4, <1>6, <1>7, IncrementKeeps
  <1>9. QED
    BY <1>4, <1>5, <1>8 DEF IInv, Shape

\* Moves leave every thread where it is in its operation.
LEMMA PcKept ==
  ASSUME PcOK, UNCHANGED <<stale, life, pc, tgt, built>>,
         \A u \in Threads : ptr'[u] = ptr[u],
         \A u \in Threads :
           pc[u] = "store" /\ ptr[tgt[u]] = Null => ptr'[tgt[u]] = Null
  PROVE  PcOK'
  <1> SUFFICES ASSUME NEW u \in Threads
      PROVE  /\ pc[u] \in {"release", "assign", "store"} =>
                  tgt[u] \in Slots /\ owner[tgt[u]] = u
             /\ pc[u] \in {"idle", "build", "cast", "from_dict"} => tgt[u] = Null
             /\ pc[u] \in {"idle", "build", "release"} => ptr'[u] = Null
             /\ pc[u] \in {"cast", "from_dict"} => ptr'[u] # Null
             /\ pc[u] \in {"build", "from_dict"} =>
                  built[u] \in Objs /\ life[built[u]] = "new"
             /\ pc[u] = "release" => tgt[u] \in stale
             /\ pc[u] = "assign" => tgt[u] \notin stale
             /\ pc[u] = "store" => tgt[u] \in stale \/ ptr'[tgt[u]] = Null
    BY DEF PcOK
  <1>1. ptr'[u] = ptr[u]
    OBVIOUS
  <1>2. /\ pc[u] \in {"release", "assign", "store"} =>
             tgt[u] \in Slots /\ owner[tgt[u]] = u
        /\ pc[u] \in {"idle", "build", "cast", "from_dict"} => tgt[u] = Null
        /\ pc[u] \in {"build", "from_dict"} =>
             built[u] \in Objs /\ life[built[u]] = "new"
        /\ pc[u] = "release" => tgt[u] \in stale
        /\ pc[u] = "assign" => tgt[u] \notin stale
    BY DEF PcOK
  <1>3. /\ pc[u] \in {"idle", "build", "release"} => ptr'[u] = Null
        /\ pc[u] \in {"cast", "from_dict"} => ptr'[u] # Null
    BY <1>1 DEF PcOK
  <1>4. pc[u] = "store" => tgt[u] \in stale \/ ptr[tgt[u]] = Null
    BY DEF PcOK
  <1>5. pc[u] = "store" => tgt[u] \in stale \/ ptr'[tgt[u]] = Null
    BY <1>4
  <1>6. QED
    BY <1>2, <1>3, <1>5

LEMMA MoveMemberKeeps ==
  ASSUME IInv, NEW t \in Threads, NEW i \in 1..Arity, NEW s \in Slots,
         MoveMember(t, i, s)
  PROVE  IInv'
  <1> DEFINE m == <<built[t], i>>
  <1>1. /\ m \in Holders /\ m \notin Slots /\ m \notin Threads /\ m \notin stale
        /\ ptr[m] = Null /\ ptr' = [ptr EXCEPT ![m] = ptr[s], ![s] = Null]
        /\ refcount' = refcount
        /\ UNCHANGED <<stale, life, dtor, pc, tgt, built>>
    BY BuildFacts DEF MoveMember
  <1> HIDE DEF m
  <1>2. /\ s \in Visible(t) /\ pc[t] \in {"idle", "build"} /\ ptr[s] # Null
    BY DEF MoveMember, Visible
  <1>3. s \notin stale /\ s \in Holders /\ s \notin Threads
    BY <1>2, VisibleCounted, DistinctAssumption
  <1>4. TypeOK'
    BY <1>1, <1>3 DEF IInv, Shape, TypeOK
  <1>5. PcOK' /\ StaleOK' /\ BuiltOnce' /\ DestroyOnce'
    <2>1. PcOK'
      <3>1. \A u \in Threads : ptr'[u] = ptr[u]
        BY <1>1, <1>3 DEF IInv, Shape, TypeOK, Holders
      <3>2. \A u \in Threads :
              pc[u] = "store" /\ ptr[tgt[u]] = Null => ptr'[tgt[u]] = Null
        BY <1>1, <1>3 DEF IInv, Shape, TypeOK, PcOK, Holders
      <3>3. PcOK
        BY DEF IInv, Shape
      <3>4. QED
        BY <1>1, <3>1, <3>2, <3>3, PcKept
    <2>2. QED
      BY <1>1, <2>1 DEF IInv, Shape, StaleOK, BuiltOnce, DestroyOnce
  <1>6. \A o \in Objs : CountedAt(o)' =
           IF o = ptr[s] THEN (CountedAt(o) \ {s}) \cup {m} ELSE CountedAt(o)
    BY <1>1, <1>2, <1>3, DistinctAssumption DEF IInv, Shape, TypeOK, CountedAt
  <1>7. s \in CountedAt(ptr[s]) /\ m \notin CountedAt(ptr[s])
    BY <1>1, <1>2, <1>3 DEF CountedAt
  <1>8. \A o \in Objs : Cardinality(CountedAt(o)') = Cardinality(CountedAt(o))
    BY <1>6, <1>7, CardinalitySwap, CountedFinite
  <1>9. \A h \in Holders : Counted(h)' =>
           \E g \in Holders : Counted(g) /\ ptr[g] = ptr'[h]
    BY <1>1, <1>2, <1>3 DEF IInv, Shape, TypeOK, Counted
  <1>10. RefcountExact' /\ NoDangling'
    BY <1>1, <1>4, <1>8, <1>9, MoveKeeps
  <1>11. QED
    BY <1>4, <1>5, <1>10 DEF IInv, Shape

LEMMA MoveCtorKeeps ==
  ASSUME IInv, NEW t \in Threads, NEW s \in Slots, NEW r \in Slots,
         MoveCtor(t, s, r)
  PROVE  IInv'
  <1>1. /\ s \in Holders /\ s \notin Threads /\ s \notin stale
        /\ ptr[s] = Null /\ ptr' = [ptr EXCEPT ![s] = ptr[r], ![r] = Null]
        /\ \A u \in Threads : tgt[u] # s
        /\ refcount' = refcount
        /\ UNCHANGED <<stale, life, dtor, pc, tgt, built>>
    BY BlankCounted, DistinctAssumption DEF MoveCtor, Blank, Holders
  <1>2. /\ r \in Visible(t) /\ pc[t] \in {"idle", "build"} /\ ptr[r] # Null
    BY DEF MoveCtor, Idle, Visible
  <1>3. r \notin stale /\ r \in Holders /\ r \notin Threads /\ r # s
    BY <1>1, <1>2, VisibleCounted, DistinctAssumption
  <1>4. TypeOK'
    BY <1>1, <1>3 DEF IInv, Shape, TypeOK
  <1>5. PcOK' /\ StaleOK' /\ BuiltOnce' /\ DestroyOnce'
    <2>1. PcOK'
      <3>1. \A u \in Threads : ptr'[u] = ptr[u]
        BY <1>1, <1>3 DEF IInv, Shape, TypeOK, Holders
      <3>2. \A u \in Threads :
              pc[u] = "store" /\ ptr[tgt[u]] = Null => ptr'[tgt[u]] = Null
        BY <1>1, <1>3 DEF IInv, Shape, TypeOK, PcOK, Holders
      <3>3. PcOK
        BY DEF IInv, Shape
      <3>4. QED
        BY <1>1, <3>1, <3>2, <3>3, PcKept
    <2>2. QED
      BY <1>1, <2>1 DEF IInv, Shape, StaleOK, BuiltOnce, DestroyOnce
  <1>6. \A o \in Objs : CountedAt(o)' =
           IF o = ptr[r] THEN (CountedAt(o) \ {r}) \cup {s} ELSE CountedAt(o)
    BY <1>1, <1>2, <1>3, DistinctAssumption DEF IInv, Shape, TypeOK, CountedAt
  <1>7. r \in CountedAt(ptr[r]) /\ s \notin CountedAt(ptr[r])
    BY <1>1, <1>2, <1>3 DEF CountedAt
  <1>8. \A o \in Objs : Cardinality(CountedAt(o)') = Cardinality(CountedAt(o))
    BY <1>6, <1>7, CardinalitySwap, CountedFinite
  <1>9. \A h \in Holders : Counted(h)' =>
           \E g \in Holders : Counted(g) /\ ptr[g] = ptr'[h]
    BY <1>1, <1>2, <1>3 DEF IInv, Shape, TypeOK, Counted
  <1>10. RefcountExact' /\ NoDangling'
    BY <1>1, <1>4, <1>8, <1>9, MoveKeeps
  <1>11. QED
    BY <1>4, <1>5, <1>10 DEF IInv, Shape

LEMMA MoveAssignKeeps ==
  ASSUME IInv, NEW t \in Threads, NEW s \in Slots, NEW r \in Slots,
         MoveAssign(t, s, r)
  PROVE  IInv'
  <1>1. /\ ptr[s] # ptr[r] /\ ptr' = [ptr EXCEPT ![s] = ptr[r], ![r] = ptr[s]]
        /\ refcount' = refcount
        /\ UNCHANGED <<stale, life, dtor, pc, tgt, built>>
    BY DEF MoveAssign
  <1>2. s \in Visible(t) /\ r \in Visible(t) /\ pc[t] \in {"idle", "build"}
    BY DEF MoveAssign, Idle, Visible
  <1>3. /\ s \notin stale /\ s \in Holders /\ s \notin Threads
        /\ r \notin stale /\ r \in Holders /\ r \notin Threads
    BY <1>2, VisibleCounted, DistinctAssumption
  <1>4. TypeOK'
    BY <1>1, <1>3 DEF IInv, Shape, TypeOK
  <1>5. \A u \in Threads : pc[u] = "store" => tgt[u] # s /\ tgt[u] # r
    BY <1>2 DEF MoveAssign, Idle, IInv, Shape, PcOK
  <1>6. PcOK' /\ StaleOK' /\ BuiltOnce' /\ DestroyOnce'
    <2>1. PcOK'
      <3>1. \A u \in Threads : ptr'[u] = ptr[u]
        BY <1>1, <1>3 DEF IInv, Shape, TypeOK, Holders
      <3>2. \A u \in Threads :
              pc[u] = "store" /\ ptr[tgt[u]] = Null => ptr'[tgt[u]] = Null
        BY <1>1, <1>3, <1>5 DEF IInv, Shape, TypeOK, PcOK, Holders
      <3>3. PcOK
        BY DEF IInv, Shape
      <3>4. QED
        BY <1>1, <3>1, <3>2, <3>3, PcKept
    <2>2. QED
      BY <1>1, <2>1 DEF IInv, Shape, StaleOK, BuiltOnce, DestroyOnce
  <1>7. \A o \in Objs : CountedAt(o)' =
           IF o = ptr[r] THEN (CountedAt(o) \ {r}) \cup {s}
           ELSE IF o = ptr[s] THEN (CountedAt(o) \ {s}) \cup {r}
           ELSE CountedAt(o)
    BY <1>1, <1>3, DistinctAssumption DEF IInv, Shape, TypeOK, CountedAt
  <1>8. ASSUME NEW o \in Objs
        PROVE  Cardinality(CountedAt(o)') = Cardinality(CountedAt(o))
    <2>1. CASE o = ptr[r]
      <3>1. r \in CountedAt(o) /\ s \notin CountedAt(o)
        BY <1>1, <1>3, <2>1 DEF CountedAt
      <3>2. QED
        BY <1>7, <2>1, <3>1, CardinalitySwap, CountedFinite
    <2>2. CASE o = ptr[s]
      <3>1. s \in CountedAt(o) /\ r \notin CountedAt(o)
        BY <1>1, <1>3, <2>2 DEF CountedAt
      <3>2. CountedAt(o)' = (CountedAt(o) \ {s}) \cup {r}
        BY <1>1, <1>7, <2>2
      <3>3. QED
        BY <3>1, <3>2, CardinalitySwap, CountedFinite
    <2>3. CASE o # ptr[r] /\ o # ptr[s]
      BY <1>7, <2>3
    <2>4. QED
      BY <2>1, <2>2, <2>3
  <1>9. \A h \in Holders : Counted(h)' =>
           \E g \in Holders : Counted(g) /\ ptr[g] = ptr'[h]
    BY <1>1, <1>3 DEF IInv, Shape, TypeOK, Counted
  <1>10. RefcountExact' /\ NoDangling'
    BY <1>1, <1>4, <1>8, <1>9, MoveKeeps
  <1>11. QED
    BY <1>4, <1>6, <1>10 DEF IInv, Shape

LEMMA AdoptKeeps ==
  ASSUME IInv, NEW t \in Threads, NEW s \in Slots, Adopt(t, s)
  PROVE  IInv'
  <1> DEFINE o == built[t]
  <1>1. /\ o \in Objs /\ life[o] = "new" /\ o # Null
        /\ CountedAt(o) = {} /\ refcount[o] = 0
    BY UncountedZero, DistinctAssumption DEF Adopt, IInv, Shape, PcOK
  <1>2. /\ s \in Holders /\ s \notin Threads /\ s \notin stale
        /\ ptr[s] = Null /\ \A u \in Threads : tgt[u] # s
    BY BlankCounted, DistinctAssumption DEF Adopt, Blank, Holders
  <1>3. /\ ptr' = [ptr EXCEPT ![s] = o]
        /\ refcount' = [refcount EXCEPT ![o] = 1]
        /\ life' = [life EXCEPT ![o] = "live"]
        /\ pc[t] = "build" /\ pc' = [pc EXCEPT ![t] = "idle"]
        /\ built' = [built EXCEPT ![t] = Null]
        /\ UNCHANGED <<stale, dtor, tgt>>
    BY <1>1 DEF Adopt, Increment, IInv, Shape, TypeOK
  <1> HIDE DEF o
  <1>4. TypeOK'
    BY <1>1, <1>2, <1>3 DEF IInv, Shape, TypeOK
  <1>5. \A u \in Threads : u # t /\ pc[u] \in {"build", "from_dict"} =>
          built[u] # o
    BY <1>3 DEF IInv, Shape, BuiltOnce, o
  <1>6. PcOK' /\ StaleOK' /\ BuiltOnce'
    BY <1>1, <1>2, <1>3, <1>5
    DEF IInv, Shape, TypeOK, PcOK, StaleOK, BuiltOnce
  <1>7. DestroyOnce'
    BY <1>1, <1>3 DEF IInv, Shape, TypeOK, DestroyOnce
  <1>8. \A p \in Objs : CountedAt(p)' =
           IF p = o THEN {s} ELSE CountedAt(p)
    BY <1>1, <1>2, <1>3, DistinctAssumption DEF IInv, Shape, TypeOK, CountedAt
  <1>9. RefcountExact'
    BY <1>1, <1>3, <1>8, FS_Singleton DEF IInv, Shape, TypeOK, RefcountExact
  <1>10. NoDangling'
    BY <1>1, <1>2, <1>3 DEF IInv, Shape, TypeOK, NoDangling, Counted
  <1>11. QED
    BY <1>4, <1>6, <1>7, <1>9, <1>10 DEF IInv, Shape

\* A copy assignment counts its source first, in the thread's temporary.
LEMMA AssignIncrementKeeps ==
  ASSUME IInv, NEW t \in Threads, NEW s \in Slots, NEW h \in Holders,
         AssignIncrement(t, s, h)
  PROVE  IInv'
  <1>1. /\ t \in Holders /\ t \notin stale /\ t \notin Slots
        /\ ptr[t] = Null /\ ptr' = [ptr EXCEPT ![t] = ptr[h]]
        /\ pc[t] = "idle" /\ pc' = [pc EXCEPT ![t] = "assign"]
        /\ tgt' = [tgt EXCEPT ![t] = s] /\ tgt[t] = Null
        /\ owner[s] = t
        /\ UNCHANGED <<stale, life, dtor, built>>
    BY DistinctAssumption
    DEF AssignIncrement, Idle, Holders, IInv, Shape, TypeOK, PcOK
  <1>2. /\ s \in Visible(t) /\ h \in Visible(t) /\ pc[t] \in {"idle", "build"}
    BY <1>1 DEF AssignIncrement, Visible
  <1>3. s \notin stale /\ h \notin stale /\ Increment(ptr[h])
    BY <1>2, VisibleCounted DEF AssignIncrement
  <1>4. TypeOK'
    BY <1>1, <1>3 DEF IInv, Shape, TypeOK, Increment
  <1>5. PcOK'
    BY <1>1, <1>3, DistinctAssumption DEF IInv, Shape, TypeOK, PcOK
  <1>6. StaleOK' /\ BuiltOnce' /\ DestroyOnce'
    <2>1. StaleOK'
      BY <1>1, DistinctAssumption DEF IInv, Shape, TypeOK, StaleOK
    <2>2. BuiltOnce'
      BY <1>1 DEF IInv, Shape, TypeOK, BuiltOnce
    <2>3. DestroyOnce'
      BY <1>1 DEF IInv, Shape, DestroyOnce
    <2>4. QED
      BY <2>1, <2>2, <2>3
  <1>7. CASE ptr[h] = Null
    <2>1. refcount' = refcount /\ ptr' = ptr
      BY <1>1, <1>3, <1>7 DEF Increment, IInv, Shape, TypeOK
    <2>2. RefcountExact' /\ NoDangling'
      BY <1>1, <2>1
      DEF IInv, RefcountExact, NoDangling, CountedAt, Counted
    <2>3. QED
      BY <1>4, <1>5, <1>6, <2>2 DEF IInv, Shape
  <1>8. CASE ptr[h] # Null
    <2>1. \A o \in Objs : CountedAt(o)' =
             IF o = ptr[h] THEN CountedAt(o) \cup {t} ELSE CountedAt(o)
      BY <1>1, <1>3, <1>8, DistinctAssumption
      DEF IInv, Shape, TypeOK, CountedAt
    <2>2. Counted(h) /\ ~ Counted(t)
      BY <1>1, <1>3, <1>8 DEF Counted
    <2>3. RefcountExact' /\ NoDangling'
      BY <1>1, <1>3, <1>4, <2>1, <2>2, IncrementKeeps
    <2>4. QED
      BY <1>4, <1>5, <1>6, <2>3 DEF IInv, Shape
  <1>9. QED
    BY <1>7, <1>8

\* The decrement of a destructor, of reset() and of an assignment leaves the
\* variable s pointing to the object, but no longer counted.
LEMMA GiveUpKeeps ==
  ASSUME IInv, NEW t \in Threads, NEW s \in Slots,
         s \notin stale, ptr[s] # Null, Decrement(t, ptr[s]),
         ptr' = ptr, stale' = stale \cup {s}
  PROVE  /\ RefcountExact' /\ NoDangling' /\ DestroyOnce'
         /\ refcount' \in [Objs -> Nat]
         /\ dtor' \in [Threads -> Seq(Objs)]
         /\ life' \in [Objs -> {"none", "new", "live", "dying", "freed"}]
         /\ \A o \in Objs : life[o] = "new" => life'[o] = "new"
  <1>1. s \in Holders /\ Counted(s)
    BY DEF Holders, Counted
  <1>2. \A o \in Objs : CountedAt(o)' = CountedAt(o) \ {s}
    BY DEF CountedAt
  <1>3. ptr' \in [Holders -> Objs \cup {Null}]
    BY DEF IInv, Shape, TypeOK
  <1>4. /\ RefcountExact' /\ NoDangling' /\ DestroyOnce'
        /\ refcount' \in [Objs -> Nat]
        /\ dtor' \in [Threads -> Seq(Objs)]
        /\ life' \in [Objs -> {"none", "new", "live", "dying", "freed"}]
        /\ \A o \in Objs : life'[o] # life[o] =>
             life[o] = "live" /\ life'[o] = "dying" /\ refcount'[o] = 0
    BY <1>1, <1>2, <1>3, DecrementKeeps
  <1>5. QED
    BY <1>4

LEMMA ReleaseKeeps ==
  ASSUME IInv, NEW t \in Threads, NEW s \in Slots, Release(t, s)
  PROVE  IInv'
  <1>1. /\ ptr' = ptr /\ stale' = stale \cup {s} /\ owner[s] = t
        /\ ptr[s] # Null /\ Decrement(t, ptr[s])
        /\ pc[t] = "idle" /\ pc' = [pc EXCEPT ![t] = "release"]
        /\ tgt' = [tgt EXCEPT ![t] = s] /\ tgt[t] = Null /\ ptr[t] = Null
        /\ built' = built
    BY DEF Release, Idle, IInv, Shape, PcOK
  <1>2. s \in Visible(t) /\ pc[t] \in {"idle", "build"}
    BY <1>1 DEF Visible
  <1>3. s \notin stale
    BY <1>2, VisibleCounted
  <1>4. /\ RefcountExact' /\ NoDangling' /\ DestroyOnce'
        /\ refcount' \in [Objs -> Nat]
        /\ dtor' \in [Threads -> Seq(Objs)]
        /\ life' \in [Objs -> {"none", "new", "live", "dying", "freed"}]
        /\ \A o \in Objs : life[o] = "new" => life'[o] = "new"
    BY <1>1, <1>3, GiveUpKeeps
  <1>5. TypeOK'
    BY <1>1, <1>4 DEF IInv, Shape, TypeOK
  <1>6. \A u \in Threads \ {t} : tgt[u] # s \/ tgt[u] \notin Slots
          \/ pc[u] \notin {"release", "assign", "store"}
    BY <1>1 DEF IInv, Shape, PcOK
  <1>7. PcOK'
    BY <1>1, <1>4, <1>6 DEF IInv, Shape, TypeOK, PcOK
  <1>8. StaleOK' /\ BuiltOnce'
    BY <1>1, DistinctAssumption DEF IInv, Shape, TypeOK, StaleOK, BuiltOnce
  <1>9. QED
    BY <1>4, <1>5, <1>7, <1>8 DEF IInv, Shape

LEMMA AssignDecrementKeeps ==
  ASSUME IInv, NEW t \in Threads, AssignDecrement(t)
  PROVE  IInv'
  <1> DEFINE s == tgt[t]
  <1>1. /\ s \in Slots /\ owner[s] = t /\ s \notin stale
        /\ ptr' = ptr /\ stale' = IF ptr[s] = Null THEN stale ELSE stale \cup {s}
        /\ Decrement(t, ptr[s])
        /\ pc[t] = "assign" /\ pc' = [pc EXCEPT ![t] = "store"]
        /\ tgt' = tgt /\ built' = built
    BY DEF AssignDecrement, IInv, Shape, PcOK
  <1>2. /\ RefcountExact' /\ NoDangling' /\ DestroyOnce'
        /\ refcount' \in [Objs -> Nat]
        /\ dtor' \in [Threads -> Seq(Objs)]
        /\ life' \in [Objs -> {"none", "new", "live", "dying", "freed"}]
        /\ \A o \in Objs : life[o] = "new" => life'[o] = "new"
    <2>1. CASE ptr[s] = Null
      <3>1. stale' = stale /\ UNCHANGED <<refcount, life, dtor>>
        BY <1>1, <2>1 DEF Decrement
      <3>2. RefcountExact' /\ NoDangling'
        BY <1>1, <3>1
        DEF IInv, RefcountExact, NoDangling, CountedAt, Counted
      <3>3. DestroyOnce'
        BY <3>1 DEF IInv, Shape, DestroyOnce
      <3>4. QED
        BY <3>1, <3>2, <3>3 DEF IInv, Shape, TypeOK
    <2>2. CASE ptr[s] # Null
      BY <1>1, <2>2, GiveUpKeeps
    <2>3. QED
      BY <2>1, <2>2
  <1>3. TypeOK'
    BY <1>1, <1>2 DEF IInv, Shape, TypeOK
  <1>4. \A u \in Threads \ {t} :
          pc[u] \in {"release", "assign", "store"} => tgt[u] # s
    BY <1>1 DEF IInv, Shape, PcOK
  <1>5. PcOK'
    BY <1>1, <1>2, <1>4 DEF IInv, Shape, TypeOK, PcOK
  <1>6. StaleOK' /\ BuiltOnce'
    BY <1>1 DEF IInv, Shape, TypeOK, StaleOK, BuiltOnce
  <1>7. QED
    BY <1>2, <1>3, <1>5, <1>6 DEF IInv, Shape

\* A variable that is already uncounted forgets its object.
LEMMA ReleaseDoneKeeps ==
  ASSUME IInv, NEW t \in Threads, ReleaseDone(t)
  PROVE  IInv'
  <1> DEFINE s == tgt[t]
  <1>1. /\ s \in Slots /\ owner[s] = t /\ s \in stale /\ ptr[t] = Null
        /\ s \in Holders /\ s \notin Threads
        /\ ptr' = [ptr EXCEPT ![s] = Null] /\ stale' = stale \ {s}
        /\ pc[t] = "release" /\ pc' = [pc EXCEPT ![t] = "idle"]
        /\ tgt' = [tgt EXCEPT ![t] = Null]
        /\ UNCHANGED <<life, refcount, dtor, built>>
    BY DistinctAssumption DEF ReleaseDone, IInv, Shape, PcOK, Holders
  <1> HIDE DEF s
  <1>2. TypeOK'
    BY <1>1 DEF IInv, Shape, TypeOK
  <1>3. \A u \in Threads \ {t} :
          pc[u] \in {"release", "assign", "store"} => tgt[u] # s
    BY <1>1 DEF IInv, Shape, PcOK
  <1>4. PcOK'
    BY <1>1, <1>3 DEF IInv, Shape, TypeOK, PcOK, Holders
  <1>5. StaleOK'
    BY <1>1, <1>3 DEF IInv, Shape, TypeOK, StaleOK, s
  <1>6. BuiltOnce' /\ DestroyOnce'
    BY <1>1 DEF IInv, Shape, TypeOK, BuiltOnce, DestroyOnce
  <1>7. \A o \in Objs : CountedAt(o)' = CountedAt(o)
    BY <1>1, DistinctAssumption DEF IInv, Shape, TypeOK, CountedAt
  <1>8. \A h \in Holders : Counted(h)' => Counted(h) /\ ptr'[h] = ptr[h]
    BY <1>1 DEF IInv, Shape, TypeOK, Counted
  <1>9. RefcountExact' /\ NoDangling'
    BY <1>1, <1>2, <1>7, <1>8, MoveKeeps
  <1>10. QED
    BY <1>2, <1>4, <1>5, <1>6, <1>9 DEF IInv, Shape

\* The count taken for the temporary becomes the target's.
LEMMA AssignStoreKeeps ==
  ASSUME IInv, NEW t \in Threads, AssignStore(t)
  PROVE  IInv'
  <1> DEFINE s == tgt[t]
  <1>1. /\ s \in Slots /\ owner[s] = t /\ (s \in stale \/ ptr[s] = Null)
        /\ s \in Holders /\ s \notin Threads
        /\ t \in Holders /\ t \notin Slots /\ t \notin stale
        /\ ptr' = [ptr EXCEPT ![s] = ptr[t], ![t] = Null]
        /\ stale' = stale \ {s}
        /\ pc[t] = "store" /\ pc' = [pc EXCEPT ![t] = "idle"]
        /\ tgt' = [tgt EXCEPT ![t] = Null]
        /\ UNCHANGED <<life, refcount, dtor, built>>
    BY DistinctAssumption DEF AssignStore, IInv, Shape, TypeOK, PcOK, Holders
  <1> HIDE DEF s
  <1>2. TypeOK'
    BY <1>1 DEF IInv, Shape, TypeOK
  <1>3. \A u \in Threads \ {t} :
          pc[u] \in {"release", "assign", "store"} => tgt[u] # s
    BY <1>1 DEF IInv, Shape, PcOK
  <1>4. PcOK'
    <2>1. ptr'[t] = Null /\ \A u \in Threads \ {t} : ptr'[u] = ptr[u]
      BY <1>1 DEF IInv, Shape, TypeOK, Holders
    <2>2. \A u \in Threads \ {t} :
            pc[u] = "store" /\ ptr[tgt[u]] = Null => ptr'[tgt[u]] = Null
      BY <1>1, <1>3 DEF IInv, Shape, TypeOK, PcOK, Holders
    <2>3. /\ pc'[t] = "idle" /\ tgt'[t] = Null
          /\ \A u \in Threads \ {t} : pc'[u] = pc[u] /\ tgt'[u] = tgt[u]
      BY <1>1 DEF IInv, Shape, TypeOK
    <2>4. \A u \in Threads \ {t} :
            /\ tgt[u] \in stale /\ pc[u] \in {"release", "store"} =>
                 tgt[u] \in stale'
            /\ tgt[u] \notin stale => tgt[u] \notin stale'
      BY <1>1, <1>3
    <2>5. \A u \in Threads \ {t} :
            /\ pc[u] = "release" => tgt[u] \in stale'
            /\ pc[u] = "assign" => tgt[u] \notin stale'
            /\ pc[u] = "store" => tgt[u] \in stale' \/ ptr'[tgt[u]] = Null
      BY <2>2, <2>4 DEF IInv, Shape, PcOK
    <2>6. \A u \in Threads \ {t} :
            /\ pc[u] \in {"release", "assign", "store"} =>
                 tgt[u] \in Slots /\ owner[tgt[u]] = u
            /\ pc[u] \in {"idle", "build", "cast", "from_dict"} => tgt[u] = Null
            /\ pc[u] \in {"idle", "build", "release"} => ptr'[u] = Null
            /\ pc[u] \in {"cast", "from_dict"} => ptr'[u] # Null
            /\ pc[u] \in {"build", "from_dict"} =>
                 built[u] \in Objs /\ life[built[u]] = "new"
      BY <2>1 DEF IInv, Shape, PcOK
    <2>7. built' = built /\ life' = life
      BY <1>1
    <2>8. ASSUME NEW u \in Threads
          PROVE  /\ pc'[u] \in {"release", "assign", "store"} =>
                      tgt'[u] \in Slots /\ owner[tgt'[u]] = u
                 /\ pc'[u] \in {"idle", "build", "cast", "from_dict"} =>
                      tgt'[u] = Null
                 /\ pc'[u] \in {"idle", "build", "release"} => ptr'[u] = Null
                 /\ pc'[u] \in {"cast", "from_dict"} => ptr'[u] # Null
                 /\ pc'[u] \in {"build", "from_dict"} =>
                      built'[u] \in Objs /\ life'[built'[u]] = "new"
                 /\ pc'[u] = "release" => tgt'[u] \in stale'
                 /\ pc'[u] = "assign" => tgt'[u] \notin stale'
                 /\ pc'[u] = "store" =>
                      tgt'[u] \in stale' \/ ptr'[tgt'[u]] = Null
      <3>1. CASE u = t
        BY <2>1, <2>3, <3>1
      <3>2. CASE u # t
        BY <2>3, <2>5, <2>6, <2>7, <3>2
      <3>3. QED
        BY <3>1, <3>2
    <2>9. QED
      BY <2>8 DEF PcOK
  <1>5. StaleOK'
    BY <1>1, <1>3 DEF IInv, Shape, TypeOK, StaleOK, s
  <1>6. BuiltOnce' /\ DestroyOnce'
    BY <1>1 DEF IInv, Shape, TypeOK, BuiltOnce, DestroyOnce
  <1>7. \A o \in Objs : CountedAt(o)' =
           IF o = ptr[t] THEN (CountedAt(o) \ {t}) \cup {s} ELSE CountedAt(o)
    BY <1>1, DistinctAssumption DEF IInv, Shape, TypeOK, CountedAt
  <1>8. ASSUME NEW o \in Objs
        PROVE  Cardinality(CountedAt(o)') = Cardinality(CountedAt(o))
    <2>1. CASE o = ptr[t]
      <3>1. t \in CountedAt(o) /\ s \notin CountedAt(o)
        BY <1>1, <2>1, DistinctAssumption DEF CountedAt
      <3>2. QED
        BY <1>7, <2>1, <3>1, CardinalitySwap, CountedFinite
    <2>2. CASE o # ptr[t]
      BY <1>7, <2>2
    <2>3. QED
      BY <2>1, <2>2
  <1>9. \A h \in Holders : Counted(h)' =>
           \E g \in Holders : Counted(g) /\ ptr[g] = ptr'[h]
    BY <1>1 DEF IInv, Shape, TypeOK, Counted
  <1>10. RefcountExact' /\ NoDangling'
    BY <1>1, <1>2, <1>8, <1>9, MoveKeeps
  <1>11. QED
    BY <1>2, <1>4, <1>5, <1>6, <1>10 DEF IInv, Shape

LEMMA CastDoneKeeps ==
  ASSUME IInv, NEW t \in Threads, CastDone(t)
  PROVE  IInv'
  <1>1. /\ t \in Holders /\ t \notin Slots /\ t \notin stale
        /\ ptr[t] # Null /\ ptr' = [ptr EXCEPT ![t] = Null]
        /\ Decrement(t, ptr[t])
        /\ pc[t] = "cast" /\ pc' = [pc EXCEPT ![t] = "idle"]
        /\ UNCHANGED <<stale, tgt, built>>
    BY DistinctAssumption DEF CastDone, IInv, Shape, TypeOK, PcOK, Holders
  <1>2. Counted(t) /\ ptr' \in [Holders -> Objs \cup {Null}]
    BY <1>1 DEF Counted, IInv, Shape, TypeOK
  <1>3. \A o \in Objs : CountedAt(o)' = CountedAt(o) \ {t}
    BY <1>1, DistinctAssumption DEF IInv, Shape, TypeOK, CountedAt
  <1>4. /\ RefcountExact' /\ NoDangling' /\ DestroyOnce'
        /\ refcount' \in [Objs -> Nat]
        /\ dtor' \in [Threads -> Seq(Objs)]
        /\ life' \in [Objs -> {"none", "new", "live", "dying", "freed"}]
        /\ \A o \in Objs : life'[o] # life[o] =>
             life[o] = "live" /\ life'[o] = "dying" /\ refcount'[o] = 0
    BY <1>1, <1>2, <1>3, DecrementKeeps
  <1>5. TypeOK'
    BY <1>1, <1>2, <1>4 DEF IInv, Shape, TypeOK
  <1>6. PcOK'
    BY <1>1, <1>4 DEF IInv, Shape, TypeOK, PcOK, Holders
  <1>7. StaleOK' /\ BuiltOnce'
    <2>1. StaleOK'
      BY <1>1 DEF IInv, Shape, TypeOK, StaleOK
    <2>2. BuiltOnce'
      BY <1>1 DEF IInv, Shape, TypeOK, BuiltOnce
    <2> QED
      BY <2>1, <2>2
  <1>8. QED
    BY <1>4, <1>5, <1>6, <1>7 DEF IInv, Shape

LEMMA FromDictKeeps ==
  ASSUME IInv, NEW t \in Threads, NEW s \in Slots, FromDict(t, s)
  PROVE  IInv'
  <1>1. /\ t \in Holders /\ s \in Holders /\ t \notin stale /\ t \notin Slots
        /\ ptr[t] = Null /\ ptr' = [ptr EXCEPT ![t] = ptr[s]]
        /\ pc[t] = "build" /\ pc' = [pc EXCEPT ![t] = "from_dict"]
        /\ UNCHANGED <<stale, life, dtor, tgt, built>>
    BY DistinctAssumption DEF FromDict, Holders, IInv, Shape, TypeOK, PcOK
  <1>2. s \in Visible(t) /\ pc[t] \in {"idle", "build"}
    BY <1>1 DEF FromDict, Visible
  <1>3. s \notin stale /\ ptr[s] # Null /\ Increment(ptr[s])
    BY <1>2, VisibleCounted DEF FromDict
  <1>4. TypeOK'
    BY <1>1, <1>3 DEF IInv, Shape, TypeOK, Increment
  <1>5. PcOK' /\ StaleOK' /\ BuiltOnce' /\ DestroyOnce'
    <2>1. PcOK'
      BY <1>1, <1>3, DistinctAssumption DEF IInv, Shape, TypeOK, PcOK
    <2>2. StaleOK' /\ BuiltOnce' /\ DestroyOnce'
      BY <1>1 DEF IInv, Shape, TypeOK, StaleOK, BuiltOnce, DestroyOnce
    <2>3. QED
      BY <2>1, <2>2
  <1>6. \A o \in Objs : CountedAt(o)' =
           IF o = ptr[s] THEN CountedAt(o) \cup {t} ELSE CountedAt(o)
    BY <1>1, <1>3, DistinctAssumption DEF IInv, Shape, TypeOK, CountedAt
  <1>7. Counted(s) /\ ~ Counted(t)
    BY <1>1, <1>3 DEF Counted
  <1>8. RefcountExact' /\ NoDangling'
    BY <1>1, <1>3, <1>4, <1>6, <1>7, IncrementKeeps
  <1>9. QED
    BY <1>4, <1>5, <1>8 DEF IInv, Shape

\* What a thread taking over a dictionary may rely on.
LEMMA TakeFacts ==
  ASSUME IInv, NEW t \in Threads, pc[t] = "from_dict", NEW i \in 1..Arity
  PROVE  /\ ptr[t] \in Objs /\ ptr[t] # Null /\ t \in Holders /\ t \notin stale
         /\ <<ptr[t], i>> \in Members /\ <<ptr[t], i>> \in Holders
         /\ <<ptr[t], i>> \notin Slots /\ <<ptr[t], i>> \notin Threads
         /\ <<ptr[t], i>> \notin stale
  <1>1. ptr[t] \in Objs /\ ptr[t] # Null /\ t \in Holders /\ t \notin stale
    BY DistinctAssumption DEF IInv, Shape, TypeOK, PcOK, Holders
  <1>2. <<ptr[t], i>> \in Members
    BY <1>1 DEF Members
  <1>3. QED
    BY <1>1, <1>2, DistinctAssumption DEF Holders, IInv, Shape, TypeOK

\* Counting survives both ways of taking a member over, the move too.
LEMMA TakeMemberKeeps ==
  ASSUME IInv, NEW t \in Threads, NEW i \in 1..Arity, TakeMember(t, i)
  PROVE  IInv'
  <1> DEFINE m == <<built[t], i>>
             h == <<ptr[t], i>>
  <1>1. /\ m \in Holders /\ m \notin Slots /\ m \notin Threads /\ m \notin stale
        /\ h \in Holders /\ h \notin Slots /\ h \notin Threads /\ h \notin stale
        /\ ptr[m] = Null /\ ptr[h] # Null
        /\ UNCHANGED <<stale, life, dtor, pc, tgt, built>>
    BY BuildFacts, TakeFacts DEF TakeMember
  <1>2. \/ refcount' = refcount /\ ptr' = [ptr EXCEPT ![m] = ptr[h], ![h] = Null]
        \/ Increment(ptr[h]) /\ ptr' = [ptr EXCEPT ![m] = ptr[h]]
    BY DEF TakeMember
  <1> HIDE DEF m, h
  <1>3. TypeOK'
    <2>1. ptr' \in [Holders -> Objs \cup {Null}]
      BY <1>1, <1>2 DEF IInv, Shape, TypeOK
    <2>2. refcount' \in [Objs -> Nat]
      <3>1. refcount \in [Objs -> Nat] /\ ptr[h] \in Objs
        BY <1>1 DEF IInv, Shape, TypeOK
      <3>2. refcount' = refcount \/ refcount' = [refcount EXCEPT ![ptr[h]] = @ + 1]
        BY <1>1, <1>2 DEF Increment
      <3>3. QED
        BY <3>1, <3>2
    <2>3. QED
      BY <1>1, <2>1, <2>2 DEF IInv, Shape, TypeOK
  <1>4. PcOK' /\ StaleOK' /\ BuiltOnce' /\ DestroyOnce'
    <2>1. PcOK'
      <3>1. \A u \in Threads : ptr'[u] = ptr[u]
        BY <1>1, <1>2 DEF IInv, Shape, TypeOK, Holders
      <3>2. \A u \in Threads :
              pc[u] = "store" /\ ptr[tgt[u]] = Null => ptr'[tgt[u]] = Null
        BY <1>1, <1>2 DEF IInv, Shape, TypeOK, PcOK, Holders
      <3>3. PcOK
        BY DEF IInv, Shape
      <3>4. QED
        BY <1>1, <3>1, <3>2, <3>3, PcKept
    <2>2. QED
      BY <1>1, <2>1 DEF IInv, Shape, StaleOK, BuiltOnce, DestroyOnce
  <1>5. CASE Increment(ptr[h]) /\ ptr' = [ptr EXCEPT ![m] = ptr[h]]
    <2>1. \A o \in Objs : CountedAt(o)' =
             IF o = ptr[h] THEN CountedAt(o) \cup {m} ELSE CountedAt(o)
      BY <1>1, <1>5, DistinctAssumption DEF IInv, Shape, TypeOK, CountedAt
    <2>2. Counted(h) /\ ~ Counted(m)
      BY <1>1 DEF Counted
    <2>3. QED
      BY <1>1, <1>3, <1>4, <1>5, <2>1, <2>2, IncrementKeeps DEF IInv, Shape
  <1>6. CASE refcount' = refcount /\ ptr' = [ptr EXCEPT ![m] = ptr[h], ![h] = Null]
    <2>1. \A o \in Objs : CountedAt(o)' =
             IF o = ptr[h] THEN (CountedAt(o) \ {h}) \cup {m} ELSE CountedAt(o)
      BY <1>1, <1>6, DistinctAssumption DEF IInv, Shape, TypeOK, CountedAt
    <2>2. h \in CountedAt(ptr[h]) /\ m \notin CountedAt(ptr[h])
      BY <1>1 DEF CountedAt
    <2>3. \A o \in Objs : Cardinality(CountedAt(o)') = Cardinality(CountedAt(o))
      BY <2>1, <2>2, CardinalitySwap, CountedFinite
    <2>4. \A k \in Holders : Counted(k)' =>
             \E g \in Holders : Counted(g) /\ ptr[g] = ptr'[k]
      BY <1>1, <1>6 DEF IInv, Shape, TypeOK, Counted
    <2>5. RefcountExact' /\ NoDangling'
      BY <1>1, <1>3, <1>6, <2>3, <2>4, MoveKeeps
    <2>6. QED
      BY <1>3, <1>4, <2>5 DEF IInv, Shape
  <1>7. QED
    BY <1>2, <1>5, <1>6

LEMMA TakeDoneKeeps ==
  ASSUME IInv, NEW t \in Threads, TakeDone(t)
  PROVE  IInv'
  <1>1. /\ t \in Holders /\ t \notin Slots /\ t \notin stale
        /\ ptr[t] # Null /\ ptr' = [ptr EXCEPT ![t] = Null]
        /\ Decrement(t, ptr[t])
        /\ pc[t] = "from_dict" /\ pc' = [pc EXCEPT ![t] = "build"]
        /\ UNCHANGED <<stale, tgt, built>>
    BY DistinctAssumption DEF TakeDone, IInv, Shape, TypeOK, PcOK, Holders
  <1>2. Counted(t) /\ ptr' \in [Holders -> Objs \cup {Null}]
    BY <1>1 DEF Counted, IInv, Shape, TypeOK
  <1>3. \A o \in Objs : CountedAt(o)' = CountedAt(o) \ {t}
    BY <1>1, DistinctAssumption DEF IInv, Shape, TypeOK, CountedAt
  <1>4. /\ RefcountExact' /\ NoDangling' /\ DestroyOnce'
        /\ refcount' \in [Objs -> Nat]
        /\ dtor' \in [Threads -> Seq(Objs)]
        /\ life' \in [Objs -> {"none", "new", "live", "dying", "freed"}]
        /\ \A o \in Objs : life'[o] # life[o] =>
             life[o] = "live" /\ life'[o] = "dying" /\ refcount'[o] = 0
    BY <1>1, <1>2, <1>3, DecrementKeeps
  <1>5. TypeOK'
    BY <1>1, <1>2, <1>4 DEF IInv, Shape, TypeOK
  <1>6. PcOK'
    BY <1>1, <1>4 DEF IInv, Shape, TypeOK, PcOK, Holders
  <1>7. StaleOK' /\ BuiltOnce'
    <2>1. StaleOK'
      BY <1>1 DEF IInv, Shape, TypeOK, StaleOK
    <2>2. BuiltOnce'
      BY <1>1 DEF IInv, Shape, TypeOK, BuiltOnce
    <2>3. QED
      BY <2>1, <2>2
  <1>8. QED
    BY <1>4, <1>5, <1>6, <1>7 DEF IInv, Shape

\* A thread inside a destructor: the object is dying.
LEMMA InnermostDying ==
  ASSUME IInv, NEW t \in Threads, dtor[t] # <<>>
  PROVE  /\ Innermost(t) \in Objs /\ life[Innermost(t)] = "dying"
         /\ Len(dtor[t]) \in Nat \ {0}
  <1>1. dtor[t] \in Seq(Objs)
    BY DEF IInv, Shape, TypeOK
  <1>2. Len(dtor[t]) \in Nat \ {0} /\ Innermost(t) \in Objs
    BY <1>1 DEF Innermost
  <1>3. life[Innermost(t)] = "dying"
    BY <1>2 DEF Innermost, IInv, Shape, DestroyOnce
  <1>4. QED
    BY <1>2, <1>3

LEMMA DestroyMemberKeeps ==
  ASSUME IInv, NEW t \in Threads, NEW i \in 1..Arity, DestroyMember(t, i)
  PROVE  IInv'
  <1> DEFINE m == <<Innermost(t), i>>
  <1>1. m \in Members
    BY InnermostDying DEF DestroyMember, Members
  <1>2. /\ m \in Holders /\ m \notin Slots /\ m \notin Threads /\ m \notin stale
        /\ ptr[m] # Null /\ ptr' = [ptr EXCEPT ![m] = Null]
        /\ Decrement(t, ptr[m])
        /\ UNCHANGED <<stale, pc, tgt, built>>
    BY <1>1, DistinctAssumption
    DEF DestroyMember, IInv, Shape, TypeOK, Holders
  <1> HIDE DEF m
  <1>3. Counted(m) /\ ptr' \in [Holders -> Objs \cup {Null}]
    BY <1>2 DEF Counted, IInv, Shape, TypeOK
  <1>4. \A o \in Objs : CountedAt(o)' = CountedAt(o) \ {m}
    BY <1>2, DistinctAssumption DEF IInv, Shape, TypeOK, CountedAt
  <1>5. /\ RefcountExact' /\ NoDangling' /\ DestroyOnce'
        /\ refcount' \in [Objs -> Nat]
        /\ dtor' \in [Threads -> Seq(Objs)]
        /\ life' \in [Objs -> {"none", "new", "live", "dying", "freed"}]
        /\ \A o \in Objs : life'[o] # life[o] =>
             life[o] = "live" /\ life'[o] = "dying" /\ refcount'[o] = 0
    BY <1>2, <1>3, <1>4, DecrementKeeps
  <1>6. TypeOK'
    BY <1>2, <1>3, <1>5 DEF IInv, Shape, TypeOK
  <1>7. PcOK'
    BY <1>2, <1>5 DEF IInv, Shape, TypeOK, PcOK, Holders
  <1>8. StaleOK' /\ BuiltOnce'
    BY <1>2 DEF IInv, Shape, TypeOK, StaleOK, BuiltOnce
  <1>9. QED
    BY <1>5, <1>6, <1>7, <1>8 DEF IInv, Shape

\* The destructor of the innermost object returns; those around it stay.
LEMMA FreeKeeps ==
  ASSUME IInv, NEW t \in Threads, Free(t)
  PROVE  IInv'
  <1> DEFINE o == Innermost(t)
             n == Len(dtor[t])
  <1>1. /\ o \in Objs /\ life[o] = "dying" /\ n \in Nat \ {0} /\ dtor[t][n] = o
        /\ dtor[t] \in Seq(Objs)
    BY InnermostDying DEF Free, Innermost, IInv, Shape, TypeOK
  <1>2. /\ life' = [life EXCEPT ![o] = "freed"]
        /\ dtor' = [dtor EXCEPT ![t] = SubSeq(@, 1, n - 1)]
        /\ UNCHANGED <<ptr, stale, refcount, pc, tgt, built>>
    BY DEF Free
  <1> HIDE DEF o
  <1>3. SubSeq(dtor[t], 1, n - 1) \in Seq(Objs)
    BY <1>1
  <1>4. TypeOK'
    BY <1>1, <1>2, <1>3 DEF IInv, Shape, TypeOK
  <1>5. PcOK'
    BY <1>1, <1>2 DEF IInv, Shape, TypeOK, PcOK
  <1>6. StaleOK' /\ BuiltOnce'
    BY <1>2 DEF IInv, Shape, StaleOK, BuiltOnce
  <1>7. /\ \A u \in Threads \ {t} : dtor'[u] = dtor[u]
        /\ Len(dtor'[t]) = n - 1
        /\ \A k \in 1..(n - 1) : dtor'[t][k] = dtor[t][k]
    <2>1. \A u \in Threads \ {t} : dtor'[u] = dtor[u]
      BY <1>2 DEF IInv, Shape, TypeOK
    <2>2. dtor'[t] = SubSeq(dtor[t], 1, n - 1)
      BY <1>2 DEF IInv, Shape, TypeOK
    <2>3. /\ Len(SubSeq(dtor[t], 1, n - 1)) = n - 1
          /\ \A k \in 1..(n - 1) : SubSeq(dtor[t], 1, n - 1)[k] = dtor[t][k]
      BY <1>1
    <2>4. QED
      BY <2>1, <2>2, <2>3
  <1>8. \A u \in Threads : \A k \in 1..Len(dtor'[u]) :
          /\ k \in 1..Len(dtor[u]) /\ dtor'[u][k] = dtor[u][k]
          /\ u = t => k # n
    BY <1>1, <1>7
  <1>9. DestroyOnce'
    <2>1. ASSUME NEW u \in Threads, NEW v \in Threads,
                 NEW j \in 1..Len(dtor'[u]), NEW k \in 1..Len(dtor'[v]),
                 NEW e, dtor'[u][j] = e, dtor'[v][k] = e
          PROVE  u = v /\ j = k
      BY <1>8, <2>1 DEF IInv, Shape, DestroyOnce
    <2>2. ASSUME NEW p \in Objs
          PROVE  life'[p] = "dying" <=>
            \E u \in Threads : \E k \in 1..Len(dtor'[u]) : dtor'[u][k] = p
      <3>1. CASE p = o
        <4>1. life'[p] # "dying"
          BY <1>1, <1>2, <3>1 DEF IInv, Shape, TypeOK
        <4>2. ASSUME NEW u \in Threads, NEW k \in 1..Len(dtor'[u]),
                     dtor'[u][k] = p
              PROVE  FALSE
          <5>1. k \in 1..Len(dtor[u]) /\ dtor[u][k] = dtor[t][n]
            BY <1>1, <1>8, <3>1, <4>2
          <5>2. u = t /\ k = n
            BY <1>1, <5>1 DEF IInv, Shape, DestroyOnce
          <5>3. QED
            BY <1>8, <5>2
        <4>3. QED
          BY <4>1, <4>2
      <3>2. CASE p # o
        <4>1. life'[p] = life[p]
          BY <1>1, <1>2, <3>2 DEF IInv, Shape, TypeOK
        <4>2. ASSUME NEW u \in Threads, NEW k \in 1..Len(dtor[u]),
                     dtor[u][k] = p
              PROVE  k \in 1..Len(dtor'[u]) /\ dtor'[u][k] = p
          BY <1>1, <1>7, <3>2, <4>2
        <4>3. life[p] = "dying" <=>
                \E u \in Threads : \E k \in 1..Len(dtor[u]) : dtor[u][k] = p
          BY DEF IInv, Shape, DestroyOnce
        <4>4. ASSUME NEW u \in Threads, NEW k \in 1..Len(dtor'[u]),
                     dtor'[u][k] = p
              PROVE  k \in 1..Len(dtor[u]) /\ dtor[u][k] = p
          BY <1>8, <4>4
        <4>5. QED
          BY <4>1, <4>2, <4>3, <4>4
      <3>3. QED
        BY <3>1, <3>2
    <2>3. QED
      BY <2>1, <2>2 DEF DestroyOnce
  <1>10. /\ refcount' = refcount
         /\ \A p \in Objs : life[p] = "live" => life'[p] = "live"
         /\ \A p \in Objs : CountedAt(p)' = CountedAt(p)
         /\ \A h \in Holders : Counted(h)' => Counted(h) /\ ptr'[h] = ptr[h]
    BY <1>1, <1>2 DEF IInv, Shape, TypeOK, CountedAt, Counted
  <1>11. RefcountExact' /\ NoDangling'
    BY <1>4, <1>10, MoveKeeps
  <1>12. QED
    BY <1>4, <1>5, <1>6, <1>9, <1>11 DEF IInv, Shape

-----------------------------------------------------------------------------
(* The theorems.                                                           *)

LEMMA StepIInv ==
  ASSUME IInv, [Next]_vars
  PROVE  IInv'
  <1>1. CASE vars' = vars
    BY <1>1 DEF vars, IInv, Shape, TypeOK, PcOK, StaleOK, BuiltOnce,
      DestroyOnce, RefcountExact, NoDangling, CountedAt, Counted
  <1>2. ASSUME NEW t \in Threads, Continue(t)
        PROVE  IInv'
    BY <1>2, ReleaseDoneKeeps, AssignDecrementKeeps, AssignStoreKeeps,
       CastDoneKeeps, TakeMemberKeeps, TakeDoneKeeps, DestroyMemberKeeps,
       FreeKeeps DEF Continue
  <1>3. ASSUME NEW t \in Threads, Enter(t)
        PROVE  IInv'
    BY <1>3, NewKeeps, CopyMemberKeeps, MoveMemberKeeps, AdoptKeeps,
       CopyCtorKeeps, MoveCtorKeeps, MoveAssignKeeps, ReleaseKeeps,
       AssignIncrementKeeps, CastKeeps, FromDictKeeps DEF Enter
  <1>4. QED
    BY <1>1, <1>2, <1>3 DEF Next

\* The inductive invariant holds in every reachable state of RCP code.
THEOREM InductiveInvariant == Spec => []IInv
  <1>1. IInv /\ [Next]_vars => IInv'
    BY StepIInv
  <1>2. QED
    BY InitIInv, <1>1, PTL DEF Spec

\* csympy_rcp.h: every access to ptr_ and refcount_ keeps them in range, for
\* any number of threads, variables and expressions.
THEOREM TypeCorrect == Spec => []TypeOK
  <1>1. IInv => TypeOK
    BY DEF IInv, Shape
  <1>2. QED
    BY InductiveInvariant, <1>1, PTL

\* csympy_rcp.h:72-124: whatever the interleaving, refcount_ is the number of
\* RCPs that count themselves at the object.
THEOREM CountingIsExact == Spec => []RefcountExact
  <1>1. IInv => RefcountExact
    BY DEF IInv
  <1>2. QED
    BY InductiveInvariant, <1>1, PTL

\* csympy_rcp.h:89, 112: no RCP that counts itself points to an object whose
\* destructor has been entered.
THEOREM NoUseAfterFree == Spec => []NoDangling
  <1>1. IInv => NoDangling
    BY DEF IInv
  <1>2. QED
    BY InductiveInvariant, <1>1, PTL

\* csympy_rcp.h:89, 112: two threads never delete the same object, and no
\* destructor is entered again from inside itself.
THEOREM NoDoubleDelete == Spec => []DestroyOnce
  <1>1. IInv => DestroyOnce
    BY DEF IInv, Shape
  <1>2. QED
    BY InductiveInvariant, <1>1, PTL

\* A decrement makes a live object dying or leaves every life alone.
LEMMA DecrementLife ==
  ASSUME IInv, NEW t \in Threads, NEW h \in Holders, h \notin stale,
         Decrement(t, ptr[h])
  PROVE  \A o \in Objs : \/ life'[o] = life[o]
                         \/ life[o] = "live" /\ life'[o] = "dying"
  <1>1. CASE ptr[h] = Null
    BY <1>1 DEF Decrement
  <1>2. CASE ptr[h] # Null
    <2>1. ptr[h] \in Objs /\ life[ptr[h]] = "live"
      BY <1>2, CountedPositive DEF Counted
    <2>2. life \in [Objs -> {"none", "new", "live", "dying", "freed"}]
      BY DEF IInv, Shape, TypeOK
    <2>3. life' = life \/ life' = [life EXCEPT ![ptr[h]] = "dying"]
      BY <1>2 DEF Decrement
    <2>4. QED
      BY <2>1, <2>2, <2>3
  <1>3. QED
    BY <1>1, <1>2

\* What a step can do to the life of an object, besides New and Free.
LEMMA LifeStep ==
  ASSUME IInv, NEW t \in Threads, Continue(t) \/ Enter(t),
         ~ Free(t), ~ \E o \in Objs : New(t, o)
  PROVE  \A o \in Objs : \/ life'[o] = life[o]
                         \/ life[o] = "live" /\ life'[o] = "dying"
                         \/ life[o] = "new" /\ life'[o] = "live"
  <1> DEFINE Moved == \A o \in Objs :
                        \/ life'[o] = life[o]
                        \/ life[o] = "live" /\ life'[o] = "dying"
                        \/ life[o] = "new" /\ life'[o] = "live"
  <1> SUFFICES Moved
    OBVIOUS
  <1> HIDE DEF Moved
  <1>0. life \in [Objs -> {"none", "new", "live", "dying", "freed"}]
    BY DEF IInv, Shape, TypeOK
  <1>1. ASSUME ReleaseDone(t)
        PROVE  Moved
    BY <1>1, <1>0 DEF Moved, ReleaseDone
  <1>2. ASSUME AssignDecrement(t)
        PROVE  Moved
    <2>1. tgt[t] \in Holders /\ tgt[t] \notin stale
      BY <1>2 DEF AssignDecrement, IInv, Shape, PcOK, Holders
    <2>2. QED
      BY <1>2, <2>1, DecrementLife DEF Moved, AssignDecrement
  <1>3. ASSUME AssignStore(t)
        PROVE  Moved
    BY <1>3, <1>0 DEF Moved, AssignStore
  <1>4. ASSUME CastDone(t)
        PROVE  Moved
    <2>1. t \in Holders /\ t \notin stale
      BY DistinctAssumption DEF Holders, IInv, Shape, TypeOK
    <2>2. QED
      BY <1>4, <2>1, DecrementLife DEF Moved, CastDone
  <1>5. ASSUME NEW i \in 1..Arity, DestroyMember(t, i)
        PROVE  Moved
    <2>1. <<Innermost(t), i>> \in Members
      BY <1>5, InnermostDying DEF DestroyMember, Members
    <2>2. <<Innermost(t), i>> \in Holders /\ <<Innermost(t), i>> \notin stale
      BY <2>1, DistinctAssumption DEF Holders, IInv, Shape, TypeOK
    <2>3. QED
      BY <1>5, <2>2, DecrementLife DEF Moved, DestroyMember
  <1>6. ASSUME NEW i \in 1..Arity, NEW h \in Holders, CopyMember(t, i, h)
        PROVE  Moved
    BY <1>6, <1>0 DEF Moved, CopyMember
  <1>7. ASSUME NEW i \in 1..Arity, NEW s \in Slots, MoveMember(t, i, s)
        PROVE  Moved
    BY <1>7, <1>0 DEF Moved, MoveMember
  <1>8. ASSUME NEW s \in Slots, Adopt(t, s)
        PROVE  Moved
    BY <1>8, <1>0 DEF Moved, Adopt, IInv, Shape, PcOK
  <1>9. ASSUME NEW s \in Slots, NEW h \in Holders, CopyCtor(t, s, h)
        PROVE  Moved
    BY <1>9, <1>0 DEF Moved, CopyCtor
  <1>10. ASSUME NEW s \in Slots, NEW r \in Slots, MoveCtor(t, s, r)
        PROVE  Moved
    BY <1>10, <1>0 DEF Moved, MoveCtor
  <1>11. ASSUME NEW s \in Slots, NEW r \in Slots, MoveAssign(t, s, r)
        PROVE  Moved
    BY <1>11, <1>0 DEF Moved, MoveAssign
  <1>12. ASSUME NEW s \in Slots, Release(t, s)
        PROVE  Moved
    <2>1. s \in Holders /\ s \notin stale
      BY <1>12, VisibleCounted DEF Release, Idle, Visible
    <2>2. QED
      BY <1>12, <2>1, DecrementLife DEF Moved, Release
  <1>13. ASSUME NEW s \in Slots, NEW h \in Holders, AssignIncrement(t, s, h)
        PROVE  Moved
    BY <1>13, <1>0 DEF Moved, AssignIncrement
  <1>14. ASSUME NEW s \in Slots, Cast(t, s)
        PROVE  Moved
    BY <1>14, <1>0 DEF Moved, Cast
  <1>15. ASSUME NEW s \in Slots, FromDict(t, s)
        PROVE  Moved
    BY <1>15, <1>0 DEF Moved, FromDict
  <1>16. ASSUME NEW i \in 1..Arity, TakeMember(t, i)
        PROVE  Moved
    BY <1>16, <1>0 DEF Moved, TakeMember
  <1>17. ASSUME TakeDone(t)
        PROVE  Moved
    <2>1. t \in Holders /\ t \notin stale
      BY DistinctAssumption DEF Holders, IInv, Shape, TypeOK
    <2>2. QED
      BY <1>17, <2>1, DecrementLife DEF Moved, TakeDone
  <1>18. QED
    BY <1>1, <1>2, <1>3, <1>4, <1>5, <1>6, <1>7, <1>8, <1>9, <1>10,
       <1>11, <1>12, <1>13, <1>14, <1>15, <1>16, <1>17
    DEF Continue, Enter

\* basic.h and csympy_rcp.h: an object whose last count is gone is never
\* counted again, whatever the other threads do meanwhile.
THEOREM AbandonedForGood == Spec => StaysAbandoned
  <1> DEFINE P == \A o \in Objs : life[o] \in {"dying", "freed"} =>
                    life'[o] \in {"dying", "freed"} /\ refcount'[o] = 0
  <1>1. ASSUME IInv, IInv', [Next]_vars PROVE [P]_vars
    <2> SUFFICES ASSUME Next, NEW o \in Objs, life[o] \in {"dying", "freed"}
                 PROVE  life'[o] \in {"dying", "freed"} /\ refcount'[o] = 0
      BY <1>1
    <2>1. life'[o] \in {"dying", "freed"}
      <3>1. PICK t \in Threads : Continue(t) \/ Enter(t)
        BY DEF Next
      <3>2. life \in [Objs -> {"none", "new", "live", "dying", "freed"}]
        BY <1>1 DEF IInv, Shape, TypeOK
      <3>3. CASE \E p \in Objs : New(t, p)
        BY <3>2, <3>3 DEF New
      <3>4. CASE Free(t)
        BY <3>2, <3>4 DEF Free
      <3>5. CASE ~ Free(t) /\ ~ \E p \in Objs : New(t, p)
        BY <1>1, <3>1, <3>5, LifeStep
      <3>6. QED
        BY <3>3, <3>4, <3>5
    <2>2. \A h \in Holders : ~ (ptr'[h] = o /\ h \notin stale')
      BY <1>1, <2>1, DistinctAssumption DEF IInv, NoDangling, Counted
    <2>3. CountedAt(o)' = {}
      BY <2>2 DEF CountedAt
    <2>4. refcount'[o] = 0
      BY <1>1, <2>3, FS_EmptySet DEF IInv, RefcountExact
    <2>5. QED
      BY <2>1, <2>4
  <1>2. QED
    BY <1>1, InductiveInvariant, PTL DEF Spec, StaysAbandoned

-----------------------------------------------------------------------------
(* The temporary of rcp_static_cast is never the only holder.              *)

\* What a step of t leaves to the other threads, and what it does to its own
\* temporary.
LEMMA TemporaryStep ==
  ASSUME IInv, NEW t \in Threads, Continue(t) \/ Enter(t)
  PROVE  /\ \A u \in Threads \ {t} : pc'[u] = pc[u] /\ ptr'[u] = ptr[u]
         /\ \A v \in Slots : owner[v] # t /\ ptr[v] # Null =>
              ptr'[v] = ptr[v] /\ (v \in stale' => v \in stale)
         /\ pc'[t] \in {"cast", "from_dict"} =>
              \/ /\ pc'[t] = pc[t] /\ ptr'[t] = ptr[t] /\ stale' = stale
                 /\ \A v \in Slots : ptr'[v] = ptr[v]
              \/ \E v \in Slots :
                   owner[v] = t /\ v \notin stale' /\ ptr'[v] = ptr'[t]
  <1> DEFINE Others == \A u \in Threads \ {t} : pc'[u] = pc[u] /\ ptr'[u] = ptr[u]
             Theirs == \A v \in Slots : owner[v] # t /\ ptr[v] # Null =>
                         ptr'[v] = ptr[v] /\ (v \in stale' => v \in stale)
             Mine == pc'[t] \in {"cast", "from_dict"} =>
                       \/ /\ pc'[t] = pc[t] /\ ptr'[t] = ptr[t] /\ stale' = stale
                          /\ \A v \in Slots : ptr'[v] = ptr[v]
                       \/ \E v \in Slots :
                            owner[v] = t /\ v \notin stale' /\ ptr'[v] = ptr'[t]
             Kept == Others /\ Theirs /\ Mine
  <1> SUFFICES Kept
    OBVIOUS
  <1>0. /\ ptr \in [Holders -> Objs \cup {Null}]
        /\ pc \in [Threads -> {"idle", "build", "release", "assign", "store",
                               "cast", "from_dict"}]
        /\ t \in Holders /\ t \notin Slots /\ t \notin stale
        /\ \A v \in Slots : v \in Holders /\ v \notin Threads
        /\ \A u \in Threads : u \in Holders
        /\ \A m \in Members : m \notin Slots /\ m \notin Threads
    BY DistinctAssumption DEF Holders, IInv, Shape, TypeOK
  <1>1. ASSUME ReleaseDone(t)
        PROVE  Kept
    BY <1>1, <1>0 DEF ReleaseDone, IInv, Shape, PcOK
  <1>2. ASSUME AssignDecrement(t)
        PROVE  Kept
    BY <1>2, <1>0 DEF AssignDecrement, IInv, Shape, PcOK
  <1>3. ASSUME AssignStore(t)
        PROVE  Kept
    BY <1>3, <1>0 DEF AssignStore, IInv, Shape, PcOK
  <1>4. ASSUME CastDone(t)
        PROVE  Kept
    BY <1>4, <1>0 DEF CastDone
  <1>5. ASSUME NEW i \in 1..Arity, TakeMember(t, i)
        PROVE  Kept
    BY <1>5, <1>0, TakeFacts, BuildFacts DEF TakeMember
  <1>6. ASSUME TakeDone(t)
        PROVE  Kept
    BY <1>6, <1>0 DEF TakeDone
  <1>7. ASSUME NEW i \in 1..Arity, DestroyMember(t, i)
        PROVE  Kept
    <2>1. <<Innermost(t), i>> \in Members
      BY <1>7, InnermostDying DEF DestroyMember, Members
    <2>2. QED
      BY <1>7, <1>0, <2>1 DEF DestroyMember
  <1>8. ASSUME Free(t)
        PROVE  Kept
    BY <1>8, <1>0 DEF Free
  <1>9. ASSUME NEW p \in Objs, New(t, p)
        PROVE  Kept
    BY <1>9, <1>0 DEF New, Idle
  <1>10. ASSUME NEW i \in 1..Arity, NEW h \in Holders, CopyMember(t, i, h)
        PROVE  Kept
    BY <1>10, <1>0, BuildFacts DEF CopyMember
  <1>11. ASSUME NEW i \in 1..Arity, NEW s \in Slots, MoveMember(t, i, s)
        PROVE  Kept
    BY <1>11, <1>0, BuildFacts DEF MoveMember
  <1>12. ASSUME NEW s \in Slots, Adopt(t, s)
        PROVE  Kept
    BY <1>12, <1>0 DEF Adopt
  <1>13. ASSUME NEW s \in Slots, NEW h \in Holders, CopyCtor(t, s, h)
        PROVE  Kept
    BY <1>13, <1>0 DEF CopyCtor, Idle, Blank
  <1>14. ASSUME NEW s \in Slots, NEW r \in Slots, MoveCtor(t, s, r)
        PROVE  Kept
    BY <1>14, <1>0 DEF MoveCtor, Idle, Blank
  <1>15. ASSUME NEW s \in Slots, NEW r \in Slots, MoveAssign(t, s, r)
        PROVE  Kept
    BY <1>15, <1>0 DEF MoveAssign, Idle
  <1>16. ASSUME NEW s \in Slots, Release(t, s)
        PROVE  Kept
    BY <1>16, <1>0 DEF Release, Idle
  <1>17. ASSUME NEW s \in Slots, NEW h \in Holders, AssignIncrement(t, s, h)
        PROVE  Kept
    BY <1>17, <1>0 DEF AssignIncrement, Idle
  <1>18. ASSUME NEW s \in Slots, Cast(t, s)
        PROVE  Kept
    <2>1. s \notin stale
      BY <1>18, VisibleCounted DEF Cast, Idle, Visible
    <2>2. Others /\ Theirs
      BY <1>18, <1>0 DEF Cast
    <2>3. owner[s] = t /\ s \notin stale' /\ ptr'[s] = ptr'[t]
      BY <1>18, <1>0, <2>1 DEF Cast
    <2>4. QED
      BY <2>2, <2>3
  <1>19. ASSUME NEW s \in Slots, FromDict(t, s)
        PROVE  Kept
    <2>1. s \notin stale
      BY <1>19, VisibleCounted DEF FromDict, Idle, Visible
    <2>2. Others /\ Theirs
      BY <1>19, <1>0 DEF FromDict
    <2>3. owner[s] = t /\ s \notin stale' /\ ptr'[s] = ptr'[t]
      BY <1>19, <1>0, <2>1 DEF FromDict
    <2>4. QED
      BY <2>2, <2>3
  <1>20. QED
    BY <1>1, <1>2, <1>3, <1>4, <1>5, <1>6, <1>7, <1>8, <1>9,
       <1>10, <1>11, <1>12, <1>13, <1>14, <1>15, <1>16, <1>17, <1>18,
       <1>19
    DEF Continue, Enter

LEMMA CastHeldStep ==
  ASSUME IInv, CastHeld, NEW t \in Threads, Continue(t) \/ Enter(t)
  PROVE  CastHeld'
  <1> SUFFICES ASSUME NEW u \in Threads, pc'[u] \in {"cast", "from_dict"}
               PROVE  \E s \in Slots :
                        owner[s] = u /\ s \notin stale' /\ ptr'[s] = ptr'[u]
    BY DEF CastHeld
  <1>1. CASE u # t
    <2>1. pc[u] \in {"cast", "from_dict"} /\ ptr'[u] = ptr[u]
      BY <1>1, TemporaryStep
    <2>2. PICK s \in Slots : owner[s] = u /\ s \notin stale /\ ptr[s] = ptr[u]
      BY <2>1 DEF CastHeld
    <2>3. ptr[s] # Null
      BY <2>1, <2>2 DEF IInv, Shape, PcOK
    <2>4. ptr'[s] = ptr[s] /\ s \notin stale'
      BY <1>1, <2>2, <2>3, TemporaryStep
    <2>5. QED
      BY <2>1, <2>2, <2>4
  <1>2. CASE u = t
    <2>1. CASE /\ pc'[t] = pc[t] /\ ptr'[t] = ptr[t] /\ stale' = stale
               /\ \A v \in Slots : ptr'[v] = ptr[v]
      <3>1. PICK s \in Slots : owner[s] = t /\ s \notin stale /\ ptr[s] = ptr[t]
        BY <1>2, <2>1 DEF CastHeld
      <3>2. QED
        BY <1>2, <2>1, <3>1
    <2>2. QED
      BY <1>2, <2>1, TemporaryStep
  <1>3. QED
    BY <1>1, <1>2

\* csympy_rcp.h:137-142: the variable that is cast outlives the temporary.
LEMMA CastsHeld == Spec => []CastHeld
  <1>1. Init => CastHeld
    BY DEF Init, CastHeld
  <1>2. IInv /\ CastHeld /\ [Next]_vars => CastHeld'
    <2>1. ASSUME IInv, CastHeld, Next PROVE CastHeld'
      BY <2>1, CastHeldStep DEF Next
    <2>2. ASSUME CastHeld, vars' = vars PROVE CastHeld'
      BY <2>2 DEF CastHeld, vars
    <2>3. QED
      BY <2>1, <2>2
  <1>3. QED
    BY <1>1, <1>2, InductiveInvariant, PTL DEF Spec

\* So the count that is read through a temporary is two at least.
LEMMA CountThroughCast ==
  ASSUME IInv, CastHeld, NEW t \in Threads, pc[t] \in {"cast", "from_dict"}
  PROVE  refcount[ptr[t]] # 1
  <1>1. PICK s \in Slots : owner[s] = t /\ s \notin stale /\ ptr[s] = ptr[t]
    BY DEF CastHeld
  <1>2. /\ ptr[t] \in Objs /\ t \notin stale /\ s # t
        /\ s \in Holders /\ t \in Holders
    BY DistinctAssumption DEF IInv, Shape, TypeOK, PcOK, Holders
  <1> DEFINE C == CountedAt(ptr[t])
  <1>3. s \in C /\ t \in C /\ IsFiniteSet(C) /\ refcount[ptr[t]] = Cardinality(C)
    BY <1>1, <1>2, CountedFinite DEF CountedAt, IInv, RefcountExact
  <1> HIDE DEF C
  <1>4. Cardinality(C \ {t}) = Cardinality(C) - 1 /\ Cardinality(C) \in Nat
    BY <1>3, CardinalityDrop
  <1>5. s \in C \ {t} /\ IsFiniteSet(C \ {t})
    BY <1>2, <1>3, FS_Subset
  <1>6. Cardinality(C \ {t}) # 0
    BY <1>5, FS_EmptySet
  <1>7. QED
    BY <1>3, <1>4, <1>6

\* A step writes members of objects under construction or destruction only.
LEMMA MemberStep ==
  ASSUME IInv, CastHeld, NEW t \in Threads, Continue(t) \/ Enter(t), NEW m \in Members
  PROVE  life[m[1]] = "live" => ptr'[m] = ptr[m]
  <1>0. /\ ptr \in [Holders -> Objs \cup {Null}]
        /\ m \in Holders /\ m \notin Slots /\ m \notin Threads
        /\ m[1] \in Objs /\ m = <<m[1], m[2]>>
    BY DistinctAssumption DEF Holders, Members, IInv, Shape, TypeOK
  <1>1. ASSUME ReleaseDone(t)
        PROVE  life[m[1]] = "live" => ptr'[m] = ptr[m]
    BY <1>1, <1>0, DistinctAssumption DEF ReleaseDone, IInv, Shape, PcOK
  <1>2. ASSUME AssignDecrement(t)
        PROVE  life[m[1]] = "live" => ptr'[m] = ptr[m]
    BY <1>2 DEF AssignDecrement
  <1>3. ASSUME AssignStore(t)
        PROVE  life[m[1]] = "live" => ptr'[m] = ptr[m]
    BY <1>3, <1>0, DistinctAssumption DEF AssignStore, IInv, Shape, PcOK
  <1>4. ASSUME CastDone(t)
        PROVE  life[m[1]] = "live" => ptr'[m] = ptr[m]
    BY <1>4, <1>0, DistinctAssumption DEF CastDone, IInv, Shape, PcOK
  <1>5. ASSUME NEW i \in 1..Arity, DestroyMember(t, i)
        PROVE  life[m[1]] = "live" => ptr'[m] = ptr[m]
    BY <1>5, <1>0, InnermostDying DEF DestroyMember, Members
  <1>6. ASSUME Free(t)
        PROVE  life[m[1]] = "live" => ptr'[m] = ptr[m]
    BY <1>6 DEF Free
  <1>7. ASSUME NEW p \in Objs, New(t, p)
        PROVE  life[m[1]] = "live" => ptr'[m] = ptr[m]
    BY <1>7 DEF New
  <1>8. ASSUME NEW i \in 1..Arity, NEW h \in Holders, CopyMember(t, i, h)
        PROVE  life[m[1]] = "live" => ptr'[m] = ptr[m]
    BY <1>8, <1>0, BuildFacts, DistinctAssumption
    DEF CopyMember, Members, IInv, Shape, TypeOK
  <1>9. ASSUME NEW i \in 1..Arity, NEW s \in Slots, MoveMember(t, i, s)
        PROVE  life[m[1]] = "live" => ptr'[m] = ptr[m]
    BY <1>9, <1>0, BuildFacts, DistinctAssumption
    DEF MoveMember, Members, IInv, Shape, TypeOK
  <1>10. ASSUME NEW s \in Slots, Adopt(t, s)
        PROVE  life[m[1]] = "live" => ptr'[m] = ptr[m]
    BY <1>10, <1>0, DistinctAssumption DEF Adopt, IInv, Shape, PcOK
  <1>11. ASSUME NEW s \in Slots, NEW h \in Holders, CopyCtor(t, s, h)
        PROVE  life[m[1]] = "live" => ptr'[m] = ptr[m]
    BY <1>11, <1>0, DistinctAssumption DEF CopyCtor, IInv, Shape, PcOK
  <1>12. ASSUME NEW s \in Slots, NEW r \in Slots, MoveCtor(t, s, r)
        PROVE  life[m[1]] = "live" => ptr'[m] = ptr[m]
    BY <1>12, <1>0, DistinctAssumption DEF MoveCtor, IInv, Shape, PcOK
  <1>13. ASSUME NEW s \in Slots, NEW r \in Slots, MoveAssign(t, s, r)
        PROVE  life[m[1]] = "live" => ptr'[m] = ptr[m]
    BY <1>13, <1>0, DistinctAssumption DEF MoveAssign, IInv, Shape, PcOK
  <1>14. ASSUME NEW s \in Slots, Release(t, s)
        PROVE  life[m[1]] = "live" => ptr'[m] = ptr[m]
    BY <1>14 DEF Release
  <1>15. ASSUME NEW s \in Slots, NEW h \in Holders, AssignIncrement(t, s, h)
        PROVE  life[m[1]] = "live" => ptr'[m] = ptr[m]
    BY <1>15, <1>0, DistinctAssumption DEF AssignIncrement, IInv, Shape, PcOK
  <1>16. ASSUME NEW s \in Slots, Cast(t, s)
        PROVE  life[m[1]] = "live" => ptr'[m] = ptr[m]
    BY <1>16, <1>0, DistinctAssumption DEF Cast, IInv, Shape, PcOK
  <1>17. ASSUME NEW s \in Slots, FromDict(t, s)
        PROVE  life[m[1]] = "live" => ptr'[m] = ptr[m]
    BY <1>17, <1>0, DistinctAssumption DEF FromDict, IInv, Shape, PcOK
  <1>18. ASSUME NEW i \in 1..Arity, TakeMember(t, i)
        PROVE  life[m[1]] = "live" => ptr'[m] = ptr[m]
    <2>1. pc[t] = "from_dict" /\ refcount[ptr[t]] # 1
      BY <1>18, CountThroughCast DEF TakeMember
    <2>2. /\ ptr' = [ptr EXCEPT ![<<built[t], i>>] = ptr[<<ptr[t], i>>]]
          /\ life[built[t]] = "new"
      BY <1>18, <2>1, BuildFacts DEF TakeMember
    <2>3. QED
      BY <1>0, <2>2
  <1>19. ASSUME TakeDone(t)
        PROVE  life[m[1]] = "live" => ptr'[m] = ptr[m]
    BY <1>19, <1>0, DistinctAssumption DEF TakeDone, IInv, Shape, PcOK
  <1>20. QED
    BY <1>1, <1>2, <1>3, <1>4, <1>5, <1>6, <1>7, <1>8, <1>9, <1>10,
       <1>11, <1>12, <1>13, <1>14, <1>15, <1>16, <1>17, <1>18, <1>19 DEF
       Continue, Enter

\* add.cpp:173-193 and the constructors: the members of an expression are
\* fixed from the first RCP on until its destructor runs.  Add::from_dict
\* never moves a dictionary out of an expression, because the temporary that
\* reads the count is counted beside the variable it was made from.
THEOREM ExpressionsImmutable == Spec => MembersImmutable
  <1> DEFINE P == \A m \in Members :
                    life[m[1]] = "live" /\ life'[m[1]] = "live" =>
                      ptr'[m] = ptr[m]
  <1>1. ASSUME IInv, CastHeld, [Next]_vars PROVE [P]_vars
    BY <1>1, MemberStep DEF Next
  <1>2. QED
    BY <1>1, InductiveInvariant, CastsHeld, PTL DEF Spec, MembersImmutable

-----------------------------------------------------------------------------
(* Nothing live is without a count.                                        *)

\* A live object is counted by somebody.
LiveHeld == \A o \in Objs : life[o] = "live" => refcount[o] # 0

LEMMA LiveHeldStep ==
  ASSUME IInv, LiveHeld, NEW t \in Threads, Continue(t) \/ Enter(t)
  PROVE  LiveHeld'
  <1>0. /\ life \in [Objs -> {"none", "new", "live", "dying", "freed"}]
        /\ refcount \in [Objs -> Nat]
        /\ LiveHeld
    BY DEF IInv, Shape, TypeOK
  <1>1. ASSUME ReleaseDone(t)
        PROVE  LiveHeld'
    BY <1>1, <1>0 DEF LiveHeld, ReleaseDone
  <1>2. ASSUME AssignDecrement(t)
        PROVE  LiveHeld'
    BY <1>2, <1>0 DEF LiveHeld, AssignDecrement, Decrement
  <1>3. ASSUME AssignStore(t)
        PROVE  LiveHeld'
    BY <1>3, <1>0 DEF LiveHeld, AssignStore
  <1>4. ASSUME CastDone(t)
        PROVE  LiveHeld'
    BY <1>4, <1>0 DEF LiveHeld, CastDone, Decrement
  <1>5. ASSUME NEW i \in 1..Arity, DestroyMember(t, i)
        PROVE  LiveHeld'
    <2>1. PICK p : Decrement(t, p)
      BY <1>5 DEF DestroyMember
    <2>2. QED
      BY <1>0, <2>1 DEF LiveHeld, Decrement
  <1>6. ASSUME Free(t)
        PROVE  LiveHeld'
    BY <1>6, <1>0 DEF LiveHeld, Free
  <1>7. ASSUME NEW o \in Objs, New(t, o)
        PROVE  LiveHeld'
    BY <1>7, <1>0 DEF LiveHeld, New
  <1>8. ASSUME NEW i \in 1..Arity, NEW h \in Holders, CopyMember(t, i, h)
        PROVE  LiveHeld'
    BY <1>8, <1>0 DEF LiveHeld, CopyMember, Increment
  <1>9. ASSUME NEW i \in 1..Arity, NEW s \in Slots, MoveMember(t, i, s)
        PROVE  LiveHeld'
    BY <1>9, <1>0 DEF LiveHeld, MoveMember
  <1>10. ASSUME NEW s \in Slots, Adopt(t, s)
        PROVE  LiveHeld'
    <2>1. built[t] \in Objs /\ built[t] # Null
      BY <1>10, BuildFacts, DistinctAssumption DEF Adopt
    <2>2. QED
      BY <1>10, <1>0, <2>1 DEF LiveHeld, Adopt, Increment
  <1>11. ASSUME NEW s \in Slots, NEW h \in Holders, CopyCtor(t, s, h)
        PROVE  LiveHeld'
    BY <1>11, <1>0 DEF LiveHeld, CopyCtor, Increment
  <1>12. ASSUME NEW s \in Slots, NEW r \in Slots, MoveCtor(t, s, r)
        PROVE  LiveHeld'
    BY <1>12, <1>0 DEF LiveHeld, MoveCtor
  <1>13. ASSUME NEW s \in Slots, NEW r \in Slots, MoveAssign(t, s, r)
        PROVE  LiveHeld'
    BY <1>13, <1>0 DEF LiveHeld, MoveAssign
  <1>14. ASSUME NEW s \in Slots, Release(t, s)
        PROVE  LiveHeld'
    BY <1>14, <1>0 DEF LiveHeld, Release, Decrement
  <1>15. ASSUME NEW s \in Slots, NEW h \in Holders, AssignIncrement(t, s, h)
        PROVE  LiveHeld'
    BY <1>15, <1>0 DEF LiveHeld, AssignIncrement, Increment
  <1>16. ASSUME NEW s \in Slots, Cast(t, s)
        PROVE  LiveHeld'
    BY <1>16, <1>0 DEF LiveHeld, Cast, Increment
  <1>17. ASSUME NEW s \in Slots, FromDict(t, s)
        PROVE  LiveHeld'
    BY <1>17, <1>0 DEF LiveHeld, FromDict, Increment
  <1>18. ASSUME NEW i \in 1..Arity, TakeMember(t, i)
        PROVE  LiveHeld'
    BY <1>18, <1>0 DEF LiveHeld, TakeMember, Increment
  <1>19. ASSUME TakeDone(t)
        PROVE  LiveHeld'
    BY <1>19, <1>0 DEF LiveHeld, TakeDone, Decrement
  <1>20. QED
    BY <1>1, <1>2, <1>3, <1>4, <1>5, <1>6, <1>7, <1>8, <1>9, <1>10,
       <1>11, <1>12, <1>13, <1>14, <1>15, <1>16, <1>17, <1>18, <1>19 DEF
       Continue, Enter

\* No live object is forgotten: its destructor is entered with its last count.
THEOREM LiveObjectsHeld == Spec => []LiveHeld
  <1>1. Init => LiveHeld
    BY DEF Init, LiveHeld
  <1>2. IInv /\ LiveHeld /\ [Next]_vars => LiveHeld'
    <2>1. ASSUME IInv, LiveHeld, Next PROVE LiveHeld'
      BY <2>1, LiveHeldStep DEF Next
    <2>2. ASSUME LiveHeld, vars' = vars PROVE LiveHeld'
      BY <2>2 DEF LiveHeld, vars
    <2>3. QED
      BY <2>1, <2>2
  <1>3. QED
    BY <1>1, <1>2, InductiveInvariant, PTL DEF Spec

-----------------------------------------------------------------------------
(* No leak.  An expression is adopted before anything can be built on it,  *)
(* so live objects hold each other in no circle, and the one nobody else   *)
(* of a set holds is held from outside the set.                            *)

Live == {o \in Objs : life[o] = "live"}

\* Every set of live objects has one that no member of the set points to.
Acyclic ==
  \A S \in SUBSET Live :
    S # {} => \E o \in S : \A m \in Members : m[1] \in S => ptr[m] # o

\* The first RCP of an object is what makes it live.
LEMMA LiveByAdoption ==
  ASSUME IInv, NEW t \in Threads, Continue(t) \/ Enter(t),
         NEW o \in Objs, life[o] # "live", life'[o] = "live"
  PROVE  \E s \in Slots : Adopt(t, s) /\ o = built[t]
  <1>0. life \in [Objs -> {"none", "new", "live", "dying", "freed"}]
    BY DEF IInv, Shape, TypeOK
  <1>1. life' # life
    OBVIOUS
  <1>2. ~ ReleaseDone(t) /\ ~ AssignStore(t)
    BY <1>1 DEF ReleaseDone, AssignStore
  <1>3. ~ AssignDecrement(t)
    <2>1. AssignDecrement(t) => tgt[t] \in Holders /\ tgt[t] \notin stale
      BY DEF AssignDecrement, IInv, Shape, PcOK, Holders
    <2>2. QED
      BY <2>1, DecrementLife DEF AssignDecrement
  <1>4. ~ CastDone(t)
    <2>1. t \in Holders /\ t \notin stale
      BY DistinctAssumption DEF Holders, IInv, Shape, TypeOK
    <2>2. QED
      BY <2>1, DecrementLife DEF CastDone
  <1>5. ASSUME NEW i \in 1..Arity, DestroyMember(t, i)
        PROVE  FALSE
    <2>1. <<Innermost(t), i>> \in Members
      BY <1>5, InnermostDying DEF DestroyMember, Members
    <2>2. <<Innermost(t), i>> \in Holders /\ <<Innermost(t), i>> \notin stale
      BY <2>1, DistinctAssumption DEF Holders, IInv, Shape, TypeOK
    <2>3. QED
      BY <1>5, <2>2, DecrementLife DEF DestroyMember
  <1>6. ~ Free(t)
    BY <1>0 DEF Free
  <1>7. ASSUME NEW p \in Objs, New(t, p)
        PROVE  FALSE
    BY <1>7, <1>0 DEF New
  <1>8. ASSUME NEW i \in 1..Arity, NEW h \in Holders
        PROVE  ~ CopyMember(t, i, h)
    BY <1>1 DEF CopyMember
  <1>9. ASSUME NEW i \in 1..Arity, NEW s \in Slots
        PROVE  ~ MoveMember(t, i, s)
    BY <1>1 DEF MoveMember
  <1>10. ASSUME NEW s \in Slots, Adopt(t, s)
         PROVE  o = built[t]
    BY <1>10, <1>0 DEF Adopt
  <1>11. ASSUME NEW s \in Slots, NEW h \in Holders
         PROVE  ~ CopyCtor(t, s, h) /\ ~ AssignIncrement(t, s, h)
    BY <1>1 DEF CopyCtor, AssignIncrement
  <1>12. ASSUME NEW s \in Slots, NEW r \in Slots
         PROVE  ~ MoveCtor(t, s, r) /\ ~ MoveAssign(t, s, r)
    BY <1>1 DEF MoveCtor, MoveAssign
  <1>13. ASSUME NEW s \in Slots, Release(t, s)
         PROVE  FALSE
    <2>1. s \in Holders /\ s \notin stale
      BY <1>13, VisibleCounted DEF Release, Idle, Visible
    <2>2. QED
      BY <1>13, <2>1, DecrementLife DEF Release
  <1>14. ASSUME NEW s \in Slots
         PROVE  ~ Cast(t, s) /\ ~ FromDict(t, s)
    BY <1>1 DEF Cast, FromDict
  <1>15. ASSUME NEW i \in 1..Arity
         PROVE  ~ TakeMember(t, i)
    BY <1>1 DEF TakeMember
  <1>16. ~ TakeDone(t)
    <2>1. t \in Holders /\ t \notin stale
      BY DistinctAssumption DEF Holders, IInv, Shape, TypeOK
    <2>2. QED
      BY <2>1, DecrementLife DEF TakeDone
  <1>17. QED
    BY <1>2, <1>3, <1>4, <1>5, <1>6, <1>7, <1>8, <1>9, <1>10,
       <1>11, <1>12, <1>13, <1>14, <1>15, <1>16
    DEF Continue, Enter

LEMMA AcyclicStep ==
  ASSUME IInv, CastHeld, Acyclic, NEW t \in Threads, Continue(t) \/ Enter(t)
  PROVE  Acyclic'
  <1> SUFFICES ASSUME NEW S \in SUBSET Live', S # {}
               PROVE  \E o \in S : \A m \in Members : m[1] \in S => ptr'[m] # o
    BY DEF Acyclic
  <1>1. CASE S \subseteq Live
    <2>1. PICK o \in S : \A m \in Members : m[1] \in S => ptr[m] # o
      BY <1>1 DEF Acyclic
    <2>2. \A m \in Members : m[1] \in S => ptr'[m] = ptr[m]
      BY <1>1, MemberStep DEF Live
    <2>3. QED
      BY <2>1, <2>2
  <1>2. CASE ~ (S \subseteq Live)
    <2>1. PICK o \in S : o \notin Live
      BY <1>2
    <2>2. o \in Objs /\ life[o] # "live" /\ life'[o] = "live"
      BY <2>1 DEF Live
    <2>3. PICK s \in Slots : Adopt(t, s)
      BY <2>2, LiveByAdoption
    <2>4. ASSUME NEW m \in Members
          PROVE  ptr'[m] = ptr[m]
      BY <2>3, DistinctAssumption DEF Adopt, Holders, IInv, Shape, TypeOK
    <2>5. ASSUME NEW m \in Members
          PROVE  ptr[m] # o
      <3>1. m \in Holders /\ m \notin stale /\ o # Null
        BY <2>2, DistinctAssumption DEF Holders, IInv, Shape, TypeOK
      <3>2. QED
        BY <2>2, <3>1 DEF IInv, NoDangling, Counted
    <2>6. QED
      BY <2>4, <2>5
  <1>3. QED
    BY <1>1, <1>2

\* The least object of a set of live ones has a count, and whoever counts
\* itself there is not a member of the set.
LEMMA HeldFromOutside ==
  ASSUME IInv, LiveHeld, Acyclic
  PROVE  NoOrphans
  <1> SUFFICES ASSUME NEW S \in SUBSET Live, S # {}
               PROVE  \E h \in Holders : /\ Counted(h) /\ ptr[h] \in S
                                         /\ h \in Members => h[1] \notin S
    BY DEF NoOrphans, Live
  <1>1. PICK o \in S : \A m \in Members : m[1] \in S => ptr[m] # o
    BY DEF Acyclic
  <1>2. o \in Objs /\ refcount[o] # 0 /\ o # Null
    BY DistinctAssumption DEF Live, LiveHeld
  <1>3. CountedAt(o) # {}
    BY <1>2, FS_EmptySet DEF IInv, RefcountExact
  <1>4. PICK h \in Holders : ptr[h] = o /\ h \notin stale
    BY <1>3 DEF CountedAt
  <1>5. QED
    BY <1>1, <1>2, <1>4 DEF Counted

\* csympy_rcp.h:72-124, with the immutable expressions of basic.h: reference
\* counting reclaims everything, because what is live is held, in the end, by
\* a variable, a temporary, or an object being built or destroyed.
THEOREM NothingLeaks == Spec => []NoOrphans
  <1>1. Init => Acyclic
    BY DEF Init, Acyclic, Live
  <1>2. IInv /\ CastHeld /\ Acyclic /\ [Next]_vars => Acyclic'
    <2>1. ASSUME IInv, CastHeld, Acyclic, Next PROVE Acyclic'
      BY <2>1, AcyclicStep DEF Next
    <2>2. ASSUME Acyclic, vars' = vars PROVE Acyclic'
      BY <2>2 DEF Acyclic, Live, vars
    <2>3. QED
      BY <2>1, <2>2
  <1>3. IInv /\ LiveHeld /\ Acyclic => NoOrphans
    BY HeldFromOutside
  <1>4. QED
    BY <1>1, <1>2, <1>3, InductiveInvariant, CastsHeld, LiveObjectsHeld, PTL
    DEF Spec

-----------------------------------------------------------------------------
(* Rcp implements the safety part of RcpOwnership.                         *)

\* What the steps of Rcp are in the terms of RcpOwnership.
LEMMA NewIsCreate ==
  ASSUME IInv, NEW t \in Threads, NEW o \in Objs, New(t, o)
  PROVE  Ownership!Create(o)
  <1>1. life[o] = "none" /\ life' = [life EXCEPT ![o] = "new"]
    BY DEF New
  <1>2. refersTo' = refersTo
    BY DEF New, refersTo
  <1>3. memory[o] = "none"
    BY <1>1 DEF memory
  <1>4. memory' = [memory EXCEPT ![o] = "fresh"]
    BY <1>1 DEF memory, IInv, Shape, TypeOK
  <1>5. QED
    BY <1>2, <1>3, <1>4 DEF Ownership!Create

LEMMA FreeIsReclaim ==
  ASSUME IInv, NEW t \in Threads, Free(t)
  PROVE  \E o \in Objs : Ownership!Reclaim(o)
  <1> DEFINE o == Innermost(t)
  <1>1. o \in Objs /\ life[o] = "dying" /\ life' = [life EXCEPT ![o] = "freed"]
    BY InnermostDying DEF Free
  <1>2. refersTo' = refersTo
    BY DEF Free, refersTo
  <1> HIDE DEF o
  <1>3. memory[o] = "abandoned"
    BY <1>1 DEF memory
  <1>4. memory' = [memory EXCEPT ![o] = "freed"]
    BY <1>1 DEF memory, IInv, Shape, TypeOK
  <1>5. QED
    BY <1>1, <1>2, <1>3, <1>4 DEF Ownership!Reclaim

LEMMA OtherIsRedirect ==
  ASSUME IInv, IInv', LiveHeld', NEW t \in Threads,
         \A o \in Objs : \/ life'[o] = life[o]
                         \/ life[o] = "live" /\ life'[o] = "dying"
                         \/ life[o] = "new" /\ life'[o] = "live"
  PROVE  Ownership!Redirect
  <1>1. refersTo' \in [Holders -> Objs \cup {Null}]
    BY DEF refersTo, IInv, Shape, TypeOK
  <1>2. \A o \in Objs : o \in Ownership!Referred' <=> CountedAt(o)' # {}
    BY DistinctAssumption DEF Ownership!Referred, refersTo, CountedAt
  <1>3. \A o \in Objs : CountedAt(o)' # {} <=> life'[o] = "live"
    <2> SUFFICES ASSUME NEW o \in Objs
                 PROVE  CountedAt(o)' # {} <=> life'[o] = "live"
      OBVIOUS
    <2>1. ASSUME NEW h \in CountedAt(o)' PROVE life'[o] = "live"
      BY <2>1, DistinctAssumption DEF CountedAt, IInv, NoDangling, Counted
    <2>2. ASSUME CountedAt(o)' = {} PROVE life'[o] # "live"
      <3>1. refcount'[o] = 0
        BY <2>2, FS_EmptySet DEF IInv, RefcountExact
      <3>2. QED
        BY <3>1 DEF LiveHeld
    <2>3. QED
      BY <2>1, <2>2
  <1>4. Ownership!Referred' \subseteq Objs
    BY <1>1 DEF Ownership!Referred
  <1>5. \A o \in Ownership!Referred' : memory[o] \in {"fresh", "held"}
    BY <1>2, <1>3, <1>4 DEF memory
  <1>6. memory' = [o \in Objs |->
                    IF o \in Ownership!Referred' THEN "held"
                    ELSE IF memory[o] = "held" THEN "abandoned" ELSE memory[o]]
    <2>1. \A o \in Objs : memory'[o] =
            IF life'[o] = "live" THEN "held"
            ELSE IF memory[o] = "held" THEN "abandoned" ELSE memory[o]
      BY DEF memory, IInv, Shape, TypeOK
    <2>2. memory' = [o \in Objs |-> memory'[o]]
      BY DEF memory
    <2>3. QED
      BY <1>2, <1>3, <2>1, <2>2
  <1>7. QED
    BY <1>1, <1>5, <1>6 DEF Ownership!Redirect

\* The counter implements shared ownership: whatever the threads do, memory is
\* reclaimed only after the last holder has let go.
THEOREM ImplementsOwnership == Spec => OwnershipSafety
  <1>1. Init => Ownership!Init
    BY DEF Init, Ownership!Init, refersTo, memory
  <1>2. ASSUME IInv, IInv', LiveHeld', [Next]_vars
        PROVE  [Ownership!Next]_(Ownership!vars)
    <2>1. CASE vars' = vars
      BY <2>1 DEF vars, Ownership!vars, refersTo, memory
    <2>2. ASSUME NEW t \in Threads, Continue(t) \/ Enter(t)
          PROVE  Ownership!Next
      <3>1. CASE Free(t)
        BY <1>2, <3>1, FreeIsReclaim DEF Ownership!Next
      <3>2. CASE \E p \in Objs : New(t, p)
        BY <1>2, <3>2, NewIsCreate DEF Ownership!Next
      <3>3. CASE ~ Free(t) /\ ~ \E p \in Objs : New(t, p)
        <4>1. \A o \in Objs :
                \/ life'[o] = life[o]
                \/ life[o] = "live" /\ life'[o] = "dying"
                \/ life[o] = "new" /\ life'[o] = "live"
          BY <1>2, <2>2, <3>3, LifeStep
        <4>2. Ownership!Redirect
          BY <1>2, <4>1, OtherIsRedirect
        <4>3. QED
          BY <4>2 DEF Ownership!Next
      <3>4. QED
        BY <3>1, <3>2, <3>3
    <2>3. QED
      BY <1>2, <2>1, <2>2 DEF Next
  <1>3. QED
    BY <1>1, <1>2, InductiveInvariant, LiveObjectsHeld, PTL
    DEF Spec, OwnershipSafety
=============================================================================
