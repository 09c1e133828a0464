--------------------------- MODULE Teuchos_proofs ---------------------------
(***************************************************************************)
(* What holds of the handles, the nodes and the objects of Teuchos for any *)
(* number of variables, objects and nodes and any number of members, in    *)
(* both builds.                                                            *)
(*                                                                         *)
(* A destruction is a stack of calls of unbindOne(), and what Teuchos.tla  *)
(* promises between two of its steps depends on why each call was made.    *)
(* The invariant says that: a call has the last handle of its strength     *)
(* (FramesHold), no handle has two calls (FramesDiffer), a call was made   *)
(* by the one before it for something that one took along (Chained), or by *)
(* the client, who keeps the object of the member it lets go of (Based).   *)
(* From this a call never meets a handle that is being released already    *)
(* (NotOnStack), although strong and weak handles refer to each other in   *)
(* every way.                                                              *)
(***************************************************************************)
EXTENDS Teuchos, BasicLemmas, FiniteSetTheorems

\* The node of the k-th call of unbindOne(), and the strength of its handle.
NodeOf(k) == HeldBy(stack[k].h)
StrengthOf(k) == handle[stack[k].h].strength

\* The counts are those of the handles there are.
Sharing(n, s) == {h \in Holders : handle[h] = [node |-> n, strength |-> s]}
Counted == \A n \in Nodes, s \in Strengths : count[n][s] = Cardinality(Sharing(n, s))

\* What is held exists, what exists is held, and what holds exists as well.
HeldAlive ==
  /\ \A h \in Holders : handle[h] # NoHandle => HeldBy(h) \in alive
  /\ \A n \in alive : target[n] \in Objs /\ Total(n) > 0
  /\ \A n \in Nodes : n \notin alive => handle[<<n, 0>>] = NoHandle
  /\ \A m \in Members : handle[m] # NoHandle => memory[m[1]] # "none"

\* A call of unbindOne() has the last handle of its strength; when it is past
\* the object, the node knows.
FramesHold ==
  \A k \in 1..Len(stack) :
    /\ handle[stack[k].h] # NoHandle
    /\ count[NodeOf(k)][StrengthOf(k)] = 1
    /\ stack[k].at # "count" => StrengthOf(k) = "strong"
    /\ StrengthOf(k) = "strong" /\ stack[k].at # "object" => NodeOf(k) \notin valid

\* No handle is released twice.
FramesDiffer == \A j, k \in 1..Len(stack) : stack[j].h = stack[k].h => j = k

\* Why a call was made: by the call before it, for the extra data of the node or
\* for a member of the object ...
Link(f, h) ==
  LET n == HeldBy(f.h)
  IN  \/ h = <<n, 0>> /\ (f.at = "object" \/ (f.at = "count" /\ Total(n) = 1))
      \/ f.at = "members" /\ \E i \in 1..Arity : h = <<target[n], i>>
Chained == \A k \in 1..Len(stack) : k + 1 \in 1..Len(stack) => Link(stack[k], stack[k + 1].h)

\* ... or by the client, who keeps the object of a member alive.
Kept(h) == h \in Vars \cup {Temp} \cup Members /\ (h \in Members => \E v \in Vars : Holds(v, h[1]))
Based == stack # <<>> => Kept(stack[1].h)

\* An object in its destructor has one call.
Dying ==
  /\ \A k \in 1..Len(stack) :
       stack[k].at = "members" => memory[target[NodeOf(k)]] = "dying"
  /\ \A j, k \in 1..Len(stack) :
       stack[j].at = "members" /\ stack[k].at = "members"
         /\ target[NodeOf(j)] = target[NodeOf(k)] => j = k

Owned ==
  /\ \A n \in valid : count[n]["strong"] > 0
  /\ \A n \in valid \cap owning : memory[target[n]] = "live"
  /\ \A m, n \in valid \cap owning : target[m] = target[n] => m = n

\* A listed node is not empty, or a call is about to remove it; and the debug
\* build knows of every node that is held strongly and is empty.
Emptied(n, ats) ==
  \E k \in 1..Len(stack) : stack[k].at \in ats /\ NodeOf(k) = n /\ StrengthOf(k) = "strong"
Listed ==
  /\ \A n \in active : debug /\ (n \in valid \/ Emptied(n, {"members", "remove"}))
  /\ debug =>
       /\ valid \subseteq active
       /\ \A k \in 1..Len(stack) : stack[k].at \in {"members", "remove"} => NodeOf(k) \in active
       /\ \A n \in Nodes : count[n]["strong"] > 0 =>
            n \in valid \/ Emptied(n, {"members", "remove", "count"})

\* An assignment in progress: its target is empty or being emptied, and the
\* client keeps the objects alive that it works on.
Waiting ==
  pending # <<>> =>
    LET to == pending[1]
        from == pending[2]
    IN  /\ debug
        /\ to \in Vars \cup Members /\ from \in Vars \cup Members /\ to # from
        /\ handle[Temp] = NoHandle
        /\ IF stack = <<>> THEN handle[to] = NoHandle ELSE stack[1].h = to
        /\ to \in Members => \E v \in Vars : Holds(v, to[1])
        /\ from \in Members => \E v \in Vars \ {to} : Holds(v, from[1])

IInv ==
  /\ TypeOK /\ Counted /\ HeldAlive /\ FramesHold /\ FramesDiffer /\ Chained /\ Based
  /\ Dying /\ Owned /\ Listed /\ Waiting

-----------------------------------------------------------------------------
(* Counting the holders of a node.                                         *)

Share(n, s) == [node |-> n, strength |-> s]
One(k, n, s) == IF k = Share(n, s) THEN 1 ELSE 0
Holding(f, n, s) == {h \in Holders : f[h] = Share(n, s)}

LEMMA HoldersFinite == IsFiniteSet(Holders)
<1>1. IsFiniteSet(1..Arity)
  BY FS_Interval, FiniteHolders
<1>2. IsFiniteSet({0}) /\ IsFiniteSet({Temp})
  BY FS_Singleton
<1>3. IsFiniteSet(Members) /\ IsFiniteSet(Extras)
  BY <1>1, <1>2, FS_Product, FiniteHolders DEF Members, Extras
<1>4. IsFiniteSet(Vars \cup {Temp})
  BY <1>2, FS_Union, FiniteHolders
<1>5. IsFiniteSet(Vars \cup {Temp} \cup Members)
  BY <1>3, <1>4, FS_Union
<1> QED
  BY <1>3, <1>5, FS_Union DEF Holders

LEMMA HoldingFinite ==
  ASSUME NEW f, NEW n, NEW s
  PROVE  IsFiniteSet(Holding(f, n, s)) /\ Cardinality(Holding(f, n, s)) \in Nat
<1>1. Holding(f, n, s) \in SUBSET Holders
  BY DEF Holding
<1> QED
  BY <1>1, HoldersFinite, FS_Subset, FS_CardinalityType

\* One holder gets another handle.
LEMMA OneChange ==
  ASSUME NEW f, NEW g, NEW h \in Holders, \A e \in Holders : e # h => g[e] = f[e],
         NEW n, NEW s
  PROVE  Cardinality(Holding(g, n, s)) =
           Cardinality(Holding(f, n, s)) - One(f[h], n, s) + One(g[h], n, s)
<1> DEFINE X == Holding(f, n, s)
           Y == Holding(g, n, s)
<1>1. IsFiniteSet(X) /\ Cardinality(X) \in Nat /\ IsFiniteSet(Y) /\ Cardinality(Y) \in Nat
  BY HoldingFinite
<1>2. (h \in X <=> f[h] = Share(n, s)) /\ (h \in Y <=> g[h] = Share(n, s))
  BY DEF Holding
<1>3. X \ {h} = Y \ {h}
  BY DEF Holding
<1> HIDE DEF X, Y
<1>4. Cardinality(X \ {h}) = IF h \in X THEN Cardinality(X) - 1 ELSE Cardinality(X)
  BY <1>1, FS_RemoveElement
<1>5. Cardinality(Y \ {h}) = IF h \in Y THEN Cardinality(Y) - 1 ELSE Cardinality(Y)
  BY <1>1, FS_RemoveElement
<1>6. One(f[h], n, s) = (IF h \in X THEN 1 ELSE 0) /\ One(g[h], n, s) = IF h \in Y THEN 1 ELSE 0
  BY <1>2 DEF One
<1>7. Cardinality(X \ {h}) = Cardinality(Y \ {h})
  BY <1>3
<1>8. Cardinality(Y) = Cardinality(X) - One(f[h], n, s) + One(g[h], n, s)
  <2> HIDE DEF X, Y
  <2> QED
    BY <1>1, <1>4, <1>5, <1>6, <1>7
<1> QED
  BY <1>8 DEF X, Y

LEMMA SharingIsHolding == \A n, s : Sharing(n, s) = Holding(handle, n, s)
BY DEF Sharing, Holding, Share

\* Somebody shares a node: its count is positive.  Two do: it is more than one.
LEMMA CountOfHolder ==
  ASSUME TypeOK, Counted, NEW h \in Holders, NEW n \in Nodes, NEW s \in Strengths,
         handle[h] = Share(n, s)
  PROVE  /\ count[n][s] \in Nat /\ count[n][s] > 0
         /\ \A e \in Holders : handle[e] = Share(n, s) /\ e # h => count[n][s] > 1
<1> DEFINE X == Holding(handle, n, s)
<1>1. count[n][s] = Cardinality(X)
  BY SharingIsHolding DEF Counted
<1>2. IsFiniteSet(X) /\ Cardinality(X) \in Nat /\ h \in X
  BY HoldingFinite DEF Holding
<1>3. \A e \in Holders : handle[e] = Share(n, s) => e \in X
  BY DEF Holding
<1> HIDE DEF X
<1>4. Cardinality(X) # 0
  BY <1>2, FS_EmptySet
<1>5. ASSUME NEW e \in X, e # h
      PROVE  Cardinality(X) # 1
  BY <1>2, <1>5, FS_Singleton
<1> QED
  BY <1>1, <1>2, <1>3, <1>4, <1>5

\* A count that is positive has a holder.
LEMMA HolderOfCount ==
  ASSUME TypeOK, Counted, NEW n \in Nodes, NEW s \in Strengths, count[n][s] > 0
  PROVE  \E h \in Holders : handle[h] = Share(n, s)
<1>1. count[n][s] = Cardinality(Holding(handle, n, s))
  BY SharingIsHolding DEF Counted
<1>2. Holding(handle, n, s) # {}
  BY <1>1, FS_EmptySet
<1> QED
  BY <1>2 DEF Holding

\* A handle is null, or it shares a node.
LEMMA HandleParts ==
  ASSUME TypeOK, NEW h \in Holders
  PROVE  /\ handle[h] \in Handles
         /\ handle[h] # NoHandle => /\ HeldBy(h) \in Nodes
                                    /\ handle[h].strength \in Strengths
                                    /\ handle[h] = Share(HeldBy(h), handle[h].strength)
         /\ handle[h] = NoHandle => HeldBy(h) = Null /\ handle[h].strength = "none"
         /\ \A n \in Nodes : \A s : handle[h] = Share(n, s) =>
              handle[h] # NoHandle /\ HeldBy(h) = n /\ handle[h].strength = s
<1>1. handle[h] \in Handles
  BY DEF TypeOK
<1>2. handle[h] # NoHandle => handle[h] \in [node : Nodes, strength : Strengths]
  BY <1>1 DEF Handles
<1>3. NoHandle.node = Null /\ NoHandle.strength = "none"
  BY DEF NoHandle
<1>4. \A n, s : Share(n, s).node = n /\ Share(n, s).strength = s
  BY DEF Share
<1>5. \A n \in Nodes : n # Null
  BY DistinctHolders
<1> QED
  BY <1>1, <1>2, <1>3, <1>4, <1>5 DEF HeldBy, Share

\* Two different holders of one node.
LEMMA TwoHolders ==
  ASSUME TypeOK, Counted, NEW h \in Holders, NEW e \in Holders, h # e,
         handle[h] # NoHandle, handle[e] # NoHandle, HeldBy(h) = HeldBy(e)
  PROVE  /\ Total(HeldBy(h)) # 1
         /\ handle[h].strength = handle[e].strength =>
              count[HeldBy(h)][handle[h].strength] # 1
<1> DEFINE n == HeldBy(h)
           s == handle[h].strength
           r == handle[e].strength
<1>1. n \in Nodes /\ s \in Strengths /\ handle[h] = Share(n, s)
      /\ r \in Strengths /\ handle[e] = Share(n, r)
  BY HandleParts
<1>2. count[n][s] > 0 /\ count[n][r] > 0 /\ (s = r => count[n][s] > 1)
      /\ count[n]["strong"] \in Nat /\ count[n]["weak"] \in Nat
  <2>1. count[n][s] > 0 /\ count[n][r] > 0
    BY <1>1, CountOfHolder
  <2>2. s = r => count[n][s] > 1
    BY <1>1, CountOfHolder
  <2>3. count[n]["strong"] \in Nat /\ count[n]["weak"] \in Nat
    BY <1>1 DEF TypeOK, Strengths
  <2> QED
    BY <2>1, <2>2, <2>3
<1> HIDE DEF n, s, r
<1>3. Total(n) # 1
  BY <1>1, <1>2 DEF Total, Strengths
<1> QED
  BY <1>2, <1>3 DEF n, s, r

\* The counts follow one change of a handle, or two.
LEMMA CountedAfterOne ==
  ASSUME TypeOK, Counted, NEW h \in Holders,
         \A e \in Holders : e # h => handle'[e] = handle[e],
         \A n \in Nodes, s \in Strengths :
           count'[n][s] = count[n][s] - One(handle[h], n, s) + One(handle'[h], n, s)
  PROVE  Counted'
<1>1. ASSUME NEW n \in Nodes, NEW s \in Strengths
      PROVE  count'[n][s] = Cardinality(Holding(handle', n, s))
  <2>1. Cardinality(Holding(handle', n, s)) =
          Cardinality(Holding(handle, n, s)) - One(handle[h], n, s) + One(handle'[h], n, s)
    BY OneChange
  <2>2. count[n][s] = Cardinality(Holding(handle, n, s))
    BY SharingIsHolding DEF Counted
  <2> QED
    BY <2>1, <2>2
<1> QED
  BY <1>1 DEF Counted, Sharing, Holding, Share

LEMMA CountedAfterTwo ==
  ASSUME TypeOK, Counted, NEW h \in Holders, NEW e \in Holders, h # e,
         \A d \in Holders : d # h /\ d # e => handle'[d] = handle[d],
         \A n \in Nodes, s \in Strengths :
           count'[n][s] = count[n][s] - One(handle[h], n, s) + One(handle'[h], n, s)
                                      - One(handle[e], n, s) + One(handle'[e], n, s)
  PROVE  Counted'
<1>1. PICK g : /\ g[h] = handle'[h] /\ g[e] = handle[e]
               /\ \A d \in Holders : d # h => g[d] = handle[d]
               /\ \A d \in Holders : d # e => handle'[d] = g[d]
  <2> DEFINE g == [d \in Holders |-> IF d = h THEN handle'[h] ELSE handle[d]]
  <2>1. /\ g[h] = handle'[h] /\ g[e] = handle[e]
        /\ \A d \in Holders : d # h => g[d] = handle[d]
        /\ \A d \in Holders : d # e => handle'[d] = g[d]
    OBVIOUS
  <2> HIDE DEF g
  <2> QED
    BY <2>1
<1>2. ASSUME NEW n \in Nodes, NEW s \in Strengths
      PROVE  count'[n][s] = Cardinality(Holding(handle', n, s))
  <2>1. Cardinality(Holding(g, n, s)) =
          Cardinality(Holding(handle, n, s)) - One(handle[h], n, s) + One(g[h], n, s)
    <3>1. \A d \in Holders : d # h => g[d] = handle[d]
      BY <1>1
    <3> QED
      BY <3>1, OneChange
  <2>2. Cardinality(Holding(handle', n, s)) =
          Cardinality(Holding(g, n, s)) - One(g[e], n, s) + One(handle'[e], n, s)
    <3>1. \A d \in Holders : d # e => handle'[d] = g[d]
      BY <1>1
    <3> QED
      BY <3>1, OneChange
  <2>3. count[n][s] = Cardinality(Holding(handle, n, s)) /\ Cardinality(Holding(handle, n, s)) \in Nat
    BY SharingIsHolding, HoldingFinite DEF Counted
  <2>4. \A x : One(x, n, s) \in Nat
    BY DEF One
  <2>5. One(g[h], n, s) = One(handle'[h], n, s) /\ One(g[e], n, s) = One(handle[e], n, s)
    BY <1>1
  <2>6. count'[n][s] = count[n][s] - One(handle[h], n, s) + One(handle'[h], n, s)
                                   - One(handle[e], n, s) + One(handle'[e], n, s)
    OBVIOUS
  <2>7. /\ One(g[h], n, s) \in Nat /\ One(g[e], n, s) \in Nat
        /\ One(handle[h], n, s) \in Nat /\ One(handle'[e], n, s) \in Nat
    BY <2>4
  <2> QED
    BY <2>1, <2>2, <2>3, <2>5, <2>6, <2>7
<1> QED
  BY <1>2 DEF Counted, Sharing, Holding, Share

-----------------------------------------------------------------------------
(* The calls of unbindOne().                                               *)

Ats == {"object", "members", "remove", "count"}
Calls == [h : Holders, at : Ats]

\* The kinds of holders do not overlap.
LEMMA Kinds ==
  /\ \A o \in Objs, i \in 1..Arity : <<o, i>> \in Members /\ <<o, i>> \in Holders
  /\ \A n \in Nodes : <<n, 0>> \in Extras /\ <<n, 0>> \in Holders
  /\ \A m \in Members : m \notin Vars /\ m \notin Extras /\ m # Temp /\ m \in Holders /\ m[1] \in Objs
  /\ \A x \in Extras : x \notin Vars /\ x # Temp /\ x \in Holders /\ x[1] \in Nodes /\ x = <<x[1], 0>>
  /\ \A v \in Vars : v # Temp /\ v \in Holders
  /\ Temp \in Holders
<1>1. \A m \in Members : m \notin Extras
  BY DistinctHolders DEF Members, Extras
<1> QED
  BY <1>1, DistinctHolders DEF Holders, Members, Extras

LEMMA CallTypes ==
  ASSUME TypeOK
  PROVE  /\ stack \in Seq(Calls) /\ Len(stack) \in Nat
         /\ \A k \in 1..Len(stack) : stack[k].h \in Holders /\ stack[k].at \in Ats
<1>1. stack \in Seq(Calls)
  BY DEF TypeOK, Calls, Ats
<1>2. \A k \in 1..Len(stack) : stack[k] \in Calls
  BY <1>1, ElementOfSeq
<1> QED
  BY <1>1, <1>2 DEF Calls

LEMMA LastCall ==
  ASSUME TypeOK, stack # <<>>
  PROVE  /\ Len(stack) \in Nat \ {0} /\ Len(stack) \in 1..Len(stack) /\ 1 \in 1..Len(stack)
         /\ Frame = stack[Len(stack)]
         /\ HeldBy(Frame.h) = NodeOf(Len(stack))
         /\ handle[Frame.h].strength = StrengthOf(Len(stack))
<1>1. Len(stack) \in Nat \ {0}
  BY CallTypes, EmptySeq
<1> QED
  BY <1>1 DEF Frame, NodeOf, StrengthOf

\* What a call is about.
LEMMA CallFacts ==
  ASSUME IInv, NEW k \in 1..Len(stack)
  PROVE  /\ stack[k].h \in Holders /\ stack[k].at \in Ats
         /\ handle[stack[k].h] # NoHandle
         /\ handle[stack[k].h] = Share(NodeOf(k), StrengthOf(k))
         /\ HeldBy(stack[k].h) = NodeOf(k)
         /\ NodeOf(k) \in Nodes /\ NodeOf(k) \in alive /\ StrengthOf(k) \in Strengths
         /\ target[NodeOf(k)] \in Objs
         /\ count[NodeOf(k)][StrengthOf(k)] = 1
<1>1. stack[k].h \in Holders /\ stack[k].at \in Ats
  BY CallTypes DEF IInv
<1>2. handle[stack[k].h] # NoHandle /\ count[NodeOf(k)][StrengthOf(k)] = 1
  BY DEF IInv, FramesHold
<1>3. NodeOf(k) \in Nodes /\ StrengthOf(k) \in Strengths
      /\ handle[stack[k].h] = Share(NodeOf(k), StrengthOf(k))
  BY <1>1, <1>2, HandleParts DEF IInv, NodeOf, StrengthOf
<1>4. NodeOf(k) \in alive
  BY <1>1, <1>2 DEF IInv, HeldAlive, NodeOf
<1>5. target[NodeOf(k)] \in Objs
  BY <1>4 DEF IInv, HeldAlive
<1> QED
  BY <1>1, <1>2, <1>3, <1>4, <1>5 DEF NodeOf

\* The handle of a call is the last of its strength.
LEMMA OnlyHolder ==
  ASSUME IInv, NEW k \in 1..Len(stack), NEW e \in Holders, handle[e] # NoHandle,
         HeldBy(e) = NodeOf(k),
         handle[e].strength = StrengthOf(k) \/ Total(NodeOf(k)) = 1
  PROVE  e = stack[k].h
<1>1. /\ stack[k].h \in Holders /\ handle[stack[k].h] # NoHandle
      /\ HeldBy(stack[k].h) = NodeOf(k)
      /\ count[NodeOf(k)][StrengthOf(k)] = 1
  BY CallFacts
<1> QED
  BY <1>1, TwoHolders DEF IInv, StrengthOf

LEMMA OneCall ==
  ASSUME IInv, NEW j \in 1..Len(stack), NEW k \in 1..Len(stack), NodeOf(j) = NodeOf(k),
         StrengthOf(j) = StrengthOf(k) \/ Total(NodeOf(k)) = 1
  PROVE  j = k
<1>1. stack[j].h = stack[k].h
  BY CallFacts, OnlyHolder DEF StrengthOf
<1> QED
  BY <1>1 DEF IInv, FramesDiffer

\* Only the first call may be for a variable.
LEMMA Before ==
  ASSUME IInv, NEW k \in 1..Len(stack), k # 1
  PROVE  /\ k - 1 \in 1..Len(stack) /\ Link(stack[k - 1], stack[k].h)
         /\ stack[k].h \in Members \cup Extras
<1> DEFINE j == k - 1
<1>1. j \in 1..Len(stack) /\ j + 1 = k
  BY CallTypes DEF IInv
<1> HIDE DEF j
<1>2. Link(stack[j], stack[k].h)
  BY <1>1 DEF IInv, Chained
<1>3. NodeOf(j) \in Nodes /\ target[NodeOf(j)] \in Objs /\ HeldBy(stack[j].h) = NodeOf(j)
  BY <1>1, CallFacts
<1>4. \/ stack[k].h = <<NodeOf(j), 0>>
      \/ \E i \in 1..Arity : stack[k].h = <<target[NodeOf(j)], i>>
  BY <1>2, <1>3 DEF Link
<1>5. stack[k].h \in Members \cup Extras
  <2>1. <<NodeOf(j), 0>> \in Extras /\ \A i \in 1..Arity : <<target[NodeOf(j)], i>> \in Members
    BY <1>3, Kinds
  <2> QED
    BY <1>4, <2>1
<1> QED
  BY <1>1, <1>2, <1>5 DEF j

\* What a call goes on to release is not being released yet.
LEMMA NotOnStack ==
  ASSUME IInv, stack # <<>>, NEW h, Link(Frame, h), NEW k \in 1..Len(stack)
  PROVE  h # stack[k].h /\ h \in Members \cup Extras
<1> DEFINE l == Len(stack)
           n == NodeOf(l)
<1>1. l \in 1..l /\ Frame = stack[l] /\ HeldBy(Frame.h) = n
  BY LastCall DEF IInv
<1>2. n \in Nodes /\ target[n] \in Objs
  BY <1>1, CallFacts
<1>3. h \in Members \cup Extras
  BY <1>1, <1>2, Kinds DEF Link
<1>4. SUFFICES ASSUME h = stack[k].h PROVE FALSE
  BY <1>3
<1>5. CASE k = 1
  <2>1. stack[k].h \in Members /\ \E v \in Vars : Holds(v, stack[k].h[1])
    BY <1>3, <1>4, <1>5, Kinds DEF IInv, Based, Kept
  <2>2. Frame.at = "members" /\ \E i \in 1..Arity : h = <<target[n], i>>
    BY <2>1, <1>1, <1>2, <1>4, Kinds DEF Link
  <2>3. PICK v \in Vars : Holds(v, target[n])
    BY <2>1, <2>2, <1>4
  <2>4. memory[target[n]] = "live"
    BY <2>3 DEF Holds, IInv, Owned
  <2>5. memory[target[n]] = "dying"
    BY <1>1, <2>2 DEF IInv, Dying
  <2> QED
    BY <2>4, <2>5
<1>6. CASE k # 1
  <2> DEFINE j == k - 1
  <2>1. j \in 1..l /\ Link(stack[j], h) /\ j # l
    BY <1>4, <1>6, Before, CallTypes DEF IInv
  <2> HIDE DEF j, l
  <2>2. NodeOf(j) \in Nodes /\ target[NodeOf(j)] \in Objs /\ HeldBy(stack[j].h) = NodeOf(j)
        /\ StrengthOf(j) \in Strengths /\ stack[j].at \in Ats
    BY <2>1, CallFacts DEF l
  <2>3. l \in 1..Len(stack) /\ j \in 1..Len(stack)
    BY <1>1, <2>1 DEF l
  <2>4. CASE h = <<n, 0>> /\ (Frame.at = "object" \/ (Frame.at = "count" /\ Total(n) = 1))
    <3>1. h = <<NodeOf(j), 0>> /\ (stack[j].at = "object" \/ (stack[j].at = "count" /\ Total(NodeOf(j)) = 1))
      BY <2>1, <2>2, <2>4 DEF Link
    <3>2. NodeOf(j) = n
      BY <2>4, <3>1
    <3>3. Total(n) # 1 /\ StrengthOf(j) # StrengthOf(l)
      BY <3>2, <2>1, <2>3, OneCall
    <3>4. Frame.at = "object" /\ stack[j].at = "object"
      BY <2>4, <3>1, <3>2, <3>3
    <3>5. StrengthOf(j) = "strong" /\ StrengthOf(l) = "strong"
      BY <3>4, <2>3, <1>1 DEF IInv, FramesHold
    <3> QED
      BY <3>3, <3>5
  <2>5. CASE Frame.at = "members" /\ \E i \in 1..Arity : h = <<target[n], i>>
    <3>1. stack[j].at = "members" /\ target[NodeOf(j)] = target[n]
      BY <2>1, <2>2, <2>5 DEF Link
    <3>2. j = l
      BY <3>1, <2>3, <2>5, <1>1 DEF IInv, Dying
    <3> QED
      BY <3>2, <2>1
  <2> QED
    BY <1>1, <2>4, <2>5 DEF Link
<1> QED
  BY <1>5, <1>6

\* The three ways a step changes the stack.
LEMMA Pushed ==
  ASSUME TypeOK, NEW c \in Calls, stack' = Append(stack, c)
  PROVE  /\ stack' \in Seq(Calls)
         /\ Len(stack') = Len(stack) + 1
         /\ \A k \in 1..Len(stack') : k = Len(stack') \/ k \in 1..Len(stack)
         /\ \A k \in 1..Len(stack) : k \in 1..Len(stack') /\ stack'[k] = stack[k]
         /\ stack'[Len(stack')] = c
         /\ 1 \in 1..Len(stack')
<1>1. stack \in Seq(Calls) /\ Len(stack) \in Nat
  BY CallTypes
<1>2. /\ stack' \in Seq(Calls) /\ Len(stack') = Len(stack) + 1
      /\ \A k \in 1..Len(stack) : stack'[k] = stack[k]
      /\ stack'[Len(stack) + 1] = c
  BY <1>1, AppendProperties
<1>3. /\ \A k \in 1..Len(stack') : k = Len(stack) + 1 \/ k \in 1..Len(stack)
      /\ \A k \in 1..Len(stack) : k \in 1..Len(stack')
  BY <1>1, <1>2, OneLonger
<1>4. 1 \in 1..Len(stack')
  BY <1>1, <1>2
<1> QED
  BY <1>2, <1>3, <1>4

LEMMA PoppedCall ==
  ASSUME TypeOK, stack # <<>>, stack' = Pop
  PROVE  /\ stack' \in Seq(Calls)
         /\ Len(stack') = Len(stack) - 1
         /\ \A k \in 1..Len(stack') : k \in 1..Len(stack) /\ k # Len(stack) /\ stack'[k] = stack[k]
         /\ \A k \in 1..Len(stack) : k # Len(stack) => k \in 1..Len(stack')
<1>1. stack \in Seq(Calls)
  BY CallTypes
<1>2. /\ Len(stack) \in Nat \ {0} /\ stack' \in Seq(Calls) /\ Len(stack') = Len(stack) - 1
      /\ \A k \in 1..(Len(stack) - 1) : stack'[k] = stack[k]
  BY <1>1, Popped DEF Pop
<1> QED
  BY <1>2

LEMMA Continued ==
  ASSUME TypeOK, stack # <<>>, NEW at \in Ats, stack' = Continue(at)
  PROVE  /\ stack' \in Seq(Calls)
         /\ Len(stack') = Len(stack) /\ stack' # <<>>
         /\ \A k \in 1..Len(stack) : stack'[k].h = stack[k].h
         /\ \A k \in 1..Len(stack) : k # Len(stack) => stack'[k] = stack[k]
         /\ stack'[Len(stack)].at = at
<1> DEFINE c == [h |-> Frame.h, at |-> at]
<1>1. stack \in Seq(Calls) /\ Frame = stack[Len(stack)] /\ Frame.h \in Holders
  BY CallTypes, LastCall
<1>2. c \in Calls /\ c.h = Frame.h /\ c.at = at
  BY <1>1 DEF Calls
<1> HIDE DEF c
<1>3. /\ Len(stack) \in Nat \ {0} /\ Pop \in Seq(Calls) /\ Len(Pop) = Len(stack) - 1
      /\ \A k \in 1..(Len(stack) - 1) : Pop[k] = stack[k]
  BY <1>1, Popped DEF Pop
<1>4. stack' = Append(Pop, c)
  BY DEF Continue, c
<1>5. /\ stack' \in Seq(Calls) /\ Len(stack') = Len(Pop) + 1
      /\ \A k \in 1..Len(Pop) : stack'[k] = Pop[k]
      /\ stack'[Len(Pop) + 1] = c
  BY <1>2, <1>3, <1>4, AppendProperties
<1>6. Len(stack') = Len(stack) /\ stack'[Len(stack)] = c
  BY <1>3, <1>5
<1>7. \A k \in 1..Len(stack) : k # Len(stack) => stack'[k] = stack[k]
  <2>1. \A k \in 1..Len(stack) : k # Len(stack) => k \in 1..(Len(stack) - 1)
    BY <1>3
  <2> QED
    BY <1>3, <1>5, <2>1
<1>8. stack' # <<>>
  BY <1>3, <1>6
<1> QED
  BY <1>1, <1>2, <1>5, <1>6, <1>7, <1>8

-----------------------------------------------------------------------------
(* A handle that is let go of: unbind().                                   *)

\* What a step has to keep apart from the assignment in progress.
Rest ==
  /\ TypeOK /\ Counted /\ HeldAlive /\ FramesHold /\ FramesDiffer /\ Chained /\ Based
  /\ Dying /\ Owned /\ Listed

\* The null handle, and the others.
LEMMA NullHandle ==
  /\ NoHandle \in Handles
  /\ \A n \in Nodes, s \in Strengths : One(NoHandle, n, s) = 0 /\ Share(n, s) # NoHandle
  /\ \A n \in Nodes, s \in Strengths : Share(n, s) \in Handles
  /\ \A n, m, s, r : Share(n, s) = Share(m, r) => n = m /\ s = r
  /\ \A n, m, s, r : One(Share(n, s), m, r) = IF n = m /\ s = r THEN 1 ELSE 0
<1>1. \A n, s : Share(n, s).node = n /\ Share(n, s).strength = s
  BY DEF Share
<1>2. \A n \in Nodes, s \in Strengths : Share(n, s) # NoHandle
  BY DistinctHolders DEF Share, NoHandle
<1> QED
  BY <1>1, <1>2 DEF Handles, One, Share

Frees(h) == handle' = [handle EXCEPT ![h] = NoHandle]
Makes(h, k) == handle' = [handle EXCEPT ![h] = k]
CountsDown(n, s) == count' = [count EXCEPT ![n][s] = @ - 1]

\* A handle is let go and counted down; a handle is made and counted.
LEMMA LetGo ==
  ASSUME TypeOK, Counted, NEW h \in Holders, NEW n \in Nodes, NEW s \in Strengths,
         handle[h] = Share(n, s), Frees(h), CountsDown(n, s)
  PROVE  /\ handle' \in [Holders -> Handles] /\ count' \in [Nodes -> [Strengths -> Nat]]
         /\ handle'[h] = NoHandle
         /\ \A e \in Holders : e # h => handle'[e] = handle[e]
         /\ Counted'
         /\ count'[n][s] = count[n][s] - 1
         /\ \A m \in Nodes, r \in Strengths : m # n \/ r # s => count'[m][r] = count[m][r]
<1>1. handle \in [Holders -> Handles] /\ count \in [Nodes -> [Strengths -> Nat]]
  BY DEF TypeOK
<1>2. /\ handle' \in [Holders -> Handles] /\ handle'[h] = NoHandle
      /\ \A e \in Holders : e # h => handle'[e] = handle[e]
  BY <1>1, NullHandle DEF Frees
<1>3. count[n][s] > 0
  BY CountOfHolder
<1>4. /\ count' \in [Nodes -> [Strengths -> Nat]]
      /\ count'[n][s] = count[n][s] - 1
      /\ \A m \in Nodes, r \in Strengths : m # n \/ r # s => count'[m][r] = count[m][r]
  BY <1>1, <1>3 DEF CountsDown
<1>5. ASSUME NEW m \in Nodes, NEW r \in Strengths
      PROVE  count'[m][r] = count[m][r] - One(handle[h], m, r) + One(handle'[h], m, r)
  <2>1. One(handle'[h], m, r) = 0 /\ One(handle[h], m, r) = IF n = m /\ s = r THEN 1 ELSE 0
    BY <1>2, NullHandle
  <2>2. count[m][r] \in Nat /\ count[n][s] \in Nat
    BY <1>1
  <2> QED
    BY <1>4, <2>1, <2>2
<1>6. Counted'
  BY <1>2, <1>5, CountedAfterOne
<1> QED
  BY <1>2, <1>4, <1>6

LEMMA Taken ==
  ASSUME TypeOK, Counted, NEW h \in Holders, NEW n \in Nodes, NEW s \in Strengths,
         handle[h] = NoHandle, Makes(h, Share(n, s)),
         count' = Bind(n, s)
  PROVE  /\ handle' \in [Holders -> Handles] /\ count' \in [Nodes -> [Strengths -> Nat]]
         /\ handle'[h] = Share(n, s)
         /\ \A e \in Holders : e # h => handle'[e] = handle[e]
         /\ Counted'
         /\ count'[n][s] = count[n][s] + 1
         /\ \A m \in Nodes, r \in Strengths : m # n \/ r # s => count'[m][r] = count[m][r]
<1>1. handle \in [Holders -> Handles] /\ count \in [Nodes -> [Strengths -> Nat]]
  BY DEF TypeOK
<1>2. /\ handle' \in [Holders -> Handles] /\ handle'[h] = Share(n, s)
      /\ \A e \in Holders : e # h => handle'[e] = handle[e]
  BY <1>1, NullHandle DEF Makes
<1>3. /\ count' \in [Nodes -> [Strengths -> Nat]]
      /\ count'[n][s] = count[n][s] + 1
      /\ \A m \in Nodes, r \in Strengths : m # n \/ r # s => count'[m][r] = count[m][r]
  BY <1>1 DEF Bind
<1>4. ASSUME NEW m \in Nodes, NEW r \in Strengths
      PROVE  count'[m][r] = count[m][r] - One(handle[h], m, r) + One(handle'[h], m, r)
  <2>1. One(handle[h], m, r) = 0 /\ One(handle'[h], m, r) = IF n = m /\ s = r THEN 1 ELSE 0
    BY <1>2, NullHandle
  <2>2. count[m][r] \in Nat /\ count[n][s] \in Nat
    BY <1>1
  <2> QED
    BY <1>3, <2>1, <2>2
<1>5. Counted'
  BY <1>2, <1>4, CountedAfterOne
<1> QED
  BY <1>2, <1>3, <1>5

\* unbind() counts down, or it calls unbindOne() for the last handle.
LEMMA UnbindCases ==
  ASSUME IInv, NEW h \in Holders, handle[h] # NoHandle, Unbind(h)
  PROVE  \E n \in Nodes, s \in Strengths :
           /\ HeldBy(h) = n /\ n \in alive /\ handle[h] = Share(n, s) /\ handle[h].strength = s
           /\ count[n][s] \in Nat
           /\ \/ /\ count[n][s] > 1 /\ stack' = stack /\ Frees(h) /\ CountsDown(n, s)
              \/ /\ count[n][s] = 1 /\ handle' = handle /\ count' = count
                 /\ stack' = Append(stack,
                      [h |-> h, at |-> IF s = "strong" THEN "object" ELSE "count"])
<1> DEFINE n == HeldBy(h)
           s == handle[h].strength
<1>1. n \in Nodes /\ s \in Strengths /\ handle[h] = Share(n, s)
  BY HandleParts DEF IInv
<1>2. n \in alive
  BY DEF IInv, HeldAlive
<1>3. count[n][s] \in Nat /\ count[n][s] > 0
  BY <1>1, CountOfHolder DEF IInv
<1>4. \/ /\ count[n][s] > 1 /\ stack' = stack /\ Frees(h) /\ CountsDown(n, s)
      \/ /\ ~(count[n][s] > 1) /\ handle' = handle /\ count' = count
         /\ stack' = Append(stack,
              [h |-> h, at |-> IF s = "strong" THEN "object" ELSE "count"])
  BY DEF Unbind, Frees, CountsDown
<1> HIDE DEF n, s
<1>5. n = HeldBy(h) /\ s = handle[h].strength
  BY DEF n, s
<1>6. ~(count[n][s] > 1) => count[n][s] = 1
  BY <1>3
<1> QED
  BY <1>1, <1>2, <1>3, <1>4, <1>5, <1>6

\* unbind() of a handle that is not the last of its strength.
LEMMA CountedDown ==
  ASSUME IInv, NEW h \in Holders, NEW n \in Nodes, NEW s \in Strengths,
         HeldBy(h) = n, handle[h] = Share(n, s), handle[h].strength = s, n \in alive,
         handle[h] # NoHandle,
         count[n][s] \in Nat, count[n][s] > 1, stack' = stack,
         Frees(h), CountsDown(n, s),
         UNCHANGED <<debug, node, memory>>,
         pending' \in {<<>>} \cup (Holders \X Holders),
         h \in Vars => stack = <<>>
  PROVE  Rest'
<1> USE DEF node
<1>0. TypeOK /\ Counted
  BY DEF IInv
<1>1. /\ handle' \in [Holders -> Handles] /\ count' \in [Nodes -> [Strengths -> Nat]]
      /\ handle'[h] = NoHandle
      /\ \A e \in Holders : e # h => handle'[e] = handle[e]
      /\ Counted'
      /\ count'[n][s] = count[n][s] - 1
      /\ \A m \in Nodes, r \in Strengths : m # n \/ r # s => count'[m][r] = count[m][r]
  BY <1>0, LetGo
<1>2. TypeOK'
  BY <1>0, <1>1 DEF TypeOK
<1>3. \A m \in Nodes, r \in Strengths : count[m][r] \in Nat /\ count'[m][r] \in Nat
  BY <1>0, <1>1 DEF TypeOK
<1>4. /\ count'[n][s] > 0 /\ Total(n) > 1
      /\ \A m \in Nodes, r \in Strengths : count'[m][r] > 0 <=> count[m][r] > 0
      /\ \A m \in Nodes : m # n => Total(m)' = Total(m)
  BY <1>1, <1>3 DEF Total, Strengths
<1>5. ASSUME NEW k \in 1..Len(stack)
      PROVE  /\ stack[k].h # h /\ handle'[stack[k].h] = handle[stack[k].h]
             /\ NodeOf(k)' = NodeOf(k) /\ StrengthOf(k)' = StrengthOf(k)
             /\ count'[NodeOf(k)][StrengthOf(k)] = 1
  <2>1. /\ stack[k].h \in Holders /\ handle[stack[k].h] = Share(NodeOf(k), StrengthOf(k))
        /\ NodeOf(k) \in Nodes /\ StrengthOf(k) \in Strengths
        /\ count[NodeOf(k)][StrengthOf(k)] = 1
    BY CallFacts
  <2>2. stack[k].h # h
    BY <2>1, NullHandle
  <2>3. NodeOf(k) # n \/ StrengthOf(k) # s
    BY <2>1
  <2> QED
    BY <1>1, <2>1, <2>2, <2>3 DEF NodeOf, StrengthOf, HeldBy
<1>6. HeldAlive'
  <2>1. \A e \in Holders : handle'[e] # NoHandle => HeldBy(e)' \in alive
    BY <1>1 DEF IInv, HeldAlive, HeldBy
  <2>2. \A m \in alive : target[m] \in Objs /\ Total(m)' > 0
    BY <1>0, <1>1, <1>3, <1>4 DEF IInv, HeldAlive, Total, Strengths, TypeOK
  <2>3. \A m \in Nodes : m \notin alive => handle'[<<m, 0>>] = NoHandle
    BY <1>1, Kinds DEF IInv, HeldAlive
  <2>4. \A m \in Members : handle'[m] # NoHandle => memory[m[1]] # "none"
    BY <1>1, Kinds DEF IInv, HeldAlive
  <2> QED
    BY <2>1, <2>2, <2>3, <2>4 DEF HeldAlive
<1>7. FramesHold'
  BY <1>5 DEF IInv, FramesHold
<1>8. FramesDiffer'
  BY DEF IInv, FramesDiffer
<1>9. Chained'
  <2>1. ASSUME NEW k \in 1..Len(stack), k + 1 \in 1..Len(stack)
        PROVE  Link(stack[k], stack[k + 1].h)'
    <3>1. Link(stack[k], stack[k + 1].h)
      BY <2>1 DEF IInv, Chained
    <3>2. HeldBy(stack[k].h)' = HeldBy(stack[k].h) /\ NodeOf(k) \in Nodes
          /\ HeldBy(stack[k].h) = NodeOf(k)
      BY <1>5, CallFacts DEF NodeOf
    <3>3. \A m \in Nodes : Total(m) = 1 => Total(m)' = 1
      BY <1>4
    <3> QED
      BY <3>1, <3>2, <3>3 DEF Link, Total
  <2> QED
    BY <2>1 DEF Chained
<1>10. Based'
  <2>1. \A v \in Vars : \A o : stack # <<>> /\ Holds(v, o) => Holds(v, o)'
    BY <1>1, Kinds DEF Holds, HeldBy
  <2> QED
    BY <2>1 DEF IInv, Based, Kept
<1>11. Dying'
  BY <1>5 DEF IInv, Dying
<1>12. Owned'
  BY <1>0, <1>4 DEF IInv, Owned, TypeOK, Strengths
<1>13. Listed'
  <2>1. \A m, ats : Emptied(m, ats) => Emptied(m, ats)'
    BY <1>5 DEF Emptied
  <2> QED
    BY <1>4, <1>5, <2>1 DEF IInv, Listed, Strengths
<1> QED
  BY <1>1, <1>2, <1>6, <1>7, <1>8, <1>9, <1>10, <1>11, <1>12, <1>13 DEF Rest

\* unbind() of the last one: a call that was not made yet.
LEMMA CalledOne ==
  ASSUME IInv, NEW h \in Holders, NEW n \in Nodes, NEW s \in Strengths,
         HeldBy(h) = n, handle[h].strength = s, handle[h] # NoHandle,
         count[n][s] = 1, handle' = handle, count' = count,
         stack' = Append(stack, [h |-> h, at |-> IF s = "strong" THEN "object" ELSE "count"]),
         UNCHANGED <<debug, node, memory>>,
         pending' \in {<<>>} \cup (Holders \X Holders),
         IF stack = <<>> THEN Kept(h) ELSE Link(Frame, h)
  PROVE  Rest' /\ stack' # <<>> /\ stack'[1].h = IF stack = <<>> THEN h ELSE stack[1].h
<1> USE DEF node
<1> DEFINE c == [h |-> h, at |-> IF s = "strong" THEN "object" ELSE "count"]
           l == Len(stack)
<1>0. TypeOK
  BY DEF IInv
<1>1. c \in Calls /\ c.h = h /\ c.at = IF s = "strong" THEN "object" ELSE "count"
  BY DEF Calls, Ats
<1> HIDE DEF c
<1>2. /\ stack' \in Seq(Calls) /\ Len(stack') = Len(stack) + 1
      /\ \A k \in 1..Len(stack') : k = Len(stack') \/ k \in 1..Len(stack)
      /\ \A k \in 1..Len(stack) : k \in 1..Len(stack') /\ stack'[k] = stack[k]
      /\ stack'[Len(stack')] = c /\ 1 \in 1..Len(stack')
  BY <1>0, <1>1, Pushed DEF c
<1>3. \A k \in 1..Len(stack) : NodeOf(k)' = NodeOf(k) /\ StrengthOf(k)' = StrengthOf(k)
  BY <1>2 DEF NodeOf, StrengthOf, HeldBy
<1>4. ASSUME NEW k, k = Len(stack')
      PROVE  NodeOf(k)' = n /\ StrengthOf(k)' = s
  <2>1. stack'[k].h = h
    BY <1>1, <1>2, <1>4
  <2> QED
    BY <2>1 DEF NodeOf, StrengthOf, HeldBy
<1>5. \A k \in 1..Len(stack) : stack[k].h # h
  <2>1. stack # <<>> => \A k \in 1..Len(stack) : stack[k].h # h
    BY NotOnStack
  <2> QED
    BY <2>1
<1>6. stack # <<>> => /\ Len(stack) \in 1..Len(stack) /\ 1 \in 1..Len(stack)
                      /\ Frame = stack[Len(stack)]
  BY <1>0, LastCall
<1>7. TypeOK'
  BY <1>0, <1>2 DEF TypeOK, Calls, Ats
<1>8. Counted' /\ HeldAlive'
  <2>1. Counted'
    BY DEF IInv, Counted, Sharing
  <2>2. HeldAlive'
    BY DEF IInv, HeldAlive, HeldBy, Total
  <2> QED
    BY <2>1, <2>2
<1>9. FramesHold'
  <2>1. ASSUME NEW k \in 1..Len(stack')
        PROVE  /\ handle[stack'[k].h] # NoHandle
               /\ count[NodeOf(k)'][StrengthOf(k)'] = 1
               /\ stack'[k].at # "count" => StrengthOf(k)' = "strong"
               /\ StrengthOf(k)' = "strong" /\ stack'[k].at # "object" => NodeOf(k)' \notin valid
    <3>1. CASE k = Len(stack')
      BY <3>1, <1>1, <1>2, <1>4
    <3>2. CASE k \in 1..Len(stack)
      BY <3>2, <1>2, <1>3 DEF IInv, FramesHold
    <3> QED
      BY <1>2, <3>1, <3>2
  <2> QED
    BY <2>1 DEF FramesHold
<1>10. FramesDiffer'
  <2>1. \A j, k \in 1..Len(stack) : stack'[j].h = stack'[k].h => j = k
    BY <1>2 DEF IInv, FramesDiffer
  <2>2. \A k \in 1..Len(stack) : stack'[k].h # stack'[Len(stack')].h
    BY <1>1, <1>2, <1>5
  <2> QED
    BY <1>2, <2>1, <2>2 DEF FramesDiffer
<1>11. Chained'
  <2>1. ASSUME NEW k \in 1..Len(stack'), k + 1 \in 1..Len(stack')
        PROVE  Link(stack[k], stack'[k + 1].h) /\ stack'[k] = stack[k]
    <3>1. k \in 1..Len(stack) /\ stack'[k] = stack[k]
      BY <1>2, <2>1
    <3>2. CASE k + 1 \in 1..Len(stack)
      BY <3>1, <3>2, <1>2 DEF IInv, Chained
    <3>3. CASE k + 1 = Len(stack')
      <4>1. stack # <<>> /\ k = Len(stack)
        BY <1>2, <3>1, <3>3
      <4> QED
        BY <3>1, <3>3, <4>1, <1>1, <1>2, <1>6
    <3> QED
      BY <1>2, <2>1, <3>2, <3>3
  <2>2. \A f, e : Link(f, e) => Link(f, e)'
    BY DEF Link, HeldBy, Total
  <2> QED
    BY <2>1, <2>2 DEF Chained
<1>12. stack' # <<>> /\ stack'[1].h = IF stack = <<>> THEN h ELSE stack[1].h
  <2>1. stack' # <<>>
    BY <1>2
  <2>2. stack = <<>> => stack'[1] = c
    BY <1>2
  <2>3. stack # <<>> => stack'[1] = stack[1]
    BY <1>2, <1>6
  <2> QED
    BY <1>1, <2>1, <2>2, <2>3
<1>13. Based'
  <2>1. Kept(stack'[1].h)
    BY <1>12 DEF IInv, Based
  <2> QED
    BY <2>1 DEF Based, Kept, Holds, HeldBy
<1>14. Dying'
  <2>1. ASSUME NEW k \in 1..Len(stack'), stack'[k].at = "members"
        PROVE  k \in 1..Len(stack) /\ stack[k].at = "members" /\ NodeOf(k)' = NodeOf(k)
    BY <1>1, <1>2, <1>3, <2>1
  <2> QED
    BY <2>1 DEF IInv, Dying
<1>15. Owned'
  BY DEF IInv, Owned
<1>16. Listed'
  <2>1. \A m, ats : Emptied(m, ats) => Emptied(m, ats)'
    BY <1>2, <1>3 DEF Emptied
  <2>2. \A k \in 1..Len(stack') : stack'[k].at \in {"members", "remove"} =>
          k \in 1..Len(stack) /\ stack[k].at = stack'[k].at /\ NodeOf(k)' = NodeOf(k)
    BY <1>1, <1>2, <1>3
  <2> QED
    BY <2>1, <2>2 DEF IInv, Listed
<1> QED
  BY <1>7, <1>8, <1>9, <1>10, <1>11, <1>12, <1>13, <1>14, <1>15, <1>16 DEF Rest

\* A handle that the client or a call lets go of.
LEMMA Unbound ==
  ASSUME IInv, NEW h \in Holders, handle[h] # NoHandle, Unbind(h),
         UNCHANGED <<debug, node, memory>>,
         pending' \in {<<>>} \cup (Holders \X Holders),
         IF stack = <<>> THEN Kept(h) ELSE Link(Frame, h)
  PROVE  /\ Rest'
         /\ \/ /\ stack' = stack /\ handle'[h] = NoHandle
               /\ \A e \in Holders : e # h => handle'[e] = handle[e]
            \/ /\ handle' = handle /\ stack' # <<>>
               /\ stack'[1].h = IF stack = <<>> THEN h ELSE stack[1].h
<1>1. PICK n \in Nodes, s \in Strengths :
           /\ HeldBy(h) = n /\ n \in alive /\ handle[h] = Share(n, s) /\ handle[h].strength = s
           /\ count[n][s] \in Nat
           /\ \/ /\ count[n][s] > 1 /\ stack' = stack /\ Frees(h) /\ CountsDown(n, s)
              \/ /\ count[n][s] = 1 /\ handle' = handle /\ count' = count
                 /\ stack' = Append(stack,
                      [h |-> h, at |-> IF s = "strong" THEN "object" ELSE "count"])
  BY UnbindCases
<1>2. CASE count[n][s] = 1
  <2>1. /\ handle' = handle /\ count' = count
        /\ stack' = Append(stack, [h |-> h, at |-> IF s = "strong" THEN "object" ELSE "count"])
    BY <1>1, <1>2
  <2> QED
    BY <1>1, <1>2, <2>1, CalledOne
<1>3. CASE count[n][s] > 1
  <2>1. stack' = stack /\ Frees(h) /\ CountsDown(n, s)
    BY <1>1, <1>3
  <2>2. h \in Vars => stack = <<>>
    <3>1. stack # <<>> => 1 \in 1..Len(stack)
      BY LastCall DEF IInv
    <3>2. stack # <<>> => h \in Members \cup Extras
      BY <3>1, NotOnStack
    <3> QED
      BY <3>2, Kinds
  <2>3. Rest'
    BY <1>1, <1>3, <2>1, <2>2, CountedDown
  <2>4. handle'[h] = NoHandle /\ \A e \in Holders : e # h => handle'[e] = handle[e]
    BY <2>1 DEF IInv, TypeOK, Frees
  <2> QED
    BY <2>1, <2>3, <2>4
<1> QED
  BY <1>1, <1>2, <1>3

-----------------------------------------------------------------------------
(* The parts of unbindOne(), each a step of the innermost call.            *)

\* The call that goes on: number l, for a handle of strength s on node n.
Doing(l, n, s, at) ==
  /\ l = Len(stack) /\ stack # <<>> /\ Frame = stack[l] /\ Frame.at = at
  /\ Frame.h \in Holders /\ HeldBy(Frame.h) = n /\ handle[Frame.h].strength = s
  /\ handle[Frame.h] = Share(n, s) /\ handle[Frame.h] # NoHandle
  /\ NodeOf(l) = n /\ StrengthOf(l) = s
  /\ n \in alive /\ target[n] \in Objs /\ count[n][s] = 1
  /\ at # "count" => s = "strong"
  /\ s = "strong" /\ at # "object" => n \notin valid
  /\ \A k \in 1..Len(stack) : k # l =>
       stack[k].h # Frame.h /\ (NodeOf(k) = n => StrengthOf(k) # s /\ Total(n) # 1)
  /\ \A e \in Holders : e # Frame.h /\ handle[e] # NoHandle /\ HeldBy(e) = n =>
       handle[e].strength # s /\ Total(n) # 1

LEMMA TopCall ==
  ASSUME IInv, NEW at, Top(at)
  PROVE  \E l \in 1..Len(stack), n \in Nodes, s \in Strengths : Doing(l, n, s, at)
<1> DEFINE l == Len(stack)
           n == NodeOf(l)
           s == StrengthOf(l)
<1>1. /\ stack # <<>> /\ l \in 1..Len(stack) /\ Frame = stack[l] /\ Frame.at = at
      /\ HeldBy(Frame.h) = n /\ handle[Frame.h].strength = s
  BY LastCall DEF IInv, Top
<1>2. /\ Frame.h \in Holders /\ handle[Frame.h] # NoHandle /\ handle[Frame.h] = Share(n, s)
      /\ n \in Nodes /\ n \in alive /\ s \in Strengths /\ target[n] \in Objs /\ count[n][s] = 1
  BY <1>1, CallFacts
<1>3. (at # "count" => s = "strong") /\ (s = "strong" /\ at # "object" => n \notin valid)
  BY <1>1 DEF IInv, FramesHold
<1>4. \A k \in 1..Len(stack) : k # l =>
        stack[k].h # Frame.h /\ (NodeOf(k) = n => StrengthOf(k) # s /\ Total(n) # 1)
  <2>1. \A k \in 1..Len(stack) : k # l => stack[k].h # Frame.h
    BY <1>1 DEF IInv, FramesDiffer
  <2>2. \A k \in 1..Len(stack) : k # l /\ NodeOf(k) = n => StrengthOf(k) # s /\ Total(n) # 1
    BY <1>1, OneCall
  <2> QED
    BY <2>1, <2>2
<1>5. \A e \in Holders : e # Frame.h /\ handle[e] # NoHandle /\ HeldBy(e) = n =>
        handle[e].strength # s /\ Total(n) # 1
  BY <1>1, OnlyHolder
<1> HIDE DEF l, n, s
<1>6. l = Len(stack) /\ NodeOf(l) = n /\ StrengthOf(l) = s
  BY DEF l, n, s
<1>7. Doing(l, n, s, at)
  BY <1>1, <1>2, <1>3, <1>4, <1>5, <1>6 DEF Doing
<1> QED
  BY <1>1, <1>2, <1>7

\* What the client keeps alive for the first call stays alive.
LEMMA ClientsKept ==
  ASSUME IInv, stack # <<>>, UNCHANGED <<debug, pending>>,
         \A v \in Vars : \A o : v # Frame.h /\ Holds(v, o) => Holds(v, o)',
         handle[Temp] = NoHandle => handle'[Temp] = NoHandle,
         stack' # <<>> => stack'[1].h = stack[1].h,
         stack' = <<>> => handle'[stack[1].h] = NoHandle
  PROVE  Based' /\ Waiting'
<1>1. /\ 1 \in 1..Len(stack) /\ Len(stack) \in 1..Len(stack) /\ Frame = stack[Len(stack)]
  BY LastCall DEF IInv
<1>2. Frame.h \in Vars => Frame.h = stack[1].h
  BY <1>1, Before, Kinds
<1>3. Based'
  <2>1. Kept(stack[1].h)
    BY DEF IInv, Based
  <2>2. stack[1].h \in Members => \A v \in Vars : v # Frame.h
    BY <1>2, Kinds
  <2>3. Kept(stack[1].h)'
        \/ \E h : h \in Vars \cup {Temp} \cup Members /\ h = stack[1].h
                  /\ (h \in Members => \E v \in Vars : Holds(v, h[1])')
    BY <2>1, <2>2 DEF Kept
  <2> QED
    BY <2>3 DEF Based, Kept
<1>4. Waiting'
  <2>1. SUFFICES ASSUME pending # <<>>, NEW to, NEW from, to = pending[1], from = pending[2]
                 PROVE  /\ debug
                        /\ to \in Vars \cup Members /\ from \in Vars \cup Members /\ to # from
                        /\ handle'[Temp] = NoHandle
                        /\ IF stack' = <<>> THEN handle'[to] = NoHandle ELSE stack'[1].h = to
                        /\ to \in Members => \E v \in Vars : Holds(v, to[1])'
                        /\ from \in Members => \E v \in Vars \ {to} : Holds(v, from[1])'
    BY DEF Waiting
  <2>2. /\ debug
        /\ to \in Vars \cup Members /\ from \in Vars \cup Members /\ to # from
        /\ handle[Temp] = NoHandle
        /\ stack[1].h = to
        /\ to \in Members => \E v \in Vars : Holds(v, to[1])
        /\ from \in Members => \E v \in Vars \ {to} : Holds(v, from[1])
    BY <2>1 DEF IInv, Waiting
  <2>3. to \in Members => \A v \in Vars : v # Frame.h
    BY <2>2, <1>2, Kinds
  <2>4. \A v \in Vars \ {to} : v # Frame.h
    BY <2>2, <1>2
  <2> QED
    BY <2>2, <2>3, <2>4
<1> QED
  BY <1>3, <1>4

\* A call that goes on to its next part.
LEMMA ContinuedCall ==
  ASSUME IInv, stack # <<>>, NEW at \in Ats, stack' = Continue(at),
         UNCHANGED <<handle, count, alive, target>>
  PROVE  /\ stack' \in Seq(Calls) /\ Len(stack') = Len(stack) /\ stack' # <<>>
         /\ \A k \in 1..Len(stack) :
              /\ stack'[k].h = stack[k].h
              /\ NodeOf(k)' = NodeOf(k) /\ StrengthOf(k)' = StrengthOf(k)
              /\ k # Len(stack) => stack'[k].at = stack[k].at
         /\ stack'[Len(stack)].at = at /\ stack'[1].h = stack[1].h
         /\ FramesDiffer' /\ Chained' /\ Counted'
<1>1. /\ stack' \in Seq(Calls)
      /\ Len(stack') = Len(stack) /\ stack' # <<>>
      /\ \A k \in 1..Len(stack) : stack'[k].h = stack[k].h
      /\ \A k \in 1..Len(stack) : k # Len(stack) => stack'[k] = stack[k]
      /\ stack'[Len(stack)].at = at
  BY Continued DEF IInv
<1>2. \A k \in 1..Len(stack) : NodeOf(k)' = NodeOf(k) /\ StrengthOf(k)' = StrengthOf(k)
  BY <1>1 DEF NodeOf, StrengthOf, HeldBy
<1>3. stack'[1].h = stack[1].h
  BY <1>1, LastCall DEF IInv
<1>4. FramesDiffer'
  BY <1>1 DEF IInv, FramesDiffer
<1>5. Chained'
  <2>1. ASSUME NEW k \in 1..Len(stack), k + 1 \in 1..Len(stack)
        PROVE  Link(stack[k], stack'[k + 1].h) /\ stack'[k] = stack[k]
    <3>1. k # Len(stack)
      BY <2>1, CallTypes DEF IInv
    <3> QED
      BY <3>1, <2>1, <1>1 DEF IInv, Chained
  <2>2. \A f, e : Link(f, e) => Link(f, e)'
    BY DEF Link, HeldBy, Total
  <2> QED
    BY <1>1, <2>1, <2>2 DEF Chained
<1>6. Counted'
  BY DEF IInv, Counted, Sharing
<1> QED
  BY <1>1, <1>2, <1>3, <1>4, <1>5, <1>6

\* delete_obj(): the object is live, so nothing else destroys it; in the debug
\* build the node is still listed.
LEMMA DeleteObjKeeps ==
  ASSUME IInv, DeleteObj
  PROVE  IInv'
<1> USE DEF node, Doing
<1>1. PICK l \in 1..Len(stack), n \in Nodes, s \in Strengths : Doing(l, n, s, "object")
  <2>1. Top("object")
    BY DEF DeleteObj
  <2> HIDE DEF Doing
  <2> QED
    BY <2>1, TopCall
<1> DEFINE frees == n \in valid /\ n \in owning
           at == IF frees THEN "members" ELSE "remove"
<1>2. /\ valid' = valid \ {n}
      /\ memory' = IF frees THEN [memory EXCEPT ![target[n]] = "dying"] ELSE memory
      /\ stack' = Continue(at)
      /\ UNCHANGED <<debug, handle, alive, target, owning, count, active, when, pending>>
  BY <1>1 DEF DeleteObj
<1>3. at \in Ats
  BY DEF Ats
<1> HIDE DEF at
<1>4. /\ stack' \in Seq(Calls) /\ Len(stack') = Len(stack) /\ stack' # <<>>
      /\ \A k \in 1..Len(stack) :
              /\ stack'[k].h = stack[k].h
              /\ NodeOf(k)' = NodeOf(k) /\ StrengthOf(k)' = StrengthOf(k)
              /\ k # Len(stack) => stack'[k].at = stack[k].at
      /\ stack'[Len(stack)].at = at /\ stack'[1].h = stack[1].h
      /\ FramesDiffer' /\ Chained' /\ Counted'
  BY <1>1, <1>2, <1>3, ContinuedCall
<1>5. /\ memory' \in [Objs -> {"none", "live", "dying"}]
      /\ frees => memory'[target[n]] = "dying"
      /\ \A o \in Objs : o # target[n] \/ ~frees => memory'[o] = memory[o]
      /\ \A o \in Objs : memory'[o] = "none" => memory[o] = "none"
      /\ \A o \in Objs : memory[o] = "dying" => memory'[o] = "dying"
  BY <1>1, <1>2 DEF IInv, TypeOK
<1> HIDE DEF frees
<1>6. TypeOK'
  BY <1>2, <1>4, <1>5 DEF IInv, TypeOK, Calls, Ats
<1>7. HeldAlive'
  BY <1>2, <1>5, Kinds DEF IInv, HeldAlive, HeldBy, Total
<1>8. FramesHold'
  BY <1>1, <1>2, <1>4 DEF IInv, FramesHold
<1>9. Dying'
  <2>1. \A k \in 1..Len(stack) : target[NodeOf(k)] \in Objs
    BY CallFacts
  <2>2. stack'[l].at = "members" => frees
    BY <1>1, <1>4 DEF at
  <2>3. ASSUME NEW k \in 1..Len(stack), stack'[k].at = "members"
        PROVE  memory'[target[NodeOf(k)]] = "dying"
    <3>1. CASE k = l
      BY <1>1, <1>5, <2>2, <2>3, <3>1
    <3>2. CASE k # l
      BY <1>1, <1>4, <1>5, <2>1, <2>3, <3>2 DEF IInv, Dying
    <3> QED
      BY <3>1, <3>2
  <2>4. ASSUME NEW k \in 1..Len(stack), k # l, stack'[k].at = "members", frees
        PROVE  target[NodeOf(k)] # target[n]
    <3>1. memory[target[n]] = "live"
      BY <2>4 DEF frees, IInv, Owned
    <3>2. memory[target[NodeOf(k)]] = "dying"
      BY <1>1, <1>4, <2>4 DEF IInv, Dying
    <3> QED
      BY <3>1, <3>2
  <2>5. \A j, k \in 1..Len(stack) :
          stack'[j].at = "members" /\ stack'[k].at = "members"
            /\ target[NodeOf(j)] = target[NodeOf(k)] => j = k
    <3>1. \A j, k \in 1..Len(stack) : j # l /\ k # l /\
            stack'[j].at = "members" /\ stack'[k].at = "members"
              /\ target[NodeOf(j)] = target[NodeOf(k)] => j = k
      BY <1>1, <1>4 DEF IInv, Dying
    <3> QED
      BY <1>1, <2>2, <2>4, <3>1
  <2> QED
    BY <1>2, <1>4, <2>3, <2>5 DEF Dying
<1>10. Owned'
  <2>1. \A m \in valid' : m \in valid /\ m # n /\ target[m] \in Objs
    BY <1>2 DEF IInv, HeldAlive, TypeOK
  <2>2. \A m \in valid' \cap owning : frees => target[m] # target[n]
    BY <2>1 DEF IInv, Owned, frees
  <2>3. \A m \in valid' \cap owning : memory'[target[m]] = "live"
    BY <1>5, <2>1, <2>2 DEF IInv, Owned
  <2> QED
    BY <1>2, <2>1, <2>3 DEF IInv, Owned
<1>11. Listed'
  <2>1. \A m \in Nodes : \A ats : m # n /\ Emptied(m, ats) => Emptied(m, ats)'
    <3>1. \A m \in Nodes : \A ats : m # n /\ Emptied(m, ats) =>
            \E k \in 1..Len(stack) : k # l /\ stack[k].at \in ats /\ NodeOf(k) = m /\ StrengthOf(k) = "strong"
      BY <1>1 DEF Emptied
    <3> QED
      BY <1>1, <1>4, <3>1 DEF Emptied
  <2>2. Emptied(n, {"members", "remove"})' /\ Emptied(n, {"members", "remove", "count"})'
    <3>1. stack'[l].at \in {"members", "remove"} /\ NodeOf(l)' = n /\ StrengthOf(l)' = "strong"
      BY <1>1, <1>4 DEF at
    <3> QED
      BY <1>4, <3>1 DEF Emptied
  <2>3. debug => n \in valid
    <3>1. ~ Emptied(n, {"members", "remove", "count"})
      BY <1>1 DEF Emptied
    <3>2. count[n]["strong"] > 0
      BY <1>1
    <3> QED
      BY <3>1, <3>2 DEF IInv, Listed
  <2>4. \A m \in active : debug /\ (m \in valid' \/ Emptied(m, {"members", "remove"})')
    <3>1. \A m \in active : m \in Nodes
      BY DEF IInv, TypeOK
    <3> QED
      BY <1>2, <2>1, <2>2, <3>1 DEF IInv, Listed
  <2>5. debug => \A k \in 1..Len(stack) : stack'[k].at \in {"members", "remove"} => NodeOf(k) \in active
    BY <1>1, <1>4, <2>3 DEF IInv, Listed
  <2>6. debug => \A m \in Nodes : count[m]["strong"] > 0 =>
          m \in valid' \/ Emptied(m, {"members", "remove", "count"})'
    BY <1>2, <2>1, <2>2 DEF IInv, Listed
  <2> QED
    BY <1>2, <1>4, <2>4, <2>5, <2>6 DEF IInv, Listed
<1>12. Based' /\ Waiting'
  <2>1. ASSUME NEW v \in Vars, NEW o, v # Frame.h, Holds(v, o)
        PROVE  Holds(v, o)'
    <3>1. handle[v].strength = "strong" /\ HeldBy(v) \in valid
      BY <2>1 DEF Holds
    <3>2. handle[v] # NoHandle
      BY <3>1 DEF NoHandle
    <3>3. HeldBy(v) # n
      BY <1>1, <2>1, <3>1, <3>2, Kinds
    <3> QED
      BY <1>2, <2>1, <3>3 DEF Holds, HeldBy
  <2> QED
    BY <1>1, <1>2, <1>4, <2>1, ClientsKept
<1> QED
  BY <1>4, <1>6, <1>7, <1>8, <1>9, <1>10, <1>11, <1>12 DEF IInv

\* The members are released, so the object takes no handle along.
LEMMA FreeObjKeeps ==
  ASSUME IInv, FreeObj
  PROVE  IInv'
<1> USE DEF node
<1>1. PICK l \in 1..Len(stack), n \in Nodes, s \in Strengths : Doing(l, n, s, "members")
  <2>1. Top("members")
    BY DEF FreeObj
  <2> QED
    BY <2>1, TopCall
<1> USE DEF Doing
<1> DEFINE o == target[n]
<1>2. /\ \A i \in 1..Arity : handle[<<o, i>>] = NoHandle
      /\ memory' = [memory EXCEPT ![o] = "none"]
      /\ stack' = Continue("remove")
      /\ UNCHANGED <<debug, handle, count, alive, target, owning, active, when, valid, pending>>
  BY <1>1 DEF FreeObj
<1>3. /\ stack' \in Seq(Calls) /\ Len(stack') = Len(stack) /\ stack' # <<>>
      /\ \A k \in 1..Len(stack) :
              /\ stack'[k].h = stack[k].h
              /\ NodeOf(k)' = NodeOf(k) /\ StrengthOf(k)' = StrengthOf(k)
              /\ k # Len(stack) => stack'[k].at = stack[k].at
      /\ stack'[Len(stack)].at = "remove" /\ stack'[1].h = stack[1].h
      /\ FramesDiffer' /\ Chained' /\ Counted'
  <2>1. "remove" \in Ats
    BY DEF Ats
  <2> QED
    BY <1>1, <1>2, <2>1, ContinuedCall
<1>4. /\ memory' \in [Objs -> {"none", "live", "dying"}]
      /\ \A p \in Objs : p # o => memory'[p] = memory[p]
      /\ o \in Objs /\ memory[o] = "dying"
  BY <1>1, <1>2 DEF IInv, TypeOK, Dying
<1> HIDE DEF o
<1>5. TypeOK'
  BY <1>2, <1>3, <1>4 DEF IInv, TypeOK, Calls, Ats
<1>6. HeldAlive'
  <2>1. ASSUME NEW m \in Members, handle[m] # NoHandle
        PROVE  memory'[m[1]] # "none"
    <3>1. PICK p \in Objs, i \in 1..Arity : m = <<p, i>>
      BY DEF Members
    <3>2. p # o
      BY <1>2, <2>1, <3>1
    <3> QED
      BY <1>4, <2>1, <3>1, <3>2 DEF IInv, HeldAlive
  <2> QED
    BY <1>2, <2>1 DEF IInv, HeldAlive, HeldBy, Total
<1>7. FramesHold'
  BY <1>1, <1>2, <1>3 DEF IInv, FramesHold
<1>8. Dying'
  <2>1. ASSUME NEW k \in 1..Len(stack), stack'[k].at = "members"
        PROVE  /\ k # l /\ stack[k].at = "members" /\ target[NodeOf(k)] # o /\ target[NodeOf(k)] \in Objs
    <3>1. k # l /\ stack[k].at = "members"
      BY <1>1, <1>3, <2>1
    <3>2. target[NodeOf(k)] # target[NodeOf(l)]
      BY <1>1, <3>1 DEF IInv, Dying
    <3> QED
      BY <1>1, <3>1, <3>2, CallFacts DEF o
  <2>2. \A k \in 1..Len(stack) : stack'[k].at = "members" => memory'[target[NodeOf(k)]] = "dying"
    BY <1>4, <2>1 DEF IInv, Dying
  <2>3. \A j, k \in 1..Len(stack) : stack'[j].at = "members" /\ stack'[k].at = "members"
          /\ target[NodeOf(j)] = target[NodeOf(k)] => j = k
    BY <2>1 DEF IInv, Dying
  <2> QED
    BY <1>2, <1>3, <2>2, <2>3, SMTT(30) DEF Dying
<1>9. Owned'
  <2>1. \A m \in valid \cap owning : target[m] \in Objs /\ target[m] # o
    BY <1>4 DEF IInv, Owned, HeldAlive, TypeOK
  <2> QED
    BY <1>2, <1>4, <2>1 DEF IInv, Owned
<1>10. Listed'
  <2>1. \A m : Emptied(m, {"members", "remove"}) => Emptied(m, {"members", "remove"})'
    BY <1>1, <1>3 DEF Emptied
  <2>2. \A m : Emptied(m, {"members", "remove", "count"}) => Emptied(m, {"members", "remove", "count"})'
    BY <1>1, <1>3 DEF Emptied
  <2>3. \A k \in 1..Len(stack) : stack'[k].at \in {"members", "remove"} =>
          stack[k].at \in {"members", "remove"}
    BY <1>1, <1>3
  <2> QED
    BY <1>2, <1>3, <2>1, <2>2, <2>3 DEF IInv, Listed
<1>11. Based' /\ Waiting'
  <2>1. \A v \in Vars : \A p : v # Frame.h /\ Holds(v, p) => Holds(v, p)'
    BY <1>2 DEF Holds, HeldBy
  <2> QED
    BY <1>1, <1>2, <1>3, <2>1, ClientsKept
<1> QED
  BY <1>3, <1>5, <1>6, <1>7, <1>8, <1>9, <1>10, <1>11 DEF IInv

\* No other call is about to remove the same node: it has another kind of handle.
LEMMA RemoveRCPNodeKeeps ==
  ASSUME IInv, RemoveRCPNode
  PROVE  IInv'
<1>1. PICK l \in 1..Len(stack), n \in Nodes, s \in Strengths : Doing(l, n, s, "remove")
  <2>1. Top("remove")
    BY DEF RemoveRCPNode
  <2> QED
    BY <2>1, TopCall
<1> USE DEF Doing
<1>2. /\ active' = active \ {n}
      /\ stack' = Continue("count")
      /\ UNCHANGED <<debug, handle, alive, target, valid, owning, count, when, memory, pending>>
  BY <1>1 DEF RemoveRCPNode
<1>3. /\ stack' \in Seq(Calls) /\ Len(stack') = Len(stack) /\ stack' # <<>>
      /\ \A k \in 1..Len(stack) :
              /\ stack'[k].h = stack[k].h
              /\ NodeOf(k)' = NodeOf(k) /\ StrengthOf(k)' = StrengthOf(k)
              /\ k # Len(stack) => stack'[k].at = stack[k].at
      /\ stack'[Len(stack)].at = "count" /\ stack'[1].h = stack[1].h
      /\ FramesDiffer' /\ Chained' /\ Counted'
  <2>1. "count" \in Ats
    BY DEF Ats
  <2> QED
    BY <1>1, <1>2, <2>1, ContinuedCall
<1>4. TypeOK'
  BY <1>2, <1>3 DEF IInv, TypeOK, Calls, Ats
<1>5. HeldAlive' /\ Owned'
  BY <1>2 DEF IInv, HeldAlive, Owned, HeldBy, Total
<1>6. FramesHold'
  BY <1>1, <1>2, <1>3 DEF IInv, FramesHold
<1>7. Dying'
  <2>1. \A k \in 1..Len(stack) : stack'[k].at = "members" => stack[k].at = "members"
    BY <1>1, <1>3
  <2> QED
    BY <1>2, <1>3, <2>1 DEF IInv, Dying
<1>8. Listed'
  <2>1. \A m : m # n /\ Emptied(m, {"members", "remove"}) => Emptied(m, {"members", "remove"})'
    <3>1. \A m : m # n /\ Emptied(m, {"members", "remove"}) =>
            \E k \in 1..Len(stack) : k # l /\ stack[k].at \in {"members", "remove"}
                                     /\ NodeOf(k) = m /\ StrengthOf(k) = "strong"
      BY <1>1 DEF Emptied
    <3> QED
      BY <1>1, <1>3, <3>1 DEF Emptied
  <2>2. \A m : Emptied(m, {"members", "remove", "count"}) => Emptied(m, {"members", "remove", "count"})'
    BY <1>1, <1>3 DEF Emptied
  <2>3. \A m \in active' : debug /\ (m \in valid \/ Emptied(m, {"members", "remove"})')
    BY <1>2, <2>1 DEF IInv, Listed
  <2>4. debug => valid \subseteq active'
    BY <1>1, <1>2 DEF IInv, Listed
  <2>5. ASSUME debug, NEW k \in 1..Len(stack), stack'[k].at \in {"members", "remove"}
        PROVE  NodeOf(k) \in active'
    <3>1. k # l /\ stack[k].at \in {"members", "remove"}
      BY <1>1, <1>3, <2>5
    <3>2. StrengthOf(k) = "strong" /\ NodeOf(k) \in active
      BY <2>5, <3>1 DEF IInv, Listed, FramesHold
    <3>3. NodeOf(k) # n
      BY <1>1, <3>1, <3>2
    <3> QED
      BY <1>2, <3>2, <3>3
  <2> QED
    BY <1>2, <1>3, <2>2, <2>3, <2>4, <2>5 DEF IInv, Listed
<1>9. Based' /\ Waiting'
  <2>1. \A v \in Vars : \A p : v # Frame.h /\ Holds(v, p) => Holds(v, p)'
    BY <1>2 DEF Holds, HeldBy
  <2> QED
    BY <1>1, <1>2, <1>3, <2>1, ClientsKept
<1> QED
  BY <1>3, <1>4, <1>5, <1>6, <1>7, <1>8, <1>9 DEF IInv

\* Nothing is under way.
LEMMA AtRest ==
  ASSUME stack = <<>>, IInv
  PROVE  /\ \A n \in active : debug /\ n \in valid
         /\ debug => valid \subseteq active
         /\ debug => \A n \in Nodes : count[n]["strong"] > 0 => n \in valid
<1>1. \A n, ats : ~ Emptied(n, ats)
  <2>1. 1..Len(stack) = {}
    OBVIOUS
  <2> QED
    BY <2>1 DEF Emptied
<1> QED
  BY <1>1 DEF IInv, Listed

\* When nothing is under way afterwards, only these parts say anything.
LEMMA RestAfter ==
  ASSUME stack' = <<>>, pending' = <<>>, TypeOK', Counted', HeldAlive', Owned',
         \A n \in active' : debug' /\ n \in valid',
         debug' => valid' \subseteq active',
         debug' => \A n \in Nodes : count'[n]["strong"] > 0 => n \in valid'
  PROVE  IInv'
<1>1. 1..Len(stack') = {}
  OBVIOUS
<1>2. FramesHold' /\ FramesDiffer' /\ Chained' /\ Dying'
  BY <1>1 DEF FramesHold, FramesDiffer, Chained, Dying
<1>3. Based' /\ Waiting'
  BY DEF Based, Waiting
<1>4. Listed'
  BY <1>1 DEF Listed
<1> QED
  BY <1>2, <1>3, <1>4 DEF IInv

\* An exception in free(): the handle that was let go of is still there.
LEMMA FreeThrowsKeeps ==
  ASSUME IInv, FreeThrows
  PROVE  IInv'
<1>1. /\ Top("object") /\ Len(stack) = 1
      /\ stack' = <<>> /\ pending' = <<>>
      /\ UNCHANGED <<debug, handle, count, alive, target, owning, active, when, memory, valid>>
  BY DEF FreeThrows, node
<1>2. \A k \in 1..Len(stack) : stack[k].at = "object"
  BY <1>1 DEF Top, Frame
<1>3. \A n, ats : ats \in {{"members", "remove"}, {"members", "remove", "count"}} => ~ Emptied(n, ats)
  BY <1>2 DEF Emptied
<1>4. TypeOK'
  BY <1>1 DEF IInv, TypeOK
<1>5. Counted' /\ HeldAlive' /\ Owned'
  BY <1>1 DEF IInv, Counted, Sharing, HeldAlive, Owned, HeldBy, Total
<1>6. /\ \A n \in active : debug /\ n \in valid
      /\ debug => valid \subseteq active
      /\ debug => \A n \in Nodes : count[n]["strong"] > 0 => n \in valid
  BY <1>3 DEF IInv, Listed
<1> QED
  BY <1>1, <1>4, <1>5, <1>6, RestAfter

\* A call that returns: what it leaves of the stack.
LEMMA Returned ==
  ASSUME IInv, stack # <<>>, stack' = Pop, handle'[Frame.h] = NoHandle,
         \A e \in Holders : e # Frame.h => handle'[e] = handle[e]
  PROVE  /\ stack' \in Seq(Calls)
         /\ \A k \in 1..Len(stack') :
              /\ k \in 1..Len(stack) /\ k # Len(stack) /\ stack'[k] = stack[k]
              /\ handle'[stack[k].h] = handle[stack[k].h]
              /\ NodeOf(k)' = NodeOf(k) /\ StrengthOf(k)' = StrengthOf(k)
         /\ \A k \in 1..Len(stack) : k # Len(stack) => k \in 1..Len(stack')
         /\ FramesDiffer'
         /\ stack' # <<>> => stack'[1].h = stack[1].h
         /\ stack' = <<>> => handle'[stack[1].h] = NoHandle
<1>1. /\ stack' \in Seq(Calls) /\ Len(stack') = Len(stack) - 1
      /\ \A k \in 1..Len(stack') : k \in 1..Len(stack) /\ k # Len(stack) /\ stack'[k] = stack[k]
      /\ \A k \in 1..Len(stack) : k # Len(stack) => k \in 1..Len(stack')
  BY PoppedCall DEF IInv
<1>2. /\ Len(stack) \in 1..Len(stack) /\ 1 \in 1..Len(stack) /\ Frame = stack[Len(stack)]
  BY LastCall DEF IInv
<1>3. ASSUME NEW k \in 1..Len(stack')
      PROVE  handle'[stack[k].h] = handle[stack[k].h]
  <2>1. stack[k].h # Frame.h
    BY <1>1, <1>2 DEF IInv, FramesDiffer
  <2> QED
    BY <1>1, <2>1, CallFacts
<1>4. \A k \in 1..Len(stack') : NodeOf(k)' = NodeOf(k) /\ StrengthOf(k)' = StrengthOf(k)
  BY <1>1, <1>3 DEF NodeOf, StrengthOf, HeldBy
<1>5. FramesDiffer'
  BY <1>1 DEF IInv, FramesDiffer
<1>6. stack' # <<>> => stack'[1].h = stack[1].h
  <2>1. stack' # <<>> => 1 \in 1..Len(stack')
    BY <1>1, EmptySeq
  <2> QED
    BY <1>1, <2>1
<1>7. stack' = <<>> => handle'[stack[1].h] = NoHandle
  <2>1. stack' = <<>> => Len(stack) = 1
    BY <1>1, <1>2, CallTypes DEF IInv
  <2> QED
    BY <1>2, <2>1
<1> QED
  BY <1>1, <1>3, <1>4, <1>5, <1>6, <1>7

\* The last handle of its strength goes; the other kind is still there.
LEMMA CountDownKeeps ==
  ASSUME IInv, CountDown
  PROVE  IInv'
<1>1. PICK l \in 1..Len(stack), n \in Nodes, s \in Strengths : Doing(l, n, s, "count")
  <2>1. Top("count")
    BY DEF CountDown
  <2> QED
    BY <2>1, TopCall
<1> USE DEF Doing
<1>2. /\ Total(n) # 1 /\ CountsDown(n, s) /\ Frees(Frame.h)
      /\ stack' = Pop
      /\ UNCHANGED <<debug, alive, target, valid, owning, active, when, memory, pending>>
  BY <1>1 DEF CountDown, CountsDown, Frees, node
<1>3. /\ handle' \in [Holders -> Handles] /\ count' \in [Nodes -> [Strengths -> Nat]]
      /\ handle'[Frame.h] = NoHandle
      /\ \A e \in Holders : e # Frame.h => handle'[e] = handle[e]
      /\ Counted'
      /\ count'[n][s] = count[n][s] - 1
      /\ \A m \in Nodes, r \in Strengths : m # n \/ r # s => count'[m][r] = count[m][r]
  BY <1>1, <1>2, LetGo DEF IInv
<1>4. /\ stack' \in Seq(Calls)
      /\ \A k \in 1..Len(stack') :
              /\ k \in 1..Len(stack) /\ k # Len(stack) /\ stack'[k] = stack[k]
              /\ handle'[stack[k].h] = handle[stack[k].h]
              /\ NodeOf(k)' = NodeOf(k) /\ StrengthOf(k)' = StrengthOf(k)
      /\ \A k \in 1..Len(stack) : k # Len(stack) => k \in 1..Len(stack')
      /\ FramesDiffer'
      /\ stack' # <<>> => stack'[1].h = stack[1].h
      /\ stack' = <<>> => handle'[stack[1].h] = NoHandle
  BY <1>1, <1>2, <1>3, Returned
<1>5. TypeOK'
  BY <1>2, <1>3, <1>4 DEF IInv, TypeOK, Calls, Ats
<1>6. \A m \in Nodes, r \in Strengths : count[m][r] \in Nat /\ count'[m][r] \in Nat
  BY <1>3 DEF IInv, TypeOK
<1>7. /\ Total(n)' > 0 /\ count'[n][s] = 0
      /\ \A m \in Nodes : m # n => Total(m)' = Total(m)
  BY <1>1, <1>2, <1>3, <1>6 DEF Total, Strengths
<1>8. HeldAlive'
  <2>1. \A e \in Holders : handle'[e] # NoHandle => HeldBy(e)' \in alive
    BY <1>3 DEF IInv, HeldAlive, HeldBy
  <2>2. \A m \in alive : target[m] \in Objs /\ Total(m)' > 0
    BY <1>7 DEF IInv, HeldAlive, TypeOK
  <2>3. \A m \in Nodes : m \notin alive => handle'[<<m, 0>>] = NoHandle
    BY <1>3, Kinds DEF IInv, HeldAlive
  <2>4. \A m \in Members : handle'[m] # NoHandle => memory[m[1]] # "none"
    BY <1>3, Kinds DEF IInv, HeldAlive
  <2> QED
    BY <1>2, <2>1, <2>2, <2>3, <2>4 DEF HeldAlive
<1>9. FramesHold'
  <2>1. \A k \in 1..Len(stack') : count'[NodeOf(k)][StrengthOf(k)] = 1
    <3>1. \A k \in 1..Len(stack') : NodeOf(k) # n \/ StrengthOf(k) # s
      BY <1>1, <1>4
    <3>2. \A k \in 1..Len(stack') :
            /\ NodeOf(k) \in Nodes /\ StrengthOf(k) \in Strengths
            /\ count[NodeOf(k)][StrengthOf(k)] = 1
      BY <1>4, CallFacts
    <3> QED
      BY <1>3, <3>1, <3>2
  <2> QED
    BY <1>2, <1>4, <2>1 DEF IInv, FramesHold
<1>10. Chained'
  <2>1. ASSUME NEW k \in 1..Len(stack'), k + 1 \in 1..Len(stack')
        PROVE  Link(stack[k], stack[k + 1].h)'
    <3>1. Link(stack[k], stack[k + 1].h) /\ stack'[k] = stack[k] /\ stack'[k + 1] = stack[k + 1]
      BY <1>4, <2>1 DEF IInv, Chained
    <3>2. HeldBy(stack[k].h)' = HeldBy(stack[k].h) /\ HeldBy(stack[k].h) \in Nodes
      BY <1>4, <3>1, CallFacts DEF HeldBy, NodeOf
    <3>3. \A m \in Nodes : Total(m) = 1 => Total(m)' = 1
      BY <1>2, <1>7
    <3> QED
      BY <1>2, <3>1, <3>2, <3>3 DEF Link
  <2> QED
    BY <2>1 DEF Chained
<1>11. Dying'
  BY <1>2, <1>4 DEF IInv, Dying
<1>12. Owned'
  <2>1. \A m \in valid : count'[m]["strong"] > 0
    BY <1>1, <1>3 DEF IInv, Owned, TypeOK, Strengths
  <2> QED
    BY <1>2, <2>1 DEF IInv, Owned
<1>13. Listed'
  <2>1. \A m : Emptied(m, {"members", "remove"}) => Emptied(m, {"members", "remove"})'
    <3>1. \A m : Emptied(m, {"members", "remove"}) =>
            \E k \in 1..Len(stack) : k # l /\ stack[k].at \in {"members", "remove"}
                                     /\ NodeOf(k) = m /\ StrengthOf(k) = "strong"
      BY <1>1 DEF Emptied
    <3> QED
      BY <1>1, <1>4, <3>1 DEF Emptied
  <2>2. \A m \in Nodes : count'[m]["strong"] > 0 /\ Emptied(m, {"members", "remove", "count"})
          => Emptied(m, {"members", "remove", "count"})'
    <3>1. ASSUME NEW m \in Nodes, count'[m]["strong"] > 0, Emptied(m, {"members", "remove", "count"})
          PROVE  Emptied(m, {"members", "remove", "count"})'
      <4>1. PICK k \in 1..Len(stack) : stack[k].at \in {"members", "remove", "count"}
                                       /\ NodeOf(k) = m /\ StrengthOf(k) = "strong"
        BY <3>1 DEF Emptied
      <4>2. k # l
        BY <1>1, <1>7, <3>1, <4>1
      <4> QED
        BY <1>1, <1>4, <4>1, <4>2 DEF Emptied
    <3> QED
      BY <3>1
  <2>3. \A m \in Nodes : count'[m]["strong"] > 0 => count[m]["strong"] > 0
    BY <1>1, <1>3, <1>6 DEF Strengths
  <2> QED
    BY <1>2, <1>4, <2>1, <2>2, <2>3 DEF IInv, Listed
<1>14. Based' /\ Waiting'
  <2>1. \A v \in Vars : \A p : v # Frame.h /\ Holds(v, p) => Holds(v, p)'
    BY <1>2, <1>3, Kinds DEF Holds, HeldBy
  <2>2. handle[Temp] = NoHandle => handle'[Temp] = NoHandle
    BY <1>3, Kinds
  <2> QED
    BY <1>1, <1>2, <1>4, <2>1, <2>2, ClientsKept
<1> QED
  BY <1>3, <1>4, <1>5, <1>8, <1>9, <1>10, <1>11, <1>12, <1>13, <1>14 DEF IInv

\* The last handle goes: no other call works on the node, it is empty, and it is
\* not listed any more.
LEMMA DeleteNodeKeeps ==
  ASSUME IInv, DeleteNode
  PROVE  IInv'
<1>1. PICK l \in 1..Len(stack), n \in Nodes, s \in Strengths : Doing(l, n, s, "count")
  <2>1. Top("count")
    BY DEF DeleteNode
  <2> QED
    BY <2>1, TopCall
<1> USE DEF Doing
<1>2. /\ Total(n) = 1 /\ handle[<<n, 0>>] = NoHandle
      /\ alive' = alive \ {n} /\ owning' = owning \ {n}
      /\ target' = [target EXCEPT ![n] = Null]
      /\ when' = [when EXCEPT ![n] = "post"]
      /\ count' = [count EXCEPT ![n] = [r \in Strengths |-> 0]]
      /\ handle' = [handle EXCEPT ![Frame.h] = NoHandle]
      /\ stack' = Pop
      /\ UNCHANGED <<debug, valid, active, memory, pending>>
  BY <1>1 DEF DeleteNode
<1>3. /\ handle' \in [Holders -> Handles]
      /\ handle'[Frame.h] = NoHandle
      /\ \A e \in Holders : e # Frame.h => handle'[e] = handle[e]
  BY <1>1, <1>2, NullHandle DEF IInv, TypeOK
<1>4. /\ count' \in [Nodes -> [Strengths -> Nat]]
      /\ \A r \in Strengths : count'[n][r] = 0
      /\ \A m \in Nodes, r \in Strengths : m # n => count'[m][r] = count[m][r]
      /\ \A r \in Strengths : count[n][r] = IF r = s THEN 1 ELSE 0
      /\ \A m \in Nodes, r \in Strengths : count[m][r] \in Nat
  BY <1>1, <1>2 DEF IInv, TypeOK, Total, Strengths
<1>5. /\ stack' \in Seq(Calls)
      /\ \A k \in 1..Len(stack') :
              /\ k \in 1..Len(stack) /\ k # Len(stack) /\ stack'[k] = stack[k]
              /\ handle'[stack[k].h] = handle[stack[k].h]
              /\ NodeOf(k)' = NodeOf(k) /\ StrengthOf(k)' = StrengthOf(k)
      /\ \A k \in 1..Len(stack) : k # Len(stack) => k \in 1..Len(stack')
      /\ FramesDiffer'
      /\ stack' # <<>> => stack'[1].h = stack[1].h
      /\ stack' = <<>> => handle'[stack[1].h] = NoHandle
  BY <1>1, <1>2, <1>3, Returned
<1>6. Counted'
  <2>1. ASSUME NEW m \in Nodes, NEW r \in Strengths
        PROVE  count'[m][r] = count[m][r] - One(handle[Frame.h], m, r) + One(handle'[Frame.h], m, r)
    <3>1. /\ One(handle'[Frame.h], m, r) = 0
          /\ One(handle[Frame.h], m, r) = IF n = m /\ s = r THEN 1 ELSE 0
      BY <1>1, <1>3, NullHandle
    <3> QED
      BY <1>4, <3>1
  <2> QED
    BY <1>1, <1>3, <2>1, CountedAfterOne DEF IInv
\* The node is empty, and no other call or handle knows it.
<1>7. \A e \in Holders : handle'[e] # NoHandle => e # Frame.h /\ handle'[e] = handle[e] /\ HeldBy(e) # n
  BY <1>1, <1>2, <1>3
<1>8. \A k \in 1..Len(stack) : k # l => NodeOf(k) # n
  BY <1>1, <1>2
<1>9. n \notin valid /\ n \notin active
  <2>1. n \notin valid
    BY <1>1, <1>4 DEF IInv, Owned, Strengths
  <2>2. ~ Emptied(n, {"members", "remove"})
    BY <1>1, <1>8 DEF Emptied
  <2> QED
    BY <2>1, <2>2 DEF IInv, Listed
<1>10. /\ target' \in [Nodes -> Objs \cup {Null}]
       /\ \A m \in Nodes : m # n => target'[m] = target[m] /\ Total(m)' = Total(m)
  BY <1>2, <1>4 DEF IInv, TypeOK, Total, Strengths
<1>11. TypeOK'
  <2>1. /\ alive' \subseteq Nodes /\ valid \subseteq alive' /\ owning' \subseteq alive'
        /\ active \subseteq alive' /\ when' \in [Nodes -> {"pre", "post"}]
    BY <1>2, <1>9 DEF IInv, TypeOK
  <2> QED
    BY <1>2, <1>3, <1>4, <1>5, <1>10, <2>1 DEF IInv, TypeOK, Calls, Ats
<1>12. HeldAlive'
  <2>1. \A e \in Holders : handle'[e] # NoHandle => HeldBy(e)' \in alive'
    BY <1>2, <1>7 DEF IInv, HeldAlive, HeldBy
  <2>2. \A m \in alive' : target'[m] \in Objs /\ Total(m)' > 0
    BY <1>2, <1>10 DEF IInv, HeldAlive, TypeOK
  <2>3. \A m \in Nodes : m \notin alive' => handle'[<<m, 0>>] = NoHandle
    BY <1>2, <1>3, Kinds DEF IInv, HeldAlive
  <2>4. \A m \in Members : handle'[m] # NoHandle => memory[m[1]] # "none"
    BY <1>3, Kinds DEF IInv, HeldAlive
  <2> QED
    BY <1>2, <2>1, <2>2, <2>3, <2>4 DEF HeldAlive
<1>13. FramesHold'
  <2>1. \A k \in 1..Len(stack') : count'[NodeOf(k)][StrengthOf(k)] = 1
    <3>1. ASSUME NEW k \in 1..Len(stack')
          PROVE  count'[NodeOf(k)][StrengthOf(k)] = 1
      <4>1. k \in 1..Len(stack) /\ NodeOf(k) # n
        BY <1>1, <1>5, <1>8
      <4>2. NodeOf(k) \in Nodes /\ StrengthOf(k) \in Strengths /\ count[NodeOf(k)][StrengthOf(k)] = 1
        BY <4>1, CallFacts
      <4> QED
        BY <1>4, <4>1, <4>2
    <3> QED
      BY <3>1
  <2> QED
    BY <1>2, <1>5, <2>1 DEF IInv, FramesHold
<1>14. Chained'
  <2>1. ASSUME NEW k \in 1..Len(stack'), k + 1 \in 1..Len(stack')
        PROVE  Link(stack[k], stack[k + 1].h)'
    <3>1. Link(stack[k], stack[k + 1].h) /\ stack'[k] = stack[k] /\ stack'[k + 1] = stack[k + 1]
      BY <1>5, <2>1 DEF IInv, Chained
    <3>2. HeldBy(stack[k].h)' = HeldBy(stack[k].h) /\ HeldBy(stack[k].h) \in Nodes
          /\ HeldBy(stack[k].h) # n
      BY <1>1, <1>5, <1>8, <3>1, CallFacts DEF HeldBy, NodeOf
    <3>3. \A m \in Nodes : m # n => Total(m)' = Total(m) /\ target'[m] = target[m]
      BY <1>10
    <3> QED
      BY <3>1, <3>2, <3>3 DEF Link
  <2> QED
    BY <2>1 DEF Chained
<1>15. Dying'
  <2>1. \A k \in 1..Len(stack') : NodeOf(k)' = NodeOf(k) /\ target'[NodeOf(k)] = target[NodeOf(k)]
    BY <1>1, <1>5, <1>8, <1>10, CallFacts
  <2>2. \A k \in 1..Len(stack') : stack'[k].at = "members" =>
          k \in 1..Len(stack) /\ stack[k].at = "members"
    BY <1>5
  <2>3. \A k \in 1..Len(stack') : stack'[k].at = "members" => memory'[target'[NodeOf(k)']] = "dying"
    BY <1>2, <2>1, <2>2 DEF IInv, Dying
  <2>4. \A j, k \in 1..Len(stack') : stack'[j].at = "members" /\ stack'[k].at = "members"
          /\ target'[NodeOf(j)'] = target'[NodeOf(k)'] => j = k
    BY <2>1, <2>2 DEF IInv, Dying
  <2> QED
    BY <2>3, <2>4 DEF Dying
<1>16. Owned'
  <2>1. \A m \in valid : m \in Nodes /\ m # n
    BY <1>9 DEF IInv, TypeOK
  <2>2. \A m \in valid : target'[m] = target[m] /\ count'[m]["strong"] = count[m]["strong"]
    BY <1>4, <1>10, <2>1 DEF Strengths
  <2> QED
    BY <1>2, <2>2 DEF IInv, Owned
<1>17. Listed'
  <2>1. \A m, ats : m # n /\ Emptied(m, ats) => Emptied(m, ats)'
    <3>1. \A m, ats : m # n /\ Emptied(m, ats) =>
            \E k \in 1..Len(stack) : k # l /\ stack[k].at \in ats
                                     /\ NodeOf(k) = m /\ StrengthOf(k) = "strong"
      BY <1>1 DEF Emptied
    <3> QED
      BY <1>1, <1>5, <3>1 DEF Emptied
  <2>2. \A m \in Nodes : count'[m]["strong"] > 0 => m # n /\ count[m]["strong"] > 0
    BY <1>4 DEF Strengths
  <2> QED
    BY <1>2, <1>5, <1>9, <2>1, <2>2 DEF IInv, Listed
<1>18. Based' /\ Waiting'
  <2>1. ASSUME NEW v \in Vars, NEW p, v # Frame.h, Holds(v, p)
        PROVE  Holds(v, p)'
    <3>1. v \in Holders /\ handle'[v] = handle[v] /\ HeldBy(v) \in valid
      BY <1>3, <2>1, Kinds DEF Holds
    <3>2. HeldBy(v) # n /\ HeldBy(v) \in Nodes
      BY <1>9, <3>1 DEF IInv, TypeOK
    <3> QED
      BY <1>2, <1>10, <2>1, <3>1, <3>2 DEF Holds, HeldBy
  <2>2. handle[Temp] = NoHandle => handle'[Temp] = NoHandle
    BY <1>3, Kinds
  <2> QED
    BY <1>1, <1>2, <1>5, <2>1, <2>2, ClientsKept
<1> QED
  BY <1>5, <1>6, <1>11, <1>12, <1>13, <1>14, <1>15, <1>16, <1>17, <1>18 DEF IInv

\* A call releases what the object or the node held.
LEMMA Releases ==
  ASSUME IInv, NEW h \in Holders, handle[h] # NoHandle, Unbind(h), stack # <<>>,
         UNCHANGED <<debug, node, memory, pending>>, Link(Frame, h)
  PROVE  IInv'
<1>1. pending' \in {<<>>} \cup (Holders \X Holders)
  BY DEF IInv, TypeOK
<1>2. /\ Rest'
      /\ \/ /\ stack' = stack /\ handle'[h] = NoHandle
            /\ \A e \in Holders : e # h => handle'[e] = handle[e]
         \/ /\ handle' = handle /\ stack' # <<>>
            /\ stack'[1].h = IF stack = <<>> THEN h ELSE stack[1].h
  BY <1>1, Unbound
<1>3. h \in Members \cup Extras
  <2>1. 1 \in 1..Len(stack)
    BY LastCall DEF IInv
  <2> QED
    BY <2>1, NotOnStack
<1>4. \A e \in Holders : e \in Vars \cup {Temp} => handle'[e] = handle[e]
  BY <1>2, <1>3, Kinds
<1>5. \A v \in Vars : \A o : Holds(v, o) => Holds(v, o)'
  BY <1>4, Kinds DEF Holds, HeldBy, node
<1>6. Waiting'
  BY <1>2, <1>4, <1>5, Kinds, ClientsKept
<1> QED
  BY <1>2, <1>6 DEF Rest, IInv

LEMMA DropPreDataKeeps ==
  ASSUME IInv, DropPreData
  PROVE  IInv'
<1>1. PICK l \in 1..Len(stack), n \in Nodes, s \in Strengths : Doing(l, n, s, "object")
  <2>1. Top("object")
    BY DEF DropPreData
  <2> QED
    BY <2>1, TopCall
<1>2. handle[<<n, 0>>] # NoHandle /\ Unbind(<<n, 0>>) /\ UNCHANGED <<debug, node, memory, pending>>
  BY <1>1 DEF DropPreData, Doing
<1>3. Link(Frame, <<n, 0>>) /\ stack # <<>>
  BY <1>1 DEF Link, Doing
<1> QED
  BY <1>2, <1>3, Releases, Kinds

LEMMA DropMemberKeeps ==
  ASSUME IInv, NEW i \in 1..Arity, DropMember(i)
  PROVE  IInv'
<1>1. PICK l \in 1..Len(stack), n \in Nodes, s \in Strengths : Doing(l, n, s, "members")
  <2>1. Top("members")
    BY DEF DropMember
  <2> QED
    BY <2>1, TopCall
<1> DEFINE m == <<target[n], i>>
<1>2. handle[m] # NoHandle /\ Unbind(m) /\ UNCHANGED <<debug, node, memory, pending>>
  BY <1>1 DEF DropMember, Doing, node
<1>3. Link(Frame, m) /\ stack # <<>> /\ m \in Holders
  BY <1>1, Kinds DEF Link, Doing
<1> QED
  BY <1>2, <1>3, Releases

LEMMA DropExtraDataKeeps ==
  ASSUME IInv, DropExtraData
  PROVE  IInv'
<1>1. PICK l \in 1..Len(stack), n \in Nodes, s \in Strengths : Doing(l, n, s, "count")
  <2>1. Top("count")
    BY DEF DropExtraData
  <2> QED
    BY <2>1, TopCall
<1>2. /\ Total(n) = 1 /\ handle[<<n, 0>>] # NoHandle /\ Unbind(<<n, 0>>)
      /\ UNCHANGED <<debug, node, memory, pending>>
  BY <1>1 DEF DropExtraData, Doing, node
<1>3. Link(Frame, <<n, 0>>) /\ stack # <<>>
  BY <1>1, <1>2 DEF Link, Doing
<1> QED
  BY <1>2, <1>3, Releases, Kinds

LEMMA DropTempKeeps ==
  ASSUME IInv, DropTemp
  PROVE  IInv'
<1>1. /\ stack = <<>> /\ handle[Temp] # NoHandle /\ Unbind(Temp)
      /\ UNCHANGED <<debug, node, memory, pending>>
  BY DEF DropTemp, node
<1>2. pending = <<>>
  BY <1>1 DEF IInv, Waiting
<1>3. Kept(Temp)
  BY Kinds DEF Kept
<1>4. Rest'
  BY <1>1, <1>2, <1>3, Kinds, Unbound
<1>5. Waiting'
  BY <1>1, <1>2 DEF Waiting
<1> QED
  BY <1>4, <1>5 DEF Rest, IInv

-----------------------------------------------------------------------------
(* Nothing is under way: the operations that make handles.                 *)

\* What the client keeps alive.
LEMMA OwnerLives ==
  ASSUME IInv, NEW v, NEW o, Holds(v, o)
  PROVE  memory[o] = "live"
BY DEF Holds, IInv, Owned

LEMMA HolderAlive ==
  ASSUME IInv, NEW h \in Holders, handle[h] # NoHandle
  PROVE  \E n \in Nodes, s \in Strengths :
           /\ HeldBy(h) = n /\ handle[h].strength = s /\ handle[h] = Share(n, s)
           /\ n \in alive /\ target[n] \in Objs /\ count[n][s] > 0
<1> DEFINE n == HeldBy(h)
           s == handle[h].strength
<1>1. n \in Nodes /\ s \in Strengths /\ handle[h] = Share(n, s)
  BY HandleParts DEF IInv
<1>2. n \in alive /\ target[n] \in Objs
  BY DEF IInv, HeldAlive
<1>3. count[n][s] > 0
  BY <1>1, CountOfHolder DEF IInv
<1> HIDE DEF n, s
<1>4. HeldBy(h) = n /\ handle[h].strength = s
  BY DEF n, s
<1> QED
  BY <1>1, <1>2, <1>3, <1>4

\* In the debug build a strong handle finds its object when nothing is under way.
LEMMA StrongFinds ==
  ASSUME IInv, stack = <<>>, debug, NEW n \in Nodes, count[n]["strong"] > 0
  PROVE  n \in valid
BY AtRest

\* One more handle.
LEMMA Bound ==
  ASSUME IInv, stack = <<>>, NEW h \in Vars \cup Members, NEW n \in alive,
         NEW s \in Strengths, handle[h] = NoHandle, Makes(h, Share(n, s)),
         count' = Bind(n, s), UNCHANGED <<debug, node, memory, stack>>, pending' = <<>>,
         h \in Members => memory[h[1]] # "none",
         debug /\ s = "strong" => n \in valid
  PROVE  IInv'
<1> USE DEF node
<1>1. TypeOK /\ Counted /\ h \in Holders /\ n \in Nodes /\ h \notin Extras
  BY Kinds DEF IInv, TypeOK
<1>2. /\ handle' \in [Holders -> Handles] /\ count' \in [Nodes -> [Strengths -> Nat]]
      /\ handle'[h] = Share(n, s)
      /\ \A e \in Holders : e # h => handle'[e] = handle[e]
      /\ Counted'
      /\ count'[n][s] = count[n][s] + 1
      /\ \A m \in Nodes, r \in Strengths : m # n \/ r # s => count'[m][r] = count[m][r]
  BY <1>1, Taken
<1>3. TypeOK'
  BY <1>1, <1>2 DEF TypeOK
<1>4. /\ \A m \in Nodes, r \in Strengths : count[m][r] > 0 => count'[m][r] > 0
      /\ \A m \in Nodes : Total(m) > 0 => Total(m)' > 0
  <2>1. \A m \in Nodes, r \in Strengths : count[m][r] \in Nat /\ count'[m][r] \in Nat
    BY <1>1, <1>2 DEF TypeOK
  <2> QED
    BY <1>1, <1>2, <2>1, SMTT(30) DEF Total, Strengths
<1>5. HeldAlive'
  <2>1. \A e \in Holders : handle'[e] # NoHandle => HeldBy(e)' \in alive
    BY <1>2 DEF IInv, HeldAlive, HeldBy, Share
  <2>2. \A m \in alive : target[m] \in Objs /\ Total(m)' > 0
    BY <1>4 DEF IInv, HeldAlive, TypeOK
  <2>3. \A m \in Nodes : <<m, 0>> \in Holders /\ <<m, 0>> # h
    BY <1>1, Kinds
  <2>4. \A m \in Nodes : m \notin alive => handle'[<<m, 0>>] = NoHandle
    <3>1. \A m \in Nodes : m \notin alive => handle[<<m, 0>>] = NoHandle
      BY DEF IInv, HeldAlive
    <3> QED
      BY <1>2, <2>3, <3>1
  <2>5. \A m \in Members : handle'[m] # NoHandle => memory[m[1]] # "none"
    BY <1>2, Kinds DEF IInv, HeldAlive
  <2> QED
    BY <2>1, <2>2, <2>4, <2>5 DEF HeldAlive
<1>6. Owned'
  BY <1>4 DEF IInv, Owned, TypeOK, Strengths
<1>7. debug => \A m \in Nodes : count'[m]["strong"] > 0 => m \in valid
  <2>1. \A m \in Nodes : count'[m]["strong"] > 0 => count[m]["strong"] > 0 \/ (m = n /\ s = "strong")
    BY <1>2 DEF Strengths
  <2> QED
    BY <2>1, AtRest
<1> QED
  BY <1>2, <1>3, <1>5, <1>6, <1>7, AtRest, RestAfter

\* The handle that is copied was kept while the target was emptied.
LEMMA AssignCopyKeeps ==
  ASSUME IInv, AssignCopy
  PROVE  IInv'
<1> DEFINE to == pending[1]
           from == pending[2]
<1>1. /\ pending # <<>> /\ stack = <<>>
      /\ Exists(to)
      /\ count' = BindHandle(handle[from])
      /\ handle' = [handle EXCEPT ![to] = handle[from]]
      /\ pending' = <<>>
      /\ UNCHANGED <<debug, node, valid, memory, stack>>
  BY DEF AssignCopy
<1>2. /\ debug /\ to \in Vars \cup Members /\ from \in Vars \cup Members
      /\ handle[to] = NoHandle
  BY <1>1 DEF IInv, Waiting
<1> HIDE DEF to, from
<1>3. from \in Holders /\ to \in Holders
  BY <1>2, Kinds
<1>4. CASE handle[from] = NoHandle
  <2>1. handle' = handle /\ count' = count
    BY <1>1, <1>2, <1>4 DEF BindHandle, IInv, TypeOK
  <2>2. TypeOK' /\ Owned'
    BY <1>1, <2>1 DEF IInv, TypeOK, Owned, node
  <2>3. Counted' /\ HeldAlive'
    BY <1>1, <2>1 DEF IInv, Counted, Sharing, HeldAlive, HeldBy, Total, node
  <2> QED
    BY <1>1, <2>1, <2>2, <2>3, AtRest, RestAfter DEF node
<1>5. CASE handle[from] # NoHandle
  <2>1. PICK n \in Nodes, s \in Strengths :
           /\ HeldBy(from) = n /\ handle[from].strength = s /\ handle[from] = Share(n, s)
           /\ n \in alive /\ target[n] \in Objs /\ count[n][s] > 0
    BY <1>3, <1>5, HolderAlive
  <2>2. Makes(to, Share(n, s)) /\ count' = Bind(n, s)
    BY <1>1, <1>5, <2>1 DEF Makes, BindHandle, HeldBy
  <2>3. to \in Members => memory[to[1]] # "none"
    BY <1>1 DEF Exists
  <2>4. debug /\ s = "strong" => n \in valid
    BY <1>1, <2>1, StrongFinds
  <2> QED
    BY <1>1, <1>2, <2>1, <2>2, <2>3, <2>4, Bound
<1> QED
  BY <1>4, <1>5

LEMMA FromRefKeeps ==
  ASSUME IInv, NEW v \in Vars, NEW o \in Objs, FromRef(v, o)
  PROVE  IInv'
<1>1. PICK n \in ExistingOwner(o) :
       /\ count' = Bind(n, "weak")
       /\ handle' = [handle EXCEPT ![v] = [node |-> n, strength |-> "weak"]]
  BY DEF FromRef
<1>2. n \in alive
  BY DEF ExistingOwner, IInv, TypeOK
<1>3. /\ stack = <<>> /\ pending = <<>> /\ handle[v] = NoHandle
      /\ UNCHANGED <<debug, node, memory, stack, pending>>
  BY DEF FromRef, Idle
<1>4. Makes(v, Share(n, "weak"))
  BY <1>1 DEF Makes, Share
<1>5. "weak" \in Strengths /\ "weak" # "strong" /\ v \in Vars \cup Members /\ v \notin Members
  BY Kinds DEF Strengths
<1>6. pending' = <<>>
  BY <1>3
<1> QED
  BY <1>1, <1>2, <1>3, <1>4, <1>5, <1>6, Bound

LEMMA CopyCtorKeeps ==
  ASSUME IInv, NEW v \in Vars, NEW h \in Holders, CopyCtor(v, h)
  PROVE  IInv'
<1>1. /\ stack = <<>> /\ pending = <<>> /\ handle[v] = NoHandle /\ handle[h] # NoHandle
      /\ count' = BindHandle(handle[h]) /\ handle' = [handle EXCEPT ![v] = handle[h]]
      /\ UNCHANGED <<debug, node, memory, stack, pending>>
  BY DEF CopyCtor, Idle
<1>2. PICK n \in Nodes, s \in Strengths :
           /\ HeldBy(h) = n /\ handle[h].strength = s /\ handle[h] = Share(n, s)
           /\ n \in alive /\ target[n] \in Objs /\ count[n][s] > 0
  BY <1>1, HolderAlive
<1>3. Makes(v, Share(n, s)) /\ count' = Bind(n, s)
  BY <1>1, <1>2 DEF Makes, BindHandle, HeldBy
<1>4. debug /\ s = "strong" => n \in valid
  BY <1>1, <1>2, StrongFinds
<1>5. v \in Vars \cup Members /\ v \notin Members /\ pending' = <<>>
  BY <1>1, Kinds
<1> QED
  BY <1>1, <1>2, <1>3, <1>4, <1>5, Bound

LEMMA CreateKeeps ==
  ASSUME IInv, NEW v \in Vars, NEW h \in Holders, NEW s \in Strengths, Create(v, h, s)
  PROVE  IInv'
<1>1. /\ stack = <<>> /\ pending = <<>> /\ handle[v] = NoHandle /\ handle[h] # NoHandle
      /\ debug => Accepts(h)
      /\ count' = Bind(HeldBy(h), s)
      /\ handle' = [handle EXCEPT ![v] = [node |-> HeldBy(h), strength |-> s]]
      /\ UNCHANGED <<debug, node, memory, stack, pending>>
  BY DEF Create, Idle
<1>2. PICK n \in Nodes : HeldBy(h) = n /\ n \in alive
  BY <1>1, HolderAlive
<1>3. Makes(v, Share(n, s)) /\ count' = Bind(n, s)
  BY <1>1, <1>2 DEF Makes, Share
<1>4. debug /\ s = "strong" => n \in valid
  BY <1>1, <1>2 DEF Accepts
<1>5. v \in Vars \cup Members /\ v \notin Members /\ pending' = <<>>
  BY <1>1, Kinds
<1> QED
  BY <1>1, <1>2, <1>3, <1>4, <1>5, Bound

\* Copy and swap.
LEMMA Swapped ==
  ASSUME IInv, stack = <<>>, pending = <<>>, handle[Temp] = NoHandle,
         NEW to \in Vars \cup Members \cup Extras, NEW from \in Vars \cup Members, to # from,
         CopyAndSwap(to, from),
         to \in Members => memory[to[1]] # "none", to \in Extras => to[1] \in alive,
         UNCHANGED <<debug, alive, target, valid, owning, active, memory, stack, pending>>,
         when' \in [Nodes -> {"pre", "post"}]
  PROVE  IInv'
<1>1. to \in Holders /\ from \in Holders /\ Temp \in Holders /\ to # Temp /\ from # Temp
  BY Kinds
<1>2. /\ handle' \in [Holders -> Handles]
      /\ handle'[to] = handle[from] /\ handle'[Temp] = handle[to]
      /\ \A e \in Holders : e # to /\ e # Temp => handle'[e] = handle[e]
      /\ count' = BindHandle(handle[from])
  BY <1>1 DEF CopyAndSwap, IInv, TypeOK
<1>3. /\ count' \in [Nodes -> [Strengths -> Nat]]
      /\ \A m \in Nodes, r \in Strengths : count'[m][r] = count[m][r] + One(handle[from], m, r)
  <2>1. CASE handle[from] = NoHandle
    BY <1>2, <2>1, NullHandle DEF BindHandle, IInv, TypeOK
  <2>2. CASE handle[from] # NoHandle
    <3>1. PICK n \in Nodes, s \in Strengths : handle[from] = Share(n, s)
      BY <1>1, <2>2, HolderAlive
    <3>2. count' = Bind(n, s)
      BY <1>2, <2>2, <3>1 DEF BindHandle, Share
    <3>3. \A m \in Nodes, r \in Strengths : One(handle[from], m, r) = IF n = m /\ s = r THEN 1 ELSE 0
      BY <3>1, NullHandle
    <3> QED
      BY <3>2, <3>3 DEF Bind, IInv, TypeOK
  <2> QED
    BY <2>1, <2>2
<1>4. \A m \in Nodes, r \in Strengths :
        count[m][r] \in Nat /\ One(handle[from], m, r) \in {0, 1} /\ One(handle[to], m, r) \in {0, 1}
        /\ One(handle[Temp], m, r) = 0
  BY NullHandle DEF IInv, TypeOK, One
<1>5. Counted'
  <2>1. ASSUME NEW m \in Nodes, NEW r \in Strengths
        PROVE  count'[m][r] = count[m][r] - One(handle[to], m, r) + One(handle'[to], m, r)
                                          - One(handle[Temp], m, r) + One(handle'[Temp], m, r)
    BY <1>2, <1>3, <1>4
  <2> QED
    BY <1>1, <1>2, <2>1, CountedAfterTwo DEF IInv
<1>6. TypeOK'
  BY <1>2, <1>3 DEF IInv, TypeOK
<1>7. /\ \A m \in Nodes, r \in Strengths : count[m][r] > 0 => count'[m][r] > 0
      /\ \A m \in Nodes : Total(m) > 0 => Total(m)' > 0
  <2>1. \A m \in Nodes, r \in Strengths :
          count[m][r] \in Nat /\ count'[m][r] \in Nat /\ count'[m][r] >= count[m][r]
    BY <1>3, <1>4
  <2> QED
    BY <2>1 DEF Total, Strengths
<1>8. HeldAlive'
  <2>1. \A e \in Holders : handle'[e] # NoHandle => HeldBy(e)' \in alive
    BY <1>1, <1>2 DEF IInv, HeldAlive, HeldBy
  <2>2. \A m \in alive : target[m] \in Objs /\ Total(m)' > 0
    BY <1>7 DEF IInv, HeldAlive, TypeOK
  <2>3. ASSUME NEW m \in Nodes, m \notin alive
        PROVE  handle'[<<m, 0>>] = NoHandle
    <3>1. <<m, 0>> # to /\ <<m, 0>> # Temp /\ <<m, 0>> \in Holders
      BY <2>3, Kinds
    <3> QED
      BY <1>2, <2>3, <3>1 DEF IInv, HeldAlive
  <2>4. \A m \in Members : handle'[m] # NoHandle => memory[m[1]] # "none"
    BY <1>2, Kinds DEF IInv, HeldAlive
  <2> QED
    BY <2>1, <2>2, <2>3, <2>4 DEF HeldAlive
<1>9. Owned'
  BY <1>7 DEF IInv, Owned, TypeOK, Strengths
<1>10. debug => \A m \in Nodes : count'[m]["strong"] > 0 => m \in valid
  <2>1. ASSUME NEW m \in Nodes, count'[m]["strong"] > 0
        PROVE  count[m]["strong"] > 0
    <3>1. CASE handle[from] = Share(m, "strong")
      BY <1>1, <3>1, CountOfHolder DEF IInv, Strengths
    <3>2. CASE handle[from] # Share(m, "strong")
      BY <1>3, <1>4, <2>1, <3>2 DEF One, Strengths
    <3> QED
      BY <3>1, <3>2
  <2> QED
    BY <2>1, AtRest
<1> QED
  BY <1>5, <1>6, <1>8, <1>9, <1>10, AtRest, RestAfter

LEMMA AssignSwapKeeps ==
  ASSUME IInv, NEW to \in Holders, NEW from \in Holders, AssignSwap(to, from)
  PROVE  IInv'
<1>1. /\ stack = <<>> /\ pending = <<>> /\ handle[Temp] = NoHandle /\ to # from
      /\ Pinned(to, to) /\ Pinned(from, Null) /\ CopyAndSwap(to, from)
      /\ UNCHANGED <<debug, alive, target, valid, owning, active, when, memory, stack, pending>>
  BY DEF AssignSwap, Idle, node
<1>2. to \in Vars \cup Members \cup Extras /\ from \in Vars \cup Members /\ to \notin Extras
  BY <1>1, Kinds DEF Pinned
<1>3. to \in Members => memory[to[1]] # "none"
  BY <1>1, OwnerLives DEF Pinned
<1>4. when' \in [Nodes -> {"pre", "post"}]
  BY <1>1 DEF IInv, TypeOK
<1> QED
  BY <1>1, <1>2, <1>3, <1>4, Swapped

LEMMA SetExtraDataKeeps ==
  ASSUME IInv, NEW v \in Vars, NEW from \in Holders, NEW w \in {"pre", "post"},
         SetExtraData(v, from, w)
  PROVE  IInv'
<1> DEFINE to == <<HeldBy(v), 0>>
<1>1. /\ stack = <<>> /\ pending = <<>> /\ handle[Temp] = NoHandle /\ handle[v] # NoHandle
      /\ Pinned(from, Null) /\ CopyAndSwap(to, from)
      /\ when' = [when EXCEPT ![HeldBy(v)] = w]
      /\ UNCHANGED <<debug, alive, target, valid, owning, active, memory, stack, pending>>
  BY DEF SetExtraData, Idle
<1>2. from \in Vars \cup Members
  BY <1>1 DEF Pinned
<1>3. HeldBy(v) \in Nodes /\ HeldBy(v) \in alive
  BY <1>1, HolderAlive, Kinds
<1>4. to \in Extras /\ to[1] \in alive
  BY <1>3, Kinds
<1>5. when' \in [Nodes -> {"pre", "post"}]
  BY <1>1, <1>3 DEF IInv, TypeOK
<1> HIDE DEF to
<1>6. to \in Vars \cup Members \cup Extras /\ to # from /\ to \notin Members
  BY <1>2, <1>4, Kinds
<1> QED
  BY <1>1, <1>2, <1>4, <1>5, <1>6, Swapped

-----------------------------------------------------------------------------
(* The other operations a client begins.                                   *)

LEMMA ResetKeeps ==
  ASSUME IInv, NEW to \in Holders, Reset(to)
  PROVE  IInv'
<1>1. /\ stack = <<>> /\ pending = <<>> /\ Pinned(to, to) /\ handle[to] # NoHandle
      /\ Unbind(to) /\ UNCHANGED <<debug, node, memory, pending>>
  BY DEF Reset, Idle, node
<1>2. Kept(to)
  BY <1>1 DEF Pinned, Kept
<1>3. Rest'
  BY <1>1, <1>2, Unbound
<1>4. Waiting'
  BY <1>1 DEF Waiting
<1> QED
  BY <1>3, <1>4 DEF Rest, IInv

\* The target of an assignment is being emptied, and the source is kept.
LEMMA AssignResetKeeps ==
  ASSUME IInv, NEW to \in Holders, NEW from \in Holders, AssignReset(to, from)
  PROVE  IInv'
<1>1. /\ stack = <<>> /\ pending = <<>> /\ handle[Temp] = NoHandle /\ debug /\ to # from
      /\ Pinned(to, to) /\ Pinned(from, to)
      /\ IF handle[to] = NoHandle THEN UNCHANGED <<handle, count, stack>> ELSE Unbind(to)
      /\ pending' = <<to, from>>
      /\ UNCHANGED <<debug, node, memory>>
  BY DEF AssignReset, Idle, node
<1>2. /\ to \in Vars \cup Members /\ from \in Vars \cup Members /\ to # Temp
      /\ to \in Members => \E v \in Vars \ {to} : Holds(v, to[1])
      /\ from \in Members => \E v \in Vars \ {to} : Holds(v, from[1])
  BY <1>1, Kinds DEF Pinned
<1>3. pending' \in {<<>>} \cup (Holders \X Holders) /\ pending'[1] = to /\ pending'[2] = from
  BY <1>1
<1>4. /\ Rest'
      /\ \/ /\ stack' = <<>> /\ handle'[to] = NoHandle
            /\ \A e \in Holders : e # to => handle'[e] = handle[e]
         \/ handle' = handle /\ stack' # <<>> /\ stack'[1].h = to
  <2>1. CASE handle[to] = NoHandle
    <3>1. TypeOK'
      BY <1>1, <1>3, <2>1 DEF IInv, TypeOK, node
    <3>2. Counted' /\ HeldAlive' /\ Owned'
      BY <1>1, <2>1 DEF IInv, Counted, Sharing, HeldAlive, Owned, HeldBy, Total, node
    <3>3. FramesHold' /\ FramesDiffer' /\ Chained' /\ Based' /\ Dying'
      <4>1. 1..Len(stack') = {}
        BY <1>1, <2>1
      <4>2. Based'
        BY <1>1, <2>1 DEF Based
      <4> QED
        BY <4>1, <4>2 DEF FramesHold, FramesDiffer, Chained, Dying
    <3>4. Listed'
      BY <1>1, <2>1 DEF IInv, Listed, Emptied, NodeOf, StrengthOf, HeldBy, node
    <3> QED
      BY <1>1, <2>1, <3>1, <3>2, <3>3, <3>4 DEF Rest
  <2>2. CASE handle[to] # NoHandle
    <3>1. Kept(to)
      BY <1>2 DEF Kept
    <3> QED
      BY <1>1, <1>3, <2>2, <3>1, Unbound
  <2> QED
    BY <2>1, <2>2
<1>5. Waiting'
  <2>1. \A e \in Holders : e # to => handle'[e] = handle[e]
    BY <1>4
  <2>2. \A v \in Vars \ {to} : \A o : Holds(v, o) => Holds(v, o)'
    BY <1>1, <2>1, Kinds DEF Holds, HeldBy, node
  <2>3. /\ to \in Members => \E v \in Vars \ {to} : Holds(v, to[1])'
        /\ from \in Members => \E v \in Vars \ {to} : Holds(v, from[1])'
    BY <1>2, <2>2
  <2>4. handle'[Temp] = NoHandle
    BY <1>1, <1>2, <2>1, Kinds
  <2> QED
    BY <1>1, <1>2, <1>3, <1>4, <2>3, <2>4 DEF Waiting
<1> QED
  BY <1>4, <1>5 DEF Rest, IInv

LEMMA AllocateKeeps ==
  ASSUME IInv, NEW o \in Objs, Allocate(o)
  PROVE  IInv'
<1>1. /\ stack = <<>> /\ pending = <<>> /\ memory[o] = "none"
      /\ memory' = [memory EXCEPT ![o] = "live"]
      /\ UNCHANGED <<debug, handle, count, alive, target, valid, owning, active, when, stack, pending>>
  BY DEF Allocate, Idle, node
<1>2. /\ memory' \in [Objs -> {"none", "live", "dying"}]
      /\ memory'[o] = "live" /\ \A p \in Objs : p # o => memory'[p] = memory[p]
  BY <1>1 DEF IInv, TypeOK
<1>3. TypeOK' /\ Counted'
  BY <1>1, <1>2 DEF IInv, TypeOK, Counted, Sharing
<1>4. HeldAlive'
  <2>1. \A m \in Members : handle[m] # NoHandle => memory'[m[1]] # "none"
    BY <1>1, <1>2, Kinds DEF IInv, HeldAlive
  <2> QED
    BY <1>1, <2>1 DEF IInv, HeldAlive, HeldBy, Total
<1>5. Owned'
  <2>1. \A n \in valid \cap owning : target[n] \in Objs
    BY DEF IInv, TypeOK, HeldAlive
  <2> QED
    BY <1>1, <1>2, <2>1 DEF IInv, Owned
<1> QED
  BY <1>1, <1>3, <1>4, <1>5, AtRest, RestAfter

\* A node that does not exist has no handles.
LEMMA Unheld ==
  ASSUME IInv, NEW n \in Nodes, n \notin alive
  PROVE  /\ \A e \in Holders : handle[e] # NoHandle => HeldBy(e) # n
         /\ \A s \in Strengths : count[n][s] = 0
         /\ n \notin valid /\ n \notin owning /\ n \notin active
<1>1. \A e \in Holders : handle[e] # NoHandle => HeldBy(e) # n
  BY DEF IInv, HeldAlive
<1>2. ASSUME NEW s \in Strengths
      PROVE  count[n][s] = 0
  <2>1. SUFFICES ASSUME count[n][s] > 0 PROVE FALSE
    BY DEF IInv, TypeOK
  <2>2. PICK h \in Holders : handle[h] = Share(n, s)
    BY <2>1, HolderOfCount DEF IInv
  <2> QED
    BY <1>1, <2>2, HandleParts DEF IInv
<1> QED
  BY <1>1, <1>2 DEF IInv, TypeOK

\* A new node is the only owner of its object: addNewRCPNode() looked at the list,
\* which has every node that knows an object.
LEMMA NewNodeKeeps ==
  ASSUME IInv, NEW v \in Vars, NEW o \in Objs, NEW n \in Nodes, NEW owns \in BOOLEAN,
         NewNode(v, o, n, owns)
  PROVE  IInv'
<1>1. /\ stack = <<>> /\ pending = <<>> /\ handle[v] = NoHandle
      /\ memory[o] = "live" /\ n \notin alive /\ MayList(o, owns)
      /\ alive' = alive \cup {n} /\ valid' = valid \cup {n}
      /\ owning' = IF owns THEN owning \cup {n} ELSE owning
      /\ active' = IF debug THEN active \cup {n} ELSE active
      /\ target' = [target EXCEPT ![n] = o]
      /\ count' = Bind(n, "strong") /\ Makes(v, Share(n, "strong"))
      /\ UNCHANGED <<debug, when, memory, stack, pending>>
  BY DEF NewNode, Idle, Makes, Share
<1>2. v \in Holders /\ v \notin Members /\ v \notin Extras /\ "strong" \in Strengths
  BY Kinds DEF Strengths
<1>3. /\ handle' \in [Holders -> Handles] /\ count' \in [Nodes -> [Strengths -> Nat]]
      /\ handle'[v] = Share(n, "strong")
      /\ \A e \in Holders : e # v => handle'[e] = handle[e]
      /\ Counted'
      /\ count'[n]["strong"] = count[n]["strong"] + 1
      /\ \A m \in Nodes, r \in Strengths : m # n \/ r # "strong" => count'[m][r] = count[m][r]
  BY <1>1, <1>2, Taken DEF IInv
<1>4. /\ \A e \in Holders : handle[e] # NoHandle => HeldBy(e) # n
      /\ count[n]["strong"] = 0 /\ count[n]["weak"] = 0
      /\ n \notin valid /\ n \notin owning /\ n \notin active
  BY <1>1, Unheld DEF Strengths
<1>5. /\ target' \in [Nodes -> Objs \cup {Null}] /\ target'[n] = o
      /\ \A m \in Nodes : m # n => target'[m] = target[m]
  BY <1>1 DEF IInv, TypeOK
<1>6. TypeOK'
  BY <1>1, <1>3, <1>5 DEF IInv, TypeOK
<1>7. /\ Total(n)' > 0 /\ count'[n]["strong"] > 0
      /\ \A m \in Nodes : m # n => Total(m)' = Total(m) /\ count'[m]["strong"] = count[m]["strong"]
  BY <1>3, <1>4 DEF Total, Strengths
<1>8. HeldAlive'
  <2>1. \A e \in Holders : handle'[e] # NoHandle => HeldBy(e)' \in alive'
    BY <1>1, <1>3 DEF IInv, HeldAlive, HeldBy, Share
  <2>2. \A m \in alive' : target'[m] \in Objs /\ Total(m)' > 0
    BY <1>1, <1>5, <1>7 DEF IInv, HeldAlive, TypeOK
  <2>3. \A m \in Nodes : m \notin alive' => handle'[<<m, 0>>] = NoHandle
    <3>1. \A m \in Nodes : <<m, 0>> \in Holders /\ <<m, 0>> # v
      BY <1>2, Kinds
    <3>2. \A m \in Nodes : m \notin alive => handle[<<m, 0>>] = NoHandle
      BY DEF IInv, HeldAlive
    <3> QED
      BY <1>1, <1>3, <3>1, <3>2
  <2>4. \A m \in Members : handle'[m] # NoHandle => memory[m[1]] # "none"
    BY <1>2, <1>3, Kinds DEF IInv, HeldAlive
  <2> QED
    BY <1>1, <2>1, <2>2, <2>3, <2>4 DEF HeldAlive
<1>9. Owned'
  <2>1. owns => \A m \in valid \cap owning : target[m] # o
    <3>1. debug => valid \subseteq active
      BY <1>1, AtRest
    <3> QED
      BY <1>1, <3>1 DEF MayList, ExistingOwner
  <2>2. \A m \in valid : m \in Nodes /\ m # n /\ target'[m] = target[m]
    BY <1>4, <1>5 DEF IInv, TypeOK
  <2>3. \A m \in valid' : count'[m]["strong"] > 0
    BY <1>1, <1>7, <2>2 DEF IInv, Owned
  <2>4. \A m \in valid' \cap owning' :
          (m \in valid \cap owning /\ target'[m] = target[m]) \/ (m = n /\ owns /\ target'[m] = o)
    BY <1>1, <1>4, <1>5, <2>2
  <2>5. \A m \in valid' \cap owning' : memory[target'[m]] = "live"
    BY <1>1, <2>4 DEF IInv, Owned
  <2>6. \A m, k \in valid' \cap owning' : target'[m] = target'[k] => m = k
    BY <2>1, <2>4 DEF IInv, Owned
  <2> QED
    BY <1>1, <2>3, <2>5, <2>6 DEF Owned
<1>10. /\ \A m \in active' : debug /\ m \in valid'
       /\ debug => valid' \subseteq active'
       /\ debug => \A m \in Nodes : count'[m]["strong"] > 0 => m \in valid'
  <2>1. \A m \in active' : debug /\ m \in valid'
    BY <1>1, AtRest
  <2>2. debug => valid' \subseteq active'
    BY <1>1, AtRest
  <2>3. debug => \A m \in Nodes : count'[m]["strong"] > 0 => m \in valid'
    BY <1>1, <1>7, AtRest
  <2> QED
    BY <2>1, <2>2, <2>3
<1> QED
  BY <1>1, <1>3, <1>6, <1>8, <1>9, <1>10, RestAfter

\* Two handles are made, one of them of the new node.
LEMMA CloneNodeKeeps ==
  ASSUME IInv, NEW v \in Vars, NEW w \in Vars, NEW n \in Nodes, CloneNode(v, w, n)
  PROVE  IInv'
<1>1. /\ stack = <<>> /\ pending = <<>> /\ handle[v] = NoHandle
      /\ handle[w] # NoHandle /\ Accepts(w) /\ n \notin alive
      /\ alive' = alive \cup {n} /\ valid' = valid \cup {n}
      /\ active' = IF debug THEN active \cup {n} ELSE active
      /\ target' = [target EXCEPT ![n] = target[HeldBy(w)]]
      /\ count' = [Bind(HeldBy(w), handle[w].strength) EXCEPT ![n]["strong"] = 1]
      /\ handle' = [handle EXCEPT ![v] = [node |-> n, strength |-> "strong"],
                                  ![<<n, 0>>] = handle[w]]
      /\ UNCHANGED <<debug, owning, when, memory, stack, pending>>
  BY DEF CloneNode, Idle
<1> DEFINE x == <<n, 0>>
<1>2. /\ v \in Holders /\ w \in Holders /\ x \in Holders /\ x # v /\ x # w /\ x \notin Members
      /\ v \notin Members /\ v \notin Extras
      /\ \A m \in Nodes : m # n => <<m, 0>> # x /\ <<m, 0>> # v /\ <<m, 0>> \in Holders
  BY Kinds
<1>3. PICK p \in Nodes, s \in Strengths :
           /\ HeldBy(w) = p /\ handle[w].strength = s /\ handle[w] = Share(p, s)
           /\ p \in alive /\ target[p] \in Objs /\ count[p][s] > 0
  BY <1>1, <1>2, HolderAlive
<1>4. /\ \A e \in Holders : handle[e] # NoHandle => HeldBy(e) # n
      /\ count[n]["strong"] = 0 /\ count[n]["weak"] = 0
      /\ n \notin valid /\ n \notin owning /\ n \notin active
      /\ handle[x] = NoHandle /\ p # n
  BY <1>1, <1>3, Unheld DEF Strengths, IInv, HeldAlive
<1>5. /\ handle' \in [Holders -> Handles]
      /\ handle'[v] = Share(n, "strong") /\ handle'[x] = Share(p, s)
      /\ \A e \in Holders : e # v /\ e # x => handle'[e] = handle[e]
  <2>1. Share(n, "strong") \in Handles /\ handle[w] \in Handles
    BY <1>2, NullHandle DEF IInv, TypeOK, Strengths
  <2> HIDE DEF x
  <2>2. handle' = [handle EXCEPT ![v] = Share(n, "strong"), ![x] = handle[w]]
    BY <1>1 DEF Share, x
  <2>3. handle \in [Holders -> Handles]
    BY DEF IInv, TypeOK
  <2> QED
    BY <1>2, <1>3, <2>1, <2>2, <2>3
<1> HIDE DEF x
<1>6. /\ count' \in [Nodes -> [Strengths -> Nat]]
      /\ count'[n]["strong"] = 1 /\ count'[n]["weak"] = 0
      /\ count'[p][s] = count[p][s] + 1
      /\ \A m \in Nodes, r \in Strengths : m # n /\ (m # p \/ r # s) => count'[m][r] = count[m][r]
  <2>1. count \in [Nodes -> [Strengths -> Nat]]
    BY DEF IInv, TypeOK
  <2> DEFINE c == Bind(p, s)
  <2>2. /\ c \in [Nodes -> [Strengths -> Nat]] /\ c[p][s] = count[p][s] + 1
        /\ \A m \in Nodes, r \in Strengths : m # p \/ r # s => c[m][r] = count[m][r]
    BY <2>1 DEF Bind
  <2> HIDE DEF c
  <2>3. count' = [c EXCEPT ![n]["strong"] = 1]
    BY <1>1, <1>3 DEF c
  <2>4. /\ count' \in [Nodes -> [Strengths -> Nat]] /\ count'[n]["strong"] = 1
        /\ \A m \in Nodes, r \in Strengths : m # n \/ r # "strong" => count'[m][r] = c[m][r]
    BY <2>2, <2>3 DEF Strengths
  <2> QED
    BY <1>4, <2>2, <2>4 DEF Strengths
<1>7. \A m \in Nodes, r \in Strengths : count[m][r] \in Nat
  BY DEF IInv, TypeOK
<1>8. Counted'
  <2>1. ASSUME NEW m \in Nodes, NEW r \in Strengths
        PROVE  count'[m][r] = count[m][r] - One(handle[v], m, r) + One(handle'[v], m, r)
                                          - One(handle[x], m, r) + One(handle'[x], m, r)
    <3>1. One(handle[v], m, r) = 0 /\ One(handle[x], m, r) = 0
      BY <1>1, <1>4, NullHandle
    <3>2. One(handle'[v], m, r) = IF n = m /\ "strong" = r THEN 1 ELSE 0
      BY <1>5, NullHandle
    <3>3. One(handle'[x], m, r) = IF p = m /\ s = r THEN 1 ELSE 0
      BY <1>5, NullHandle
    <3> QED
      BY <1>4, <1>6, <1>7, <3>1, <3>2, <3>3 DEF Strengths
  <2> QED
    BY <1>2, <1>5, <2>1, CountedAfterTwo DEF IInv
<1>9. /\ target' \in [Nodes -> Objs \cup {Null}] /\ target'[n] \in Objs
      /\ \A m \in Nodes : m # n => target'[m] = target[m]
  BY <1>1, <1>3 DEF IInv, TypeOK
<1>10. TypeOK'
  BY <1>1, <1>5, <1>6, <1>9 DEF IInv, TypeOK
<1>11. \A m \in Nodes, r \in Strengths : m # n => count'[m][r] >= count[m][r] /\ count'[m][r] \in Nat
  BY <1>6, <1>7
<1>12. Total(n)' > 0 /\ \A m \in Nodes : m # n /\ Total(m) > 0 => Total(m)' > 0
  BY <1>6, <1>7, <1>11 DEF Total, Strengths
<1>13. HeldAlive'
  <2>1. \A e \in Holders : handle'[e] # NoHandle => HeldBy(e)' \in alive'
    BY <1>1, <1>3, <1>5 DEF IInv, HeldAlive, HeldBy, Share
  <2>2. \A m \in alive' : target'[m] \in Objs /\ Total(m)' > 0
    BY <1>1, <1>9, <1>12 DEF IInv, HeldAlive, TypeOK
  <2>3. \A m \in Nodes : m \notin alive' => handle'[<<m, 0>>] = NoHandle
    BY <1>1, <1>2, <1>5 DEF IInv, HeldAlive
  <2>4. \A m \in Members : handle'[m] # NoHandle => memory[m[1]] # "none"
    BY <1>2, <1>5, Kinds DEF IInv, HeldAlive
  <2> QED
    BY <1>1, <2>1, <2>2, <2>3, <2>4 DEF HeldAlive
<1>14. Owned'
  <2>1. \A m \in valid : m \in Nodes /\ m # n /\ target'[m] = target[m]
    BY <1>4, <1>9 DEF IInv, TypeOK
  <2>2. \A m \in valid' : count'[m]["strong"] > 0
    <3>1. \A m \in valid : count'[m]["strong"] > 0
      BY <1>7, <1>11, <2>1 DEF IInv, Owned, Strengths
    <3> QED
      BY <1>1, <1>6, <3>1
  <2>3. \A m \in valid' \cap owning' : m \in valid \cap owning /\ target'[m] = target[m]
    BY <1>1, <1>4, <2>1
  <2> QED
    BY <1>1, <2>2, <2>3 DEF IInv, Owned
<1>15. /\ \A m \in active' : debug /\ m \in valid'
       /\ debug => valid' \subseteq active'
       /\ debug => \A m \in Nodes : count'[m]["strong"] > 0 => m \in valid'
  <2>1. \A m \in active' : debug /\ m \in valid'
    BY <1>1, AtRest
  <2>2. debug => valid' \subseteq active'
    BY <1>1, AtRest
  <2>3. ASSUME debug, NEW m \in Nodes, count'[m]["strong"] > 0
        PROVE  m \in valid'
    <3>1. CASE m = n
      BY <1>1, <3>1
    <3>2. CASE m # n /\ count[m]["strong"] > 0
      BY <1>1, <2>3, <3>2, AtRest
    <3>3. CASE m # n /\ ~ (count[m]["strong"] > 0)
      <4>1. m = p /\ s = "strong"
        BY <1>6, <2>3, <3>3 DEF Strengths
      <4> QED
        BY <1>3, <3>3, <4>1
    <3> QED
      BY <3>1, <3>2, <3>3
  <2> QED
    BY <2>1, <2>2, <2>3
<1> QED
  BY <1>1, <1>8, <1>10, <1>13, <1>14, <1>15, RestAfter

LEMMA SwapKeeps ==
  ASSUME IInv, NEW v \in Vars, NEW w \in Vars, Swap(v, w)
  PROVE  IInv'
<1>1. /\ stack = <<>> /\ pending = <<>> /\ handle[v] # handle[w]
      /\ handle' = [handle EXCEPT ![v] = handle[w], ![w] = handle[v]]
      /\ UNCHANGED <<debug, count, alive, target, valid, owning, active, when, memory, stack, pending>>
  BY DEF Swap, Idle, node
<1>2. /\ v \in Holders /\ w \in Holders /\ v # w
      /\ v \notin Members \cup Extras /\ w \notin Members \cup Extras
  BY <1>1, Kinds
<1>3. /\ handle' \in [Holders -> Handles]
      /\ handle'[v] = handle[w] /\ handle'[w] = handle[v]
      /\ \A e \in Holders : e # v /\ e # w => handle'[e] = handle[e]
  BY <1>1, <1>2 DEF IInv, TypeOK
<1>4. Counted'
  <2>1. ASSUME NEW m \in Nodes, NEW r \in Strengths
        PROVE  count'[m][r] = count[m][r] - One(handle[v], m, r) + One(handle'[v], m, r)
                                          - One(handle[w], m, r) + One(handle'[w], m, r)
    <3>1. One(handle'[v], m, r) = One(handle[w], m, r) /\ One(handle'[w], m, r) = One(handle[v], m, r)
      BY <1>3
    <3>2. One(handle[w], m, r) \in Nat /\ One(handle[v], m, r) \in Nat
      BY DEF One
    <3>3. count'[m][r] = count[m][r] /\ count[m][r] \in Nat
      BY <1>1 DEF IInv, TypeOK
    <3> QED
      BY <3>1, <3>2, <3>3
  <2> QED
    BY <1>2, <1>3, <2>1, CountedAfterTwo DEF IInv
<1>5. TypeOK'
  BY <1>1, <1>3 DEF IInv, TypeOK
<1>6. HeldAlive'
  <2>1. \A e \in Holders : handle'[e] # NoHandle => HeldBy(e)' \in alive
    BY <1>2, <1>3 DEF IInv, HeldAlive, HeldBy
  <2>2. \A m \in Nodes : m \notin alive => handle'[<<m, 0>>] = NoHandle
    BY <1>2, <1>3, Kinds DEF IInv, HeldAlive
  <2>3. \A m \in Members : handle'[m] # NoHandle => memory[m[1]] # "none"
    BY <1>2, <1>3, Kinds DEF IInv, HeldAlive
  <2> QED
    BY <1>1, <2>1, <2>2, <2>3 DEF IInv, HeldAlive, Total
<1>7. Owned'
  BY <1>1 DEF IInv, Owned
<1> QED
  BY <1>1, <1>4, <1>5, <1>6, <1>7, AtRest, RestAfter

LEMMA ReleaseKeeps ==
  ASSUME IInv, NEW v \in Vars, Release(v)
  PROVE  IInv'
<1>1. /\ stack = <<>> /\ pending = <<>>
      /\ owning' = owning \ {HeldBy(v)}
      /\ UNCHANGED <<debug, handle, count, alive, target, valid, active, when, memory, stack, pending>>
  BY DEF Release, Idle
<1>2. TypeOK' /\ Owned'
  BY <1>1 DEF IInv, TypeOK, Owned
<1>3. Counted' /\ HeldAlive'
  BY <1>1 DEF IInv, Counted, Sharing, HeldAlive, HeldBy, Total
<1> QED
  BY <1>1, <1>2, <1>3, AtRest, RestAfter

LEMMA SetHasOwnershipKeeps ==
  ASSUME IInv, NEW v \in Vars, SetHasOwnership(v)
  PROVE  IInv'
<1> DEFINE n == HeldBy(v)
<1>1. /\ stack = <<>> /\ pending = <<>> /\ handle[v] # NoHandle
      /\ n \in valid => /\ memory[target[n]] = "live"
                        /\ \A m \in valid \cap owning : target[m] # target[n]
      /\ owning' = owning \cup {n}
      /\ UNCHANGED <<debug, handle, count, alive, target, valid, active, when, memory, stack, pending>>
  BY DEF SetHasOwnership, Idle
<1>2. n \in alive
  BY <1>1, HolderAlive, Kinds
<1> HIDE DEF n
<1>3. TypeOK' /\ Owned'
  BY <1>1, <1>2 DEF IInv, TypeOK, Owned
<1>4. Counted' /\ HeldAlive'
  BY <1>1 DEF IInv, Counted, Sharing, HeldAlive, HeldBy, Total
<1> QED
  BY <1>1, <1>3, <1>4, AtRest, RestAfter

-----------------------------------------------------------------------------
(* The invariant, and what follows from it.                                *)

LEMMA InitInv == Init => IInv
<1> SUFFICES ASSUME Init PROVE IInv
  OBVIOUS
<1>1. TypeOK
  BY DEF Init, TypeOK, Handles
<1>2. Counted
  <2>1. ASSUME NEW n \in Nodes, NEW s \in Strengths
        PROVE  count[n][s] = Cardinality(Sharing(n, s))
    <3>1. \A h \in Holders : handle[h] # Share(n, s)
      BY NullHandle DEF Init
    <3>2. Sharing(n, s) = {}
      BY <3>1 DEF Sharing, Share
    <3> QED
      BY <3>2, FS_EmptySet DEF Init
  <2> QED
    BY <2>1 DEF Counted
<1>3. HeldAlive
  BY Kinds DEF Init, HeldAlive
<1>4. 1..Len(stack) = {}
  BY DEF Init
<1>5. FramesHold /\ FramesDiffer /\ Chained /\ Based /\ Dying /\ Waiting
  BY <1>4 DEF Init, FramesHold, FramesDiffer, Chained, Based, Dying, Waiting
<1>6. Owned
  BY DEF Init, Owned
<1>7. Listed
  BY <1>4 DEF Init, Listed, Strengths
<1> QED
  BY <1>1, <1>2, <1>3, <1>5, <1>6, <1>7 DEF IInv

LEMMA NextInv == IInv /\ [Next]_vars => IInv'
<1> SUFFICES ASSUME IInv, [Next]_vars PROVE IInv'
  OBVIOUS
<1>1. CASE Proceed
  BY <1>1, DropPreDataKeeps, DeleteObjKeeps, FreeThrowsKeeps, DropMemberKeeps, FreeObjKeeps,
     RemoveRCPNodeKeeps, CountDownKeeps, DropExtraDataKeeps, DeleteNodeKeeps, AssignCopyKeeps,
     DropTempKeeps
  DEF Proceed
<1>2. CASE Begin
  <2>1. CASE \E o \in Objs : Allocate(o)
    BY <2>1, AllocateKeeps
  <2>2. CASE \E v \in Vars, o \in Objs, n \in Nodes, owns \in BOOLEAN : NewNode(v, o, n, owns)
    BY <2>2, NewNodeKeeps
  <2>3. CASE \E v \in Vars, o \in Objs : FromRef(v, o)
    BY <2>3, FromRefKeeps
  <2>4. CASE \E v, w \in Vars, n \in Nodes : CloneNode(v, w, n)
    BY <2>4, CloneNodeKeeps
  <2>5. CASE \E v \in Vars, h \in Holders : CopyCtor(v, h)
    BY <2>5, CopyCtorKeeps
  <2>6. CASE \E v \in Vars, h \in Holders, s \in Strengths : Create(v, h, s)
    BY <2>6, CreateKeeps
  <2>7. CASE \E v, w \in Vars : Swap(v, w)
    BY <2>7, SwapKeeps
  <2>8. CASE \E to \in Holders : Reset(to)
    BY <2>8, ResetKeeps
  <2>9. CASE \E to, from \in Holders : AssignReset(to, from) \/ AssignSwap(to, from)
    BY <2>9, AssignResetKeeps, AssignSwapKeeps
  <2>10. CASE \E v \in Vars, h \in Holders, w \in {"pre", "post"} : SetExtraData(v, h, w)
    BY <2>10, SetExtraDataKeeps
  <2>11. CASE \E v \in Vars : Release(v) \/ SetHasOwnership(v)
    BY <2>11, ReleaseKeeps, SetHasOwnershipKeeps
  <2> QED
    BY <1>2, <2>1, <2>2, <2>3, <2>4, <2>5, <2>6, <2>7, <2>8, <2>9, <2>10, <2>11 DEF Begin
<1>3. CASE UNCHANGED vars
  <2>1. /\ handle' = handle /\ count' = count /\ alive' = alive /\ target' = target
        /\ valid' = valid /\ owning' = owning /\ active' = active /\ memory' = memory
        /\ stack' = stack /\ pending' = pending /\ debug' = debug /\ when' = when
    BY <1>3 DEF vars
  <2>2. TypeOK' /\ Counted' /\ HeldAlive' /\ FramesHold' /\ FramesDiffer'
    BY <2>1, SMTT(30) DEF IInv, TypeOK, Counted, Sharing, HeldAlive, HeldBy, Total, FramesHold, FramesDiffer,
                NodeOf, StrengthOf
  <2>3. Chained' /\ Based' /\ Waiting'
    BY <2>1 DEF IInv, Chained, Based, Waiting, Link, Kept, Holds, HeldBy, Total
  <2>4. Dying' /\ Owned' /\ Listed'
    BY <2>1 DEF IInv, Dying, Owned, Listed, Emptied, NodeOf, StrengthOf, HeldBy
  <2> QED
    BY <2>2, <2>3, <2>4 DEF IInv
<1> QED
  BY <1>1, <1>2, <1>3 DEF Next

\* The invariant, for both builds and any number of variables, objects and nodes.
THEOREM Invariance == Spec => []IInv
BY InitInv, NextInv, PTL DEF Spec

\* Both counts of a node are the handles there are, whatever is being destroyed
\* and whatever has been thrown, and every variable has its type.
THEOREM CountsAreExact == Spec => []CountsExact
<1>1. IInv => CountsExact
  BY DEF IInv, CountsExact, Counted, Sharing
<1> QED
  BY <1>1, Invariance, PTL

\* An object that has an owner lives as long as a strong handle of that node and
\* has no second owner; no node outlives its handles.
THEOREM LifetimeIsOwned == Spec => []OwnedLifetime
<1>1. IInv => OwnedLifetime
  <2> SUFFICES ASSUME IInv PROVE OwnedLifetime
    OBVIOUS
  <2>1. \A n \in alive : Total(n) > 0
    BY DEF IInv, HeldAlive
  <2>2. debug /\ Idle => \A n \in alive : count[n]["strong"] > 0 => n \in valid
    BY AtRest DEF Idle, IInv, TypeOK
  <2> QED
    BY <2>1, <2>2 DEF OwnedLifetime, IInv, Owned
<1> QED
  BY <1>1, Invariance, PTL

\* No step of a destruction or of an assignment works on a handle, a node or an
\* object that is gone, and no node is entered twice.
THEOREM NothingUsedAfterFree == Spec => []NoUseAfterFree
<1>1. IInv => NoUseAfterFree
  <2> SUFFICES ASSUME IInv PROVE NoUseAfterFree
    OBVIOUS
  <2>1. ASSUME NEW k \in 1..Len(stack)
        PROVE  /\ Exists(stack[k].h) /\ HeldBy(stack[k].h) \in alive
               /\ stack[k].at = "members" => memory[target[HeldBy(stack[k].h)]] = "dying"
    <3>1. /\ stack[k].h \in Holders /\ handle[stack[k].h] # NoHandle
          /\ HeldBy(stack[k].h) = NodeOf(k) /\ NodeOf(k) \in alive
      BY CallFacts
    <3>2. stack[k].h \in Members => memory[stack[k].h[1]] # "none"
      BY <3>1 DEF IInv, HeldAlive
    <3>3. stack[k].h \in Extras => stack[k].h[1] \in alive
      BY <3>1, Kinds DEF IInv, HeldAlive
    <3>4. stack[k].at = "members" => memory[target[NodeOf(k)]] = "dying"
      BY DEF IInv, Dying
    <3> QED
      BY <3>1, <3>2, <3>3, <3>4 DEF Exists
  \* Two calls for one node: the earlier one has the other kind of handle and
  \* is at its end, and it called nobody unless its handle was the last.
  <2>2. ASSUME NEW j \in 1..Len(stack), NEW k \in 1..Len(stack),
               HeldBy(stack[j].h) = HeldBy(stack[k].h), j < k, stack[k].at # "count"
        PROVE  FALSE
    <3>1. NodeOf(j) = NodeOf(k) /\ j # k /\ NodeOf(j) \in Nodes /\ StrengthOf(j) \in Strengths
          /\ stack[j].at \in Ats /\ HeldBy(stack[j].h) = NodeOf(j) /\ target[NodeOf(j)] \in Objs
      BY <2>2, CallFacts
    <3>2. StrengthOf(k) = "strong"
      BY <2>2 DEF IInv, FramesHold
    <3>3. StrengthOf(j) # "strong" /\ Total(NodeOf(j)) # 1
      BY <3>1, <3>2, OneCall
    <3>4. stack[j].at = "count"
      BY <3>3 DEF IInv, FramesHold
    <3>5. j + 1 \in 1..Len(stack)
      BY <2>2, CallTypes DEF IInv
    <3>6. Link(stack[j], stack[j + 1].h)
      BY <3>5 DEF IInv, Chained
    <3> QED
      BY <3>1, <3>3, <3>4, <3>6 DEF Link
  <2>3. ASSUME pending # <<>>
        PROVE  Exists(pending[1]) /\ Exists(pending[2])
    <3>1. /\ pending[1] \in Vars \cup Members /\ pending[2] \in Vars \cup Members
          /\ pending[1] \in Members => \E v \in Vars : Holds(v, pending[1][1])
          /\ pending[2] \in Members => \E v \in Vars : Holds(v, pending[2][1])
      BY <2>3 DEF IInv, Waiting
    <3>2. \A o : (\E v \in Vars : Holds(v, o)) => memory[o] = "live"
      BY OwnerLives
    <3> QED
      BY <3>1, <3>2, Kinds DEF Exists
  <2> QED
    BY <2>1, <2>2, <2>3 DEF NoUseAfterFree
<1> QED
  BY <1>1, Invariance, PTL

\* The debug build lists the nodes whose object is there, and removeRCPNode()
\* finds the one it removes.
THEOREM TracerIsExact == Spec => []TracerExact
<1>1. IInv => TracerExact
  <2> SUFFICES ASSUME IInv PROVE TracerExact
    OBVIOUS
  <2>1. Idle => active = IF debug THEN valid ELSE {}
    BY AtRest DEF Idle
  <2>2. debug /\ Top("remove") => HeldBy(Frame.h) \in active
    <3> SUFFICES ASSUME debug, Top("remove") PROVE HeldBy(Frame.h) \in active
      OBVIOUS
    <3>1. PICK l \in 1..Len(stack), n \in Nodes, s \in Strengths : Doing(l, n, s, "remove")
      BY TopCall
    <3>2. stack[l].at = "remove" /\ NodeOf(l) = HeldBy(Frame.h)
      BY <3>1 DEF Doing
    <3> QED
      BY <3>2 DEF IInv, Listed
  <2> QED
    BY <2>1, <2>2 DEF TracerExact
<1> QED
  BY <1>1, Invariance, PTL
=============================================================================
