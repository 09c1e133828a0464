------------------------------ MODULE Teuchos ------------------------------
(***************************************************************************)
(* The other RCP: src/src/teuchos, used when the build does not take the   *)
(* one of csympy_rcp.h.  A handle is strong or weak and shares a node; the *)
(* node counts both kinds, knows the object and whether it owns it.  The   *)
(* object dies with the last strong handle, the node with the last handle. *)
(*                                                                         *)
(* The build with TEUCHOS_DEBUG also lists the active nodes by the address *)
(* of their object, refuses a second owner, refuses to follow a handle     *)
(* whose object is gone, and releases before it copies in operator=.  Both *)
(* builds are modelled: `debug' says which one runs.                       *)
(*                                                                         *)
(* Destruction is a stack: releasing a handle may delete an object, whose  *)
(* members are handles, and a node, whose extra data is one.  Addresses of *)
(* objects and nodes are used again once they are free.                    *)
(***************************************************************************)
EXTENDS Naturals, FiniteSets, Sequences

CONSTANTS Vars,   \* RCP variables of the client
          Objs,   \* addresses of objects
          Nodes,  \* addresses of nodes
          Arity,  \* RCP members per object
          Temp,   \* the unnamed RCP of a copy-and-swap
          MaxHandles,  \* bound: handles in use when an operation makes another
          Null

Members == Objs \X (1..Arity)
Extras == Nodes \X {0}     \* extra data, or what a deallocator embeds
Holders == Vars \cup {Temp} \cup Members \cup Extras
Strengths == {"strong", "weak"}
NoHandle == [node |-> Null, strength |-> "none"]
Handles == [node : Nodes, strength : Strengths] \cup {NoHandle}

ASSUME FiniteHolders ==
  IsFiniteSet(Vars) /\ IsFiniteSet(Objs) /\ IsFiniteSet(Nodes) /\ Arity \in Nat
ASSUME DistinctHolders ==
  /\ Null \notin Nodes \cup Objs
  /\ Temp \notin Vars \cup Members \cup Extras
  /\ Vars \cap (Members \cup Extras) = {}
  /\ Objs \cap Nodes = {}

VARIABLES
  debug,    \* TEUCHOS_DEBUG and its node tracing; never changes
  handle,   \* RCPNodeHandle of every holder (ptr_ of the RCP follows it)
  alive,    \* nodes that exist
  target,   \* RCPNodeTmpl::ptr_ when it was set
  valid,    \* nodes whose ptr_ is not 0
  owning,   \* nodes with has_ownership_
  count,    \* RCPNode::count_[strength]
  active,   \* rcp_node_list()
  when,     \* when the extra data of a node goes: "pre" or "post"
  memory,   \* "none", "live", "dying" (in its destructor)
  stack,    \* unbindOne() calls in progress, innermost last
  pending   \* <<to, from>> of an operator= that is still to copy, or <<>>

node == <<alive, target, valid, owning, active, when>>
vars == <<debug, handle, alive, target, valid, owning, count, active, when,
          memory, stack, pending>>

Idle == stack = <<>> /\ pending = <<>> /\ handle[Temp] = NoHandle

\* Bound: one more handle may be made.
Room == Cardinality({h \in Holders : handle[h] # NoHandle}) < MaxHandles

Exists(h) == /\ h \in Members => memory[h[1]] # "none"
             /\ h \in Extras => h[1] \in alive

HeldBy(h) == handle[h].node

\* assert_valid_ptr(): null, or the object is not deleted.
Accepts(h) == handle[h] # NoHandle => HeldBy(h) \in valid

Init ==
  /\ debug \in BOOLEAN
  /\ handle = [h \in Holders |-> NoHandle]
  /\ alive = {} /\ valid = {} /\ owning = {} /\ active = {}
  /\ target = [n \in Nodes |-> Null]
  /\ count = [n \in Nodes |-> [s \in Strengths |-> 0]]
  /\ when = [n \in Nodes |-> "post"]
  /\ memory = [o \in Objs |-> "none"]
  /\ stack = <<>>
  /\ pending = <<>>

-----------------------------------------------------------------------------
(* bind() and unbind().                                                    *)

Bind(n, s) == [count EXCEPT ![n][s] = @ + 1]

BindHandle(k) == IF k = NoHandle THEN count ELSE Bind(k.node, k.strength)

\* unbind(): the last handle of its strength goes through unbindOne(), with
\* the count put back; any other one is just counted down.
Unbind(h) ==
  LET n == HeldBy(h)
      s == handle[h].strength
  IN  IF count[n][s] > 1
      THEN /\ count' = [count EXCEPT ![n][s] = @ - 1]
           /\ handle' = [handle EXCEPT ![h] = NoHandle]
           /\ UNCHANGED stack
      ELSE /\ stack' = Append(stack,
                 [h |-> h, at |-> IF s = "strong" THEN "object" ELSE "count"])
           /\ UNCHANGED <<count, handle>>

Total(n) == count[n]["strong"] + count[n]["weak"]

Frame == stack[Len(stack)]
Top(at) == stack # <<>> /\ Frame.at = at
Pop == SubSeq(stack, 1, Len(stack) - 1)
Continue(at) == Append(Pop, [h |-> Frame.h, at |-> at])

\* pre_delete_extra_data(), the first thing delete_obj() does.
DropPreData ==
  LET n == HeldBy(Frame.h)
  IN  /\ Top("object")
      /\ n \in valid
      /\ when[n] = "pre" /\ handle[<<n, 0>>] # NoHandle
      /\ Unbind(<<n, 0>>)
      /\ UNCHANGED <<debug, node, memory, pending>>

\* delete_obj(): ptr_ = 0 before free(), or nothing when it is 0 already.
DeleteObj ==
  LET n == HeldBy(Frame.h)
      frees == n \in valid /\ n \in owning
  IN  /\ Top("object")
      /\ n \in valid /\ when[n] = "pre" => handle[<<n, 0>>] = NoHandle
      /\ valid' = valid \ {n}
      /\ memory' = IF frees THEN [memory EXCEPT ![target[n]] = "dying"] ELSE memory
      /\ stack' = Continue(IF frees THEN "members" ELSE "remove")
      /\ UNCHANGED <<debug, handle, alive, target, owning, count, active, when,
                     pending>>

\* Mutant: ptr_ is not put back.
FreeThrowsForgets ==
  /\ Top("object") /\ Len(stack) = 1 /\ debug
  /\ HeldBy(Frame.h) \in valid \cap owning
  /\ when[HeldBy(Frame.h)] = "pre" => handle[<<HeldBy(Frame.h), 0>>] = NoHandle
  /\ valid' = valid \ {HeldBy(Frame.h)}
  /\ stack' = <<>> /\ pending' = <<>>
  /\ UNCHANGED <<debug, handle, alive, target, owning, count, active, when, memory>>

\* dealloc_.free() throws before it destroys anything: delete_obj() puts ptr_
\* back and the exception leaves reset() or operator=.  Only the debug build
\* gets here outside a destructor, where an exception would end the program.
FreeThrows ==
  LET n == HeldBy(Frame.h)
  IN  /\ Top("object") /\ Len(stack) = 1 /\ debug
      /\ n \in valid \cap owning
      /\ when[n] = "pre" => handle[<<n, 0>>] = NoHandle
      /\ stack' = <<>> /\ pending' = <<>>
      /\ UNCHANGED <<debug, handle, count, node, memory, valid>>

\* The destructor of the object releases its members, then free() returns.
DropMember(i) ==
  LET m == <<target[HeldBy(Frame.h)], i>>
  IN  /\ Top("members")
      /\ handle[m] # NoHandle
      /\ Unbind(m)
      /\ UNCHANGED <<debug, node, valid, memory, pending>>

FreeObj ==
  LET o == target[HeldBy(Frame.h)]
  IN  /\ Top("members")
      /\ \A i \in 1..Arity : handle[<<o, i>>] = NoHandle
      /\ memory' = [memory EXCEPT ![o] = "none"]
      /\ stack' = Continue("remove")
      /\ UNCHANGED <<debug, handle, count, node, valid, pending>>

\* Mutant: the node stays in the list until it is deleted.
RemoveLater ==
  /\ Top("remove")
  /\ active' = IF Total(HeldBy(Frame.h)) = 1 THEN active \ {HeldBy(Frame.h)} ELSE active
  /\ stack' = Continue("count")
  /\ UNCHANGED <<debug, handle, alive, target, valid, owning, count, when,
                 memory, pending>>

\* removeRCPNode(), which only the debug build calls.
RemoveRCPNode ==
  /\ Top("remove")
  /\ active' = active \ {HeldBy(Frame.h)}
  /\ stack' = Continue("count")
  /\ UNCHANGED <<debug, handle, alive, target, valid, owning, count, when,
                 memory, pending>>

\* The end of unbindOne(): not the last handle.
CountDown ==
  LET n == HeldBy(Frame.h)
  IN  /\ Top("count")
      /\ Total(n) # 1
      /\ count' = [count EXCEPT ![n][handle[Frame.h].strength] = @ - 1]
      /\ handle' = [handle EXCEPT ![Frame.h] = NoHandle]
      /\ stack' = Pop
      /\ UNCHANGED <<debug, node, valid, memory, pending>>

\* ... or the last one: delete node_, which takes the extra data along.
DropExtraData ==
  LET n == HeldBy(Frame.h)
  IN  /\ Top("count")
      /\ Total(n) = 1
      /\ handle[<<n, 0>>] # NoHandle
      /\ Unbind(<<n, 0>>)
      /\ UNCHANGED <<debug, node, valid, memory, pending>>

DeleteNode ==
  LET n == HeldBy(Frame.h)
  IN  /\ Top("count")
      /\ Total(n) = 1
      /\ handle[<<n, 0>>] = NoHandle
      /\ alive' = alive \ {n}
      /\ owning' = owning \ {n}
      /\ target' = [target EXCEPT ![n] = Null]
      /\ when' = [when EXCEPT ![n] = "post"]
      /\ count' = [count EXCEPT ![n] = [s \in Strengths |-> 0]]
      /\ handle' = [handle EXCEPT ![Frame.h] = NoHandle]
      /\ stack' = Pop
      /\ UNCHANGED <<debug, valid, active, memory, pending>>

-----------------------------------------------------------------------------
(* Construction from a raw pointer.                                        *)

\* new T: an object at a free address.
Allocate(o) ==
  /\ Idle
  /\ memory[o] = "none"
  /\ memory' = [memory EXCEPT ![o] = "live"]
  /\ UNCHANGED <<debug, handle, count, node, valid, stack, pending>>

\* getExistingRCPNodeGivenLookupKey(): the owning nodes listed for an address.
ExistingOwner(o) == {n \in active : target[n] = o /\ n \in owning}

\* addNewRCPNode() refuses a second owner of an address it has listed already,
\* also next to nodes that do not own (DuplicateOwningRCPError, and
\* RCPNodeThrowDeleter undoes the node); without the list the client answers
\* for it.
MayList(o, owns) ==
  owns => IF debug THEN ExistingOwner(o) = {}
                   ELSE \A m \in valid \cap owning : target[m] # o

\* RCP(p, has_ownership), rcpWithDealloc(), rcpFromUndefRef(): a new node.
NewNode(v, o, n, owns) ==
  /\ Idle /\ Room
  /\ handle[v] = NoHandle
  /\ memory[o] = "live"
  /\ n \notin alive
  /\ MayList(o, owns)
  /\ alive' = alive \cup {n}
  /\ valid' = valid \cup {n}
  /\ owning' = IF owns THEN owning \cup {n} ELSE owning
  /\ active' = IF debug THEN active \cup {n} ELSE active
  /\ target' = [target EXCEPT ![n] = o]
  /\ count' = Bind(n, "strong")
  /\ handle' = [handle EXCEPT ![v] = [node |-> n, strength |-> "strong"]]
  /\ UNCHANGED <<debug, when, memory, stack, pending>>

\* RCP(p, false) and rcpFromRef() in the debug build, for an object that has an
\* owner: a weak handle to the node of that owner.
FromRef(v, o) ==
  /\ Idle /\ Room
  /\ handle[v] = NoHandle
  /\ memory[o] = "live"
  /\ debug
  /\ \E n \in ExistingOwner(o) :
       /\ count' = Bind(n, "weak")
       /\ handle' = [handle EXCEPT ![v] = [node |-> n, strength |-> "weak"]]
  /\ UNCHANGED <<debug, node, valid, memory, stack, pending>>

\* rcpCloneNode(w): a second, non-owning node for the object of w, with a copy
\* of w embedded in its deallocator.
CloneNode(v, w, n) ==
  /\ Idle /\ Room
  /\ handle[v] = NoHandle
  /\ handle[w] # NoHandle /\ Accepts(w)
  /\ n \notin alive
  /\ alive' = alive \cup {n}
  /\ valid' = valid \cup {n}
  /\ active' = IF debug THEN active \cup {n} ELSE active
  /\ target' = [target EXCEPT ![n] = target[HeldBy(w)]]
  /\ count' = [Bind(HeldBy(w), handle[w].strength) EXCEPT ![n]["strong"] = 1]
  /\ handle' = [handle EXCEPT ![v] = [node |-> n, strength |-> "strong"],
                              ![<<n, 0>>] = handle[w]]
  /\ UNCHANGED <<debug, owning, when, memory, stack, pending>>

-----------------------------------------------------------------------------
(* Copies.  The client reaches a member through a variable; while it works *)
(* on a member it keeps the object alive, with a variable that it is not   *)
(* overwriting (Pinned).  This is an assumption about the client, which    *)
(* operator= does not check: p = p->next in the debug build deletes the    *)
(* source with the target before it is copied, and is outside the model.   *)
(* In the other build the target itself is enough (AssignSwap).            *)

Holds(v, o) ==
  /\ handle[v].strength = "strong"
  /\ HeldBy(v) \in valid \cap owning
  /\ target[HeldBy(v)] = o

\* Mutant: a variable that is being overwritten counts as well.
PinnedByTarget(h, to) == h \in Members => \E v \in Vars : Holds(v, h[1])

Pinned(h, to) ==
  /\ h \in Vars \cup Members
  /\ h \in Members => \E v \in Vars \ {to} : Holds(v, h[1])

\* RCP(const RCP &), also to share with another holder.
CopyCtor(v, h) ==
  /\ Idle /\ Room
  /\ handle[v] = NoHandle
  /\ Pinned(h, v)
  /\ handle[h] # NoHandle
  /\ count' = BindHandle(handle[h])
  /\ handle' = [handle EXCEPT ![v] = handle[h]]
  /\ UNCHANGED <<debug, node, valid, memory, stack, pending>>

\* Mutant: the source is counted instead of the new handle.
CreateCountsSource(v, h, s) ==
  /\ Idle /\ Room
  /\ handle[v] = NoHandle
  /\ Pinned(h, v)
  /\ handle[h] # NoHandle
  /\ debug => Accepts(h)
  /\ count' = Bind(HeldBy(h), handle[h].strength)
  /\ handle' = [handle EXCEPT ![v] = [node |-> HeldBy(h), strength |-> s]]
  /\ UNCHANGED <<debug, node, valid, memory, stack, pending>>

\* create_weak(), create_strong(); the debug build throws when the object is
\* gone, the other one does not ask.
Create(v, h, s) ==
  /\ Idle /\ Room
  /\ handle[v] = NoHandle
  /\ Pinned(h, v)
  /\ handle[h] # NoHandle
  /\ debug => Accepts(h)
  /\ count' = Bind(HeldBy(h), s)
  /\ handle' = [handle EXCEPT ![v] = [node |-> HeldBy(h), strength |-> s]]
  /\ UNCHANGED <<debug, node, valid, memory, stack, pending>>

\* swap()
Swap(v, w) ==
  /\ Idle
  /\ handle[v] # handle[w]
  /\ handle' = [handle EXCEPT ![v] = handle[w], ![w] = handle[v]]
  /\ UNCHANGED <<debug, count, node, valid, memory, stack, pending>>

\* ~RCP(), reset(), operator=(ENull)
Reset(to) ==
  /\ Idle
  /\ Pinned(to, to)
  /\ handle[to] # NoHandle
  /\ Unbind(to)
  /\ UNCHANGED <<debug, node, valid, memory, pending>>

\* operator=(const RCP &) of the debug build: reset() first, then copy.
AssignReset(to, from) ==
  /\ Idle /\ Room /\ debug
  /\ to # from
  /\ Pinned(to, to) /\ Pinned(from, to)
  /\ IF handle[to] = NoHandle THEN UNCHANGED <<handle, count, stack>> ELSE Unbind(to)
  /\ pending' = <<to, from>>
  /\ UNCHANGED <<debug, node, valid, memory>>

AssignCopy ==
  LET to == pending[1]
      from == pending[2]
  IN  /\ pending # <<>> /\ stack = <<>>
      /\ Exists(from) /\ Exists(to)
      /\ count' = BindHandle(handle[from])
      /\ handle' = [handle EXCEPT ![to] = handle[from]]
      /\ pending' = <<>>
      /\ UNCHANGED <<debug, node, valid, memory, stack>>

\* Copy and swap: the old handle ends up in an unnamed RCP.
CopyAndSwap(to, from) ==
  /\ count' = BindHandle(handle[from])
  /\ handle' = [handle EXCEPT ![to] = handle[from], ![Temp] = handle[to]]

\* operator=(const RCP &) of the other build
AssignSwap(to, from) ==
  /\ Idle /\ Room /\ ~debug
  /\ to # from
  /\ Pinned(to, to) /\ Pinned(from, Null)
  /\ CopyAndSwap(to, from)
  /\ UNCHANGED <<debug, node, valid, memory, stack, pending>>

\* set_extra_data(from, name, to, destroy_when), one name.
SetExtraData(v, from, w) ==
  /\ Idle /\ Room
  /\ handle[v] # NoHandle
  /\ Pinned(from, Null)
  /\ CopyAndSwap(<<HeldBy(v), 0>>, from)
  /\ when' = [when EXCEPT ![HeldBy(v)] = w]
  /\ UNCHANGED <<debug, alive, target, valid, owning, active, memory, stack, pending>>

DropTemp ==
  /\ stack = <<>>
  /\ handle[Temp] # NoHandle
  /\ Unbind(Temp)
  /\ UNCHANGED <<debug, node, valid, memory, pending>>

\* release() and set_has_ownership(): who deletes the object.
Release(v) ==
  /\ Idle
  /\ handle[v] # NoHandle
  /\ debug => Accepts(v)
  /\ owning' = owning \ {HeldBy(v)}
  /\ UNCHANGED <<debug, handle, count, alive, target, valid, active, when, memory,
                 stack, pending>>

SetHasOwnership(v) ==
  /\ Idle
  /\ handle[v] # NoHandle
  /\ HeldBy(v) \in valid =>
       /\ memory[target[HeldBy(v)]] = "live"
       /\ \A m \in valid \cap owning : target[m] # target[HeldBy(v)]
  /\ owning' = owning \cup {HeldBy(v)}
  /\ UNCHANGED <<debug, handle, count, alive, target, valid, active, when, memory,
                 stack, pending>>

-----------------------------------------------------------------------------
\* What an operation goes on to do once it has begun.
Proceed ==
  \/ DropPreData \/ DeleteObj \/ FreeThrows
  \/ \E i \in 1..Arity : DropMember(i)
  \/ FreeObj \/ RemoveRCPNode
  \/ CountDown \/ DropExtraData \/ DeleteNode
  \/ AssignCopy \/ DropTemp

\* What the client may begin.
Begin ==
  \/ \E o \in Objs : Allocate(o)
  \/ \E v \in Vars, o \in Objs, n \in Nodes, owns \in BOOLEAN : NewNode(v, o, n, owns)
  \/ \E v \in Vars, o \in Objs : FromRef(v, o)
  \/ \E v, w \in Vars, n \in Nodes : CloneNode(v, w, n)
  \/ \E v \in Vars, h \in Holders : CopyCtor(v, h)
  \/ \E v \in Vars, h \in Holders, s \in Strengths : Create(v, h, s)
  \/ \E v, w \in Vars : Swap(v, w)
  \/ \E to \in Holders : Reset(to)
  \/ \E to, from \in Holders : AssignReset(to, from) \/ AssignSwap(to, from)
  \/ \E v \in Vars, h \in Holders, w \in {"pre", "post"} : SetExtraData(v, h, w)
  \/ \E v \in Vars : Release(v) \/ SetHasOwnership(v)

Next == Proceed \/ Begin

Spec == Init /\ [][Next]_vars

-----------------------------------------------------------------------------
(* Properties.                                                             *)

TypeOK ==
  /\ debug \in BOOLEAN
  /\ handle \in [Holders -> Handles]
  /\ alive \subseteq Nodes
  /\ valid \subseteq alive /\ owning \subseteq alive /\ active \subseteq alive
  /\ target \in [Nodes -> Objs \cup {Null}]
  /\ count \in [Nodes -> [Strengths -> Nat]]
  /\ when \in [Nodes -> {"pre", "post"}]
  /\ memory \in [Objs -> {"none", "live", "dying"}]
  /\ stack \in Seq([h : Holders, at : {"object", "members", "remove", "count"}])
  /\ pending \in {<<>>} \cup (Holders \X Holders)

\* Both counts of a node are the handles there are, also in the middle of a
\* destruction, after an exception, and while strong and weak handles that
\* objects, nodes and extra data keep of each other go down together (and every
\* variable has its type).
CountsExact ==
  TypeOK /\ \A n \in Nodes, s \in Strengths :
    count[n][s] =
      Cardinality({h \in Holders : handle[h] = [node |-> n, strength |-> s]})

\* An object that has an owner lives exactly as long as a strong handle on that
\* node: it is not deleted before (so a handle that is accepted finds it), it
\* has no second owner to delete it again, and afterwards the node is known to
\* be empty.  A node never outlives its last handle.
OwnedLifetime ==
  /\ \A n \in valid : count[n]["strong"] > 0
  /\ \A n \in alive : Total(n) > 0
  /\ \A n \in valid \cap owning : memory[target[n]] = "live"
  /\ \A m, n \in valid \cap owning : target[m] = target[n] => m = n
  /\ debug /\ Idle => \A n \in alive : count[n]["strong"] > 0 => n \in valid

\* No step of a destruction or of an assignment works on a handle, a node or an
\* object that is gone by then, and none of them is entered twice.
NoUseAfterFree ==
  /\ \A k \in 1..Len(stack) :
       /\ Exists(stack[k].h) /\ HeldBy(stack[k].h) \in alive
       /\ stack[k].at = "members" => memory[target[HeldBy(stack[k].h)]] = "dying"
  /\ \A j, k \in 1..Len(stack) :
       HeldBy(stack[j].h) = HeldBy(stack[k].h) /\ j < k => stack[k].at = "count"
  /\ pending # <<>> => Exists(pending[1]) /\ Exists(pending[2])

\* The debug build lists the nodes whose object is not deleted, whatever made
\* them or let go of them, so removeRCPNode() always finds its node.
TracerExact ==
  /\ Idle => active = IF debug THEN valid ELSE {}
  /\ debug /\ Top("remove") => HeldBy(Frame.h) \in active
=============================================================================
