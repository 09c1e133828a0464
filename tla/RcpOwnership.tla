---------------------------- MODULE RcpOwnership ----------------------------
(***************************************************************************)
(* What a reference-counted pointer promises, with no counter in sight.    *)
(*                                                                         *)
(* A holder (a local RCP variable, a temporary, a member of an expression) *)
(* refers to at most one object.  An object is created, referred to by     *)
(* holders for a while, abandoned, and then its memory is reclaimed.  The  *)
(* promise: memory is reclaimed only after the last holder has let go, an  *)
(* abandoned object is never referred to again, and it is reclaimed.       *)
(* Module Rcp implements this module (property OwnershipSpec there).       *)
(***************************************************************************)
CONSTANTS Holders,  \* every place that can hold a counted pointer
          Objs,     \* every object that is ever allocated
          Null

VARIABLES refersTo, \* [Holders -> Objs \cup {Null}]
          memory    \* [Objs -> {"none", "fresh", "held", "abandoned", "freed"}]

vars == <<refersTo, memory>>

Referred == {refersTo[h] : h \in Holders} \ {Null}

Init ==
  /\ refersTo = [h \in Holders |-> Null]
  /\ memory = [o \in Objs |-> "none"]

Create(o) ==
  /\ memory[o] = "none"
  /\ memory' = [memory EXCEPT ![o] = "fresh"]
  /\ UNCHANGED refersTo

\* Any number of holders are redirected, to objects that are held already or
\* have never been held; an object that loses its last holder is abandoned.
Redirect ==
  /\ refersTo' \in [Holders -> Objs \cup {Null}]
  /\ \A o \in Referred' : memory[o] \in {"fresh", "held"}
  /\ memory' = [o \in Objs |->
                  IF o \in Referred' THEN "held"
                  ELSE IF memory[o] = "held" THEN "abandoned" ELSE memory[o]]

Reclaim(o) ==
  /\ memory[o] = "abandoned"
  /\ memory' = [memory EXCEPT ![o] = "freed"]
  /\ UNCHANGED refersTo

Next ==
  \/ \E o \in Objs : Create(o) \/ Reclaim(o)
  \/ Redirect

Spec ==
  /\ Init
  /\ [][Next]_vars
  /\ \A o \in Objs : WF_vars(Reclaim(o))
=============================================================================
