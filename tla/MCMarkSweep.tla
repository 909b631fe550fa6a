----------------------------- MODULE MCMarkSweep ----------------------------
(***************************************************************************)
(* Instances of MarkSweep for TLC: two objects and two arrays (offsets are *)
(* counted in each container), chains, shared parts and a cycle among      *)
(* them, two threads, static variables of every sort.                      *)
(***************************************************************************)
EXTENDS MarkSweep, TLC

CONSTANTS t1, t2

O(i) == [kind |-> "object", offset |-> i]
A(i) == [kind |-> "array", offset |-> i]

MCTasks == {"stack", "local", "static", "objects", "arrays", "monitors"}
MCOffsets == {1, 2}
MCSlots == {1, 2}

\* Box 5 is a second one for object 2, and box 6 is of a primitive type.
MCBoxes == 1..6
MCRef == <<O(1), O(2), A(1), A(2), O(2), NoRef>>

\* Object 1 may have two fields, object 2 has one that may close a cycle; the arrays may have
\* an element that somebody else holds too, or that is in both or twice in one.
Shapes == {[r \in Refs |-> CASE r = O(1) -> f1 [] r = O(2) -> f2
                             [] r = A(1) -> e1 [] r = A(2) -> e2] :
             f1 \in {<<Null, Null>>, <<2, 3>>}, f2 \in {<<4, Null>>, <<1, Null>>},
             e1 \in {<<Null, Null>>, <<5, 6>>, <<2, Null>>}, e2 \in {<<Null, Null>>, <<6, 6>>, <<5, Null>>}}

MCHeaps ==
    {[there |-> Refs, holds |-> shape, ref |-> MCRef, deleted |-> {},
      stack |-> (t1 :> s @@ t2 :> {}), local |-> (t1 :> l @@ t2 :> o),
      static |-> (1 :> v1 @@ 2 :> v2), monitors |-> {1, 2}] :
         shape \in Shapes, s \in {{}, {1}, {3}}, l \in {{}, {2, 6}},
         o \in {{}, {4}}, v1 \in {Null, 5}, v2 \in {6, 3}}
=============================================================================
