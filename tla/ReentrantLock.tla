---------------------------- MODULE ReentrantLock ---------------------------
(***************************************************************************)
(* What a Java monitor promises (JVM specification, monitorenter and       *)
(* monitorexit): one thread at a time is inside, it may enter again, and   *)
(* the monitor is free once it has left as often as it entered.            *)
(***************************************************************************)
EXTENDS Naturals

CONSTANT Threads

VARIABLE depth      \* depth[t]: how many blocks on this object t is inside

Init == depth = [t \in Threads |-> 0]

Acquire(t) == /\ \A u \in Threads \ {t} : depth[u] = 0
              /\ depth' = [depth EXCEPT ![t] = @ + 1]

Release(t) == /\ depth[t] > 0
              /\ depth' = [depth EXCEPT ![t] = @ - 1]

Next == \E t \in Threads : Acquire(t) \/ Release(t)

Spec == Init /\ [][Next]_depth
=============================================================================
