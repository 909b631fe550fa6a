------------------------ MODULE ObjectMonitorProofs -------------------------
(***************************************************************************)
(* Proofs about ObjectMonitor, for any set of threads, any nesting and any *)
(* number of calls.                                                        *)
(***************************************************************************)
EXTENDS ObjectMonitor, FiniteSetTheorems, TLAPS

\* Left and Taken and the others yield monitors.
LEMMA MonitorOps ==
    ASSUME NEW m \in Monitors, NEW t \in Threads
    PROVE  /\ Taken(m, t) \in Monitors
           /\ Retaken(m) \in Monitors
           /\ Admitted(m) \in Monitors
           /\ Left(m) \in Monitors
<1>1. Taken(m, t) \in Monitors
  BY DEF Monitors, Taken
<1>2. Retaken(m) \in Monitors
  BY DEF Monitors, Retaken
<1>3. Admitted(m) \in Monitors
  BY DEF Monitors, Admitted
<1>4. Left(m) \in Monitors
  BY DEF Monitors, Left
<1> QED
  BY <1>1, <1>2, <1>3, <1>4

\* Every step of the monitor keeps its types.
LEMMA TypeStep == TypeOK /\ [Next]_vars => TypeOK'
<1> SUFFICES ASSUME TypeOK, [Next]_vars PROVE TypeOK'
  OBVIOUS
<1> USE DEF TypeOK, Running
<1>1. ASSUME NEW t \in Threads, EnterFree(t) PROVE TypeOK'
  BY <1>1, MonitorOps DEF EnterFree, CallsEnter
<1>2. ASSUME NEW t \in Threads, EnterOwned(t) PROVE TypeOK'
  BY <1>2, MonitorOps DEF EnterOwned, CallsEnter
<1>3. ASSUME NEW t \in Threads, EnterWait(t) PROVE TypeOK'
  BY <1>3 DEF EnterWait, CallsEnter
<1>4. ASSUME NEW t \in Threads, SpuriousWake(t) PROVE TypeOK'
  BY <1>4 DEF SpuriousWake
<1>5. ASSUME NEW t \in Threads, RecheckBusy(t) PROVE TypeOK'
  BY <1>5 DEF RecheckBusy
<1>6. ASSUME NEW t \in Threads, RecheckFree(t) PROVE TypeOK'
  BY <1>6, MonitorOps DEF RecheckFree
<1>7. ASSUME NEW t \in Threads, Exit(t) PROVE TypeOK'
  <2>1. /\ mon' \in Monitors
        /\ depth' \in [Threads -> Nat]
    BY <1>7, MonitorOps DEF Exit
  <2>2. /\ asleep' \subseteq Threads /\ woken' \subseteq Threads
        /\ asleep' \cap woken' = {}
        /\ failed' \cap (asleep' \cup woken') = {}
    BY <1>7 DEF Exit, NotifyOne
  <2> QED
    BY <1>7, <2>1, <2>2 DEF Exit
<1>8. ASSUME NEW t \in Threads, ExitUnentered(t) PROVE TypeOK'
  BY <1>8 DEF ExitUnentered
<1>9. CASE UNCHANGED vars
  BY <1>9 DEF vars
<1> QED
  BY <1>1, <1>2, <1>3, <1>4, <1>5, <1>6, <1>7, <1>8, <1>9 DEF Next, Enter, Recheck

\* The variables of an ObjectMonitor and of its threads keep their types.
THEOREM TypeCorrect == Spec => []TypeOK
<1>1. Init => TypeOK
  BY DEF Init, TypeOK, FreshMonitor, Monitors
<1> QED
  BY <1>1, TypeStep, PTL DEF Spec

-----------------------------------------------------------------------------
\* Every step keeps the lock correct as long as no hand-over has been made.
LEMMA ExclusiveStep ==
    TypeOK /\ ExclusiveUntilHandover /\ [Next]_vars => ExclusiveUntilHandover'
<1> SUFFICES ASSUME TypeOK, ExclusiveUntilHandover, [Next]_vars, handovers' = 0
             PROVE  \/ mon'.cnt = 0 /\ Inside' = {}
                    \/ /\ mon'.cnt > 0
                       /\ Inside' = {mon'.owner}
                       /\ depth'[mon'.owner] = mon'.cnt
  BY DEF ExclusiveUntilHandover
<1> USE DEF TypeOK, Monitors, Inside
<1>1. ASSUME NEW t \in Threads, EnterFree(t) PROVE ExclusiveUntilHandover'
  <2>1. handovers = 0 => Inside = {}
    BY <1>1 DEF EnterFree, Free, ExclusiveUntilHandover
  <2>2. mon' = [cnt |-> 1, owner |-> t, entered |-> TRUE]
    BY <1>1 DEF EnterFree, Taken
  <2>3. handovers = 0 => Inside' = {t} /\ depth'[t] = 1
    BY <1>1, <2>1 DEF EnterFree
  <2> QED
    BY <1>1, <2>2, <2>3 DEF EnterFree, ExclusiveUntilHandover
<1>2. ASSUME NEW t \in Threads, EnterOwned(t) PROVE ExclusiveUntilHandover'
  <2>1. handovers = 0 => /\ mon.cnt > 0 /\ Inside = {t} /\ depth[t] = mon.cnt
    BY <1>2 DEF EnterOwned, Free, OwnedBy, ExclusiveUntilHandover
  <2>2. mon'.cnt = mon.cnt + 1 /\ mon'.owner = t
    BY <1>2 DEF EnterOwned, Retaken, OwnedBy
  <2>3. handovers = 0 => Inside' = {t} /\ depth'[t] = mon.cnt + 1
    BY <1>2, <2>1 DEF EnterOwned
  <2> QED
    BY <1>2, <2>1, <2>2, <2>3 DEF EnterOwned, ExclusiveUntilHandover
<1>3. ASSUME NEW t \in Threads, RecheckFree(t) PROVE handovers' # 0
  BY <1>3 DEF RecheckFree
<1>4. ASSUME NEW t \in Threads, Exit(t) PROVE ExclusiveUntilHandover'
  <2>1. handovers = 0 => /\ mon.cnt > 0 /\ Inside = {t} /\ depth[t] = mon.cnt
                         /\ mon.owner = t
    BY <1>4 DEF Exit, ExclusiveUntilHandover
  <2>2. mon'.cnt = mon.cnt - 1 /\ mon'.owner = mon.owner
    BY <1>4 DEF Exit, Left
  <2>3. depth' = [depth EXCEPT ![t] = @ - 1] /\ handovers' = handovers
    BY <1>4 DEF Exit
  <2>4. CASE depth[t] = 1
    BY <2>1, <2>2, <2>3, <2>4 DEF ExclusiveUntilHandover
  <2>5. CASE depth[t] # 1
    <3>1. handovers = 0 => Inside' = {t} /\ depth'[t] = mon.cnt - 1 /\ mon.cnt - 1 > 0
      BY <2>1, <2>3, <2>5
    <3> QED
      BY <2>1, <2>2, <2>3, <3>1 DEF ExclusiveUntilHandover
  <2> QED
    BY <2>4, <2>5
<1>5. ASSUME UNCHANGED <<mon, depth, handovers>> PROVE ExclusiveUntilHandover'
  BY <1>5 DEF ExclusiveUntilHandover
<1>6. ASSUME NEW t \in Threads,
             EnterWait(t) \/ SpuriousWake(t) \/ RecheckBusy(t) \/ ExitUnentered(t)
      PROVE  UNCHANGED <<mon, depth, handovers>>
  BY <1>6 DEF EnterWait, SpuriousWake, RecheckBusy, ExitUnentered
<1>7. ExclusiveUntilHandover'
  <2>1. CASE UNCHANGED vars
    BY <2>1, <1>5 DEF vars
  <2> QED
    BY <2>1, <1>1, <1>2, <1>3, <1>4, <1>5, <1>6 DEF Next, Enter, Recheck
<1> QED
  BY <1>7 DEF ExclusiveUntilHandover

\* Until a thread is let in from the wait branch of enter, only the recorded
\* owner is inside and monitorCnt is its nesting depth.
THEOREM ExclusiveUntilHandoverHolds == Spec => []ExclusiveUntilHandover
<1>1. Init => ExclusiveUntilHandover
  BY DEF Init, ExclusiveUntilHandover, FreshMonitor, Inside
<1> QED
  BY <1>1, TypeCorrect, ExclusiveStep, PTL DEF Spec

-----------------------------------------------------------------------------
\* A step of the monitor, taken before any hand-over, is a step of the lock.
LEMMA LockStep ==
    TypeOK /\ ExclusiveUntilHandover /\ [Next]_vars
      => [handovers = 0 => Lock!Next]_depth
<1> SUFFICES ASSUME TypeOK, ExclusiveUntilHandover, [Next]_vars, handovers = 0
             PROVE  Lock!Next \/ UNCHANGED depth
  OBVIOUS
<1> USE DEF TypeOK, Monitors, Inside, ExclusiveUntilHandover
<1>1. ASSUME NEW t \in Threads, EnterFree(t) \/ EnterOwned(t) \/ RecheckFree(t)
      PROVE  Lock!Acquire(t)
  <2>1. depth' = [depth EXCEPT ![t] = @ + 1]
    BY <1>1 DEF EnterFree, EnterOwned, RecheckFree
  <2>2. \A u \in Threads \ {t} : depth[u] = 0
    BY <1>1 DEF EnterFree, EnterOwned, RecheckFree, Free, OwnedBy
  <2> QED
    BY <2>1, <2>2 DEF Lock!Acquire
<1>2. ASSUME NEW t \in Threads, Exit(t) PROVE Lock!Release(t)
  BY <1>2 DEF Exit, Lock!Release
<1>3. ASSUME NEW t \in Threads,
             EnterWait(t) \/ SpuriousWake(t) \/ RecheckBusy(t) \/ ExitUnentered(t)
      PROVE  UNCHANGED depth
  BY <1>3 DEF EnterWait, SpuriousWake, RecheckBusy, ExitUnentered
<1>4. CASE UNCHANGED vars
  BY <1>4 DEF vars
<1> QED
  BY <1>1, <1>2, <1>3, <1>4 DEF Next, Enter, Recheck, Lock!Next

\* Up to and including the first hand-over an ObjectMonitor implements the
\* reentrant lock a Java monitor promises.
THEOREM ImplementsLockUntilHandover == Spec => LockUntilHandover
<1> QED
  BY TypeCorrect, ExclusiveUntilHandoverHolds, LockStep, PTL DEF Spec, LockUntilHandover
-----------------------------------------------------------------------------
\* The books of a monitor as a step finds them: finitely many open blocks, and
\* monitorCnt short of them by the hand-overs.
Books == IsFiniteSet(OpenBlocks) /\ CntAccounts

\* A thread that enters one more block adds one pair to the open blocks.
LEMMA OneMoreBlock ==
    ASSUME TypeOK, Books, NEW t \in Threads,
           depth' = [depth EXCEPT ![t] = @ + 1],
           mon'.cnt + handovers' = mon.cnt + handovers + 1
    PROVE  Books'
<1>1. OpenBlocks' = OpenBlocks \cup {<<t, depth[t] + 1>>}
  <2>1. \A u \in Threads, n \in Nat : n \in 1..depth'[u]
            <=> n \in 1..depth[u] \/ (u = t /\ n = depth[t] + 1)
    BY DEF TypeOK
  <2>2. \A p : p \in OpenBlocks' <=>
            \E u \in Threads, n \in Nat : p = <<u, n>> /\ n \in 1..depth'[u]
    BY DEF OpenBlocks
  <2>3. \A p : p \in OpenBlocks <=>
            \E u \in Threads, n \in Nat : p = <<u, n>> /\ n \in 1..depth[u]
    BY DEF OpenBlocks
  <2>4. depth[t] + 1 \in Nat
    BY DEF TypeOK
  <2>5. \A p : p \in OpenBlocks' <=> p \in OpenBlocks \/ p = <<t, depth[t] + 1>>
    BY <2>1, <2>2, <2>3, <2>4
  <2> QED
    BY <2>5
<1>2. <<t, depth[t] + 1>> \notin OpenBlocks
  BY DEF OpenBlocks, TypeOK
<1>3. /\ IsFiniteSet(OpenBlocks \cup {<<t, depth[t] + 1>>})
      /\ Cardinality(OpenBlocks \cup {<<t, depth[t] + 1>>}) = Cardinality(OpenBlocks) + 1
  BY <1>2, FS_AddElement DEF Books
<1> QED
  BY <1>1, <1>3 DEF Books, CntAccounts

\* A thread that leaves a block takes one pair from the open blocks.
LEMMA OneBlockLess ==
    ASSUME TypeOK, Books, NEW t \in Threads, depth[t] > 0,
           depth' = [depth EXCEPT ![t] = @ - 1],
           mon'.cnt + handovers' = mon.cnt + handovers - 1
    PROVE  Books'
<1>1. OpenBlocks' = OpenBlocks \ {<<t, depth[t]>>}
  <2>1. \A u \in Threads, n \in Nat : n \in 1..depth'[u]
            <=> n \in 1..depth[u] /\ ~(u = t /\ n = depth[t])
    BY DEF TypeOK
  <2>2. \A p : p \in OpenBlocks' <=>
            \E u \in Threads, n \in Nat : p = <<u, n>> /\ n \in 1..depth'[u]
    BY DEF OpenBlocks
  <2>3. \A p : p \in OpenBlocks <=>
            \E u \in Threads, n \in Nat : p = <<u, n>> /\ n \in 1..depth[u]
    BY DEF OpenBlocks
  <2> QED
    BY <2>1, <2>2, <2>3
<1>2. <<t, depth[t]>> \in OpenBlocks
  BY DEF OpenBlocks, TypeOK
<1>3. /\ IsFiniteSet(OpenBlocks \ {<<t, depth[t]>>})
      /\ Cardinality(OpenBlocks \ {<<t, depth[t]>>}) = Cardinality(OpenBlocks) - 1
  BY <1>2, FS_RemoveElement DEF Books
<1>4. Cardinality(OpenBlocks) \in Nat
  BY FS_CardinalityType DEF Books
<1> QED
  BY <1>1, <1>3, <1>4 DEF Books, CntAccounts, TypeOK, Monitors

\* Every step keeps the books.
LEMMA BooksStep == TypeOK /\ Books /\ [Next]_vars => Books'
<1> SUFFICES ASSUME TypeOK, Books, [Next]_vars PROVE Books'
  OBVIOUS
<1>0. mon.cnt \in Int /\ handovers \in Nat
  BY DEF TypeOK, Monitors
<1>1. ASSUME NEW t \in Threads, EnterFree(t) PROVE Books'
  <2>1. mon.cnt = 0 /\ mon'.cnt = 1
    BY <1>1 DEF EnterFree, Free, Taken
  <2>2. mon'.cnt + handovers' = mon.cnt + handovers + 1
    BY <1>0, <1>1, <2>1 DEF EnterFree
  <2>3. depth' = [depth EXCEPT ![t] = @ + 1]
    BY <1>1 DEF EnterFree
  <2> QED
    BY <2>2, <2>3, OneMoreBlock
<1>2. ASSUME NEW t \in Threads, EnterOwned(t) PROVE Books'
  <2>1. mon'.cnt = mon.cnt + 1
    BY <1>2 DEF EnterOwned, Retaken
  <2>2. mon'.cnt + handovers' = mon.cnt + handovers + 1
    BY <1>0, <1>2, <2>1 DEF EnterOwned
  <2>3. depth' = [depth EXCEPT ![t] = @ + 1]
    BY <1>2 DEF EnterOwned
  <2> QED
    BY <2>2, <2>3, OneMoreBlock
<1>3. ASSUME NEW t \in Threads, RecheckFree(t) PROVE Books'
  <2>1. mon'.cnt = mon.cnt
    BY <1>3 DEF RecheckFree, Admitted, TypeOK, Monitors
  <2>2. mon'.cnt + handovers' = mon.cnt + handovers + 1
    BY <1>0, <1>3, <2>1 DEF RecheckFree
  <2>3. depth' = [depth EXCEPT ![t] = @ + 1]
    BY <1>3 DEF RecheckFree
  <2> QED
    BY <2>2, <2>3, OneMoreBlock
<1>4. ASSUME NEW t \in Threads, Exit(t) PROVE Books'
  <2>1. mon'.cnt = mon.cnt - 1
    BY <1>4 DEF Exit, Left, TypeOK, Monitors
  <2>2. mon'.cnt + handovers' = mon.cnt + handovers - 1
    BY <1>0, <1>4, <2>1 DEF Exit
  <2>3. depth[t] > 0 /\ depth' = [depth EXCEPT ![t] = @ - 1]
    BY <1>4 DEF Exit
  <2> QED
    BY <2>2, <2>3, OneBlockLess
<1>5. ASSUME UNCHANGED <<mon, depth, handovers>> PROVE Books'
  BY <1>5 DEF Books, CntAccounts, OpenBlocks
<1>6. ASSUME NEW t \in Threads,
             EnterWait(t) \/ SpuriousWake(t) \/ RecheckBusy(t) \/ ExitUnentered(t)
      PROVE  UNCHANGED <<mon, depth, handovers>>
  BY <1>6 DEF EnterWait, SpuriousWake, RecheckBusy, ExitUnentered
<1>7. CASE UNCHANGED vars
  BY <1>7, <1>5 DEF vars
<1> QED
  BY <1>1, <1>2, <1>3, <1>4, <1>5, <1>6, <1>7 DEF Next, Enter, Recheck

\* monitorCnt is short of the blocks threads are inside by one for every entry
\* the wait branch granted, whatever the threads and the order of their calls.
THEOREM CntAccountsHolds == Spec => []CntAccounts
<1>1. Init => Books
  <2> SUFFICES ASSUME Init PROVE Books
    OBVIOUS
  <2>1. OpenBlocks = {}
    BY DEF Init, OpenBlocks
  <2> QED
    BY <2>1, FS_EmptySet DEF Init, FreshMonitor, Books, CntAccounts
<1>2. Books => CntAccounts
  BY DEF Books
<1> QED
  BY <1>1, <1>2, TypeCorrect, BooksStep, PTL DEF Spec
=============================================================================
