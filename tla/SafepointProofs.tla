-------------------------- MODULE SafepointProofs ---------------------------
(***************************************************************************)
(* Proofs about Safepoint, for any finite set of threads and any number of *)
(* requests.                                                               *)
(***************************************************************************)
EXTENDS Safepoint, FiniteSetTheorems, TLAPS

\* Threads that the barrier has counted and that have not gone back to Java code.
Arrived == {t \in live : pc[t] \in {"test", "wait", "woken", "gc", "collect"}}

\* Threads that an exception of gc() ended.
Thrown == {t \in live : pc[t] = "thrown"}

\* The barrier has opened: it counted every thread, and those that are not behind it
\* any more were ended by gc().
Opened == cnt = ThreadNum /\ Arrived \cup Thrown = live

\* Threads between the two stores of notifyGC.
Notifying == {t \in live : pc[t] = "notify"}

\* A thread that collects has found the flag up, and nobody else lowers it.
CollectingUnderFlag == \A t \in live : pc[t] = "collect" => flag

\* Every collection, the flag and every pending store of the flag are paid for by
\* a request of their own.
RequestsAccount ==
    collections + (IF flag THEN 1 ELSE 0) + Cardinality(Notifying) <= requests

\* In a round that nobody disturbed: the count is the number of the threads that
\* arrived, as long as the flag is up or about to be raised, or some have arrived and
\* were ended by gc(); ...
CountIsArrived ==
    /\ flag \/ Notifying # {} => cnt = Cardinality(Arrived) \/ (flag /\ Opened)
    /\ \A t \in live : pc[t] = "inc" => reg[t] = cnt
\* ... the barrier opened only when all threads had arrived, and until the flag is
\* lowered none has left; ...
OpenMeansAll == flag /\ (\E t \in live : pc[t] \in {"gc", "collect"}) => Opened
\* ... and while threads drain from it nobody arrives or is about to raise the flag.
DrainsOnly == ~flag /\ InRound => \A t \in live : pc[t] \notin {"arrive", "inc", "notify"}

RoundInv == ~disturbed => CountIsArrived /\ OpenMeansAll /\ DrainsOnly

-----------------------------------------------------------------------------
LEMMA TypeInit == Init => TypeOK
<1> SUFFICES ASSUME Init PROVE TypeOK
  OBVIOUS
<1>1. /\ live \subseteq Threads
      /\ {spMtx, gcMtx} \subseteq Threads \cup {NoThread}
      /\ \A t \in Threads : spMtx # t /\ gcMtx # t
  BY SafepointAssumption DEF Init
<1>2. pc \in [Threads -> Outside \cup AtSafepoint] /\ reg \in [Threads -> Nat]
  BY DEF Init, Outside, AtSafepoint
<1>3. \A t \in Threads : pc[t] = "run"
  BY DEF Init
<1> QED
  BY <1>1, <1>2, <1>3 DEF Init, TypeOK

LEMMA TypeStep ==
    ASSUME TypeOK, [Next]_vars
    PROVE  TypeOK'
<1> USE SafepointAssumption DEF TypeOK, Goto, At, Outside, AtSafepoint
<1>1. ASSUME NEW t \in Threads, NEW u \in Threads, Spawn(t, u) PROVE TypeOK'
  <2>1. disturbed' \in BOOLEAN
    BY <1>1 DEF Spawn, Draining, InRound
  <2> QED
    BY <1>1, <2>1 DEF Spawn
<1>2. ASSUME NEW t \in Threads, Finish(t) PROVE TypeOK'
  BY <1>2 DEF Finish
<1>3. ASSUME NEW t \in Threads, RequestReset(t) PROVE TypeOK'
  <2>1. disturbed' \in BOOLEAN
    BY <1>3 DEF RequestReset, InRound
  <2> QED
    BY <1>3, <2>1 DEF RequestReset
<1>4. ASSUME NEW t \in Threads, RequestRaise(t) \/ Poll(t) PROVE TypeOK'
  <2>1. CASE RequestRaise(t)
    BY <2>1 DEF RequestRaise
  <2>2. CASE Poll(t)
    BY <2>2 DEF Poll
  <2> QED
    BY <1>4, <2>1, <2>2
<1>5. ASSUME NEW t \in Threads, Arrive(t) PROVE TypeOK'
  BY <1>5 DEF Arrive
<1>6. ASSUME NEW t \in Threads, Increment(t) PROVE TypeOK'
  BY <1>6 DEF Increment
<1>7. ASSUME NEW t \in Threads, Wait(t) PROVE TypeOK'
  BY <1>7 DEF Wait
<1>8. ASSUME NEW t \in Threads, Pass(t) PROVE TypeOK'
  <2>1. pc' \in [Threads -> Outside \cup AtSafepoint]
    BY <1>8 DEF Pass
  <2>2. \A u \in Threads : spMtx' = u <=> pc'[u] \in {"inc", "test"}
    BY <1>8 DEF Pass
  <2>3. \A u \in Threads : gcMtx' = u <=> pc'[u] = "collect"
    BY <1>8 DEF Pass
  <2>4. \A u \in Threads : u \notin live => pc'[u] = "run"
    BY <1>8 DEF Pass
  <2> QED
    BY <1>8, <2>1, <2>2, <2>3, <2>4 DEF Pass
<1>9. ASSUME NEW t \in Threads, SpuriousWake(t) \/ Retest(t) PROVE TypeOK'
  <2>1. CASE SpuriousWake(t)
    BY <2>1 DEF SpuriousWake
  <2>2. CASE Retest(t)
    BY <2>2 DEF Retest
  <2> QED
    BY <1>9, <2>1, <2>2
<1>10. ASSUME NEW t \in Threads, BeginGC(t) \/ SkipGC(t) PROVE TypeOK'
  <2>1. CASE BeginGC(t)
    BY <2>1 DEF BeginGC
  <2>2. CASE SkipGC(t)
    BY <2>2 DEF SkipGC
  <2> QED
    BY <1>10, <2>1, <2>2
<1>11. ASSUME NEW t \in Threads, EndGC(t) PROVE TypeOK'
  <2>1. pc' \in [Threads -> Outside \cup AtSafepoint]
    BY <1>11 DEF EndGC
  <2>2. \A u \in Threads : gcMtx' = u <=> pc'[u] = "collect"
    BY <1>11 DEF EndGC
  <2>3. \A u \in Threads : spMtx' = u <=> pc'[u] \in {"inc", "test"}
    BY <1>11 DEF EndGC
  <2>4. collections' \in Nat
    <3>1. collections' = collections + 1 /\ collections \in Nat
      BY <1>11 DEF EndGC
    <3> QED
      BY ONLY <3>1
  <2>5. flag' \in BOOLEAN
    BY <1>11 DEF EndGC
  <2>6. {spMtx', gcMtx'} \subseteq Threads \cup {NoThread}
    BY <1>11 DEF EndGC
  <2>7. \A u \in Threads : u \notin live => pc'[u] = "run"
    BY <1>11 DEF EndGC
  <2> QED
    BY <1>11, <2>1, <2>2, <2>3, <2>4, <2>5, <2>6, <2>7 DEF EndGC
<1>12. ASSUME NEW t \in Threads, AbortGC(t) PROVE TypeOK'
  BY <1>12 DEF AbortGC
<1>13. CASE UNCHANGED vars
  BY <1>13 DEF vars
<1> QED
  BY <1>1, <1>2, <1>3, <1>4, <1>5, <1>6, <1>7, <1>8, <1>9, <1>10, <1>11, <1>12, <1>13
     DEF Next, Proceed, Lock

\* The variables keep their types, and each mutex is held by exactly the thread
\* that is in its region.
THEOREM SafepointTypeCorrect == Spec => []TypeOK
  BY TypeInit, TypeStep, PTL DEF Spec

-----------------------------------------------------------------------------
\* Sets of live threads are finite.
LEMMA LiveFinite ==
    ASSUME TypeOK, NEW S, S \subseteq live
    PROVE  IsFiniteSet(S) /\ Cardinality(S) \in Nat
<1>1. S \in SUBSET Threads
  BY DEF TypeOK
<1> QED
  BY <1>1, SafepointAssumption, FS_Subset, FS_CardinalityType

LEMMA FlagStep ==
    ASSUME TypeOK, CollectingUnderFlag, [Next]_vars
    PROVE  CollectingUnderFlag'
<1> USE DEF TypeOK, CollectingUnderFlag, Goto, At
<1>1. ASSUME NEW t \in Threads, EndGC(t) PROVE CollectingUnderFlag'
  BY <1>1, SafepointAssumption DEF EndGC
<1>2. ASSUME NEW t \in Threads, NEW u \in Threads, Spawn(t, u) PROVE CollectingUnderFlag'
  BY <1>2 DEF Spawn
<1>3. ASSUME NEW t \in Threads, Pass(t) PROVE CollectingUnderFlag'
  BY <1>3 DEF Pass
<1>4. ASSUME NEW t \in Threads,
             Finish(t) \/ RequestReset(t) \/ RequestRaise(t) \/ Poll(t) \/ Arrive(t)
             \/ Increment(t) \/ Wait(t)
      PROVE  CollectingUnderFlag'
  BY <1>4 DEF Finish, RequestReset, RequestRaise, Poll, Arrive, Increment, Wait
<1>5. ASSUME NEW t \in Threads,
             SpuriousWake(t) \/ Retest(t) \/ BeginGC(t) \/ SkipGC(t) \/ AbortGC(t)
      PROVE  CollectingUnderFlag'
  BY <1>5 DEF SpuriousWake, Retest, BeginGC, SkipGC, AbortGC
<1>6. CASE UNCHANGED vars
  BY <1>6 DEF vars
<1> QED
  BY <1>1, <1>2, <1>3, <1>4, <1>5, <1>6 DEF Next, Proceed, Lock

\* A step that changes neither the books nor who is between the stores.
LEMMA AccountStutter ==
    ASSUME RequestsAccount, UNCHANGED <<collections, flag, requests>>, Notifying' = Notifying
    PROVE  RequestsAccount'
  BY DEF RequestsAccount

LEMMA AccountStep ==
    ASSUME TypeOK, CollectingUnderFlag, RequestsAccount, [Next]_vars
    PROVE  RequestsAccount'
<1> USE DEF TypeOK, Goto, At
<1>0. /\ IsFiniteSet(Notifying) /\ Cardinality(Notifying) \in Nat
      /\ collections \in Nat /\ requests \in Nat
  BY LiveFinite DEF Notifying
<1>1. ASSUME NEW t \in Threads, RequestReset(t) PROVE RequestsAccount'
  <2>1. Notifying' = Notifying \cup {t} /\ t \notin Notifying
    BY <1>1 DEF RequestReset, Notifying
  <2>2. Cardinality(Notifying') = Cardinality(Notifying) + 1
    BY <1>0, <2>1, FS_AddElement
  <2>3. requests' = requests + 1 /\ collections' = collections /\ flag' = flag
    BY <1>1 DEF RequestReset
  <2> QED
    BY <1>0, <2>2, <2>3 DEF RequestsAccount
<1>2. ASSUME NEW t \in Threads, RequestRaise(t) PROVE RequestsAccount'
  <2>1. Notifying' = Notifying \ {t} /\ t \in Notifying
    BY <1>2 DEF RequestRaise, Notifying
  <2>2. Cardinality(Notifying') = Cardinality(Notifying) - 1
    BY <1>0, <2>1, FS_RemoveElement
  <2>3. requests' = requests /\ collections' = collections /\ flag' = TRUE
    BY <1>2 DEF RequestRaise
  <2> QED
    BY <1>0, <2>2, <2>3 DEF RequestsAccount
<1>3. ASSUME NEW t \in Threads, EndGC(t) PROVE RequestsAccount'
  <2>1. flag
    BY <1>3 DEF EndGC, CollectingUnderFlag
  <2>2. Notifying' = Notifying
    BY <1>3 DEF EndGC, Notifying
  <2>3. requests' = requests /\ collections' = collections + 1 /\ flag' = FALSE
    BY <1>3 DEF EndGC
  <2> QED
    BY <1>0, <2>1, <2>2, <2>3 DEF RequestsAccount
<1>4. ASSUME NEW t \in Threads, NEW u \in Threads, Spawn(t, u) PROVE RequestsAccount'
  <2>1. Notifying' = Notifying
    BY <1>4 DEF Spawn, Notifying
  <2> QED
    BY <1>4, <2>1, AccountStutter DEF Spawn
<1>5. ASSUME NEW t \in Threads, Pass(t) PROVE RequestsAccount'
  <2>1. Notifying' = Notifying
    BY <1>5 DEF Pass, Notifying
  <2> QED
    BY <1>5, <2>1, AccountStutter DEF Pass
<1>6. ASSUME NEW t \in Threads,
             Finish(t) \/ Poll(t) \/ Arrive(t) \/ Increment(t) \/ Wait(t)
             \/ SpuriousWake(t) \/ Retest(t) \/ BeginGC(t) \/ SkipGC(t) \/ AbortGC(t)
      PROVE  RequestsAccount'
  <2>1. Notifying' = Notifying
    BY <1>6 DEF Finish, Poll, Arrive, Increment, Wait, SpuriousWake, Retest, BeginGC,
                SkipGC, AbortGC, Notifying
  <2>2. UNCHANGED <<collections, flag, requests>>
    BY <1>6 DEF Finish, Poll, Arrive, Increment, Wait, SpuriousWake, Retest, BeginGC, SkipGC,
                AbortGC
  <2> QED
    BY <2>1, <2>2, AccountStutter
<1>7. ASSUME UNCHANGED vars PROVE RequestsAccount'
  <2>1. Notifying' = Notifying
    BY <1>7 DEF vars, Notifying
  <2> QED
    BY <1>7, <2>1, AccountStutter DEF vars
<1> QED
  BY <1>1, <1>2, <1>3, <1>4, <1>5, <1>6, <1>7 DEF Next, Proceed, Lock

LEMMA AccountInit == Init => CollectingUnderFlag /\ RequestsAccount
<1> SUFFICES ASSUME Init PROVE CollectingUnderFlag /\ RequestsAccount
  OBVIOUS
<1>1. Notifying = {}
  BY SafepointAssumption DEF Init, Notifying
<1>2. Cardinality(Notifying) = 0
  BY <1>1, FS_EmptySet
<1> QED
  BY <1>2, SafepointAssumption DEF Init, CollectingUnderFlag, RequestsAccount

\* However many threads go through gc(), a request is collected at most once.
THEOREM OneCollectionPerRequestHolds == Spec => []OneCollectionPerRequest
<1>1. TypeOK /\ RequestsAccount => OneCollectionPerRequest
  <2> SUFFICES ASSUME TypeOK, RequestsAccount PROVE OneCollectionPerRequest
    OBVIOUS
  <2>1. Cardinality(Notifying) \in Nat
    BY LiveFinite DEF Notifying
  <2> QED
    BY <2>1 DEF TypeOK, RequestsAccount, OneCollectionPerRequest
<1> QED
  BY <1>1, TypeInit, TypeStep, AccountInit, FlagStep, AccountStep, PTL DEF Spec

-----------------------------------------------------------------------------
LEMMA RoundInit == Init => RoundInv
<1> SUFFICES ASSUME Init PROVE CountIsArrived /\ OpenMeansAll /\ DrainsOnly
  BY DEF RoundInv
<1>1. Arrived = {} /\ Notifying = {}
  BY SafepointAssumption DEF Init, Arrived, Notifying
<1>2. \A t \in live : pc[t] = "run"
  BY SafepointAssumption DEF Init
<1> QED
  BY <1>1, <1>2 DEF Init, CountIsArrived, OpenMeansAll, DrainsOnly

\* With the barrier open and the flag up, everybody has arrived; when the flag is
\* down again, nobody is on his way to the barrier.
LEMMA AllArrived ==
    ASSUME Opened, NEW t \in live
    PROVE  pc[t] \in {"test", "wait", "woken", "gc", "collect", "thrown"}
  BY DEF Opened, Arrived, Thrown

\* A step of one thread that stays on its side of the barrier's count, and touches
\* neither count, nor flag, nor the set of threads.
LEMMA RoundStutter ==
    ASSUME TypeOK, CountIsArrived, OpenMeansAll, DrainsOnly,
           UNCHANGED <<cnt, flag, live>>,
           Arrived' = Arrived, Thrown' = Thrown, Notifying' = Notifying,
           \A t \in live : pc'[t] = "inc" => pc[t] = "inc" /\ reg'[t] = reg[t],
           \A t \in live : pc'[t] \in {"gc", "collect"} => pc[t] \in {"gc", "collect"},
           \A t \in live : pc'[t] \in AtSafepoint => flag \/ pc[t] \in AtSafepoint,
           \A t \in live : ~flag /\ pc'[t] \in {"arrive", "inc", "notify"} => pc'[t] = pc[t]
    PROVE  CountIsArrived' /\ OpenMeansAll' /\ DrainsOnly'
<1>0. Opened' = Opened
  BY DEF Opened, ThreadNum
<1>1. CountIsArrived'
  BY <1>0 DEF CountIsArrived
<1>2. OpenMeansAll'
  BY <1>0 DEF OpenMeansAll
<1>3. DrainsOnly'
  BY DEF DrainsOnly, InRound
<1> QED
  BY <1>1, <1>2, <1>3

LEMMA RoundStep ==
    ASSUME TypeOK, CollectingUnderFlag, RoundInv, [Next]_vars
    PROVE  RoundInv'
<1> SUFFICES ASSUME ~disturbed' PROVE CountIsArrived' /\ OpenMeansAll' /\ DrainsOnly'
  BY DEF RoundInv
<1> USE DEF TypeOK, Goto, At
<1>0. ~disturbed
  BY DEF Next, Proceed, Lock, Spawn, Finish, RequestReset, RequestRaise, Poll, Arrive, Increment,
         Wait, Pass, SpuriousWake, Retest, BeginGC, SkipGC, EndGC, AbortGC, vars
<1>a. CountIsArrived /\ OpenMeansAll /\ DrainsOnly
  BY <1>0 DEF RoundInv
<1>b. /\ IsFiniteSet(live) /\ Cardinality(live) \in Nat
      /\ IsFiniteSet(Arrived) /\ Cardinality(Arrived) \in Nat
  BY LiveFinite DEF Arrived
<1>1. ASSUME NEW t \in Threads, NEW u \in Threads, Spawn(t, u)
      PROVE  CountIsArrived' /\ OpenMeansAll' /\ DrainsOnly'
  <2>1. Arrived' = Arrived /\ Notifying' = Notifying
    BY <1>1 DEF Spawn, Arrived, Notifying
  <2>3. ~Opened
    BY <1>1, AllArrived DEF Spawn
  <2>2. CountIsArrived'
    BY <1>1, <1>a, <2>1, <2>3 DEF Spawn, CountIsArrived
  <2>4. OpenMeansAll'
    BY <1>1, <1>a, <2>3 DEF Spawn, OpenMeansAll
  <2>5. ~Draining
    BY <1>1 DEF Spawn
  <2>6. DrainsOnly'
    BY <1>1, <2>5 DEF Spawn, DrainsOnly, Draining, InRound, AtSafepoint
  <2> QED
    BY <2>2, <2>4, <2>6
<1>2. ASSUME NEW t \in Threads, Finish(t)
      PROVE  CountIsArrived' /\ OpenMeansAll' /\ DrainsOnly'
  <2>1. Arrived' = Arrived /\ Thrown' = Thrown /\ Notifying' = Notifying
    BY <1>2 DEF Finish, Arrived, Thrown, Notifying
  <2> QED
    BY <1>2, <1>a, <2>1, RoundStutter DEF Finish, AtSafepoint
<1>3. ASSUME NEW t \in Threads, RequestReset(t)
      PROVE  CountIsArrived' /\ OpenMeansAll' /\ DrainsOnly'
  <2>1. \A u \in live : pc[u] \notin AtSafepoint
    BY <1>3 DEF RequestReset, InRound
  <2>2. \A u \in live : pc'[u] \notin AtSafepoint
    BY <1>3, <2>1 DEF RequestReset, AtSafepoint
  <2>3. Arrived' = {} /\ cnt' = 0
    BY <1>3, <2>2 DEF RequestReset, Arrived, AtSafepoint
  <2>4. CountIsArrived'
    BY <1>3, <2>2, <2>3, FS_EmptySet DEF RequestReset, CountIsArrived, AtSafepoint
  <2>5. OpenMeansAll' /\ DrainsOnly'
    BY <1>3, <2>2 DEF RequestReset, OpenMeansAll, DrainsOnly, InRound, AtSafepoint
  <2> QED
    BY <2>4, <2>5
<1>4. ASSUME NEW t \in Threads, RequestRaise(t)
      PROVE  CountIsArrived' /\ OpenMeansAll' /\ DrainsOnly'
  <2>1. Arrived' = Arrived /\ t \in Notifying
    BY <1>4 DEF RequestRaise, Arrived, Notifying
  <2>0. ~Opened
    BY <1>4, AllArrived DEF RequestRaise
  <2>2. CountIsArrived'
    BY <1>4, <1>a, <2>0, <2>1 DEF RequestRaise, CountIsArrived
  <2>3. \A u \in live : pc[u] \notin {"gc", "collect"}
    <3>1. CASE flag
      BY <1>a, <2>0, <3>1 DEF OpenMeansAll
    <3>2. CASE ~flag
      BY <1>4, <1>a, <3>2 DEF RequestRaise, DrainsOnly, InRound, AtSafepoint
    <3> QED
      BY <3>1, <3>2
  <2>4. OpenMeansAll' /\ DrainsOnly'
    BY <1>4, <2>3 DEF RequestRaise, OpenMeansAll, DrainsOnly
  <2> QED
    BY <2>2, <2>4
<1>5. ASSUME NEW t \in Threads, Poll(t)
      PROVE  CountIsArrived' /\ OpenMeansAll' /\ DrainsOnly'
  <2>1. Arrived' = Arrived /\ Thrown' = Thrown /\ Notifying' = Notifying
    BY <1>5 DEF Poll, Arrived, Thrown, Notifying
  <2> QED
    BY <1>5, <1>a, <2>1, RoundStutter DEF Poll, AtSafepoint
<1>6. ASSUME NEW t \in Threads, Arrive(t)
      PROVE  CountIsArrived' /\ OpenMeansAll' /\ DrainsOnly'
  <2>1. Arrived' = Arrived /\ Notifying' = Notifying
    BY <1>6 DEF Arrive, Arrived, Notifying
  <2>2. flag
    BY <1>6, <1>a DEF Arrive, DrainsOnly, InRound, AtSafepoint
  <2>0. ~Opened
    BY <1>6, AllArrived DEF Arrive
  <2>3. CountIsArrived'
    BY <1>6, <1>a, <2>0, <2>1 DEF Arrive, CountIsArrived
  <2>4. OpenMeansAll' /\ DrainsOnly'
    BY <1>6, <1>a, <2>0, <2>2 DEF Arrive, OpenMeansAll, DrainsOnly
  <2> QED
    BY <2>3, <2>4
<1>7. ASSUME NEW t \in Threads, Increment(t)
      PROVE  CountIsArrived' /\ OpenMeansAll' /\ DrainsOnly'
  <2>1. flag
    BY <1>7, <1>a DEF Increment, DrainsOnly, InRound, AtSafepoint
  <2>2. Arrived' = Arrived \cup {t} /\ t \notin Arrived /\ t \in live
    BY <1>7 DEF Increment, Arrived
  <2>3. Cardinality(Arrived') = Cardinality(Arrived) + 1
    BY <1>b, <2>2, FS_AddElement
  <2>0. ~Opened
    BY <1>7, AllArrived DEF Increment
  <2>4. cnt' = Cardinality(Arrived')
    BY <1>7, <1>a, <2>0, <2>1, <2>2, <2>3 DEF Increment, CountIsArrived
  <2>5. \A u \in live : pc'[u] # "inc"
    BY <1>7 DEF Increment
  <2>6. CountIsArrived'
    BY <1>7, <2>4, <2>5 DEF Increment, CountIsArrived
  <2>7. \A u \in live : pc[u] \notin {"gc", "collect"}
    BY <1>a, <2>0, <2>1 DEF OpenMeansAll
  <2>8. OpenMeansAll' /\ DrainsOnly'
    BY <1>7, <2>1, <2>7 DEF Increment, OpenMeansAll, DrainsOnly
  <2> QED
    BY <2>6, <2>8
<1>8. ASSUME NEW t \in Threads, Pass(t)
      PROVE  CountIsArrived' /\ OpenMeansAll' /\ DrainsOnly'
  <2>1. /\ Arrived' = Arrived /\ Thrown' = Thrown /\ Notifying' = Notifying
        /\ UNCHANGED <<cnt, live, flag>>
    BY <1>8 DEF Pass, Arrived, Thrown, Notifying
  <2>0. Opened' = Opened
    BY <2>1 DEF Opened, ThreadNum
  <2>2. CountIsArrived'
    BY <1>8, <1>a, <2>0, <2>1 DEF Pass, CountIsArrived
  <2>3. ASSUME flag PROVE Opened
    <3>1. CASE cnt = Cardinality(Arrived)
      <4>1. Cardinality(live) = Cardinality(Arrived) /\ cnt = ThreadNum
        BY <1>8, <3>1 DEF Pass, ThreadNum
      <4>2. Arrived \in SUBSET live /\ Thrown \subseteq live
        BY DEF Arrived, Thrown
      <4>3. Arrived = live
        BY <1>b, <4>1, <4>2, FS_Subset
      <4> QED
        BY <4>1, <4>2, <4>3 DEF Opened
    <3> QED
      BY <1>a, <2>3, <3>1 DEF CountIsArrived
  <2>4. OpenMeansAll'
    BY <2>0, <2>1, <2>3 DEF OpenMeansAll
  <2>5. DrainsOnly'
    BY <1>8, <1>a DEF Pass, DrainsOnly, InRound, AtSafepoint
  <2> QED
    BY <2>2, <2>4, <2>5
<1>9. ASSUME NEW t \in Threads, Wait(t) \/ SpuriousWake(t) \/ Retest(t) \/ BeginGC(t)
      PROVE  CountIsArrived' /\ OpenMeansAll' /\ DrainsOnly'
  <2>1. Arrived' = Arrived /\ Thrown' = Thrown /\ Notifying' = Notifying
    BY <1>9 DEF Wait, SpuriousWake, Retest, BeginGC, Arrived, Thrown, Notifying
  <2> QED
    BY <1>9, <1>a, <2>1, RoundStutter DEF Wait, SpuriousWake, Retest, BeginGC, AtSafepoint
<1>10. ASSUME NEW t \in Threads, SkipGC(t)
       PROVE  CountIsArrived' /\ OpenMeansAll' /\ DrainsOnly'
  <2>1. ~flag /\ Notifying' = Notifying
    BY <1>10 DEF SkipGC, Notifying
  <2>2. Notifying = {}
    BY <1>10, <1>a DEF SkipGC, DrainsOnly, InRound, Notifying, AtSafepoint
  <2>3. CountIsArrived'
    BY <1>10, <1>a, <2>1, <2>2 DEF SkipGC, CountIsArrived
  <2>4. OpenMeansAll' /\ DrainsOnly'
    BY <1>10, <1>a DEF SkipGC, OpenMeansAll, DrainsOnly, InRound, AtSafepoint
  <2> QED
    BY <2>3, <2>4
<1>11. ASSUME NEW t \in Threads, EndGC(t)
       PROVE  CountIsArrived' /\ OpenMeansAll' /\ DrainsOnly'
  <2>1. flag
    BY <1>11 DEF EndGC, CollectingUnderFlag
  <2>2. Opened
    BY <1>11, <1>a, <2>1 DEF EndGC, OpenMeansAll
  <2>3. \A u \in live : pc[u] \in {"test", "wait", "woken", "gc", "collect", "thrown"}
    BY <2>2, AllArrived
  <2>4. \A u \in live : pc'[u] \in {"test", "wait", "woken", "gc", "collect", "thrown", "run"}
    BY <1>11, <2>3 DEF EndGC
  <2>5. Notifying' = {}
    BY <1>11, <2>4 DEF EndGC, Notifying
  <2>6. CountIsArrived'
    BY <1>11, <2>4, <2>5 DEF EndGC, CountIsArrived
  <2>7. OpenMeansAll' /\ DrainsOnly'
    BY <1>11, <2>4 DEF EndGC, OpenMeansAll, DrainsOnly
  <2> QED
    BY <2>6, <2>7
<1>12. ASSUME NEW t \in Threads, AbortGC(t)
       PROVE  CountIsArrived' /\ OpenMeansAll' /\ DrainsOnly'
  <2>1. flag /\ flag' /\ cnt' = cnt /\ live' = live
    BY <1>12 DEF AbortGC, CollectingUnderFlag
  <2>2. Opened
    BY <1>12, <1>a, <2>1 DEF AbortGC, OpenMeansAll
  <2>3. Arrived' = Arrived \ {t} /\ Thrown' = Thrown \cup {t} /\ t \in live
    BY <1>12 DEF AbortGC, Arrived, Thrown
  <2>4. Opened'
    BY <2>1, <2>2, <2>3 DEF Opened, ThreadNum
  <2>5. CountIsArrived'
    BY <1>12, <1>a, <2>1, <2>4 DEF AbortGC, CountIsArrived
  <2>6. OpenMeansAll' /\ DrainsOnly'
    BY <2>1, <2>4 DEF OpenMeansAll, DrainsOnly
  <2> QED
    BY <2>5, <2>6
<1>13. ASSUME UNCHANGED vars
       PROVE  CountIsArrived' /\ OpenMeansAll' /\ DrainsOnly'
  <2>1. Arrived' = Arrived /\ Thrown' = Thrown /\ Notifying' = Notifying
    BY <1>13 DEF vars, Arrived, Thrown, Notifying
  <2> QED
    BY <1>13, <1>a, <2>1, RoundStutter DEF vars
<1> QED
  BY <1>1, <1>2, <1>3, <1>4, <1>5, <1>6, <1>7, <1>8, <1>9, <1>10, <1>11, <1>12, <1>13
     DEF Next, Proceed, Lock

\* While a thread collects, every thread is at the safepoint or was ended by an
\* exception of gc(), provided no request
\* reset the count in the middle of a round and no thread was started while
\* others were still on their way out.
THEOREM WorldStoppedHolds == Spec => []WorldStopped
<1>1. CollectingUnderFlag /\ RoundInv => WorldStopped
  <2> SUFFICES ASSUME CollectingUnderFlag, RoundInv, ~disturbed,
                      NEW t \in live, pc[t] = "collect"
               PROVE  Stopped
    BY DEF WorldStopped
  <2>1. Opened
    BY DEF CollectingUnderFlag, RoundInv, OpenMeansAll
  <2> QED
    BY <2>1, AllArrived DEF Stopped, AtSafepoint
<1> QED
  BY <1>1, TypeInit, TypeStep, AccountInit, FlagStep, RoundInit, RoundStep, PTL DEF Spec
=============================================================================
