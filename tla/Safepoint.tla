------------------------------ MODULE Safepoint -----------------------------
(***************************************************************************)
(* How the collector stops the world (gc/GC.h notifyGC, shallGC; gc/GC.cpp *)
(* stopTheWorld, gc; the GC_SAFE_POINT blocks of interpreter/Interpreter.  *)
(* cpp).  An allocation that crosses the threshold raises a flag; a thread *)
(* that sees the flag at the end of a call goes to a barrier that opens    *)
(* when as many threads have arrived as the executor has threads; whoever  *)
(* is first through gc()'s mutex collects, the others find the flag down - *)
(* or still up, if an exception of the static task (GCPool, MarkSweep) has *)
(* taken the collecting thread out of gc().                                *)
(*                                                                         *)
(* notifyGC takes no lock, so its two stores are two actions, and the      *)
(* increment under safepointWaitMtx, which races with the store, is a load *)
(* and a store.                                                            *)
(***************************************************************************)
EXTENDS Integers, FiniteSets

CONSTANTS Threads,      \* executor threads that may exist
          Main,         \* the one executor.initialize(1) starts
          NoThread,
          MaxRequests   \* BOUND: calls of notifyGC

ASSUME SafepointAssumption ==
    /\ IsFiniteSet(Threads)
    /\ Main \in Threads
    /\ NoThread \notin Threads
    /\ MaxRequests \in Nat

VARIABLES
    flag,           \* overMemoryThreshold
    cnt,            \* safepointWaitCnt
    spMtx,          \* holder of safepointWaitMtx
    gcMtx,          \* holder of overMemoryThresholdMtx
    live,           \* the executor's threads (they are never removed)
    pc,             \* where a thread is
    reg,            \* reg[t]: safepointWaitCnt as loaded by the increment of t
    requests,       \* calls of notifyGC so far
    collections,    \* collections done so far
    disturbed       \* history: the count or the number of threads was changed
                    \* under the feet of threads that depend on it

vars == <<flag, cnt, spMtx, gcMtx, live, pc, reg, requests, collections, disturbed>>

\* Mutant of ThreadNum: the collecting thread does not count itself.
ThreadNumOthers == Cardinality(live) - 1

ThreadNum == Cardinality(live)      \* YVM::executor.getThreadNum()

\* Running Java code; between the stores of notifyGC; task over; task ended by an
\* exception of gc().
Outside == {"run", "notify", "done", "thrown"}
\* From the poll that saw the flag to the return to Java code.
AtSafepoint == {"arrive", "inc", "test", "wait", "woken", "gc", "collect"}

Init == /\ flag = FALSE
        /\ cnt = 0
        /\ spMtx = NoThread
        /\ gcMtx = NoThread
        /\ live = {Main}
        /\ pc = [t \in Threads |-> "run"]
        /\ reg = [t \in Threads |-> 0]
        /\ requests = 0
        /\ collections = 0
        /\ disturbed = FALSE

Goto(t, l) == pc' = [pc EXCEPT ![t] = l]
At(t, l)   == t \in live /\ pc[t] = l

\* Some thread is on its way through the safepoint ...
InRound == \E u \in live : pc[u] \in AtSafepoint
\* ... after the collection of the round is over.
Draining == InRound /\ ~flag

-----------------------------------------------------------------------------
\* Java code that starts a thread: createThread and the task for it.
Spawn(t, u) ==
    /\ At(t, "run")
    /\ u \notin live
    /\ live' = live \cup {u}
    /\ disturbed' = (disturbed \/ Draining)
    /\ UNCHANGED <<flag, cnt, spMtx, gcMtx, pc, reg, requests, collections>>

\* A thread's task is over: it waits for another and polls no more.
Finish(t) ==
    /\ At(t, "run")
    /\ Goto(t, "done")
    /\ UNCHANGED <<flag, cnt, spMtx, gcMtx, live, reg, requests, collections, disturbed>>

\* notifyGC: safepointWaitCnt = 0 ...
RequestReset(t) ==
    /\ At(t, "run")
    /\ requests < MaxRequests
    /\ requests' = requests + 1
    /\ cnt' = 0
    /\ disturbed' = (disturbed \/ InRound)
    /\ Goto(t, "notify")
    /\ UNCHANGED <<flag, spMtx, gcMtx, live, reg, collections>>

\* ... and overMemoryThreshold = true.
RequestRaise(t) ==
    /\ At(t, "notify")
    /\ flag' = TRUE
    /\ Goto(t, "run")
    /\ UNCHANGED <<cnt, spMtx, gcMtx, live, reg, requests, collections, disturbed>>

\* GC_SAFE_POINT: shallGC() is true.
Poll(t) ==
    /\ At(t, "run")
    /\ flag
    /\ Goto(t, "arrive")
    /\ UNCHANGED <<flag, cnt, spMtx, gcMtx, live, reg, requests, collections, disturbed>>

\* stopTheWorld: lock, load the count ...
Arrive(t) ==
    /\ At(t, "arrive")
    /\ spMtx = NoThread
    /\ spMtx' = t
    /\ reg' = [reg EXCEPT ![t] = cnt]
    /\ Goto(t, "inc")
    /\ UNCHANGED <<flag, cnt, gcMtx, live, requests, collections, disturbed>>

\* ... and store it incremented.
Increment(t) ==
    /\ At(t, "inc")
    /\ cnt' = reg[t] + 1
    /\ Goto(t, "test")
    /\ UNCHANGED <<flag, spMtx, gcMtx, live, reg, requests, collections, disturbed>>

\* Mutant of Wait: the mutex is not released.
WaitHolding(t) ==
    /\ At(t, "test")
    /\ cnt # ThreadNum
    /\ Goto(t, "wait")
    /\ UNCHANGED <<flag, cnt, spMtx, gcMtx, live, reg, requests, collections, disturbed>>

\* The loop's test fails: wait, releasing the mutex.
Wait(t) ==
    /\ At(t, "test")
    /\ cnt # ThreadNum
    /\ spMtx' = NoThread
    /\ Goto(t, "wait")
    /\ UNCHANGED <<flag, cnt, gcMtx, live, reg, requests, collections, disturbed>>

\* Mutant of Pass: nobody is notified.
PassSilently(t) ==
    /\ At(t, "test")
    /\ cnt = ThreadNum
    /\ spMtx' = NoThread
    /\ Goto(t, "gc")
    /\ UNCHANGED <<flag, cnt, gcMtx, live, reg, requests, collections, disturbed>>

\* The loop's test succeeds: notify_all, unlock, go on to gc().
Pass(t) ==
    /\ At(t, "test")
    /\ cnt = ThreadNum
    /\ spMtx' = NoThread
    /\ pc' = [u \in Threads |-> IF u = t THEN "gc"
                                ELSE IF pc[u] = "wait" THEN "woken" ELSE pc[u]]
    /\ UNCHANGED <<flag, cnt, gcMtx, live, reg, requests, collections, disturbed>>

SpuriousWake(t) ==
    /\ At(t, "wait")
    /\ Goto(t, "woken")
    /\ UNCHANGED <<flag, cnt, spMtx, gcMtx, live, reg, requests, collections, disturbed>>

\* Woken: take the mutex back and test again.
Retest(t) ==
    /\ At(t, "woken")
    /\ spMtx = NoThread
    /\ spMtx' = t
    /\ Goto(t, "test")
    /\ UNCHANGED <<flag, cnt, gcMtx, live, reg, requests, collections, disturbed>>

\* Mutant of BeginGC: the flag is not tested again under the mutex.
BeginGCUnchecked(t) ==
    /\ At(t, "gc")
    /\ gcMtx = NoThread
    /\ gcMtx' = t
    /\ Goto(t, "collect")
    /\ UNCHANGED <<flag, cnt, spMtx, live, reg, requests, collections, disturbed>>

\* gc(): the flag is up, collect.
BeginGC(t) ==
    /\ At(t, "gc")
    /\ gcMtx = NoThread
    /\ flag
    /\ gcMtx' = t
    /\ Goto(t, "collect")
    /\ UNCHANGED <<flag, cnt, spMtx, live, reg, requests, collections, disturbed>>

\* gc(): somebody has collected already.
SkipGC(t) ==
    /\ At(t, "gc")
    /\ gcMtx = NoThread
    /\ ~flag
    /\ Goto(t, "run")
    /\ UNCHANGED <<flag, cnt, spMtx, gcMtx, live, reg, requests, collections, disturbed>>

\* gc(): markAndSweep is done; overMemoryThreshold = false, unlock.
EndGC(t) ==
    /\ At(t, "collect")
    /\ flag' = FALSE
    /\ gcMtx' = NoThread
    /\ collections' = collections + 1
    /\ Goto(t, "run")
    /\ UNCHANGED <<cnt, spMtx, live, reg, requests, disturbed>>

\* gc(): markAndSweep throws.  The mutex is unlocked, the flag stays up, and the
\* exception ends the thread's task.
AbortGC(t) ==
    /\ At(t, "collect")
    /\ gcMtx' = NoThread
    /\ Goto(t, "thrown")
    /\ UNCHANGED <<flag, cnt, spMtx, live, reg, requests, collections, disturbed>>

\* What a thread does by itself, and what it needs a mutex for.
Proceed(t) == \/ RequestRaise(t)
              \/ Poll(t) \/ Increment(t) \/ Wait(t) \/ Pass(t) \/ EndGC(t)
Lock(t)    == Arrive(t) \/ Retest(t) \/ BeginGC(t) \/ SkipGC(t)

Next == \E t \in Threads :
           \/ \E u \in Threads : Spawn(t, u)
           \/ Finish(t)
           \/ RequestReset(t)
           \/ SpuriousWake(t)
           \/ AbortGC(t)
           \/ Proceed(t)
           \/ Lock(t)

Spec == Init /\ [][Next]_vars

\* The scheduler runs every thread; Java code that runs reaches a safepoint
\* (there is one at the end of every call); a mutex that is free again and again
\* is granted in the end.
Fairness == \A t \in Threads : WF_vars(Proceed(t)) /\ SF_vars(Lock(t))

FairSpec == Spec /\ Fairness

-----------------------------------------------------------------------------
\* Types; a mutex is held exactly by the thread that is in its region.
TypeOK == /\ flag \in BOOLEAN
          /\ cnt \in Nat
          /\ live \subseteq Threads
          /\ pc \in [Threads -> Outside \cup AtSafepoint]
          /\ reg \in [Threads -> Nat]
          /\ requests \in Nat
          /\ collections \in Nat
          /\ disturbed \in BOOLEAN
          /\ \A t \in Threads : t \notin live => pc[t] = "run"
          /\ \A t \in Threads : spMtx = t <=> pc[t] \in {"inc", "test"}
          /\ \A t \in Threads : gcMtx = t <=> pc[t] = "collect"
          /\ {spMtx, gcMtx} \subseteq Threads \cup {NoThread}

Stopped == \A t \in live : pc[t] \in AtSafepoint \cup {"thrown"}

\* The world is stopped while a thread collects, also one that takes over from a
\* thread that gc() threw an exception at (GC.cpp:212), provided no notifyGC reset the
\* count while a thread was on its way through the safepoint and no thread was
\* started while others were still on their way out.
WorldStopped ==
    ~disturbed => ((\E t \in live : pc[t] = "collect") => Stopped)

\* However many threads go through gc(), a request is collected at most once.
OneCollectionPerRequest == collections <= requests

\* A thread at the safepoint goes back to Java code, provided no round is
\* disturbed and no task ends.
EverybodyResumes ==
    [](~disturbed /\ \A t \in live : pc[t] \notin {"done", "thrown"}) =>
        \A t \in Threads : (pc[t] \in AtSafepoint) ~> (pc[t] = "run")
=============================================================================
