---------------------------- MODULE ObjectMonitor ---------------------------
(***************************************************************************)
(* One ObjectMonitor (runtime/ObjectMonitor.cpp) and the threads that run  *)
(* balanced synchronized blocks on it.                                     *)
(*                                                                         *)
(* enter and exit hold internalMtx from the first line to the last, except *)
(* inside cv.wait: each is one action up to the wait, and the wait itself  *)
(* is a sleep (asleep), a wake-up (woken) and a re-check under the mutex.  *)
(***************************************************************************)
EXTENDS MonitorState, FiniteSets

CONSTANTS Threads,      \* the native threads that use the monitor
          MaxDepth,     \* BOUND: nesting of blocks in one thread
          MaxEnters     \* BOUND: monitorenter opcodes one thread runs

ASSUME MonitorAssumption ==
    /\ NoThread \notin Threads
    /\ MaxDepth \in Nat \ {0}
    /\ MaxEnters \in Nat

VARIABLES
    mon,        \* monitorCnt, owner, entered
    asleep,     \* threads blocked in cv.wait
    woken,      \* threads that left the wait and have not re-checked yet
    depth,      \* depth[t]: blocks on this monitor t is inside
    enters,     \* enters[t]: enter calls so far (for the bound)
    handovers,  \* history: entries granted on the wait branch of enter
    failed      \* threads that ended in "illegal monitor state"

vars == <<mon, asleep, woken, depth, enters, handovers, failed>>

Init == /\ mon = FreshMonitor
        /\ asleep = {}
        /\ woken = {}
        /\ depth = [t \in Threads |-> 0]
        /\ enters = [t \in Threads |-> 0]
        /\ handovers = 0
        /\ failed = {}

Running(t) == t \notin asleep \cup woken \cup failed

\* A running thread reaches a monitorenter.
CallsEnter(t) == /\ Running(t)
                 /\ depth[t] < MaxDepth
                 /\ enters[t] < MaxEnters
                 /\ enters' = [enters EXCEPT ![t] = @ + 1]

EnterFree(t) == /\ CallsEnter(t)
                /\ Free(mon)
                /\ mon' = Taken(mon, t)
                /\ depth' = [depth EXCEPT ![t] = @ + 1]
                /\ UNCHANGED <<asleep, woken, handovers, failed>>

EnterOwned(t) == /\ CallsEnter(t)
                 /\ ~Free(mon)
                 /\ OwnedBy(mon, t)
                 /\ mon' = Retaken(mon)
                 /\ depth' = [depth EXCEPT ![t] = @ + 1]
                 /\ UNCHANGED <<asleep, woken, handovers, failed>>

EnterWait(t) == /\ CallsEnter(t)
                /\ ~Free(mon)
                /\ ~OwnedBy(mon, t)
                /\ asleep' = asleep \cup {t}
                /\ UNCHANGED <<mon, woken, depth, handovers, failed>>

\* cv.wait may return without a notification.
SpuriousWake(t) == /\ t \in asleep
                   /\ asleep' = asleep \ {t}
                   /\ woken' = woken \cup {t}
                   /\ UNCHANGED <<mon, depth, enters, handovers, failed>>

\* Back under internalMtx the predicate is false: sleep again.
RecheckBusy(t) == /\ t \in woken
                  /\ ~Free(mon)
                  /\ woken' = woken \ {t}
                  /\ asleep' = asleep \cup {t}
                  /\ UNCHANGED <<mon, depth, enters, handovers, failed>>

\* Back under internalMtx the predicate holds: the thread is inside.
RecheckFree(t) == /\ t \in woken
                  /\ Free(mon)
                  /\ mon' = Admitted(mon)
                  /\ woken' = woken \ {t}
                  /\ depth' = [depth EXCEPT ![t] = @ + 1]
                  /\ handovers' = handovers + 1
                  /\ UNCHANGED <<asleep, enters, failed>>

\* Mutant of NotifyOne: the woken thread stays in the queue of the sleepers.
NotifyOneKeepsSleeper == \/ /\ asleep = {}
                            /\ UNCHANGED <<asleep, woken>>
                         \/ \E w \in asleep : /\ woken' = woken \cup {w}
                                              /\ UNCHANGED asleep

\* notify_one: one sleeping thread wakes, if there is one.
NotifyOne == \/ /\ asleep = {}
                /\ UNCHANGED <<asleep, woken>>
             \/ \E w \in asleep : /\ asleep' = asleep \ {w}
                                  /\ woken' = woken \cup {w}

Exit(t) == /\ Running(t)
           /\ depth[t] > 0
           /\ mon.entered
           /\ mon' = Left(mon)
           /\ depth' = [depth EXCEPT ![t] = @ - 1]
           /\ IF Notifies(mon) THEN NotifyOne ELSE UNCHANGED <<asleep, woken>>
           /\ UNCHANGED <<enters, handovers, failed>>

\* exit on a monitor nobody has entered yet (monitorexit creates one when it
\* does not find the object's): the exception ends the thread.
ExitUnentered(t) == /\ Running(t)
                    /\ depth[t] = 0
                    /\ ~mon.entered
                    /\ failed' = failed \cup {t}
                    /\ UNCHANGED <<mon, asleep, woken, depth, enters, handovers>>

Enter(t)   == EnterFree(t) \/ EnterOwned(t) \/ EnterWait(t)
Recheck(t) == RecheckBusy(t) \/ RecheckFree(t)

Next == \E t \in Threads : \/ Enter(t)
                           \/ SpuriousWake(t)
                           \/ Recheck(t)
                           \/ Exit(t)
                           \/ ExitUnentered(t)

Spec == Init /\ [][Next]_vars

\* The body of a block ends, and the scheduler runs a thread that can run.
Fairness == \A t \in Threads : WF_vars(Exit(t)) /\ WF_vars(Recheck(t))

FairSpec == Spec /\ Fairness

-----------------------------------------------------------------------------
Monitors == [cnt : Int, owner : Threads \cup {NoThread}, entered : BOOLEAN]

\* Types; a thread is asleep, woken or failed but never two of them.
TypeOK == /\ mon \in Monitors
          /\ asleep \subseteq Threads
          /\ woken \subseteq Threads
          /\ failed \subseteq Threads
          /\ asleep \cap woken = {}
          /\ failed \cap (asleep \cup woken) = {}
          /\ depth \in [Threads -> Nat]
          /\ enters \in [Threads -> Nat]
          /\ handovers \in Nat

Inside == {t \in Threads : depth[t] > 0}

\* Two threads are never inside blocks on the same object (README, "Synchronized
\* block with object lock").
MutualExclusion == Cardinality(Inside) <= 1

\* Until the first entry granted on the wait branch the monitor is a correct
\* reentrant lock: only the recorded owner is inside and monitorCnt is its
\* nesting depth, so exit frees the monitor exactly at the outermost block.
ExclusiveUntilHandover ==
    handovers = 0 =>
        \/ mon.cnt = 0 /\ Inside = {}
        \/ mon.cnt > 0 /\ Inside = {mon.owner} /\ depth[mon.owner] = mon.cnt

\* The blocks threads are inside, each known by its thread and its nesting.
OpenBlocks == UNION {{t} \X (1..depth[t]) : t \in Threads}

\* The books of the monitor: monitorCnt is short of the blocks people are inside
\* by one for every entry the wait branch ever granted, because enter does not
\* count that entry while the matching exit does.
CntAccounts == mon.cnt + handovers = Cardinality(OpenBlocks)

Lock == INSTANCE ReentrantLock

\* Refinement: up to and including the first hand-over every step is a step of
\* the reentrant lock a Java monitor promises, or leaves the lock alone.
LockUntilHandover == [][handovers = 0 => Lock!Next]_depth

\* exit does not lose the wake-up: while no hand-over was made, a thread waiting
\* in enter leads to a hand-over once the blocks end.
WaiterGetsIn == (asleep \cup woken # {}) ~> (handovers > 0)
=============================================================================
