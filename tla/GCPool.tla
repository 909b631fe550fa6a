------------------------------- MODULE GCPool -------------------------------
(***************************************************************************)
(* The collector's worker pool (gc/GC.h GCThreadPool, gc/GC.cpp            *)
(* runPendingWork and finalize, gc/Concurrent.hpp submit) and the thread   *)
(* that drives a collection through it (gc/GC.cpp gc, markAndSweep,        *)
(* sweep).  What the tasks do is in MarkSweep.                             *)
(*                                                                         *)
(* The workers test `work` and wait under sleepMtx; signalWork, signalWait *)
(* and finalize store and notify without it.                               *)
(***************************************************************************)
EXTENDS Naturals, Sequences, SequencesExt

CONSTANTS Workers,          \* hardware_concurrency() many
          NoWorker,
          NoTask,
          MaxCollections    \* BOUND: calls of gc() that find the flag up

\* Mutant of MarkTasks: the static fields first.
MarkTasksStaticFirst == <<"static", "stack", "local">>

\* The tasks of one collection, in the order of submission: two for each frame of
\* the collecting thread (one frame here), one for the static fields ...
MarkTasks  == <<"stack", "local", "static">>
\* ... and, when those are done, one for each container.
SweepTasks == <<"objects", "arrays", "monitors">>

TaskNames == Range(MarkTasks) \cup Range(SweepTasks)
Tasks     == [round : 1..MaxCollections, name : TaskNames]

ASSUME GCPoolAssumption ==
    /\ NoWorker \notin Workers
    /\ NoTask \notin Tasks
    /\ MaxCollections \in Nat

VARIABLES
    work, done,     \* the pool's flags
    sleepMtx,       \* the worker that holds it
    queue,          \* taskQueue
    ready,          \* tasks whose future is ready
    wpc,            \* where a worker is
    cur,            \* cur[w]: the task worker w runs
    cpc,            \* where the collecting thread is
    todo,           \* tasks it has still to submit
    round,          \* collections begun
    failed,         \* rounds whose static task threw bad_typeid
    fpc             \* where terminateGC is

vars == <<work, done, sleepMtx, queue, ready, wpc, cur, cpc, todo, round, failed, fpc>>
workerVars == <<sleepMtx, wpc, cur>>
callerVars == <<cpc, todo, round>>

Init == /\ work = FALSE /\ done = FALSE
        /\ sleepMtx = NoWorker
        /\ queue = <<>>
        /\ ready = {}
        /\ wpc = [w \in Workers |-> "loop"]
        /\ cur = [w \in Workers |-> NoTask]
        /\ cpc = "idle"
        /\ todo = <<>>
        /\ round = 0
        /\ failed = {}
        /\ fpc = "work"

WGoto(w, l) == wpc' = [wpc EXCEPT ![w] = l]

\* sleepCnd.notify_all(): every worker that is in the wait leaves it.
NotifyAll == wpc' = [w \in Workers |-> IF wpc[w] = "asleep" THEN "woken" ELSE wpc[w]]

-----------------------------------------------------------------------------
\* while (!done)
WorkerLoop(w) ==
    /\ wpc[w] = "loop"
    /\ WGoto(w, IF done THEN "exited" ELSE "lock")
    /\ UNCHANGED <<work, done, sleepMtx, queue, ready, cur, callerVars, failed, fpc>>

\* unique_lock(sleepMtx), on entry and on the return from wait.
WorkerLock(w) ==
    /\ wpc[w] \in {"lock", "woken"}
    /\ sleepMtx = NoWorker
    /\ sleepMtx' = w
    /\ WGoto(w, "test")
    /\ UNCHANGED <<work, done, queue, ready, cur, callerVars, failed, fpc>>

\* while (work != true)
WorkerTest(w) ==
    /\ wpc[w] = "test"
    /\ WGoto(w, IF work THEN "take" ELSE "drowsy")
    /\ UNCHANGED <<work, done, sleepMtx, queue, ready, cur, callerVars, failed, fpc>>

\* sleepCnd.wait(lock): the test was some time ago.
WorkerSleep(w) ==
    /\ wpc[w] = "drowsy"
    /\ WGoto(w, "asleep")
    /\ sleepMtx' = NoWorker
    /\ UNCHANGED <<work, done, queue, ready, cur, callerVars, failed, fpc>>

\* Mutant of WorkerTake: sleepMtx is released before the task runs.
WorkerTakeUnlocked(w) ==
    /\ wpc[w] = "take"
    /\ queue # <<>>
    /\ cur' = [cur EXCEPT ![w] = Head(queue)]
    /\ queue' = Tail(queue)
    /\ WGoto(w, "run")
    /\ sleepMtx' = NoWorker
    /\ UNCHANGED <<work, done, ready, callerVars, failed, fpc>>

\* Take a task, under taskQueueMtx; sleepMtx stays held while it runs.
WorkerTake(w) ==
    /\ wpc[w] = "take"
    /\ queue # <<>>
    /\ cur' = [cur EXCEPT ![w] = Head(queue)]
    /\ queue' = Tail(queue)
    /\ WGoto(w, "run")
    /\ UNCHANGED <<work, done, sleepMtx, ready, callerVars, failed, fpc>>

\* Mutant of WorkerFindsNone: sleepMtx stays locked.
WorkerFindsNoneLocked(w) ==
    /\ wpc[w] = "take"
    /\ queue = <<>>
    /\ WGoto(w, "loop")
    /\ UNCHANGED <<work, done, sleepMtx, queue, ready, cur, callerVars, failed, fpc>>

\* The queue is empty: go round again.
WorkerFindsNone(w) ==
    /\ wpc[w] = "take"
    /\ queue = <<>>
    /\ WGoto(w, "loop")
    /\ sleepMtx' = NoWorker
    /\ UNCHANGED <<work, done, queue, ready, cur, callerVars, failed, fpc>>

\* task() returns; the packaged_task keeps an exception for its future.  The
\* static task throws bad_typeid on a static variable that is null.
WorkerFinish(w) ==
    /\ wpc[w] = "run"
    /\ ready' = ready \cup {cur[w]}
    /\ failed' \in {failed} \cup
                   (IF cur[w].name = "static" THEN {failed \cup {cur[w].round}} ELSE {})
    /\ cur' = [cur EXCEPT ![w] = NoTask]
    /\ WGoto(w, "loop")
    /\ sleepMtx' = NoWorker
    /\ UNCHANGED <<work, done, queue, callerVars, fpc>>

-----------------------------------------------------------------------------
CGoto(l) == cpc' = l

Task(name) == [round |-> round, name |-> name]
AllReady(names) == \A name \in Range(names) : Task(name) \in ready

\* gc(): the flag is up; signalWork stores work = true ...
BeginCollection ==
    /\ cpc = "idle"
    /\ round < MaxCollections
    /\ work' = TRUE
    /\ round' = round + 1
    /\ CGoto("notify")
    /\ UNCHANGED <<done, queue, ready, workerVars, todo, failed, fpc>>

\* Mutant of SignalNotify: nobody is notified.
SignalSilently ==
    /\ cpc = "notify"
    /\ todo' = MarkTasks
    /\ CGoto("mark")
    /\ UNCHANGED <<work, done, queue, ready, workerVars, round, failed, fpc>>

\* ... and notifies.
SignalNotify ==
    /\ cpc = "notify"
    /\ NotifyAll
    /\ todo' = MarkTasks
    /\ CGoto("mark")
    /\ UNCHANGED <<work, done, sleepMtx, queue, ready, cur, round, failed, fpc>>

\* submit: append one task under taskQueueMtx.
SubmitNext ==
    /\ cpc \in {"mark", "sweep"}
    /\ todo # <<>>
    /\ queue' = Append(queue, Task(Head(todo)))
    /\ todo' = Tail(todo)
    /\ UNCHANGED <<work, done, ready, workerVars, cpc, round, failed, fpc>>

\* staticFieldsFuture.get() rethrows: gc() is left at once, with work up and the
\* other futures unread.
StaticThrows ==
    /\ cpc = "mark" /\ todo = <<>>
    /\ Task("static") \in ready
    /\ round \in failed
    /\ CGoto("idle")
    /\ UNCHANGED <<work, done, queue, ready, workerVars, todo, round, failed, fpc>>

\* The static, stack and local futures are ready: sweep.
MarkingDone ==
    /\ cpc = "mark" /\ todo = <<>>
    /\ AllReady(MarkTasks)
    /\ round \notin failed
    /\ todo' = SweepTasks
    /\ CGoto("sweep")
    /\ UNCHANGED <<work, done, queue, ready, workerVars, round, failed, fpc>>

\* The sweep futures are ready: clear the bitmaps, lower the flag, signalWait.
SweepingDone ==
    /\ cpc = "sweep" /\ todo = <<>>
    /\ AllReady(SweepTasks)
    /\ work' = FALSE
    /\ CGoto("idle")
    /\ UNCHANGED <<done, queue, ready, workerVars, todo, round, failed, fpc>>

Caller == \/ BeginCollection \/ SignalNotify \/ SubmitNext
          \/ StaticThrows \/ MarkingDone \/ SweepingDone

\* finalize (terminateGC at the end of callMain): two stores and a notify.
FinalizeWork ==
    /\ fpc = "work" /\ work' = TRUE /\ fpc' = "done"
    /\ UNCHANGED <<done, queue, ready, workerVars, callerVars, failed>>

FinalizeDone ==
    /\ fpc = "done" /\ done' = TRUE /\ fpc' = "notify"
    /\ UNCHANGED <<work, queue, ready, workerVars, callerVars, failed>>

FinalizeNotify ==
    /\ fpc = "notify" /\ NotifyAll /\ fpc' = "over"
    /\ UNCHANGED <<work, done, sleepMtx, cur, queue, ready, callerVars, failed>>

SpuriousWake(w) ==
    /\ wpc[w] = "asleep"
    /\ WGoto(w, "woken")
    /\ UNCHANGED <<work, done, sleepMtx, queue, ready, cur, callerVars, failed, fpc>>

Worker(w) == \/ WorkerLoop(w) \/ WorkerTest(w) \/ WorkerSleep(w)
             \/ WorkerTake(w) \/ WorkerFindsNone(w) \/ WorkerFinish(w)

Next == \/ \E w \in Workers : Worker(w) \/ WorkerLock(w) \/ SpuriousWake(w)
        \/ Caller
        \/ FinalizeWork \/ FinalizeDone \/ FinalizeNotify

Spec == Init /\ [][Next]_vars

\* The scheduler runs the workers and the collecting thread, a task ends, and a
\* worker that keeps asking for sleepMtx gets it although the others spin on it.
\* Nothing says that the program ends: finalize has no fairness.
Fairness == /\ \A w \in Workers : WF_vars(Worker(w)) /\ SF_vars(WorkerLock(w))
            /\ WF_vars(cpc # "idle" /\ Caller)

FairSpec == Spec /\ Fairness

-----------------------------------------------------------------------------
\* Types; sleepMtx is held exactly by the worker that is in its region.
TypeOK == /\ {work, done} \subseteq BOOLEAN
          /\ queue \in Seq(Tasks)
          /\ ready \subseteq Tasks
          /\ wpc \in [Workers -> {"loop", "lock", "test", "drowsy", "asleep", "woken",
                                  "take", "run", "exited"}]
          /\ \A w \in Workers : sleepMtx = w <=> wpc[w] \in {"test", "drowsy", "take", "run"}
          /\ cur \in [Workers -> Tasks \cup {NoTask}]
          /\ \A w \in Workers : IF wpc[w] = "run" THEN cur[w] \in Tasks ELSE cur[w] = NoTask
          /\ cpc \in {"idle", "notify", "mark", "sweep"}
          /\ todo \in Seq(TaskNames)
          /\ round \in 0..MaxCollections
          /\ failed \subseteq 1..MaxCollections

Running == {cur[w] : w \in {v \in Workers : wpc[v] = "run"}}

\* Refinement: the pool is a serial executor.  However many workers there are,
\* one task runs at a time and they start in the order of submission, because
\* runPendingWork keeps sleepMtx locked while a task runs.
Executor == INSTANCE SerialExecutor
              WITH running <- IF Running = {} THEN NoTask
                              ELSE CHOOSE task \in Running : TRUE
RunsSerially == Executor!ExecutorSpec

\* When gc() is over, none of its tasks is left in the pool: they hold pointers to
\* the frames of the thread that called gc().  That holds even if the static task
\* threw and the other futures were never read, as that task is submitted last.
NothingLeftBehind == cpc = "idle" => queue = <<>> /\ Running = {}

\* A collection ends, if the program does not end before it.
CollectionEnds == [](~done) => ((cpc # "idle") ~> (cpc = "idle"))
=============================================================================
