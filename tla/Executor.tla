------------------------------ MODULE Executor ------------------------------
(***************************************************************************)
(* The life of the virtual machine: callMain, the executor's thread pool,  *)
(* Thread.start and the end of the process (vm/YVM.cpp, vm/YVM.h,          *)
(* vm/Main.cpp, gc/Concurrent.cpp, java_lang_thread_start in               *)
(* misc/NativeMethod.cpp).                                                 *)
(*                                                                         *)
(* The main method is a task of the pool; Thread.start creates one more    *)
(* worker, submits a task and stores its future, in three steps.  The      *)
(* process thread waits for the futures it finds stored and for main, and  *)
(* leaves; the pool's destructor sets done and joins the workers.          *)
(***************************************************************************)
EXTENDS Naturals, Sequences, FiniteSets, SequencesExt

CONSTANTS MaxSubs       \* BOUND: calls of Thread.start

ASSUME ExecutorAssumption == MaxSubs \in Nat

Main    == 0
Subs    == 1..MaxSubs
Tasks   == {Main} \cup Subs
Workers == 1..(MaxSubs + 1)
NoTask  == MaxSubs + 1

VARIABLES
    threads,    \* workers 1..threads exist
    queue,      \* taskQueue
    futures,    \* taskFutures
    done,       \* the pool's flag
    wpc,        \* where a worker is
    wtask,      \* the task it runs
    starting,   \* the task that a Thread.start in it is creating, or Main
    status,     \* what became of a task
    cpc,        \* where the process thread is
    snapshot    \* the futures callMain still has to wait for

vars == <<threads, queue, futures, done, wpc, wtask, starting, status, cpc, snapshot>>

Init == /\ threads = 0
        /\ queue = <<>>
        /\ futures = <<>>
        /\ done = FALSE
        /\ wpc = [w \in Workers |-> "loop"]
        /\ wtask = [w \in Workers |-> NoTask]
        /\ starting = [w \in Workers |-> Main]
        /\ status = [k \in Tasks |-> "none"]
        /\ cpc = "initialize"
        /\ snapshot = <<>>

Exists(w) == w <= threads
Alive     == cpc \notin {"exited", "aborted"}
Over(k)   == status[k] \in {"returned", "threw"}

-----------------------------------------------------------------------------
\* Mutant of WorkerLoop: done is not tested.
WorkerLoopForever(w) ==
    /\ Exists(w) /\ Alive
    /\ wpc[w] = "loop"
    /\ wpc' = [wpc EXCEPT ![w] = "poll"]
    /\ UNCHANGED <<threads, queue, futures, done, wtask, starting, status, cpc, snapshot>>

\* while (!done)
WorkerLoop(w) ==
    /\ Exists(w) /\ Alive
    /\ wpc[w] = "loop"
    /\ wpc' = [wpc EXCEPT ![w] = IF done THEN "joinable" ELSE "poll"]
    /\ UNCHANGED <<threads, queue, futures, done, wtask, starting, status, cpc, snapshot>>

\* Take a task, under taskQueueMtx, and run it ...
WorkerTake(w) ==
    /\ Exists(w) /\ Alive
    /\ wpc[w] = "poll"
    /\ queue # <<>>
    /\ wpc' = [wpc EXCEPT ![w] = "run"]
    /\ wtask' = [wtask EXCEPT ![w] = Head(queue)]
    /\ status' = [status EXCEPT ![Head(queue)] = "running"]
    /\ queue' = Tail(queue)
    /\ UNCHANGED <<threads, futures, done, starting, cpc, snapshot>>

\* ... or yield.
WorkerYield(w) ==
    /\ Exists(w) /\ Alive
    /\ wpc[w] = "poll"
    /\ queue = <<>>
    /\ wpc' = [wpc EXCEPT ![w] = "loop"]
    /\ UNCHANGED <<threads, queue, futures, done, wtask, starting, status, cpc, snapshot>>

\* Mutant of TaskEnds: the worker keeps its task.
TaskEndsUnreleased(w) ==
    /\ Alive
    /\ wpc[w] = "run" /\ starting[w] = Main
    /\ \E how \in {"returned", "threw"} : status' = [status EXCEPT ![wtask[w]] = how]
    /\ wpc' = [wpc EXCEPT ![w] = "loop"]
    /\ UNCHANGED <<threads, queue, futures, done, wtask, starting, cpc, snapshot>>

\* The task returns or a C++ exception ends it; the future keeps which.
TaskEnds(w) ==
    /\ Alive
    /\ wpc[w] = "run" /\ starting[w] = Main
    /\ \E how \in {"returned", "threw"} : status' = [status EXCEPT ![wtask[w]] = how]
    /\ wtask' = [wtask EXCEPT ![w] = NoTask]
    /\ wpc' = [wpc EXCEPT ![w] = "loop"]
    /\ UNCHANGED <<threads, queue, futures, done, starting, cpc, snapshot>>

\* Mutant of CreateThread: a started thread is left to the workers there are.
CreateThreadNone(w) ==
    /\ Alive
    /\ wpc[w] = "run" /\ starting[w] = Main
    /\ \E k \in Subs : /\ status[k] = "none" /\ \A v \in Workers : starting[v] # k
                       /\ starting' = [starting EXCEPT ![w] = k]
    /\ UNCHANGED <<threads, queue, futures, done, wpc, wtask, status, cpc, snapshot>>

\* Thread.start: createThread.  If the pool's destructor is joining, the vector of
\* threads grows under its loop: the new thread is joined too, or the process dies
\* (a std::thread is destroyed while joinable).  The new task is numbered here.
CreateThread(w) ==
    /\ Alive
    /\ wpc[w] = "run" /\ starting[w] = Main
    /\ threads < MaxSubs + 1
    /\ threads' = threads + 1
    /\ starting' = [starting EXCEPT ![w] = threads]
    /\ \/ UNCHANGED cpc
       \/ cpc = "join" /\ cpc' = "aborted"
    /\ UNCHANGED <<queue, futures, done, wpc, wtask, status, snapshot>>

\* Thread.start: submit the task.
SubmitSub(w) ==
    /\ Alive
    /\ starting[w] # Main /\ status[starting[w]] = "none"
    /\ queue' = Append(queue, starting[w])
    /\ status' = [status EXCEPT ![starting[w]] = "queued"]
    /\ UNCHANGED <<threads, futures, done, wpc, wtask, starting, cpc, snapshot>>

\* Thread.start: storeTaskFuture.
StoreFuture(w) ==
    /\ Alive
    /\ starting[w] # Main /\ status[starting[w]] # "none"
    /\ futures' = Append(futures, starting[w])
    /\ starting' = [starting EXCEPT ![w] = Main]
    /\ UNCHANGED <<threads, queue, done, wpc, wtask, status, cpc, snapshot>>

-----------------------------------------------------------------------------
\* callMain: executor.initialize(1).
Initialize ==
    /\ cpc = "initialize"
    /\ threads' = 1
    /\ cpc' = "submit"
    /\ UNCHANGED <<queue, futures, done, wpc, wtask, starting, status, snapshot>>

\* callMain: submit the task that runs the main method.
SubmitMain ==
    /\ cpc = "submit"
    /\ queue' = Append(queue, Main)
    /\ status' = [status EXCEPT ![Main] = "queued"]
    /\ cpc' = "copy"
    /\ UNCHANGED <<threads, futures, done, wpc, wtask, starting, snapshot>>

\* callMain: getTaskFutures() copies the futures stored so far.
CopyFutures ==
    /\ cpc = "copy"
    /\ snapshot' = futures
    /\ cpc' = "subs"
    /\ UNCHANGED <<threads, queue, futures, done, wpc, wtask, starting, status>>

\* get() of the future of k: nobody catches what it rethrows.
Await(k, next) == /\ Over(k)
                  /\ cpc' = IF status[k] = "threw" THEN "aborted" ELSE next

\* callMain: start.get(), one after the other.
AwaitSub ==
    /\ cpc = "subs" /\ snapshot # <<>>
    /\ Await(Head(snapshot), "subs")
    /\ snapshot' = Tail(snapshot)
    /\ UNCHANGED <<threads, queue, futures, done, wpc, wtask, starting, status>>

\* callMain: mainFuture.get(); then terminateGC and the return of main().
AwaitMain ==
    /\ cpc = "subs" /\ snapshot = <<>>
    /\ Await(Main, "returned")
    /\ UNCHANGED <<threads, queue, futures, done, wpc, wtask, starting, status, snapshot>>

\* ~ThreadPool of the static executor: done = true ...
Destroy ==
    /\ cpc = "returned"
    /\ done' = TRUE
    /\ cpc' = "join"
    /\ UNCHANGED <<threads, queue, futures, wpc, wtask, starting, status, snapshot>>

\* Mutant of Joined: the workers are not joined.
JoinedNone ==
    /\ cpc = "join"
    /\ cpc' = "exited"
    /\ UNCHANGED <<threads, queue, futures, done, wpc, wtask, starting, status, snapshot>>

\* ... and every thread has been joined.
Joined ==
    /\ cpc = "join"
    /\ \A w \in Workers : Exists(w) => wpc[w] = "joinable"
    /\ cpc' = "exited"
    /\ UNCHANGED <<threads, queue, futures, done, wpc, wtask, starting, status, snapshot>>

Worker(w) == \/ WorkerLoop(w) \/ WorkerTake(w) \/ WorkerYield(w)
             \/ SubmitSub(w) \/ StoreFuture(w)

Process == \/ Initialize \/ SubmitMain \/ CopyFutures \/ AwaitSub \/ AwaitMain
           \/ Destroy \/ Joined

Next == \/ \E w \in Workers : Worker(w) \/ TaskEnds(w) \/ CreateThread(w)
        \/ Process

Spec == Init /\ [][Next]_vars

\* The scheduler runs every thread.  A task need not end: a Java thread may wait for
\* another one.
FairSpec == Spec /\ WF_vars(Process) /\ \A w \in Workers : WF_vars(Worker(w))

-----------------------------------------------------------------------------
\* Types; a worker has a task exactly while it runs one.
TypeOK == /\ threads \in 0..(MaxSubs + 1)
          /\ queue \in Seq(Tasks) /\ futures \in Seq(Subs) /\ snapshot \in Seq(Subs)
          /\ done \in BOOLEAN
          /\ wpc \in [Workers -> {"loop", "poll", "run", "joinable"}]
          /\ wtask \in [Workers -> Tasks \cup {NoTask}]
          /\ \A w \in Workers : wtask[w] # NoTask <=> wpc[w] = "run"
          /\ starting \in [Workers -> {Main} \cup Subs]
          /\ status \in [Tasks -> {"none", "queued", "running", "returned", "threw"}]
          /\ cpc \in {"initialize", "submit", "copy", "subs", "returned", "join",
                      "exited", "aborted"}

\* A started Java thread never waits for another to end: createThread comes before
\* submit, so there are always as many workers without a task as queued tasks.
AWorkerForEveryTask ==
    ~done => Len(queue) <=
                Cardinality({w \in Workers : Exists(w) /\ wpc[w] \in {"loop", "poll"}})

\* The process does not exit in the middle of a task, nor before the main method
\* is over: a Java thread runs to its end or not at all.
NoTaskCutShort ==
    cpc = "exited" => /\ status[Main] = "returned"
                      /\ \A k \in Tasks : status[k] # "running"
                      /\ \A k \in Subs : status[k] = "queued" => k \in Range(queue)

\* A started Java thread runs, unless the process ends first, whether or not the
\* threads before it ever end.
StartedThreadRuns ==
    [](~done /\ cpc # "aborted") =>
        \A k \in Subs : (status[k] = "queued") ~> (status[k] \notin {"none", "queued"})

\* The process ends once the main method is over, whatever it started, provided
\* that every task that runs comes to an end.
ProcessEnds ==
    (\A w \in Workers : []<>(wpc[w] # "run")) =>
        (Over(Main) ~> (cpc \in {"exited", "aborted"}))

\* When callMain returns, every Java thread the program started is over (vm/YVM.cpp
\* callMain: "Block until all sub threads accomplished its task").
SubThreadsAwaited ==
    cpc \in {"returned", "join", "exited"} =>
        \A k \in Subs : status[k] \notin {"queued", "running"}
=============================================================================
