--------------------------- MODULE ExecutorProofs ---------------------------
(***************************************************************************)
(* Proofs about Executor, for any number of calls of Thread.start.         *)
(***************************************************************************)
EXTENDS Executor, FiniteSetTheorems, TLAPS

Places    == {"loop", "poll", "run", "joinable"}
Statuses  == {"none", "queued", "running", "returned", "threw"}

LEMMA Numbers ==
    /\ MaxSubs \in Nat /\ Main \in Tasks /\ Main \notin Subs /\ NoTask \notin Tasks
    /\ Subs \subseteq Tasks /\ Workers \subseteq Nat \ {0} /\ 1 \in Workers
    /\ {Main} \cup Subs \subseteq Nat
    /\ Main = 0 /\ \A k \in Subs : k \in Nat \ {0}
  BY ExecutorAssumption DEF Main, Subs, Tasks, Workers, NoTask

-----------------------------------------------------------------------------
(* Types.                                                                  *)

\* Which workers there are, and which of them start threads.
Threading ==
    /\ \A w \in Workers : ~Exists(w) => wpc[w] = "loop"
    /\ \A w \in Workers : starting[w] # Main => wpc[w] = "run" /\ starting[w] < threads
    /\ cpc = "initialize" <=> threads = 0

TypeInv == TypeOK /\ Threading

LEMMA TypeInit == Init => TypeInv
<1> SUFFICES ASSUME Init PROVE TypeInv
  OBVIOUS
<1>1. <<>> \in Seq(Tasks) /\ <<>> \in Seq(Subs) /\ 0 \in 0..(MaxSubs + 1)
  BY Numbers
<1>2. TypeOK
  BY <1>1, Numbers DEF Init, TypeOK
<1>3. Threading
  BY Numbers DEF Init, Threading
<1> QED
  BY <1>2, <1>3 DEF TypeInv

\* Steps of a worker.
LEMMA WorkerTypes ==
    ASSUME TypeInv, NEW w \in Workers, Worker(w) \/ TaskEnds(w) \/ CreateThread(w)
    PROVE  TypeInv'
<1> USE Numbers DEF TypeInv, TypeOK, Threading, Exists
<1>1. CASE WorkerLoop(w)
  BY <1>1 DEF WorkerLoop
<1>2. CASE WorkerTake(w)
  <2>1. Head(queue) \in Tasks /\ Tail(queue) \in Seq(Tasks)
    BY <1>2 DEF WorkerTake
  <2>2. /\ wpc' \in [Workers -> Places] /\ wtask' \in [Workers -> Tasks \cup {NoTask}]
        /\ \A v \in Workers : wtask'[v] # NoTask <=> wpc'[v] = "run"
    BY <1>2, <2>1 DEF WorkerTake, Places
  <2>3. status' \in [Tasks -> Statuses]
    BY <1>2, <2>1 DEF WorkerTake, Statuses
  <2>4. TypeOK'
    BY <1>2, <2>1, <2>2, <2>3 DEF WorkerTake, Places, Statuses
  <2>5. Threading'
    BY <1>2, <2>2 DEF WorkerTake
  <2> QED
    BY <2>4, <2>5
<1>3. CASE WorkerYield(w)
  BY <1>3 DEF WorkerYield
<1>4. CASE SubmitSub(w)
  <2>1. starting[w] \in Subs /\ status' = [status EXCEPT ![starting[w]] = "queued"]
        /\ queue' = Append(queue, starting[w])
        /\ UNCHANGED <<threads, futures, done, wpc, wtask, starting, cpc, snapshot>>
    BY <1>4 DEF SubmitSub
  <2>2. starting[w] \in Tasks
    BY <2>1
  <2>3. status' \in [Tasks -> Statuses]
    BY <2>1, <2>2 DEF Statuses
  <2>4. queue' \in Seq(Tasks)
    BY <2>1, <2>2
  <2> QED
    BY <2>1, <2>3, <2>4 DEF Statuses
<1>5. CASE StoreFuture(w)
  BY <1>5 DEF StoreFuture
<1>6. CASE TaskEnds(w)
  <2>1. wtask[w] \in Tasks /\ starting[w] = Main
    BY <1>6 DEF TaskEnds
  <2>2. status' \in [Tasks -> Statuses]
    BY <1>6, <2>1 DEF TaskEnds, Statuses
  <2>3. /\ wpc' \in [Workers -> Places] /\ wtask' \in [Workers -> Tasks \cup {NoTask}]
        /\ \A v \in Workers : wtask'[v] # NoTask <=> wpc'[v] = "run"
        /\ \A v \in Workers : v # w => wpc'[v] = wpc[v]
        /\ wpc'[w] = "loop"
    BY <1>6 DEF TaskEnds, Places
  <2>4. TypeOK'
    BY <1>6, <2>2, <2>3 DEF TaskEnds, Places, Statuses
  <2>5. Threading'
    BY <1>6, <2>1, <2>3 DEF TaskEnds
  <2> QED
    BY <2>4, <2>5
<1>7. CASE CreateThread(w)
  <2>1. threads \in Subs /\ threads' \in 0..(MaxSubs + 1) /\ threads' = threads + 1
    BY <1>7 DEF CreateThread, Subs
  <2>2. /\ starting' = [starting EXCEPT ![w] = threads]
        /\ \/ cpc' = cpc
           \/ cpc = "join" /\ cpc' = "aborted"
        /\ wpc[w] = "run"
        /\ UNCHANGED <<queue, futures, done, wpc, wtask, status, snapshot>>
    BY <1>7 DEF CreateThread
  <2>3. TypeOK'
    BY <2>1, <2>2
  <2>4. Threading'
    <3>0. \A v \in Workers : starting[v] \in Nat
      OBVIOUS
    <3>1. \A v \in Workers : starting'[v] # Main => wpc'[v] = "run" /\ starting'[v] < threads'
      BY <2>1, <2>2, <3>0
    <3>2. \A v \in Workers : ~Exists(v)' => wpc'[v] = "loop"
      BY <2>1, <2>2
    <3>3. (cpc' = "initialize") <=> (threads' = 0)
      BY <2>1, <2>2
    <3> QED
      BY <3>1, <3>2, <3>3
  <2> QED
    BY <2>3, <2>4
<1> QED
  BY <1>1, <1>2, <1>3, <1>4, <1>5, <1>6, <1>7 DEF Worker

LEMMA TypeStep == TypeInv /\ [Next]_vars => TypeInv'
<1> SUFFICES ASSUME TypeInv, [Next]_vars PROVE TypeInv'
  OBVIOUS
<1>1. ASSUME NEW w \in Workers, Worker(w) \/ TaskEnds(w) \/ CreateThread(w)
      PROVE  TypeInv'
  BY <1>1, WorkerTypes
<1> USE Numbers DEF TypeInv, TypeOK, Threading, Exists
<1>2. CASE Initialize
  BY <1>2 DEF Initialize
<1>3. CASE SubmitMain
  BY <1>3 DEF SubmitMain
<1>4. CASE CopyFutures
  BY <1>4 DEF CopyFutures
<1>5. CASE AwaitSub
  BY <1>5 DEF AwaitSub, Await
<1>6. CASE AwaitMain
  BY <1>6 DEF AwaitMain, Await
<1>7. CASE Destroy
  BY <1>7 DEF Destroy
<1>8. CASE Joined
  BY <1>8 DEF Joined
<1>9. CASE UNCHANGED vars
  BY <1>9 DEF vars
<1> QED
  BY <1>1, <1>2, <1>3, <1>4, <1>5, <1>6, <1>7, <1>8, <1>9 DEF Next, Process

\* vm/YVM.cpp callMain, gc/Concurrent.cpp: types; a worker has a task exactly while it
\* runs one.
THEOREM ExecutorTypeCorrect == Spec => []TypeOK
<1>1. TypeInv => TypeOK
  BY DEF TypeInv
<1> QED
  BY <1>1, TypeInit, TypeStep, PTL DEF Spec

-----------------------------------------------------------------------------
(* What becomes of a task.                                                 *)

\* Queued are the tasks in the queue, each once.
QueueBooks ==
    /\ \A i \in 1..Len(queue) : status[queue[i]] = "queued"
    /\ \A i, j \in 1..Len(queue) : queue[i] = queue[j] => i = j
    /\ \A k \in Tasks : status[k] = "queued" => \E i \in 1..Len(queue) : queue[i] = k

\* Running are the tasks that workers have, one worker each.
RunBooks ==
    /\ \A w \in Workers : wpc[w] = "run" => status[wtask[w]] = "running"
    /\ \A v, w \in Workers : wpc[v] = "run" /\ wpc[w] = "run" /\ wtask[v] = wtask[w] => v = w
    /\ \A k \in Tasks : status[k] = "running" =>
          \E w \in Workers : wpc[w] = "run" /\ wtask[w] = k

\* What has yet to be submitted, and what the process thread has seen.
LifeBooks ==
    /\ \A k \in Subs : k >= threads => status[k] = "none"
    /\ cpc \in {"initialize", "submit"} => status[Main] = "none"
    /\ cpc \in {"returned", "join", "exited"} => status[Main] = "returned"
    /\ cpc = "exited" => \A w \in Workers : Exists(w) => wpc[w] = "joinable"

Books == QueueBooks /\ RunBooks /\ LifeBooks

\* A task is appended to the queue.
LEMMA QueueGrows ==
    ASSUME TypeOK, QueueBooks, NEW k \in Tasks, status[k] = "none",
           queue' = Append(queue, k), status' = [status EXCEPT ![k] = "queued"]
    PROVE  QueueBooks'
<1>1. /\ Len(queue) \in Nat /\ Len(queue') = Len(queue) + 1
      /\ queue'[Len(queue) + 1] = k
      /\ \A i \in 1..Len(queue) : queue'[i] = queue[i] /\ queue[i] \in Tasks
  BY DEF TypeOK
<1>2. \A d \in Tasks : status'[d] = IF d = k THEN "queued" ELSE status[d]
  BY DEF TypeOK
<1>3. \A i \in 1..Len(queue) : queue[i] # k
  BY DEF QueueBooks
<1>4. \A i \in 1..Len(queue') : i \in 1..Len(queue) \/ i = Len(queue) + 1
  BY <1>1
<1>5. \A i \in 1..Len(queue') : status'[queue'[i]] = "queued"
  BY <1>1, <1>2, <1>4 DEF QueueBooks
<1>6. \A i, j \in 1..Len(queue') : queue'[i] = queue'[j] => i = j
  BY <1>1, <1>3, <1>4 DEF QueueBooks
<1>7. ASSUME NEW d \in Tasks, status'[d] = "queued"
      PROVE  \E i \in 1..Len(queue') : queue'[i] = d
  <2>1. CASE d = k
    BY <1>1, <2>1
  <2>2. CASE d # k
    <3>1. PICK i \in 1..Len(queue) : queue[i] = d
      BY <1>2, <1>7, <2>2 DEF QueueBooks
    <3>2. i \in 1..Len(queue') /\ queue'[i] = d
      BY <1>1, <3>1
    <3> QED
      BY <3>2
  <2> QED
    BY <2>1, <2>2
<1> QED
  BY <1>5, <1>6, <1>7 DEF QueueBooks

\* The first task is taken from the queue.
LEMMA QueueShrinks ==
    ASSUME TypeOK, QueueBooks, queue # <<>>, queue' = Tail(queue),
           status' = [status EXCEPT ![Head(queue)] = "running"]
    PROVE  /\ QueueBooks' /\ Head(queue) \in Tasks /\ status[Head(queue)] = "queued"
           /\ \A d \in Tasks : status'[d] = IF d = Head(queue) THEN "running" ELSE status[d]
<1>1. /\ Len(queue) \in Nat \ {0} /\ Len(queue') = Len(queue) - 1 /\ Head(queue) = queue[1]
      /\ \A i \in 1..Len(queue) : queue[i] \in Tasks
      /\ \A i \in 1..Len(queue') : queue'[i] = queue[i + 1] /\ i + 1 \in 1..Len(queue)
  BY DEF TypeOK
<1>2. 1 \in 1..Len(queue) /\ queue[1] \in Tasks
  BY <1>1
<1>3. \A d \in Tasks : status'[d] = IF d = queue[1] THEN "running" ELSE status[d]
  BY <1>1, <1>2 DEF TypeOK
<1>4. \A i \in 1..Len(queue') : i + 1 # 1 /\ queue'[i] # queue[1] /\ queue'[i] \in Tasks
  BY <1>1, <1>2 DEF QueueBooks
<1>5. \A i \in 1..Len(queue') : status'[queue'[i]] = "queued"
  BY <1>1, <1>3, <1>4 DEF QueueBooks
<1>6. \A i, j \in 1..Len(queue') : queue'[i] = queue'[j] => i = j
  BY <1>1 DEF QueueBooks
<1>7. ASSUME NEW d \in Tasks, status'[d] = "queued"
      PROVE  \E i \in 1..Len(queue') : queue'[i] = d
  <2>1. d # queue[1] /\ status[d] = "queued"
    BY <1>3, <1>7
  <2>2. PICK j \in 1..Len(queue) : queue[j] = d
    BY <2>1 DEF QueueBooks
  <2>3. j # 1 /\ j - 1 \in 1..Len(queue') /\ (j - 1) + 1 = j
    BY <1>1, <2>1, <2>2
  <2> QED
    BY <1>1, <2>2, <2>3
<1> QED
  BY <1>1, <1>2, <1>3, <1>5, <1>6, <1>7 DEF QueueBooks

\* A change of the status of a task that is not queued, to one that is not, leaves
\* the queue in order.
LEMMA QueueSame ==
    ASSUME TypeOK, QueueBooks, queue' = queue,
           \A d \in Tasks : (status'[d] = "queued") <=> (status[d] = "queued")
    PROVE  QueueBooks'
<1>1. \A i \in 1..Len(queue) : queue[i] \in Tasks
  BY DEF TypeOK
<1> QED
  BY <1>1 DEF QueueBooks

\* The books of the running tasks and of the process when no worker's task changes.
LEMMA RunSame ==
    ASSUME TypeOK, RunBooks, wtask' = wtask,
           \A w \in Workers : (wpc'[w] = "run") <=> (wpc[w] = "run"),
           \A d \in Tasks : (status'[d] = "running") <=> (status[d] = "running")
    PROVE  RunBooks'
<1>1. \A w \in Workers : wpc[w] = "run" => wtask[w] \in Tasks
  BY DEF TypeOK
<1> QED
  BY <1>1 DEF RunBooks

LEMMA LifeSame ==
    ASSUME TypeInv, LifeBooks, threads' = threads, Alive,
           cpc' = cpc, \A d \in Tasks : status[d] \in {"none", "returned"} => status'[d] = status[d]
    PROVE  LifeBooks'
  BY Numbers DEF LifeBooks, Alive

LEMMA WorkerBooks ==
    ASSUME TypeInv, Books, NEW w \in Workers, Worker(w) \/ TaskEnds(w) \/ CreateThread(w)
    PROVE  Books'
<1>0. TypeOK /\ Threading
  BY DEF TypeInv
<1>1. CASE WorkerLoop(w) \/ WorkerYield(w) \/ StoreFuture(w)
  <2>1. /\ status' = status /\ wtask' = wtask /\ queue' = queue /\ threads' = threads
        /\ cpc' = cpc /\ Alive
    BY <1>1 DEF WorkerLoop, WorkerYield, StoreFuture
  <2>2. \A v \in Workers : (wpc'[v] = "run") <=> (wpc[v] = "run")
    BY <1>0, <1>1 DEF WorkerLoop, WorkerYield, StoreFuture, TypeOK
  <2> QED
    BY <1>0, <2>1, <2>2, QueueSame, RunSame, LifeSame DEF Books
<1>2. CASE WorkerTake(w)
  <2> DEFINE k == Head(queue)
  <2>1. /\ Alive /\ wpc[w] = "poll" /\ queue # <<>> /\ queue' = Tail(queue)
        /\ wpc' = [wpc EXCEPT ![w] = "run"] /\ wtask' = [wtask EXCEPT ![w] = k]
        /\ status' = [status EXCEPT ![k] = "running"]
        /\ threads' = threads /\ cpc' = cpc
    BY <1>2 DEF WorkerTake
  <2>2. /\ QueueBooks' /\ k \in Tasks /\ status[k] = "queued"
        /\ \A d \in Tasks : status'[d] = IF d = k THEN "running" ELSE status[d]
    BY <1>0, <2>1, QueueShrinks DEF Books
  <2> HIDE DEF k
  <2>3. /\ wpc'[w] = "run" /\ wtask'[w] = k
        /\ \A v \in Workers \ {w} : wpc'[v] = wpc[v] /\ wtask'[v] = wtask[v]
        /\ \A v \in Workers : wpc[v] = "run" => wtask[v] \in Tasks
    BY <1>0, <2>1 DEF TypeOK
  <2>4. RunBooks'
    <3>1. \A v \in Workers : wpc[v] = "run" => wtask[v] # k
      BY <2>2 DEF Books, RunBooks
    <3> QED
      BY <2>1, <2>2, <2>3, <3>1 DEF Books, RunBooks
  <2>5. LifeBooks'
    BY <2>1, <2>2, LifeSame DEF Books
  <2> QED
    BY <2>2, <2>4, <2>5 DEF Books
<1>3. CASE SubmitSub(w)
  <2> DEFINE k == starting[w]
  <2>1. /\ Alive /\ k # Main /\ status[k] = "none" /\ queue' = Append(queue, k)
        /\ status' = [status EXCEPT ![k] = "queued"]
        /\ wpc' = wpc /\ wtask' = wtask /\ threads' = threads /\ cpc' = cpc
    BY <1>3 DEF SubmitSub
  <2>2. k \in Subs /\ k \in Tasks /\ k < threads
    BY <1>0, <2>1, Numbers DEF TypeOK, Threading
  <2> HIDE DEF k
  <2>3. \A d \in Tasks : status'[d] = IF d = k THEN "queued" ELSE status[d]
    BY <1>0, <2>1 DEF TypeOK
  <2>4. QueueBooks'
    BY <1>0, <2>1, <2>2, QueueGrows DEF Books
  <2>5. RunBooks'
    BY <1>0, <2>1, <2>3, RunSame DEF Books
  <2>6. LifeBooks'
    <3>1. \A d \in Subs : d >= threads => d # k
      BY <1>0, <2>2, Numbers DEF TypeOK
    <3> QED
      BY <2>1, <2>2, <2>3, <3>1, Numbers DEF Books, LifeBooks, Alive
  <2> QED
    BY <2>4, <2>5, <2>6 DEF Books
<1>4. CASE TaskEnds(w)
  <2>1. PICK how \in {"returned", "threw"} : status' = [status EXCEPT ![wtask[w]] = how]
    BY <1>4 DEF TaskEnds
  <2>2. /\ Alive /\ wpc[w] = "run" /\ wtask' = [wtask EXCEPT ![w] = NoTask]
        /\ wpc' = [wpc EXCEPT ![w] = "loop"]
        /\ queue' = queue /\ threads' = threads /\ cpc' = cpc
    BY <1>4 DEF TaskEnds
  <2>3. wtask[w] \in Tasks /\ status[wtask[w]] = "running"
    BY <1>0, <2>2 DEF TypeOK, Books, RunBooks
  <2>4. \A d \in Tasks : status'[d] = IF d = wtask[w] THEN how ELSE status[d]
    BY <1>0, <2>1 DEF TypeOK
  <2>5. QueueBooks'
    BY <1>0, <2>1, <2>2, <2>3, <2>4, QueueSame DEF Books
  <2>6. RunBooks'
    <3>1. /\ wpc'[w] = "loop"
          /\ \A v \in Workers \ {w} : wpc'[v] = wpc[v] /\ wtask'[v] = wtask[v]
          /\ \A v \in Workers : wpc[v] = "run" => wtask[v] \in Tasks
      BY <1>0, <2>2 DEF TypeOK
    <3> QED
      BY <2>1, <2>2, <2>3, <2>4, <3>1 DEF Books, RunBooks
  <2>7. LifeBooks'
    BY <2>2, <2>3, <2>4, LifeSame DEF Books
  <2> QED
    BY <2>5, <2>6, <2>7 DEF Books
<1>5. CASE CreateThread(w)
  <2>1. /\ threads' = threads + 1 /\ Alive
        /\ \/ cpc' = cpc
           \/ cpc = "join" /\ cpc' = "aborted"
        /\ UNCHANGED <<queue, wpc, wtask, status>>
    BY <1>5 DEF CreateThread
  <2>2. QueueBooks' /\ RunBooks'
    BY <1>0, <2>1, QueueSame, RunSame DEF Books
  <2>3. \A k \in Subs : k >= threads' => k >= threads
    BY <1>0, <2>1, Numbers DEF TypeOK
  <2>4. LifeBooks'
    BY <2>1, <2>3 DEF Books, LifeBooks, Alive
  <2> QED
    BY <2>2, <2>4 DEF Books
<1> QED
  BY <1>1, <1>2, <1>3, <1>4, <1>5 DEF Worker

LEMMA ProcessBooks ==
    ASSUME TypeInv, Books, Process \/ UNCHANGED vars
    PROVE  Books'
<1>0. TypeOK /\ Threading
  BY DEF TypeInv
<1>1. CASE SubmitMain
  <2>1. /\ cpc = "submit" /\ cpc' = "copy" /\ queue' = Append(queue, Main)
        /\ status' = [status EXCEPT ![Main] = "queued"]
        /\ wpc' = wpc /\ wtask' = wtask /\ threads' = threads
    BY <1>1 DEF SubmitMain
  <2>2. status[Main] = "none"
    BY <2>1 DEF Books, LifeBooks
  <2>3. \A d \in Tasks : status'[d] = IF d = Main THEN "queued" ELSE status[d]
    BY <1>0, <2>1 DEF TypeOK
  <2>4. QueueBooks'
    BY <1>0, <2>1, <2>2, Numbers, QueueGrows DEF Books
  <2>5. RunBooks'
    BY <1>0, <2>1, <2>2, <2>3, RunSame DEF Books
  <2>6. LifeBooks'
    BY <2>1, <2>3, Numbers DEF Books, LifeBooks
  <2> QED
    BY <2>4, <2>5, <2>6 DEF Books
<1>2. CASE ~SubmitMain
  <2>1. UNCHANGED <<queue, status, wpc, wtask>>
    BY <1>2 DEF Process, Initialize, CopyFutures, AwaitSub, AwaitMain, Destroy, Joined, vars
  <2>2. QueueBooks' /\ RunBooks'
    BY <1>0, <2>1, QueueSame, RunSame DEF Books
  <2>3. LifeBooks'
    <3>1. CASE Initialize
      BY <1>0, <2>1, <3>1, Numbers DEF Initialize, Books, LifeBooks, Threading
    <3>2. CASE CopyFutures \/ AwaitSub
      BY <2>1, <3>2 DEF CopyFutures, AwaitSub, Await, Books, LifeBooks
    <3>3. CASE AwaitMain
      BY <2>1, <3>3 DEF AwaitMain, Await, Over, Books, LifeBooks
    <3>4. CASE Destroy \/ UNCHANGED vars
      BY <2>1, <3>4 DEF Destroy, vars, Books, LifeBooks, Exists
    <3>5. CASE Joined
      BY <2>1, <3>5 DEF Joined, Books, LifeBooks, Exists
    <3> QED
      BY <1>2, <3>1, <3>2, <3>3, <3>4, <3>5 DEF Process
  <2> QED
    BY <2>2, <2>3 DEF Books
<1> QED
  BY <1>1, <1>2

LEMMA BooksInvariant == Spec => [](TypeInv /\ Books)
<1>1. Init => TypeInv /\ Books
  <2> SUFFICES ASSUME Init PROVE Books
    BY TypeInit
  <2>1. Len(queue) = 0
    BY DEF Init
  <2>2. QueueBooks
    BY <2>1 DEF Init, QueueBooks
  <2>3. RunBooks /\ LifeBooks
    BY Numbers DEF Init, RunBooks, LifeBooks
  <2> QED
    BY <2>2, <2>3 DEF Books
<1>2. TypeInv /\ Books /\ [Next]_vars => (TypeInv /\ Books)'
  BY TypeStep, WorkerBooks, ProcessBooks DEF Next
<1> QED
  BY <1>1, <1>2, PTL DEF Spec

\* vm/YVM.cpp callMain and the pool's destructor: when the process exits, main has
\* returned, no task is in the middle, and what was not run is still in the queue.
THEOREM NoTaskCutShortHolds == Spec => []NoTaskCutShort
<1>1. TypeInv /\ Books => NoTaskCutShort
  <2> SUFFICES ASSUME TypeInv, Books, cpc = "exited"
               PROVE  /\ status[Main] = "returned"
                      /\ \A k \in Tasks : status[k] # "running"
                      /\ \A k \in Subs : status[k] = "queued" => k \in Range(queue)
    BY DEF NoTaskCutShort
  <2>1. status[Main] = "returned"
    BY DEF Books, LifeBooks
  <2>2. \A w \in Workers : wpc[w] # "run"
    BY DEF Books, LifeBooks, TypeInv, Threading
  <2>3. \A k \in Tasks : status[k] # "running"
    BY <2>2 DEF Books, RunBooks
  <2>4. \A k \in Subs : status[k] = "queued" => k \in Range(queue)
    BY Numbers DEF Books, QueueBooks, Range, TypeInv, TypeOK
  <2> QED
    BY <2>1, <2>3, <2>4
<1> QED
  BY <1>1, BooksInvariant, PTL

-----------------------------------------------------------------------------
(* A worker for every task.                                                *)

FreeWorkers == {w \in Workers : Exists(w) /\ wpc[w] \in {"loop", "poll"}}

\* The calls of Thread.start that have made a worker and not yet submitted the task.
Starters == {w \in Workers : starting[w] # Main /\ status[starting[w]] = "none"}

\* The main task is about to be submitted.
Owed == IF cpc = "submit" THEN 1 ELSE 0

Supply == ~done => Len(queue) + Cardinality(Starters) + Owed <= Cardinality(FreeWorkers)

LEMMA Counts ==
    ASSUME NEW S \in SUBSET Workers
    PROVE  /\ IsFiniteSet(S) /\ Cardinality(S) \in Nat
           /\ \A T \in SUBSET S : Cardinality(T) <= Cardinality(S)
           /\ \A x \in S : Cardinality(S \ {x}) = Cardinality(S) - 1
           /\ \A x : x \notin S => Cardinality(S \cup {x}) = Cardinality(S) + 1
<1>1. 1 \in Int /\ MaxSubs + 1 \in Int
  BY ExecutorAssumption
<1>2. IsFiniteSet(Workers)
  BY <1>1, FS_Interval DEF Workers
<1>3. IsFiniteSet(S)
  BY <1>2, FS_Subset
<1> QED
  BY <1>3, FS_CardinalityType, FS_Subset, FS_AddElement, FS_RemoveElement

LEMMA SupplyWorker ==
    ASSUME TypeInv, Books, Supply, NEW w \in Workers,
           Worker(w) \/ TaskEnds(w) \/ CreateThread(w), ~done'
    PROVE  Len(queue') + Cardinality(Starters') + Owed' <= Cardinality(FreeWorkers')
<1>0. /\ TypeOK /\ Threading /\ FreeWorkers \in SUBSET Workers /\ Starters \in SUBSET Workers
      /\ Len(queue) \in Nat /\ Owed \in {0, 1}
  BY DEF TypeInv, TypeOK, FreeWorkers, Starters, Owed
<1>1. ~done
  BY DEF Worker, WorkerLoop, WorkerTake, WorkerYield, SubmitSub, StoreFuture, TaskEnds,
     CreateThread
<1>2. /\ Len(queue) + Cardinality(Starters) + Owed <= Cardinality(FreeWorkers)
      /\ Cardinality(Starters) \in Nat /\ Cardinality(FreeWorkers) \in Nat
  BY <1>0, <1>1, Counts DEF Supply
<1>3. CASE WorkerLoop(w) \/ WorkerYield(w)
  <2>1. UNCHANGED <<queue, threads, starting, status, cpc>>
    BY <1>3 DEF WorkerLoop, WorkerYield
  <2>2. FreeWorkers' = FreeWorkers
    BY <1>0, <1>1, <1>3 DEF WorkerLoop, WorkerYield, FreeWorkers, TypeOK, Exists
  <2>3. Starters' = Starters /\ Owed' = Owed
    BY <2>1 DEF Starters, Owed
  <2> QED
    BY <1>2, <2>1, <2>2, <2>3
<1>4. CASE WorkerTake(w)
  <2>1. /\ Exists(w) /\ wpc[w] = "poll" /\ queue # <<>> /\ queue' = Tail(queue)
        /\ wpc' = [wpc EXCEPT ![w] = "run"]
        /\ status' = [status EXCEPT ![Head(queue)] = "running"]
        /\ UNCHANGED <<threads, starting, cpc>>
    BY <1>4 DEF WorkerTake
  <2>2. /\ status[Head(queue)] = "queued"
        /\ \A d \in Tasks : status'[d] = IF d = Head(queue) THEN "running" ELSE status[d]
    BY <1>0, <2>1, QueueShrinks DEF Books
  <2>3. Len(queue') = Len(queue) - 1
    BY <1>0, <2>1 DEF TypeOK
  <2>4. FreeWorkers' = FreeWorkers \ {w} /\ w \in FreeWorkers
    BY <1>0, <2>1 DEF FreeWorkers, TypeOK, Exists
  <2>5. Starters' = Starters /\ Owed' = Owed
    BY <1>0, <2>1, <2>2, Numbers DEF Starters, Owed, TypeOK
  <2>6. Cardinality(FreeWorkers') = Cardinality(FreeWorkers) - 1
    BY <1>0, <2>4, Counts
  <2> QED
    BY <1>0, <1>2, <2>3, <2>5, <2>6
<1>5. CASE SubmitSub(w)
  <2>1. /\ starting[w] # Main /\ status[starting[w]] = "none"
        /\ queue' = Append(queue, starting[w])
        /\ status' = [status EXCEPT ![starting[w]] = "queued"]
        /\ UNCHANGED <<threads, wpc, starting, cpc>>
    BY <1>5 DEF SubmitSub
  <2>2. \A d \in Tasks : status'[d] = IF d = starting[w] THEN "queued" ELSE status[d]
    BY <1>0, <2>1 DEF TypeOK
  <2>3. Len(queue') = Len(queue) + 1
    BY <1>0, <2>1, Numbers DEF TypeOK
  <2>4. FreeWorkers' = FreeWorkers /\ Owed' = Owed
    BY <2>1 DEF FreeWorkers, Owed, Exists
  <2>5. w \in Starters /\ Starters' \subseteq Starters \ {w}
    BY <1>0, <2>1, <2>2, Numbers DEF Starters, TypeOK
  <2>6. /\ Cardinality(Starters \ {w}) = Cardinality(Starters) - 1
        /\ Starters \ {w} \in SUBSET Workers
    BY <1>0, <2>5, Counts
  <2>7. Cardinality(Starters') <= Cardinality(Starters) - 1 /\ Cardinality(Starters') \in Nat
    BY <1>0, <2>5, <2>6, Counts
  <2> QED
    BY <1>0, <1>2, <2>3, <2>4, <2>7
<1>6. CASE StoreFuture(w)
  <2>1. /\ status[starting[w]] # "none" /\ starting' = [starting EXCEPT ![w] = Main]
        /\ UNCHANGED <<queue, threads, wpc, status, cpc>>
    BY <1>6 DEF StoreFuture
  <2>2. FreeWorkers' = FreeWorkers /\ Owed' = Owed
    BY <2>1 DEF FreeWorkers, Owed, Exists
  <2>3. Starters' = Starters
    BY <1>0, <2>1 DEF Starters, TypeOK
  <2> QED
    BY <1>2, <2>1, <2>2, <2>3
<1>7. CASE TaskEnds(w)
  <2>1. PICK how \in {"returned", "threw"} : status' = [status EXCEPT ![wtask[w]] = how]
    BY <1>7 DEF TaskEnds
  <2>2. /\ wpc[w] = "run" /\ wpc' = [wpc EXCEPT ![w] = "loop"]
        /\ UNCHANGED <<queue, threads, starting, cpc>>
    BY <1>7 DEF TaskEnds
  <2>3. /\ wtask[w] \in Tasks /\ status[wtask[w]] = "running" /\ Exists(w)
    BY <1>0, <2>2 DEF TypeOK, Threading, Books, RunBooks
  <2>4. \A d \in Tasks : status'[d] = IF d = wtask[w] THEN how ELSE status[d]
    BY <1>0, <2>1 DEF TypeOK
  <2>5. w \notin FreeWorkers /\ FreeWorkers' = FreeWorkers \cup {w}
    BY <1>0, <2>2, <2>3 DEF FreeWorkers, TypeOK, Exists
  <2>6. Starters' = Starters /\ Owed' = Owed
    BY <1>0, <2>1, <2>2, <2>3, <2>4, Numbers DEF Starters, Owed, TypeOK
  <2>7. Cardinality(FreeWorkers') = Cardinality(FreeWorkers) + 1
    BY <1>0, <2>5, Counts
  <2> QED
    BY <1>0, <1>2, <2>2, <2>6, <2>7
<1>8. CASE CreateThread(w)
  <2>1. /\ wpc[w] = "run" /\ starting[w] = Main /\ threads < MaxSubs + 1
        /\ threads' = threads + 1 /\ starting' = [starting EXCEPT ![w] = threads]
        /\ UNCHANGED <<queue, wpc, status>>
        /\ \/ cpc' = cpc
           \/ cpc = "join" /\ cpc' = "aborted"
    BY <1>8 DEF CreateThread
  <2>2. threads \in Nat /\ Exists(w)
    BY <1>0, <2>1 DEF TypeOK, Threading
  <2>3. threads \in Subs /\ threads + 1 \in Workers /\ ~Exists(threads + 1)
    BY <2>1, <2>2, Numbers DEF Subs, Workers, Exists
  <2>4. status[threads] = "none" /\ threads # Main
    BY <2>2, <2>3, Numbers DEF Books, LifeBooks
  <2>5. /\ threads + 1 \notin FreeWorkers
        /\ FreeWorkers \cup {threads + 1} \subseteq FreeWorkers'
        /\ FreeWorkers' \in SUBSET Workers
    <3>1. \A v \in Workers : v <= threads => v <= threads'
      BY <2>1, <2>2, Numbers
    <3>2. threads + 1 \notin FreeWorkers
      BY <2>3 DEF FreeWorkers
    <3>3. wpc[threads + 1] = "loop" /\ threads + 1 <= threads'
      BY <1>0, <2>1, <2>2, <2>3 DEF Threading
    <3>4. threads + 1 \in FreeWorkers'
      BY <2>1, <2>3, <3>3 DEF FreeWorkers, Exists
    <3>5. FreeWorkers \subseteq FreeWorkers' /\ FreeWorkers' \in SUBSET Workers
      BY <2>1, <3>1 DEF FreeWorkers, Exists
    <3> QED
      BY <3>2, <3>4, <3>5
  <2>6. w \notin Starters /\ Starters' = Starters \cup {w}
    BY <1>0, <2>1, <2>4 DEF Starters, TypeOK
  <2>7. Owed' = Owed
    BY <2>1 DEF Owed
  <2>8. Cardinality(Starters') = Cardinality(Starters) + 1
    BY <1>0, <2>6, Counts
  <2>9. /\ Cardinality(FreeWorkers \cup {threads + 1}) = Cardinality(FreeWorkers) + 1
        /\ Cardinality(FreeWorkers \cup {threads + 1}) <= Cardinality(FreeWorkers')
        /\ Cardinality(FreeWorkers') \in Nat
    BY <1>0, <2>5, Counts
  <2> QED
    BY <1>0, <1>2, <2>1, <2>7, <2>8, <2>9
<1> QED
  BY <1>3, <1>4, <1>5, <1>6, <1>7, <1>8 DEF Worker

LEMMA SupplyProcess ==
    ASSUME TypeInv, Books, Supply, Process \/ UNCHANGED vars, ~done'
    PROVE  Len(queue') + Cardinality(Starters') + Owed' <= Cardinality(FreeWorkers')
<1>0. /\ TypeOK /\ Threading /\ FreeWorkers \in SUBSET Workers /\ Starters \in SUBSET Workers
      /\ Len(queue) \in Nat /\ Owed \in {0, 1}
  BY DEF TypeInv, TypeOK, FreeWorkers, Starters, Owed
<1>1. ~done
  BY DEF Process, Initialize, SubmitMain, CopyFutures, AwaitSub, AwaitMain, Destroy, Joined, vars
<1>2. /\ Len(queue) + Cardinality(Starters) + Owed <= Cardinality(FreeWorkers)
      /\ Cardinality(Starters) \in Nat /\ Cardinality(FreeWorkers) \in Nat
  BY <1>0, <1>1, Counts DEF Supply
<1>3. CASE Initialize
  <2>1. /\ cpc = "initialize" /\ cpc' = "submit" /\ threads' = 1
        /\ UNCHANGED <<queue, wpc, starting, status>>
    BY <1>3 DEF Initialize
  <2>2. FreeWorkers = {} /\ Cardinality({}) = 0
    <3>1. threads = 0
      BY <1>0, <2>1 DEF Threading
    <3>2. \A v \in Workers : ~(v <= threads)
      BY <3>1, Numbers
    <3> QED
      BY <3>2, FS_EmptySet DEF FreeWorkers, Exists
  <2>3. Len(queue) = 0 /\ Cardinality(Starters) = 0
    BY <1>0, <1>2, <2>2
  <2>4. Starters' = Starters /\ Owed' = 1
    BY <2>1 DEF Starters, Owed
  <2>5. 1 \in FreeWorkers' /\ FreeWorkers' \in SUBSET Workers
    BY <1>0, <2>1, Numbers DEF FreeWorkers, Exists, Threading
  <2>6. Cardinality({1}) <= Cardinality(FreeWorkers') /\ Cardinality({1}) = 1
    BY <2>5, Counts, FS_Singleton
  <2>7. Cardinality(FreeWorkers') \in Nat
    BY <2>5, Counts
  <2> QED
    BY <2>1, <2>3, <2>4, <2>6, <2>7
<1>4. CASE SubmitMain
  <2>1. /\ cpc = "submit" /\ cpc' = "copy" /\ queue' = Append(queue, Main)
        /\ status' = [status EXCEPT ![Main] = "queued"]
        /\ UNCHANGED <<threads, wpc, starting>>
    BY <1>4 DEF SubmitMain
  <2>2. Len(queue') = Len(queue) + 1
    BY <1>0, <2>1, Numbers DEF TypeOK
  <2>3. Owed = 1 /\ Owed' = 0
    BY <2>1 DEF Owed
  <2>4. FreeWorkers' = FreeWorkers
    BY <2>1 DEF FreeWorkers, Exists
  <2>5. Starters' = Starters
    BY <1>0, <2>1, Numbers DEF Starters, TypeOK
  <2> QED
    BY <1>0, <1>2, <2>2, <2>3, <2>4, <2>5
<1>5. CASE ~Initialize /\ ~SubmitMain
  <2>1. UNCHANGED <<queue, threads, wpc, starting, status>>
    BY <1>5 DEF Process, CopyFutures, AwaitSub, AwaitMain, Destroy, Joined, vars
  <2>2. Owed' = Owed
    BY <1>5 DEF Process, CopyFutures, AwaitSub, AwaitMain, Await, Destroy, Joined, vars, Owed
  <2>3. FreeWorkers' = FreeWorkers /\ Starters' = Starters
    BY <2>1 DEF FreeWorkers, Starters, Exists
  <2> QED
    BY <1>2, <2>1, <2>2, <2>3
<1> QED
  BY <1>3, <1>4, <1>5

\* vm/YVM.cpp and java_lang_thread_start: for any number of started threads, until the
\* pool is destroyed there are as many workers without a task as tasks in the queue, so
\* that no Java thread waits for another to end.
THEOREM AWorkerForEveryTaskHolds == Spec => []AWorkerForEveryTask
<1> DEFINE I == TypeInv /\ Books /\ Supply
<1>1. Init => Supply
  <2> SUFFICES ASSUME Init PROVE Supply
    OBVIOUS
  <2>1. Len(queue) = 0 /\ Owed = 0 /\ Starters = {} /\ FreeWorkers = {}
    BY Numbers DEF Init, Owed, Starters, FreeWorkers, Exists
  <2>2. Cardinality({}) = 0
    BY FS_EmptySet
  <2> QED
    BY <2>1, <2>2 DEF Supply
<1>2. TypeInv /\ Books /\ Supply /\ [Next]_vars => Supply'
  BY SupplyWorker, SupplyProcess DEF Next, Supply
<1>3. TypeInv /\ Supply => AWorkerForEveryTask
  <2> SUFFICES ASSUME TypeInv, Supply, ~done
               PROVE  Len(queue) <= Cardinality(FreeWorkers)
    BY DEF AWorkerForEveryTask, FreeWorkers
  <2>1. /\ Len(queue) \in Nat /\ Owed \in Nat /\ Starters \in SUBSET Workers
        /\ FreeWorkers \in SUBSET Workers
    BY DEF TypeInv, TypeOK, Owed, Starters, FreeWorkers
  <2>2. Cardinality(Starters) \in Nat /\ Cardinality(FreeWorkers) \in Nat
    BY <2>1, Counts
  <2> QED
    BY <2>1, <2>2 DEF Supply
<1> QED
  BY <1>1, <1>2, <1>3, BooksInvariant, PTL DEF Spec
=============================================================================
