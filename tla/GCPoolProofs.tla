---------------------------- MODULE GCPoolProofs ----------------------------
(***************************************************************************)
(* Proofs about GCPool, for any number of workers and of collections.      *)
(***************************************************************************)
EXTENDS GCPool, TLAPS

\* The inductive invariant: the types, and the round of a collection under way.
PoolInv == TypeOK /\ (cpc # "idle" => round \in 1..MaxCollections)

\* The two lists of tasks are lists of names.
LEMMA TaskLists == MarkTasks \in Seq(TaskNames) /\ SweepTasks \in Seq(TaskNames)
<1>1. Range(MarkTasks) = {"stack", "local", "static"}
  BY DEF MarkTasks, Range
<1>2. Range(SweepTasks) = {"objects", "arrays", "monitors"}
  BY DEF SweepTasks, Range
<1> QED
  BY <1>1, <1>2 DEF MarkTasks, SweepTasks, TaskNames

\* Types of what the pool starts with.
LEMMA PoolInit == Init => PoolInv
<1> SUFFICES ASSUME Init PROVE PoolInv
  OBVIOUS
<1>1. queue \in Seq(Tasks) /\ todo \in Seq(TaskNames)
  BY DEF Init
<1>2. {work, done} \subseteq BOOLEAN
  BY DEF Init
<1>3. /\ wpc \in [Workers -> {"loop", "lock", "test", "drowsy", "asleep", "woken",
                              "take", "run", "exited"}]
      /\ \A w \in Workers : sleepMtx = w <=> wpc[w] \in {"test", "drowsy", "take", "run"}
      /\ cur \in [Workers -> Tasks \cup {NoTask}]
      /\ \A w \in Workers : IF wpc[w] = "run" THEN cur[w] \in Tasks ELSE cur[w] = NoTask
  BY GCPoolAssumption DEF Init
<1> QED
  BY <1>1, <1>2, <1>3, GCPoolAssumption DEF Init, PoolInv, TypeOK

\* Every step keeps the invariant.
LEMMA PoolStep == PoolInv /\ [Next]_vars => PoolInv'
<1> SUFFICES ASSUME PoolInv, [Next]_vars PROVE PoolInv'
  OBVIOUS
<1> USE GCPoolAssumption DEF PoolInv, TypeOK, workerVars, callerVars, WGoto, CGoto
<1>1. ASSUME NEW w \in Workers, WorkerLoop(w) PROVE PoolInv'
  BY <1>1 DEF WorkerLoop
<1>2. ASSUME NEW w \in Workers, WorkerLock(w) PROVE PoolInv'
  BY <1>2 DEF WorkerLock
<1>3. ASSUME NEW w \in Workers, WorkerTest(w) PROVE PoolInv'
  BY <1>3 DEF WorkerTest
<1>4. ASSUME NEW w \in Workers, WorkerSleep(w) PROVE PoolInv'
  BY <1>4 DEF WorkerSleep
<1>5. ASSUME NEW w \in Workers, WorkerTake(w) PROVE PoolInv'
  <2>1. Head(queue) \in Tasks /\ Tail(queue) \in Seq(Tasks)
    BY <1>5 DEF WorkerTake
  <2>2. \A v \in Workers : IF wpc'[v] = "run" THEN cur'[v] \in Tasks ELSE cur'[v] = NoTask
    BY <1>5, <2>1 DEF WorkerTake
  <2>3. /\ wpc' \in [Workers -> {"loop", "lock", "test", "drowsy", "asleep", "woken",
                                 "take", "run", "exited"}]
        /\ \A v \in Workers : sleepMtx' = v <=> wpc'[v] \in {"test", "drowsy", "take", "run"}
    BY <1>5 DEF WorkerTake
  <2> QED
    BY <1>5, <2>1, <2>2, <2>3 DEF WorkerTake
<1>6. ASSUME NEW w \in Workers, WorkerFindsNone(w) PROVE PoolInv'
  BY <1>6 DEF WorkerFindsNone
<1>7. ASSUME NEW w \in Workers, WorkerFinish(w) PROVE PoolInv'
  <2>1. cur[w] \in Tasks
    BY <1>7 DEF WorkerFinish
  <2>2. cur[w].round \in 1..MaxCollections
    BY <2>1 DEF Tasks
  <2>3. ready' \subseteq Tasks /\ failed' \subseteq 1..MaxCollections
    BY <1>7, <2>1, <2>2 DEF WorkerFinish
  <2>4. /\ wpc' \in [Workers -> {"loop", "lock", "test", "drowsy", "asleep", "woken",
                                 "take", "run", "exited"}]
        /\ \A v \in Workers : sleepMtx' = v <=> wpc'[v] \in {"test", "drowsy", "take", "run"}
    BY <1>7 DEF WorkerFinish
  <2>5. \A v \in Workers : IF wpc'[v] = "run" THEN cur'[v] \in Tasks ELSE cur'[v] = NoTask
    BY <1>7 DEF WorkerFinish
  <2> QED
    BY <1>7, <2>3, <2>4, <2>5 DEF WorkerFinish
<1>8. ASSUME NEW w \in Workers, SpuriousWake(w) PROVE PoolInv'
  BY <1>8 DEF SpuriousWake
<1>9. ASSUME BeginCollection PROVE PoolInv'
  BY <1>9 DEF BeginCollection
<1>10. ASSUME SignalNotify PROVE PoolInv'
  BY <1>10, TaskLists DEF SignalNotify, NotifyAll
<1>11. ASSUME SubmitNext PROVE PoolInv'
  BY <1>11 DEF SubmitNext, Task, Tasks
<1>12. ASSUME StaticThrows PROVE PoolInv'
  BY <1>12 DEF StaticThrows
<1>13. ASSUME MarkingDone PROVE PoolInv'
  BY <1>13, TaskLists DEF MarkingDone
<1>14. ASSUME SweepingDone PROVE PoolInv'
  BY <1>14 DEF SweepingDone
<1>15. ASSUME FinalizeWork \/ FinalizeDone \/ FinalizeNotify PROVE PoolInv'
  BY <1>15 DEF FinalizeWork, FinalizeDone, FinalizeNotify, NotifyAll
<1>16. CASE UNCHANGED vars
  BY <1>16 DEF vars
<1> QED
  BY <1>1, <1>2, <1>3, <1>4, <1>5, <1>6, <1>7, <1>8, <1>9, <1>10, <1>11, <1>12, <1>13,
     <1>14, <1>15, <1>16 DEF Next, Worker, Caller

\* The pool's variables keep their types, and sleepMtx is held by the worker that
\* is in its region and by no other.
THEOREM PoolTypeCorrect == Spec => []TypeOK
<1>1. PoolInv => TypeOK
  BY DEF PoolInv
<1> QED
  BY <1>1, PoolInit, PoolStep, PTL DEF Spec

-----------------------------------------------------------------------------
\* The refinement mapping: the task that runs, as the serial executor sees it.
RunningTask == IF Running = {} THEN NoTask ELSE CHOOSE task \in Running : TRUE

\* One worker at a time runs a task.
LEMMA OneRunner ==
    ASSUME TypeOK, NEW w \in Workers, wpc[w] = "run"
    PROVE  /\ Running = {cur[w]}
           /\ RunningTask = cur[w]
           /\ RunningTask # NoTask
<1>1. \A v \in Workers : wpc[v] = "run" => v = w
  BY DEF TypeOK
<1>2. Running = {cur[w]}
  BY <1>1 DEF Running
<1>3. cur[w] # NoTask
  BY GCPoolAssumption DEF TypeOK
<1> QED
  BY <1>2, <1>3 DEF RunningTask

\* With no worker at a task the executor is idle.
LEMMA NoRunner ==
    ASSUME \A w \in Workers : wpc[w] # "run"
    PROVE  RunningTask = NoTask
  BY DEF Running, RunningTask

\* The same two, of the state after a step.
LEMMA OneRunnerNext ==
    ASSUME TypeOK', NEW w \in Workers, wpc'[w] = "run"
    PROVE  RunningTask' = cur'[w]
<1>1. \A v \in Workers : wpc'[v] = "run" => v = w
  BY DEF TypeOK
<1>2. Running' = {cur'[w]}
  BY <1>1 DEF Running
<1> QED
  BY <1>2 DEF RunningTask

LEMMA NoRunnerNext ==
    ASSUME \A w \in Workers : wpc'[w] # "run"
    PROVE  RunningTask' = NoTask
  BY DEF Running, RunningTask

\* A step after which the same workers run the same tasks is none of the
\* executor's: what it runs stays the same.
LEMMA SameRunner ==
    ASSUME cur' = cur, \A w \in Workers : wpc'[w] = "run" <=> wpc[w] = "run"
    PROVE  RunningTask' = RunningTask
<1>1. Running' = Running
  BY DEF Running
<1> QED
  BY <1>1 DEF RunningTask

\* Starting, running to the end and submitting are what the executor does; every
\* other step of the pool leaves its variables alone.
LEMMA ExecutorStep ==
    ASSUME PoolInv, PoolInv', [Next]_vars
    PROVE  [Executor!ExecutorNext]_<<queue, RunningTask, ready>>
<1> USE GCPoolAssumption
<1> DEFINE Stutter == UNCHANGED <<queue, RunningTask, ready>>
<1>1. ASSUME NEW w \in Workers, WorkerTake(w)
      PROVE  Executor!Start
  <2>1. \A v \in Workers : wpc[v] # "run"
    BY <1>1 DEF PoolInv, TypeOK, WorkerTake
  <2>2. RunningTask = NoTask
    BY <2>1, NoRunner
  <2>3. wpc'[w] = "run" /\ cur'[w] = Head(queue)
    BY <1>1 DEF WorkerTake, WGoto, PoolInv, TypeOK
  <2>4. RunningTask' = Head(queue)
    BY <2>3, OneRunnerNext DEF PoolInv
  <2> QED
    BY <1>1, <2>2, <2>4 DEF WorkerTake, Executor!Start, RunningTask
<1>2. ASSUME NEW w \in Workers, WorkerFinish(w)
      PROVE  Executor!Finish
  <2>1. wpc[w] = "run"
    BY <1>2 DEF WorkerFinish
  <2>2. RunningTask = cur[w] /\ RunningTask # NoTask
    BY <2>1, OneRunner DEF PoolInv
  <2>3. \A v \in Workers : wpc'[v] # "run"
    BY <1>2 DEF WorkerFinish, WGoto, PoolInv, TypeOK
  <2>4. RunningTask' = NoTask
    BY <2>3, NoRunnerNext
  <2> QED
    BY <1>2, <2>2, <2>4 DEF WorkerFinish, Executor!Finish, RunningTask
<1>3. ASSUME SubmitNext
      PROVE  \E task \in Tasks : Executor!Submit(task)
  <2>1. Task(Head(todo)) \in Tasks
    BY <1>3 DEF SubmitNext, PoolInv, TypeOK, Task, Tasks
  <2>2. RunningTask' = RunningTask
    BY <1>3, SameRunner DEF SubmitNext, workerVars
  <2> QED
    BY <1>3, <2>1, <2>2 DEF SubmitNext, Executor!Submit, RunningTask
<1>4. ASSUME NEW w \in Workers,
             WorkerLoop(w) \/ WorkerLock(w) \/ WorkerTest(w) \/ WorkerSleep(w)
             \/ WorkerFindsNone(w) \/ SpuriousWake(w)
      PROVE  Stutter
  <2>1. \A v \in Workers : wpc'[v] = "run" <=> wpc[v] = "run"
    BY <1>4 DEF WorkerLoop, WorkerLock, WorkerTest, WorkerSleep, WorkerFindsNone,
                SpuriousWake, WGoto, PoolInv, TypeOK
  <2>2. cur' = cur /\ UNCHANGED <<queue, ready>>
    BY <1>4 DEF WorkerLoop, WorkerLock, WorkerTest, WorkerSleep, WorkerFindsNone, SpuriousWake
  <2> QED
    BY <2>1, <2>2, SameRunner
<1>5. ASSUME SignalNotify \/ FinalizeNotify
      PROVE  Stutter
  <2>1. \A v \in Workers : wpc'[v] = "run" <=> wpc[v] = "run"
    BY <1>5 DEF SignalNotify, FinalizeNotify, NotifyAll, PoolInv, TypeOK
  <2>2. cur' = cur /\ UNCHANGED <<queue, ready>>
    BY <1>5 DEF SignalNotify, FinalizeNotify
  <2> QED
    BY <2>1, <2>2, SameRunner
<1>6. ASSUME \/ BeginCollection \/ StaticThrows \/ MarkingDone \/ SweepingDone
             \/ FinalizeWork \/ FinalizeDone \/ UNCHANGED vars
      PROVE  Stutter
  <2>1. wpc' = wpc /\ cur' = cur /\ UNCHANGED <<queue, ready>>
    BY <1>6 DEF BeginCollection, StaticThrows, MarkingDone, SweepingDone, FinalizeWork,
                FinalizeDone, workerVars, vars
  <2> QED
    BY <2>1, SameRunner
<1> QED
  BY <1>1, <1>2, <1>3, <1>4, <1>5, <1>6 DEF Next, Worker, Caller, Executor!ExecutorNext

\* However many workers there are, the pool is a serial executor: the tasks of
\* the collections run one at a time, in the order of submission.
THEOREM PoolRunsSerially == Spec => RunsSerially
<1>1. Init => Executor!ExecutorInit
  <2> SUFFICES ASSUME Init PROVE Executor!ExecutorInit
    OBVIOUS
  <2>1. RunningTask = NoTask
    BY NoRunner DEF Init
  <2> QED
    BY <2>1 DEF Init, Executor!ExecutorInit, RunningTask
<1>2. PoolInv /\ PoolInv' /\ [Next]_vars => [Executor!ExecutorNext]_(Executor!executorVars)
  BY ExecutorStep DEF Executor!executorVars, RunningTask
<1> QED
  BY <1>1, <1>2, PoolInit, PoolStep, PTL DEF Spec, RunsSerially, Executor!ExecutorSpec

-----------------------------------------------------------------------------
(* What is left of a collection when it is over.                           *)

\* The list L of three tasks is under way: the first a have run, the first b were
\* started, the first c were submitted.
At(L, a, b, c) ==
    /\ a <= b /\ b <= c /\ b <= a + 1
    /\ Len(todo) = 3 - c /\ \A i \in 1..Len(todo) : todo[i] = L[c + i]
    /\ Len(queue) = c - b /\ \A i \in 1..Len(queue) : queue[i] = Task(L[b + i])
    /\ (\E w \in Workers : wpc[w] = "run") <=> b = a + 1
    /\ \A w \in Workers : wpc[w] = "run" => cur[w] = Task(L[b])
    /\ \A i \in 1..3 : i > a => Task(L[i]) \notin ready

InOrder(L) == \E a, b, c \in 0..3 : At(L, a, b, c)

\* Nothing is in the pool.
Quiet == queue = <<>> /\ \A w \in Workers : wpc[w] # "run"

\* Whose futures are ready.
ReadyBooks ==
    /\ \A task \in ready : task.round <= round
    /\ cpc = "notify" => \A task \in ready : task.round < round
    /\ cpc = "mark" => \A task \in ready : \/ task.round < round
                                          \/ task.name \in {"stack", "local", "static"}

RoundInv == /\ cpc \in {"idle", "notify"} => Quiet
            /\ cpc = "mark"  => InOrder(MarkTasks)
            /\ cpc = "sweep" => InOrder(SweepTasks)
            /\ ReadyBooks

IsList(L) == /\ L \in Seq(TaskNames) /\ Len(L) = 3
             /\ \A i, j \in 1..3 : L[i] = L[j] => i = j

LEMMA Lists ==
    /\ IsList(MarkTasks) /\ IsList(SweepTasks)
    /\ \A i \in 1..3 : MarkTasks[i] \in {"stack", "local", "static"}
    /\ \A i \in 1..3 : SweepTasks[i] \notin {"stack", "local", "static"}
    /\ MarkTasks[3] = "static" /\ SweepTasks[3] = "monitors"
    /\ "static" \in Range(MarkTasks) /\ "monitors" \in Range(SweepTasks)
<1>1. /\ Len(MarkTasks) = 3 /\ MarkTasks[1] = "stack" /\ MarkTasks[2] = "local"
      /\ MarkTasks[3] = "static" /\ DOMAIN MarkTasks = 1..3
  BY DEF MarkTasks
<1>2. /\ Len(SweepTasks) = 3 /\ SweepTasks[1] = "objects" /\ SweepTasks[2] = "arrays"
      /\ SweepTasks[3] = "monitors" /\ DOMAIN SweepTasks = 1..3
  BY DEF SweepTasks
<1>3. \A i \in 1..3 : i = 1 \/ i = 2 \/ i = 3
  OBVIOUS
<1> QED
  BY <1>1, <1>2, <1>3, TaskLists DEF IsList, Range

\* The last of a list of tasks has run: then nothing of it is left in the pool.
LEMMA LastRun ==
    ASSUME TypeOK, NEW L, InOrder(L), Task(L[3]) \in ready
    PROVE  Quiet
<1>1. PICK a, b, c \in 0..3 : At(L, a, b, c)
  BY DEF InOrder
<1>2. a = 3 /\ b = 3 /\ c = 3
  BY <1>1 DEF At
<1>3. Len(queue) = 0
  BY <1>1, <1>2 DEF At
<1>4. queue = <<>>
  BY <1>3 DEF TypeOK
<1> QED
  BY <1>1, <1>2, <1>4 DEF At, Quiet

LEMMA ListStart ==
    ASSUME TypeOK, NEW L, IsList(L), Quiet, Quiet', todo' = L,
           \A i \in 1..3 : Task(L[i])' \notin ready'
    PROVE  InOrder(L)'
<1>1. Len(todo') = 3 /\ \A i \in 1..3 : todo'[i] = L[0 + i]
  BY DEF IsList
<1>2. Len(queue') = 0 - 0 /\ \A w \in Workers : wpc'[w] # "run"
  BY DEF Quiet
<1>3. At(L, 0, 0, 0)'
  BY <1>1, <1>2 DEF At, Task
<1> QED
  BY <1>3 DEF InOrder

\* The list moves on as its tasks are submitted, taken and run.
LEMMA ListSubmit ==
    ASSUME TypeOK, NEW L, IsList(L), InOrder(L), SubmitNext
    PROVE  InOrder(L)'
<1>1. PICK a, b, c \in 0..3 : At(L, a, b, c)
  BY DEF InOrder
<1>2. /\ todo # <<>> /\ queue' = Append(queue, Task(Head(todo))) /\ todo' = Tail(todo)
      /\ UNCHANGED <<ready, round, wpc, cur>>
  BY DEF SubmitNext, workerVars
<1>3. /\ c + 1 \in 0..3 /\ Head(todo) = L[c + 1]
      /\ Len(todo') = 3 - (c + 1) /\ \A i \in 1..Len(todo') : todo'[i] = L[(c + 1) + i]
  <2>1. Len(todo) = 3 - c /\ \A i \in 1..Len(todo) : todo[i] = L[c + i]
    BY <1>1 DEF At
  <2>2. Len(todo) \in Nat \ {0} /\ Head(todo) = todo[1] /\ Len(todo') = Len(todo) - 1
        /\ \A i \in 1..Len(todo') : todo'[i] = todo[i + 1] /\ i + 1 \in 1..Len(todo)
    BY <1>2 DEF TypeOK
  <2> QED
    BY <2>1, <2>2
<1>4. /\ Len(queue') = (c + 1) - b
      /\ \A i \in 1..Len(queue') : queue'[i] = Task(L[b + i])
  <2>1. Len(queue) = c - b /\ \A i \in 1..Len(queue) : queue[i] = Task(L[b + i])
    BY <1>1 DEF At
  <2>2. /\ Len(queue') = Len(queue) + 1 /\ Len(queue) \in Nat
        /\ \A i \in 1..Len(queue) : queue'[i] = queue[i]
        /\ queue'[Len(queue) + 1] = Task(L[c + 1])
    BY <1>2, <1>3 DEF TypeOK
  <2>3. ASSUME NEW i \in 1..Len(queue') PROVE queue'[i] = Task(L[b + i])
    <3>1. i \in 1..Len(queue) \/ (i = Len(queue) + 1 /\ b + i = c + 1)
      BY <2>1, <2>2, <2>3
    <3> QED
      BY <2>1, <2>2, <3>1
  <2> QED
    BY <2>1, <2>2, <2>3
<1>5. \A n : Task(n)' = Task(n)
  BY <1>2 DEF Task
<1>6. /\ a <= b /\ b <= c + 1 /\ b <= a + 1
      /\ (\E w \in Workers : wpc'[w] = "run") <=> b = a + 1
      /\ \A w \in Workers : wpc'[w] = "run" => cur'[w] = Task(L[b])'
      /\ \A i \in 1..3 : i > a => Task(L[i])' \notin ready'
  BY <1>1, <1>2, <1>5 DEF At
<1>7. At(L, a, b, c + 1)'
  BY <1>3, <1>4, <1>5, <1>6 DEF At
<1> QED
  BY <1>3, <1>7 DEF InOrder

LEMMA ListTake ==
    ASSUME TypeOK, NEW L, IsList(L), InOrder(L), NEW w \in Workers, WorkerTake(w)
    PROVE  InOrder(L)'
<1>1. PICK a, b, c \in 0..3 : At(L, a, b, c)
  BY DEF InOrder
<1>2. /\ wpc[w] = "take" /\ queue # <<>> /\ cur' = [cur EXCEPT ![w] = Head(queue)]
      /\ queue' = Tail(queue) /\ wpc' = [wpc EXCEPT ![w] = "run"]
      /\ UNCHANGED <<ready, round, todo>>
  BY DEF WorkerTake, WGoto, callerVars
<1>3. \A v \in Workers : wpc[v] # "run"
  BY <1>2 DEF TypeOK
<1>4. b = a
  BY <1>1, <1>3 DEF At
<1>5. Len(queue) = c - b /\ \A i \in 1..Len(queue) : queue[i] = Task(L[b + i])
  BY <1>1 DEF At
<1>6. /\ Len(queue) \in Nat \ {0} /\ Head(queue) = queue[1] /\ Len(queue') = Len(queue) - 1
      /\ \A i \in 1..Len(queue') : queue'[i] = queue[i + 1] /\ i + 1 \in 1..Len(queue)
  BY <1>2 DEF TypeOK
<1>7. b + 1 \in 0..3 /\ b + 1 <= c /\ Head(queue) = Task(L[b + 1])
  BY <1>5, <1>6
<1>8. Len(queue') = c - (b + 1) /\ \A i \in 1..Len(queue') : queue'[i] = Task(L[(b + 1) + i])
  BY <1>5, <1>6
<1>9. \A n : Task(n)' = Task(n)
  BY <1>2 DEF Task
<1>10. /\ wpc'[w] = "run" /\ cur'[w] = Task(L[b + 1])
       /\ \A v \in Workers \ {w} : wpc'[v] # "run"
  BY <1>2, <1>3, <1>7 DEF TypeOK
<1>11. At(L, a, b + 1, c)'
  <2>1. a <= b + 1 /\ b + 1 <= c /\ b + 1 <= a + 1
    BY <1>4, <1>7
  <2>2. Len(todo') = 3 - c /\ \A i \in 1..Len(todo') : todo'[i] = L[c + i]
    BY <1>1, <1>2 DEF At
  <2>3. (\E v \in Workers : wpc'[v] = "run") <=> b + 1 = a + 1
    BY <1>4, <1>10
  <2>4. \A v \in Workers : wpc'[v] = "run" => cur'[v] = Task(L[b + 1])'
    BY <1>9, <1>10
  <2>5. \A i \in 1..3 : i > a => Task(L[i])' \notin ready'
    BY <1>1, <1>2, <1>9 DEF At
  <2> QED
    BY <1>8, <1>9, <2>1, <2>2, <2>3, <2>4, <2>5 DEF At
<1> QED
  BY <1>7, <1>11 DEF InOrder

LEMMA ListFinish ==
    ASSUME TypeOK, NEW L, IsList(L), InOrder(L), NEW w \in Workers, WorkerFinish(w)
    PROVE  InOrder(L)' /\ \E i \in 1..3 : cur[w] = Task(L[i])
<1>1. PICK a, b, c \in 0..3 : At(L, a, b, c)
  BY DEF InOrder
<1>2. /\ wpc[w] = "run" /\ ready' = ready \cup {cur[w]}
      /\ cur' = [cur EXCEPT ![w] = NoTask] /\ wpc' = [wpc EXCEPT ![w] = "loop"]
      /\ UNCHANGED <<queue, round, todo>>
  BY DEF WorkerFinish, WGoto, callerVars
<1>3. b = a + 1 /\ cur[w] = Task(L[b]) /\ b \in 1..3
  BY <1>1, <1>2 DEF At
<1>4. \A v \in Workers : wpc'[v] # "run"
  BY <1>2 DEF TypeOK
<1>5. \A n : Task(n)' = Task(n)
  BY <1>2 DEF Task
<1>6. ASSUME NEW i \in 1..3, i > b PROVE Task(L[i])' \notin ready'
  <2>1. Task(L[i]) \notin ready
    BY <1>1, <1>3, <1>6 DEF At
  <2>2. L[i] # L[b]
    BY <1>3, <1>6 DEF IsList
  <2>3. Task(L[i]) # Task(L[b])
    BY <2>2 DEF Task
  <2> QED
    BY <1>2, <1>3, <1>5, <2>1, <2>3
<1>7. At(L, b, b, c)'
  <2>1. b <= c /\ b <= b + 1 /\ b # b + 1
    BY <1>1 DEF At
  <2>2. Len(todo') = 3 - c /\ \A i \in 1..Len(todo') : todo'[i] = L[c + i]
    BY <1>1, <1>2 DEF At
  <2>3. Len(queue') = c - b /\ \A i \in 1..Len(queue') : queue'[i] = Task(L[b + i])'
    BY <1>1, <1>2, <1>5 DEF At
  <2> QED
    BY <1>4, <1>6, <2>1, <2>2, <2>3 DEF At
<1> QED
  BY <1>3, <1>7 DEF InOrder

\* A step that is none of these leaves the list where it is.
LEMMA ListSame ==
    ASSUME NEW L, InOrder(L), UNCHANGED <<queue, ready, round, todo, cur>>,
           \A w \in Workers : (wpc'[w] = "run") <=> (wpc[w] = "run")
    PROVE  InOrder(L)'
<1>1. \A n : Task(n)' = Task(n)
  BY DEF Task
<1>2. PICK a, b, c \in 0..3 : At(L, a, b, c)
  BY DEF InOrder
<1>3. At(L, a, b, c)'
  BY <1>1, <1>2 DEF At
<1> QED
  BY <1>3 DEF InOrder

\* A step of the executor's owner or of no consequence.
LEMMA RoundSame ==
    ASSUME RoundInv, UNCHANGED <<queue, ready, round, todo, cur, cpc>>,
           \A w \in Workers : (wpc'[w] = "run") <=> (wpc[w] = "run")
    PROVE  RoundInv'
<1>1. InOrder(MarkTasks) => InOrder(MarkTasks)'
  BY ListSame
<1>2. InOrder(SweepTasks) => InOrder(SweepTasks)'
  BY ListSame
<1> QED
  BY <1>1, <1>2 DEF RoundInv, Quiet, ReadyBooks

LEMMA RoundStep == PoolInv /\ RoundInv /\ [Next]_vars => RoundInv'
<1> SUFFICES ASSUME PoolInv, RoundInv, [Next]_vars PROVE RoundInv'
  OBVIOUS
<1>0. TypeOK /\ round \in Nat /\ \A task \in ready : task.round \in Nat
  BY GCPoolAssumption DEF PoolInv, TypeOK, Tasks
<1>1. ASSUME NEW w \in Workers, WorkerTake(w) PROVE RoundInv'
  <2>1. UNCHANGED <<ready, round, cpc>> /\ queue # <<>>
    BY <1>1 DEF WorkerTake, callerVars
  <2>2. cpc = "mark" => InOrder(MarkTasks)'
    BY <1>0, <1>1, ListTake, Lists DEF RoundInv
  <2>3. cpc = "sweep" => InOrder(SweepTasks)'
    BY <1>0, <1>1, ListTake, Lists DEF RoundInv
  <2> QED
    BY <2>1, <2>2, <2>3 DEF RoundInv, ReadyBooks, Quiet
<1>2. ASSUME NEW w \in Workers, WorkerFinish(w) PROVE RoundInv'
  <2>1. /\ UNCHANGED <<round, cpc>> /\ ready' = ready \cup {cur[w]} /\ wpc[w] = "run"
        /\ cpc \in {"mark", "sweep"}
    BY <1>0, <1>2 DEF WorkerFinish, callerVars, RoundInv, Quiet, TypeOK
  <2>2. CASE cpc = "mark"
    <3>1. InOrder(MarkTasks)' /\ \E i \in 1..3 : cur[w] = Task(MarkTasks[i])
      BY <1>0, <1>2, <2>2, ListFinish, Lists DEF RoundInv
    <3>2. cur[w].round = round /\ cur[w].name \in {"stack", "local", "static"}
      BY <3>1, Lists DEF Task
    <3> QED
      BY <1>0, <2>1, <2>2, <3>1, <3>2 DEF RoundInv, ReadyBooks
  <2>3. CASE cpc = "sweep"
    <3>1. InOrder(SweepTasks)' /\ \E i \in 1..3 : cur[w] = Task(SweepTasks[i])
      BY <1>0, <1>2, <2>3, ListFinish, Lists DEF RoundInv
    <3>2. cur[w].round = round
      BY <3>1 DEF Task
    <3> QED
      BY <1>0, <2>1, <2>3, <3>1, <3>2 DEF RoundInv, ReadyBooks
  <2> QED
    BY <2>1, <2>2, <2>3
<1>3. CASE SubmitNext
  <2>1. UNCHANGED <<ready, round, cpc>> /\ cpc \in {"mark", "sweep"}
    BY <1>3 DEF SubmitNext
  <2>2. cpc = "mark" => InOrder(MarkTasks)'
    BY <1>0, <1>3, ListSubmit, Lists DEF RoundInv
  <2>3. cpc = "sweep" => InOrder(SweepTasks)'
    BY <1>0, <1>3, ListSubmit, Lists DEF RoundInv
  <2> QED
    BY <2>1, <2>2, <2>3 DEF RoundInv, ReadyBooks
<1>4. CASE BeginCollection
  <2>1. /\ cpc = "idle" /\ cpc' = "notify" /\ round' = round + 1
        /\ UNCHANGED <<queue, ready, wpc>>
    BY <1>4 DEF BeginCollection, CGoto, workerVars
  <2>2. Quiet'
    BY <2>1 DEF RoundInv, Quiet
  <2>3. ReadyBooks'
    BY <1>0, <2>1 DEF RoundInv, ReadyBooks
  <2> QED
    BY <2>1, <2>2, <2>3 DEF RoundInv
<1>5. CASE SignalNotify
  <2>1. /\ cpc = "notify" /\ cpc' = "mark" /\ todo' = MarkTasks
        /\ UNCHANGED <<queue, ready, round, cur>>
        /\ \A w \in Workers : (wpc'[w] = "run") <=> (wpc[w] = "run")
    BY <1>5, <1>0 DEF SignalNotify, CGoto, NotifyAll, TypeOK
  <2>2. Quiet /\ Quiet'
    BY <2>1 DEF RoundInv, Quiet
  <2>3. \A n : Task(n).round = round /\ Task(n)' = Task(n)
    BY <2>1 DEF Task
  <2>4. \A i \in 1..3 : Task(MarkTasks[i])' \notin ready'
    BY <1>0, <2>1, <2>3 DEF RoundInv, ReadyBooks
  <2>5. InOrder(MarkTasks)'
    BY <1>0, <2>1, <2>2, <2>4, ListStart, Lists
  <2> QED
    BY <2>1, <2>5 DEF RoundInv, ReadyBooks
<1>6. CASE StaticThrows
  <2>1. /\ cpc = "mark" /\ cpc' = "idle" /\ Task("static") \in ready
        /\ UNCHANGED <<queue, ready, round, wpc>>
    BY <1>6 DEF StaticThrows, CGoto, workerVars
  <2>2. Quiet
    BY <1>0, <2>1, LastRun, Lists DEF RoundInv
  <2> QED
    BY <2>1, <2>2 DEF RoundInv, ReadyBooks, Quiet
<1>7. CASE MarkingDone
  <2>1. /\ cpc = "mark" /\ cpc' = "sweep" /\ todo' = SweepTasks /\ Task("static") \in ready
        /\ UNCHANGED <<queue, ready, round, wpc>>
    BY <1>7, Lists DEF MarkingDone, CGoto, workerVars, AllReady
  <2>2. Quiet /\ Quiet'
    BY <1>0, <2>1, LastRun, Lists DEF RoundInv, Quiet
  <2>3. \A n : Task(n).round = round /\ Task(n).name = n /\ Task(n)' = Task(n)
    BY <2>1 DEF Task
  <2>4. \A i \in 1..3 : Task(SweepTasks[i])' \notin ready'
    BY <1>0, <2>1, <2>3, Lists DEF RoundInv, ReadyBooks
  <2>5. InOrder(SweepTasks)'
    BY <1>0, <2>1, <2>2, <2>4, ListStart, Lists
  <2> QED
    BY <2>1, <2>5 DEF RoundInv, ReadyBooks
<1>8. CASE SweepingDone
  <2>1. /\ cpc = "sweep" /\ cpc' = "idle" /\ Task("monitors") \in ready
        /\ UNCHANGED <<queue, ready, round, wpc>>
    BY <1>8, Lists DEF SweepingDone, CGoto, workerVars, AllReady
  <2>2. Quiet
    BY <1>0, <2>1, LastRun, Lists DEF RoundInv
  <2> QED
    BY <2>1, <2>2 DEF RoundInv, ReadyBooks, Quiet
<1>9. ASSUME NEW w \in Workers,
             WorkerLoop(w) \/ WorkerLock(w) \/ WorkerTest(w) \/ WorkerSleep(w)
             \/ WorkerFindsNone(w) \/ SpuriousWake(w)
      PROVE  RoundInv'
  <2>1. \A v \in Workers : wpc'[v] = "run" <=> wpc[v] = "run"
    BY <1>0, <1>9 DEF WorkerLoop, WorkerLock, WorkerTest, WorkerSleep, WorkerFindsNone,
                      SpuriousWake, WGoto, TypeOK
  <2>2. UNCHANGED <<queue, ready, round, todo, cur, cpc>>
    BY <1>9 DEF WorkerLoop, WorkerLock, WorkerTest, WorkerSleep, WorkerFindsNone,
                SpuriousWake, callerVars
  <2> QED
    BY <2>1, <2>2, RoundSame
<1>10. CASE FinalizeWork \/ FinalizeDone \/ FinalizeNotify \/ UNCHANGED vars
  <2>1. \A v \in Workers : wpc'[v] = "run" <=> wpc[v] = "run"
    BY <1>0, <1>10 DEF FinalizeWork, FinalizeDone, FinalizeNotify, NotifyAll, workerVars,
                       vars, TypeOK
  <2>2. UNCHANGED <<queue, ready, round, todo, cur, cpc>>
    BY <1>10 DEF FinalizeWork, FinalizeDone, FinalizeNotify, workerVars, callerVars, vars
  <2> QED
    BY <2>1, <2>2, RoundSame
<1> QED
  BY <1>1, <1>2, <1>3, <1>4, <1>5, <1>6, <1>7, <1>8, <1>9, <1>10 DEF Next, Worker, Caller

\* gc/GC.cpp gc: for any number of workers, when gc() is over, or was left because the
\* static task threw, none of its tasks is queued or runs.
THEOREM NothingLeftBehindHolds == Spec => []NothingLeftBehind
<1>1. Init => RoundInv
  BY DEF Init, RoundInv, Quiet, ReadyBooks
<1>2. RoundInv => NothingLeftBehind
  BY DEF RoundInv, Quiet, NothingLeftBehind, Running
<1> QED
  BY <1>1, <1>2, PoolInit, PoolStep, RoundStep, PTL DEF Spec
=============================================================================
