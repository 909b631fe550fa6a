--------------------------- MODULE SerialExecutor ---------------------------
(***************************************************************************)
(* What the collector relies on of its worker pool: submitted tasks run    *)
(* one at a time, in the order of submission, and a task's future is ready *)
(* once the task has run.                                                  *)
(***************************************************************************)
EXTENDS Sequences

CONSTANTS Tasks, NoTask

VARIABLES queue,    \* submitted, not started
          running,  \* the task that runs, or NoTask
          ready     \* tasks whose future is ready

executorVars == <<queue, running, ready>>

ExecutorInit == queue = <<>> /\ running = NoTask /\ ready = {}

Submit(task) == /\ queue' = Append(queue, task)
                /\ UNCHANGED <<running, ready>>

Start == /\ running = NoTask
         /\ queue # <<>>
         /\ running' = Head(queue)
         /\ queue' = Tail(queue)
         /\ UNCHANGED ready

Finish == /\ running # NoTask
          /\ ready' = ready \cup {running}
          /\ running' = NoTask
          /\ UNCHANGED queue

ExecutorNext == (\E task \in Tasks : Submit(task)) \/ Start \/ Finish

ExecutorSpec == ExecutorInit /\ [][ExecutorNext]_executorVars
=============================================================================
