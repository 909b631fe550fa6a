--------------------------- MODULE MarkSweepProofs --------------------------
(***************************************************************************)
(* Proofs about MarkSweep, for any heaps, threads and number of            *)
(* collections: what a collection takes and what it leaves.                *)
(***************************************************************************)
EXTENDS MarkSweep, TLAPS

MarkNames  == {"stack", "local", "static"}
SweepNames == {"objects", "arrays", "monitors"}

\* How far the executor is with the tasks a, b and c, when those in before are done.
Progress(a, b, c, before) ==
    \/ queue = <<a, b, c>> /\ running = NoTask /\ ready = before
    \/ queue = <<b, c>> /\ running = a /\ ready = before
    \/ queue = <<b, c>> /\ running = NoTask /\ ready = before \cup {a}
    \/ queue = <<c>> /\ running = b /\ ready = before \cup {a}
    \/ queue = <<c>> /\ running = NoTask /\ ready = before \cup {a, b}
    \/ queue = <<>> /\ running = c /\ ready = before \cup {a, b}
    \/ queue = <<>> /\ running = NoTask /\ ready = before \cup {a, b, c}

\* The tasks there are at each stage of a collection.
Stages ==
    /\ cpc = "idle"  => queue = <<>> /\ running = NoTask
    /\ cpc = "mark"  => Progress("stack", "local", "static", {})
    /\ cpc = "sweep" => Progress("objects", "arrays", "monitors", MarkNames)

TypeInv == TypeOK /\ Stages

-----------------------------------------------------------------------------
(* Types and stages.                                                       *)

LEMMA TaskFacts ==
    /\ NoTask \notin MarkNames \cup SweepNames
    /\ Tasks = MarkNames \cup SweepNames
    /\ <<"stack", "local", "static">> \in Seq(Tasks)
    /\ <<"objects", "arrays", "monitors">> \in Seq(Tasks)
  BY MarkSweepAssumption DEF MarkNames, SweepNames

LEMMA ProgressStart ==
    ASSUME NEW a \in Tasks, NEW b \in Tasks, NEW c \in Tasks, NEW before,
           Progress(a, b, c, before), Start
    PROVE  Progress(a, b, c, before)'
<1>1. NoTask \notin Tasks
  BY MarkSweepAssumption
<1>2. /\ Head(<<a, b, c>>) = a /\ Tail(<<a, b, c>>) = <<b, c>>
      /\ Head(<<b, c>>) = b /\ Tail(<<b, c>>) = <<c>>
      /\ Head(<<c>>) = c /\ Tail(<<c>>) = <<>>
  OBVIOUS
<1>3. /\ running = NoTask /\ queue # <<>> /\ ready' = ready
      /\ running' = Head(queue) /\ queue' = Tail(queue)
  BY DEF Start
<1>4. \/ queue = <<a, b, c>> /\ ready = before
      \/ queue = <<b, c>> /\ ready = before \cup {a}
      \/ queue = <<c>> /\ ready = before \cup {a, b}
  BY <1>1, <1>3 DEF Progress
<1>5. \/ queue' = <<b, c>> /\ running' = a /\ ready' = before
      \/ queue' = <<c>> /\ running' = b /\ ready' = before \cup {a}
      \/ queue' = <<>> /\ running' = c /\ ready' = before \cup {a, b}
  BY <1>2, <1>3, <1>4
<1> QED
  BY <1>5 DEF Progress

LEMMA ProgressFinish ==
    ASSUME NEW a \in Tasks, NEW b \in Tasks, NEW c \in Tasks, NEW before,
           Progress(a, b, c, before), Finish
    PROVE  Progress(a, b, c, before)'
<1>1. NoTask \notin Tasks
  BY MarkSweepAssumption
<1> QED
  BY <1>1 DEF Progress, Finish

\* What the array task deletes are boxes, of arrays it does not keep.
LEMMA DoomedBoxes ==
    ASSUME heap \in HeapTypes, NEW bitmap, NEW b \in Doomed(bitmap)
    PROVE  /\ b \in Boxes
           /\ \E r \in heap.there : r.kind = "array" /\ r.offset \notin bitmap /\ b \in Held(r)
<1>1. PICK e \in DoomedElements(bitmap) : b = heap.holds[e[1]][e[2]]
  BY DEF Doomed
<1>2. /\ e[1] \in heap.there \ Keep("array", bitmap) /\ e[2] \in Slots
      /\ heap.holds[e[1]][e[2]] # Null
  BY <1>1 DEF DoomedElements
<1>3. heap.there \subseteq Refs /\ heap.holds \in [Refs -> [Slots -> Boxes \cup {Null}]]
  BY DEF HeapTypes
<1>4. b \in Boxes
  BY <1>1, <1>2, <1>3
<1>5. b \in Held(e[1])
  BY <1>1, <1>2 DEF Held
<1>6. e[1].kind = "array" /\ e[1].offset \notin bitmap
  BY <1>2 DEF Keep
<1> QED
  BY <1>2, <1>4, <1>5, <1>6

\* What the tasks do besides: a step of the executor, and perhaps a change of the heap
\* or the bitmaps that keeps their types.
LEMMA RunTypes ==
    ASSUME TypeInv, RunTask
    PROVE  /\ heap' \in HeapTypes
           /\ objectBitmap' \subseteq Offsets /\ arrayBitmap' \subseteq Offsets
           /\ Finish /\ UNCHANGED <<collector, rounds, crashed>>
           /\ gone' \subseteq Threads
           /\ \/ UNCHANGED <<cpc, stale, gone>>
              \/ cpc' = "idle" /\ stale' = TRUE /\ running = "static"
<1> USE DEF TypeInv, TypeOK
<1>1. \A k, R : R \subseteq Refs => OffsetsOf(k, R) \subseteq Offsets
  BY DEF OffsetsOf, Refs
<1>2. \A B : RefsIn(Reach(B)) \subseteq Refs
  BY DEF Reach, RefsIn, HeapTypes
<1>3. \A k : \A I \in SUBSET Offsets : StaticIndices(k, I) \subseteq Offsets
  BY DEF StaticIndices
<1>4. CASE MarkFrames
  BY <1>1, <1>2, <1>4 DEF MarkFrames, MarkFrom
<1>5. CASE StaticsMarked
  BY <1>3, <1>5 DEF StaticsMarked, MarkStatics
<1>6. CASE StaticsThrow
  <2>1. cpc = "mark"
    BY <1>6, TaskFacts DEF StaticsThrow, Stages, Progress, MarkNames, SweepNames
  <2>2. gone' \subseteq Threads
    BY <1>6, <2>1 DEF StaticsThrow
  <2> QED
    BY <1>3, <1>6, <2>2 DEF StaticsThrow, MarkStatics
<1>7. CASE SweepObjects
  <2>1. Keep("object", objectBitmap) \subseteq Refs
    BY DEF Keep, HeapTypes
  <2> QED
    BY <1>7, <2>1 DEF SweepObjects, HeapTypes
<1>8. CASE SweepArrays
  <2>1. Keep("array", arrayBitmap) \subseteq Refs
    BY DEF Keep, HeapTypes
  <2>2. heap.deleted \cup Doomed(arrayBitmap) \subseteq Boxes
    BY DoomedBoxes DEF HeapTypes
  <2>3. heap' = [heap EXCEPT !.there = Keep("array", arrayBitmap),
                            !.deleted = @ \cup Doomed(arrayBitmap)]
    BY <1>8 DEF SweepArrays
  <2>4. heap' \in HeapTypes
    BY <2>1, <2>2, <2>3 DEF HeapTypes
  <2> QED
    BY <1>8, <2>4 DEF SweepArrays
<1>9. CASE SweepMonitors
  BY <1>9 DEF SweepMonitors, HeapTypes
<1> QED
  BY <1>4, <1>5, <1>6, <1>7, <1>8, <1>9 DEF RunTask

LEMMA TypeInit == Init => TypeInv
<1> SUFFICES ASSUME Init PROVE TypeInv
  OBVIOUS
<1>1. heap \in HeapTypes
  BY HeapsAssumption DEF Init, IsHeap
<1>2. queue = <<>> /\ queue \in Seq(Tasks) /\ running = NoTask /\ ready = {}
  BY DEF Init, ExecutorInit
<1>3. Stages
  BY <1>2 DEF Init, Stages
<1>4. TypeOK
  BY <1>1, <1>2 DEF Init, TypeOK
<1> QED
  BY <1>3, <1>4 DEF TypeInv

LEMMA TypeStep == TypeInv /\ [Next]_vars => TypeInv'
<1> SUFFICES ASSUME TypeInv, [Next]_vars PROVE TypeInv'
  OBVIOUS
<1> USE MarkSweepAssumption DEF TypeInv
<1>1. ASSUME NEW t \in Threads, BeginCollection(t) PROVE TypeInv'
  <2>1. Stages'
    BY <1>1 DEF BeginCollection, Stages, Progress
  <2>2. TypeOK'
    BY <1>1, TaskFacts DEF BeginCollection, TypeOK
  <2> QED
    BY <2>1, <2>2
<1>2. ASSUME NEW t \in Threads, NEW b \in Boxes, DropRoot(t, b) PROVE TypeInv'
  <2>1. heap' \in HeapTypes
    BY <1>2 DEF DropRoot, TypeOK, HeapTypes
  <2>2. UNCHANGED <<objectBitmap, arrayBitmap, cpc, collector, rounds, stale, gone, crashed,
                    queue, running, ready>>
    BY <1>2 DEF DropRoot, executorVars
  <2> QED
    BY <2>1, <2>2 DEF TypeOK, Stages, Progress
<1>3. CASE BeginSweep
  <2>1. ready = MarkNames /\ running = NoTask
    BY <1>3, TaskFacts DEF BeginSweep, Stages, Progress, MarkNames, SweepNames
  <2>2. Stages'
    BY <1>3, <2>1 DEF BeginSweep, Stages, Progress
  <2>3. TypeOK'
    BY <1>3, TaskFacts DEF BeginSweep, TypeOK
  <2> QED
    BY <2>2, <2>3
<1>4. CASE EndCollection
  <2>1. queue = <<>> /\ running = NoTask
    BY <1>4, TaskFacts DEF EndCollection, Stages, Progress, MarkNames, SweepNames
  <2>2. Stages'
    BY <1>4, <2>1 DEF EndCollection, Stages, executorVars
  <2>3. TypeOK'
    BY <1>4 DEF EndCollection, TypeOK, executorVars
  <2> QED
    BY <2>2, <2>3
<1>5. CASE TakeTask
  <2>1. /\ UNCHANGED <<heap, objectBitmap, arrayBitmap, cpc, collector, rounds, stale, gone,
                       crashed>>
        /\ Start
    BY <1>5 DEF TakeTask
  <2>2. Stages'
    <3>1. {"stack", "local", "static", "objects", "arrays", "monitors"} = Tasks
      OBVIOUS
    <3>2. cpc # "idle"
      BY <2>1 DEF Stages, Start
    <3>3. cpc = "mark" => Progress("stack", "local", "static", {})'
      BY <2>1, <3>1, ProgressStart DEF Stages
    <3>4. cpc = "sweep" => Progress("objects", "arrays", "monitors", MarkNames)'
      BY <2>1, <3>1, ProgressStart DEF Stages
    <3> QED
      BY <2>1, <3>2, <3>3, <3>4 DEF Stages
  <2>3. TypeOK'
    BY <2>1 DEF TypeOK, Start
  <2> QED
    BY <2>2, <2>3
<1>6. CASE RunTask
  <2>1. Finish /\ ready' \subseteq Tasks /\ running' \in Tasks \cup {NoTask}
        /\ queue' \in Seq(Tasks)
    BY <1>6, RunTypes DEF Finish, TypeOK
  <2>2. {"stack", "local", "static", "objects", "arrays", "monitors"} = Tasks
    OBVIOUS
  <2>3. cpc = "mark" => Progress("stack", "local", "static", {})'
    BY <2>1, <2>2, ProgressFinish DEF Stages
  <2>4. cpc = "sweep" => Progress("objects", "arrays", "monitors", MarkNames)'
    BY <2>1, <2>2, ProgressFinish DEF Stages
  <2>5. cpc # "idle"
    BY <2>1 DEF Stages, Finish
  <2>6. running = "static" => queue' = <<>> /\ running' = NoTask
    <3>1. cpc \in {"mark", "sweep"} /\ NoTask # "static"
      BY <2>5 DEF TypeOK
    <3>2. running = "static" => queue = <<>>
      BY <3>1 DEF Stages, Progress
    <3> QED
      BY <2>1, <3>2 DEF Finish
  <2>7. Stages'
    BY <1>6, <2>3, <2>4, <2>5, <2>6, RunTypes DEF Stages, TypeOK
  <2>8. TypeOK'
    BY <1>6, <2>1, <2>5, RunTypes DEF TypeOK
  <2> QED
    BY <2>7, <2>8
<1>7. CASE Crash \/ UNCHANGED vars
  <2>1. UNCHANGED <<heap, objectBitmap, arrayBitmap, cpc, collector, rounds, stale, gone,
                    queue, running, ready>> /\ crashed' \in {crashed, TRUE}
    BY <1>7 DEF Crash, MarkCrashes, StaticsCrash, SweepCrashes, vars, executorVars
  <2> QED
    BY <2>1 DEF TypeOK, Stages, Progress
<1> QED
  BY <1>1, <1>2, <1>3, <1>4, <1>5, <1>6, <1>7 DEF Next

\* gc/GC.cpp gc, markAndSweep, sweep: types; the bitmaps are empty between collections
\* unless one was left early; and each stage has its own tasks.
THEOREM MarkSweepTypeCorrect == Spec => []TypeOK
<1>1. TypeInv => TypeOK
  BY DEF TypeInv
<1> QED
  BY <1>1, TypeInit, TypeStep, PTL DEF Spec

-----------------------------------------------------------------------------
(* What can be reached.                                                    *)

\* What each box has within, as a function, and Reach for such a function.
Inside == [b \in Boxes |-> Within(b)]

ReachBy(inside, B) ==
    {b \in Boxes : \A S \in SUBSET Boxes :
        B \subseteq S /\ (\A q \in S : inside[q] \subseteq S) => b \in S}

LEMMA ReachIs == \A B : Reach(B) = ReachBy(Inside, B)
<1>1. ASSUME NEW S \in SUBSET Boxes
      PROVE  Closed(S) <=> \A q \in S : Inside[q] \subseteq S
  BY DEF Closed, Inside
<1> QED
  BY <1>1 DEF Reach, ReachBy

LEMMA InsideTypes ==
    ASSUME heap \in HeapTypes
    PROVE  Inside \in [Boxes -> SUBSET Boxes]
<1>1. ASSUME NEW b \in Boxes PROVE Within(b) \subseteq Boxes
  BY DEF Within, Held, HeapTypes
<1> QED
  BY <1>1 DEF Inside

LEMMA ReachUnion ==
    ASSUME NEW inside \in [Boxes -> SUBSET Boxes],
           NEW A \in SUBSET Boxes, NEW B \in SUBSET Boxes
    PROVE  ReachBy(inside, A \cup B) = ReachBy(inside, A) \cup ReachBy(inside, B)
<1>1. \A R \in SUBSET Boxes : /\ R \subseteq ReachBy(inside, R)
                             /\ ReachBy(inside, R) \subseteq Boxes
  BY DEF ReachBy
<1>2. ASSUME NEW R \in SUBSET Boxes, NEW q \in ReachBy(inside, R), NEW x \in inside[q]
      PROVE  x \in ReachBy(inside, R)
  <2>1. x \in Boxes
    BY <1>2 DEF ReachBy
  <2> SUFFICES ASSUME NEW S \in SUBSET Boxes, R \subseteq S,
                      \A p \in S : inside[p] \subseteq S
               PROVE  x \in S
    BY <2>1 DEF ReachBy
  <2>2. q \in S
    BY DEF ReachBy
  <2> QED
    BY <1>2, <2>2
<1>3. ReachBy(inside, A) \cup ReachBy(inside, B) \subseteq ReachBy(inside, A \cup B)
  BY DEF ReachBy
<1>4. ReachBy(inside, A \cup B) \subseteq ReachBy(inside, A) \cup ReachBy(inside, B)
  <2> DEFINE S == ReachBy(inside, A) \cup ReachBy(inside, B)
  <2>1. S \in SUBSET Boxes /\ A \cup B \subseteq S
    BY <1>1
  <2>2. \A q \in S : inside[q] \subseteq S
    BY <1>2
  <2> HIDE DEF S
  <2>3. ReachBy(inside, A \cup B) \subseteq S
    BY <2>1, <2>2 DEF ReachBy
  <2> QED
    BY <2>3 DEF S
<1> QED
  BY <1>3, <1>4

-----------------------------------------------------------------------------
(* What the bitmaps say.                                                   *)

FromStack == ReachBy(Inside, heap.stack[collector])
FromLocal == ReachBy(Inside, heap.local[collector])

\* The bitmaps have all that the boxes of B refer to, each of its kind.
MarkedAll(B) == /\ OffsetsOf("object", RefsIn(B)) \subseteq objectBitmap
                /\ OffsetsOf("array", RefsIn(B)) \subseteq arrayBitmap

\* What the tasks that are done were to mark is marked.
EnoughMarked ==
    cpc # "idle" => /\ "stack" \in ready => MarkedAll(FromStack)
                    /\ "local" \in ready => MarkedAll(FromLocal)

\* What is marked was reached, or is the index of a static variable.
OnlyMarked(kind, bitmap) ==
    bitmap \subseteq OffsetsOf(kind, RefsIn(FromStack \cup FromLocal)) \cup StaticIndices(kind, Offsets)

NothingElseMarked ==
    cpc # "idle" /\ ~stale => /\ OnlyMarked("object", objectBitmap)
                              /\ OnlyMarked("array", arrayBitmap)

\* What is not marked is gone, of the containers that were swept.
Gone(kind, bitmap) == \A r \in heap.there : r.kind = kind => r.offset \in bitmap

Swept == cpc = "sweep" => /\ "objects" \in ready => Gone("object", objectBitmap)
                          /\ "arrays" \in ready => Gone("array", arrayBitmap)

CollectInv == TypeInv /\ EnoughMarked /\ NothingElseMarked /\ Swept

LEMMA KindsOfRefs ==
    \A r \in Refs : r.kind \in {"object", "array"} /\ r.offset \in Offsets
  BY DEF Refs

LEMMA OffsetsGrow ==
    ASSUME NEW k, NEW A, NEW B, A \subseteq B
    PROVE  OffsetsOf(k, RefsIn(A)) \subseteq OffsetsOf(k, RefsIn(B))
  BY DEF OffsetsOf, RefsIn

\* What boxes have within them, refer to and are reached from is known by the pointers.
LEMMA SameReach ==
    ASSUME heap'.holds = heap.holds, heap'.ref = heap.ref,
           heap'.stack = heap.stack, heap'.local = heap.local, heap'.static = heap.static,
           collector' = collector
    PROVE  /\ FromStack' = FromStack /\ FromLocal' = FromLocal
           /\ \A B : RefsIn(B)' = RefsIn(B)
           /\ \A k : StaticIndices(k, Offsets)' = StaticIndices(k, Offsets)
<1>1. Inside' = Inside
  BY DEF Inside, Within, Held
<1> QED
  BY <1>1 DEF FromStack, FromLocal, RefsIn, StaticIndices

\* A step that leaves pointers, frames, statics, the collector, the marks and the books
\* of the executor alone.
LEMMA Untouched ==
    ASSUME CollectInv, heap'.there \subseteq heap.there,
           heap'.holds = heap.holds, heap'.ref = heap.ref, heap'.stack = heap.stack,
           heap'.local = heap.local, heap'.static = heap.static,
           UNCHANGED <<objectBitmap, arrayBitmap, collector, stale>>,
           cpc' = cpc, ready' \cap Tasks \subseteq ready
    PROVE  EnoughMarked' /\ NothingElseMarked' /\ Swept'
<1>1. {"stack", "local", "objects", "arrays"} \subseteq Tasks
  BY MarkSweepAssumption
<1>2. /\ FromStack' = FromStack /\ FromLocal' = FromLocal
      /\ \A B : RefsIn(B)' = RefsIn(B)
      /\ \A k : StaticIndices(k, Offsets)' = StaticIndices(k, Offsets)
  BY SameReach
<1>3. EnoughMarked'
  BY <1>1, <1>2 DEF CollectInv, EnoughMarked, MarkedAll
<1>5. NothingElseMarked'
  BY <1>2 DEF CollectInv, NothingElseMarked, OnlyMarked
<1>6. Swept'
  BY <1>1 DEF CollectInv, Swept, Gone
<1> QED
  BY <1>3, <1>5, <1>6

LEMMA MarkFramesStep ==
    ASSUME CollectInv, MarkFrames
    PROVE  EnoughMarked' /\ NothingElseMarked' /\ Swept'
<1>1. /\ running \in {"stack", "local"} /\ ready' = ready \cup {running}
      /\ UNCHANGED <<heap, cpc, collector, stale>>
      /\ MarkFrom(Roots(running))
  BY DEF MarkFrames, Finish
<1>2. cpc = "mark"
  BY <1>1, TaskFacts DEF CollectInv, TypeInv, TypeOK, Stages, Progress, MarkNames, SweepNames
<1>3. /\ FromStack' = FromStack /\ FromLocal' = FromLocal
      /\ \A B : RefsIn(B)' = RefsIn(B)
      /\ \A k : StaticIndices(k, Offsets)' = StaticIndices(k, Offsets)
  BY <1>1, SameReach
<1>4. PICK B : /\ \/ B = FromStack /\ running = "stack"
                  \/ B = FromLocal /\ running = "local"
               /\ objectBitmap' = objectBitmap \cup OffsetsOf("object", RefsIn(B))
               /\ arrayBitmap' = arrayBitmap \cup OffsetsOf("array", RefsIn(B))
  <2>1. Reach(Roots(running)) = ReachBy(Inside, Roots(running))
    BY ReachIs
  <2>2. CASE running = "stack"
    BY <1>1, <2>1, <2>2 DEF MarkFrom, Roots, FromStack
  <2>3. CASE running = "local"
    BY <1>1, <2>1, <2>3 DEF MarkFrom, Roots, FromLocal
  <2> QED
    BY <1>1, <2>2, <2>3
<1>5. EnoughMarked'
  BY <1>1, <1>2, <1>3, <1>4 DEF CollectInv, EnoughMarked, MarkedAll
<1>6. \A k : OffsetsOf(k, RefsIn(B)) \subseteq OffsetsOf(k, RefsIn(FromStack \cup FromLocal))
  BY <1>4, OffsetsGrow
<1>7. NothingElseMarked'
  BY <1>1, <1>2, <1>3, <1>4, <1>6 DEF CollectInv, NothingElseMarked, OnlyMarked
<1> QED
  BY <1>1, <1>2, <1>5, <1>7 DEF Swept

LEMMA StaticsStep ==
    ASSUME CollectInv, StaticsMarked \/ StaticsThrow
    PROVE  EnoughMarked' /\ NothingElseMarked' /\ Swept'
<1>1. CASE StaticsThrow
  BY <1>1 DEF StaticsThrow, EnoughMarked, NothingElseMarked, Swept
<1>2. CASE StaticsMarked
  <2>1. /\ running = "static" /\ ready' = ready \cup {"static"}
        /\ UNCHANGED <<heap, cpc, collector, stale>>
        /\ objectBitmap' = objectBitmap \cup StaticIndices("object", Offsets)
        /\ arrayBitmap' = arrayBitmap \cup StaticIndices("array", Offsets)
    BY <1>2 DEF StaticsMarked, Finish, MarkStatics
  <2>2. cpc = "mark"
    BY <2>1, TaskFacts
       DEF CollectInv, TypeInv, TypeOK, Stages, Progress, MarkNames, SweepNames
  <2>3. /\ FromStack' = FromStack /\ FromLocal' = FromLocal
        /\ \A B : RefsIn(B)' = RefsIn(B)
        /\ \A k : StaticIndices(k, Offsets)' = StaticIndices(k, Offsets)
    BY <2>1, SameReach
  <2>4. EnoughMarked'
    BY <2>1, <2>2, <2>3 DEF CollectInv, EnoughMarked, MarkedAll
  <2>5. NothingElseMarked'
    BY <2>1, <2>2, <2>3 DEF CollectInv, NothingElseMarked, OnlyMarked
  <2> QED
    BY <2>1, <2>2, <2>4, <2>5 DEF Swept
<1> QED
  BY <1>1, <1>2

LEMMA SweepStep ==
    ASSUME CollectInv, SweepObjects \/ SweepArrays \/ SweepMonitors
    PROVE  EnoughMarked' /\ NothingElseMarked' /\ Swept'
<1>1. /\ ready' = ready \cup {running} /\ running \in SweepNames
      /\ UNCHANGED <<objectBitmap, arrayBitmap, cpc, collector, stale>>
  BY DEF SweepObjects, SweepArrays, SweepMonitors, Finish, SweepNames
<1>2. /\ heap' \in HeapTypes /\ heap \in HeapTypes
      /\ \E S, D : \/ heap' = [heap EXCEPT !.there = S]
                   \/ heap' = [heap EXCEPT !.there = S, !.deleted = D]
                   \/ heap' = [heap EXCEPT !.monitors = S]
  <2>1. RunTask
    BY DEF RunTask
  <2>2. heap' \in HeapTypes /\ heap \in HeapTypes
    BY <2>1, RunTypes DEF CollectInv, TypeInv, TypeOK
  <2>3. CASE SweepArrays
    BY <2>2, <2>3 DEF SweepArrays
  <2>4. CASE SweepObjects \/ SweepMonitors
    BY <2>2, <2>4 DEF SweepObjects, SweepMonitors
  <2> QED
    BY <2>3, <2>4
<1>3. /\ heap'.holds = heap.holds /\ heap'.ref = heap.ref /\ heap'.stack = heap.stack
      /\ heap'.local = heap.local /\ heap'.static = heap.static
  BY <1>2 DEF HeapTypes
<1>4. heap'.there \subseteq heap.there
  <2>1. heap \in HeapTypes
    BY <1>2
  <2>2. CASE SweepObjects \/ SweepMonitors
    BY <2>1, <2>2 DEF SweepObjects, SweepMonitors, Keep, HeapTypes
  <2>3. CASE SweepArrays
    BY <2>1, <2>3 DEF SweepArrays, Keep, HeapTypes
  <2> QED
    BY <2>2, <2>3
<1>5. /\ FromStack' = FromStack /\ FromLocal' = FromLocal
      /\ \A B : RefsIn(B)' = RefsIn(B)
      /\ \A k : StaticIndices(k, Offsets)' = StaticIndices(k, Offsets)
  BY <1>1, <1>3, SameReach
<1>6. EnoughMarked'
  <2>1. "stack" \notin SweepNames /\ "local" \notin SweepNames
    BY DEF SweepNames
  <2> QED
    BY <1>1, <1>5, <2>1 DEF CollectInv, EnoughMarked, MarkedAll
<1>7. NothingElseMarked'
  BY <1>1, <1>5 DEF CollectInv, NothingElseMarked, OnlyMarked
<1>8. Swept'
  <2>1. CASE SweepObjects
    <3>1. heap'.there = Keep("object", objectBitmap) /\ running = "objects"
      BY <1>2, <2>1 DEF SweepObjects, HeapTypes
    <3> QED
      BY <1>1, <1>4, <3>1 DEF CollectInv, Swept, Gone, Keep
  <2>2. CASE SweepArrays
    <3>1. heap'.there = Keep("array", arrayBitmap) /\ running = "arrays"
      BY <1>2, <2>2 DEF SweepArrays, HeapTypes
    <3> QED
      BY <1>1, <1>4, <3>1 DEF CollectInv, Swept, Gone, Keep
  <2>3. CASE SweepMonitors
    <3>1. running = "monitors"
      BY <2>3 DEF SweepMonitors
    <3> QED
      BY <1>1, <1>4, <3>1 DEF CollectInv, Swept, Gone
  <2> QED
    BY <2>1, <2>2, <2>3
<1> QED
  BY <1>6, <1>7, <1>8

LEMMA CollectStep == CollectInv /\ [Next]_vars => CollectInv'
<1> SUFFICES ASSUME CollectInv, [Next]_vars
             PROVE  EnoughMarked' /\ NothingElseMarked' /\ Swept'
  BY TypeStep DEF CollectInv
<1>0. {"stack", "local", "objects", "arrays"} \subseteq Tasks
  BY MarkSweepAssumption
<1>1. ASSUME NEW t \in Threads, BeginCollection(t)
      PROVE  EnoughMarked' /\ NothingElseMarked' /\ Swept'
  BY <1>1 DEF BeginCollection, CollectInv, TypeInv, TypeOK, EnoughMarked, NothingElseMarked,
     Swept, OnlyMarked
<1>2. CASE EndCollection \/ \E t \in Threads, b \in Boxes : DropRoot(t, b)
  BY <1>2 DEF EndCollection, DropRoot, EnoughMarked, NothingElseMarked, Swept
<1>3. CASE BeginSweep
  <2>1. ready = MarkNames
    BY <1>3, TaskFacts
       DEF BeginSweep, CollectInv, TypeInv, Stages, Progress, MarkNames, SweepNames
  <2>2. /\ cpc = "mark" /\ cpc' = "sweep" /\ ready' = ready
        /\ UNCHANGED <<heap, objectBitmap, arrayBitmap, collector, stale>>
    BY <1>3 DEF BeginSweep
  <2>3. /\ FromStack' = FromStack /\ FromLocal' = FromLocal
        /\ \A B : RefsIn(B)' = RefsIn(B)
        /\ \A k : StaticIndices(k, Offsets)' = StaticIndices(k, Offsets)
    BY <2>2, SameReach
  <2>4. EnoughMarked'
    BY <2>2, <2>3 DEF CollectInv, EnoughMarked, MarkedAll
  <2>5. NothingElseMarked'
    BY <2>2, <2>3 DEF CollectInv, NothingElseMarked, OnlyMarked
  <2>6. Swept'
    BY <2>1, <2>2 DEF Swept, MarkNames
  <2> QED
    BY <2>4, <2>5, <2>6
<1>4. CASE TakeTask \/ Crash \/ UNCHANGED vars
  <2>1. UNCHANGED <<heap, objectBitmap, arrayBitmap, cpc, collector, stale, ready>>
    BY <1>4 DEF TakeTask, Start, Crash, MarkCrashes, StaticsCrash, SweepCrashes, executorVars,
       vars
  <2> QED
    BY <2>1, Untouched
<1>5. CASE RunTask
  BY <1>5, MarkFramesStep, StaticsStep, SweepStep DEF RunTask
<1> QED
  BY <1>1, <1>2, <1>3, <1>4, <1>5 DEF Next

LEMMA CollectInvariant == Spec => []CollectInv
<1>1. Init => CollectInv
  <2>1. Init => EnoughMarked /\ NothingElseMarked /\ Swept
    BY DEF Init, EnoughMarked, NothingElseMarked, Swept
  <2> QED
    BY <2>1, TypeInit DEF CollectInv
<1> QED
  BY <1>1, CollectStep, PTL DEF Spec

\* What the frames of the collecting thread reach, stack and local slots together.
LEMMA LiveIs ==
    ASSUME TypeOK, collector # NoThread
    PROVE  BoxesOf(collector) = FromStack \cup FromLocal
<1>1. /\ Inside \in [Boxes -> SUBSET Boxes]
      /\ heap.stack[collector] \in SUBSET Boxes /\ heap.local[collector] \in SUBSET Boxes
  BY InsideTypes DEF TypeOK, HeapTypes
<1>2. BoxesOf(collector) = ReachBy(Inside, heap.stack[collector] \cup heap.local[collector])
  BY ReachIs DEF BoxesOf
<1> QED
  BY <1>1, <1>2, ReachUnion DEF FromStack, FromLocal

\* While sweeping, what the frames of the collecting thread reach is marked.
LEMMA LiveMarked ==
    ASSUME CollectInv, SweepObjects \/ SweepArrays, collector # NoThread,
           NEW r \in LiveFor(collector)
    PROVE  /\ r.kind = "object" => r.offset \in objectBitmap
           /\ r.kind = "array" => r.offset \in arrayBitmap
<1>1. cpc = "sweep" /\ {"stack", "local"} \subseteq ready
  BY TaskFacts DEF SweepObjects, SweepArrays, CollectInv, TypeInv, TypeOK, Stages, Progress,
     MarkNames, SweepNames
<1>2. MarkedAll(FromStack) /\ MarkedAll(FromLocal)
  BY <1>1 DEF CollectInv, EnoughMarked
<1>3. r \in RefsIn(FromStack \cup FromLocal)
  BY LiveIs DEF LiveFor, CollectInv, TypeInv
<1>4. r \in RefsIn(FromStack) \/ r \in RefsIn(FromLocal)
  BY <1>3 DEF RefsIn
<1> QED
  BY <1>2, <1>4 DEF MarkedAll, OffsetsOf

LEMMA KeepsItsOwn ==
    ASSUME CollectInv, [Next]_vars, collector # NoThread
    PROVE  LiveFor(collector) \cap heap.there \subseteq heap'.there
<1>0. TypeOK /\ heap \in HeapTypes
  BY DEF CollectInv, TypeInv, TypeOK
<1>1. CASE heap'.there = heap.there
  BY <1>1
<1>2. CASE SweepObjects \/ SweepArrays
  <2>3. ASSUME NEW r \in LiveFor(collector) \cap heap.there
        PROVE  /\ r.kind = "object" => r.offset \in objectBitmap
               /\ r.kind = "array" => r.offset \in arrayBitmap
    BY <1>2, LiveMarked
  <2>4. CASE SweepObjects
    <3>1. heap'.there = Keep("object", objectBitmap)
      BY <1>0, <2>4 DEF SweepObjects, HeapTypes
    <3> QED
      BY <2>3, <3>1 DEF Keep
  <2>5. CASE SweepArrays
    <3>1. heap'.there = Keep("array", arrayBitmap)
      BY <1>0, <2>5 DEF SweepArrays, HeapTypes
    <3> QED
      BY <2>3, <3>1 DEF Keep
  <2> QED
    BY <1>2, <2>4, <2>5
<1>3. CASE ~SweepObjects /\ ~SweepArrays
  <2>1. CASE SweepMonitors \/ \E t \in Threads, b \in Boxes : DropRoot(t, b)
    BY <1>0, <1>1, <2>1 DEF SweepMonitors, DropRoot, HeapTypes
  <2>2. CASE heap' = heap
    BY <1>1, <2>2
  <2>3. \/ heap' = heap \/ SweepMonitors \/ \E t \in Threads, b \in Boxes : DropRoot(t, b)
    BY <1>3 DEF Next, BeginCollection, BeginSweep, EndCollection, TakeTask, RunTask,
       MarkFrames, StaticsMarked, StaticsThrow, Crash, MarkCrashes, StaticsCrash, SweepCrashes,
       vars
  <2> QED
    BY <2>1, <2>2, <2>3
<1> QED
  BY <1>2, <1>3

\* A box that the collecting thread's frames reach goes with an array they do not reach.
LEMMA SharedDeleted ==
    ASSUME CollectInv, [Next]_vars, collector # NoThread,
           NEW b \in BoxesOf(collector) \cap (heap'.deleted \ heap.deleted)
    PROVE  \E r \in heap.there \ LiveFor(collector) : r.kind = "array" /\ b \in Held(r)
<1>0. TypeOK /\ heap \in HeapTypes
  BY DEF CollectInv, TypeInv, TypeOK
<1>1. CASE SweepArrays
  <2>1. heap'.deleted = heap.deleted \cup Doomed(arrayBitmap)
    BY <1>0, <1>1 DEF SweepArrays, HeapTypes
  <2>2. PICK r \in heap.there : r.kind = "array" /\ r.offset \notin arrayBitmap /\ b \in Held(r)
    BY <1>0, <2>1, DoomedBoxes
  <2>3. r \notin LiveFor(collector)
    BY <1>1, <2>2, LiveMarked
  <2> QED
    BY <2>2, <2>3
<1>2. CASE ~SweepArrays
  <2>1. CASE SweepObjects \/ SweepMonitors \/ \E t \in Threads, c \in Boxes : DropRoot(t, c)
    BY <1>0, <2>1 DEF SweepObjects, SweepMonitors, DropRoot, HeapTypes
  <2>2. CASE heap' = heap
    BY <2>2
  <2>3. \/ heap' = heap \/ SweepObjects \/ SweepMonitors
        \/ \E t \in Threads, c \in Boxes : DropRoot(t, c)
    BY <1>2 DEF Next, BeginCollection, BeginSweep, EndCollection, TakeTask, RunTask,
       MarkFrames, StaticsMarked, StaticsThrow, Crash, MarkCrashes, StaticsCrash, SweepCrashes,
       vars
  <2> QED
    BY <2>1, <2>2, <2>3
<1> QED
  BY <1>1, <1>2

\* gc/GC.cpp sweep: for any heap, whatever an earlier collection that was left early has
\* put in the bitmaps, no collection takes an object or array that the frames of the
\* collecting thread reach, and of the boxes they reach only those that are elements of
\* an array they do not reach.
THEOREM OwnObjectsKept == Spec => CollectorKeepsItsOwn
<1>1. CollectInv /\ [Next]_vars =>
         [collector # NoThread =>
            /\ LiveFor(collector) \cap heap.there \subseteq heap'.there
            /\ \A b \in BoxesOf(collector) \cap (heap'.deleted \ heap.deleted) :
                  \E r \in heap.there \ LiveFor(collector) : r.kind = "array" /\ b \in Held(r)]_vars
  BY KeepsItsOwn, SharedDeleted
<1> QED
  BY <1>1, CollectInvariant, PTL DEF Spec, CollectorKeepsItsOwn

LEMMA LeavesNone ==
    ASSUME CollectInv, EndCollection, ~stale, NEW r \in heap.there
    PROVE  r \in LiveFor(collector) \/ r.offset \in StaticIndices(r.kind, Offsets)
<1>1. /\ TypeOK /\ r \in Refs /\ cpc = "sweep"
      /\ {"objects", "arrays"} \subseteq ready
  BY DEF CollectInv, TypeInv, TypeOK, HeapTypes, EndCollection
<1>2. PICK bitmap : /\ r.offset \in bitmap
                    /\ OnlyMarked(r.kind, bitmap)
  <2>1. CASE r.kind = "object"
    BY <1>1, <2>1 DEF CollectInv, Swept, Gone, NothingElseMarked
  <2>2. CASE r.kind = "array"
    BY <1>1, <2>2 DEF CollectInv, Swept, Gone, NothingElseMarked
  <2> QED
    BY <1>1, <2>1, <2>2, KindsOfRefs
<1>3. CASE r.offset \in OffsetsOf(r.kind, RefsIn(FromStack \cup FromLocal))
  <2>1. PICK s \in RefsIn(FromStack \cup FromLocal) : s.kind = r.kind /\ s.offset = r.offset
    BY <1>3 DEF OffsetsOf
  <2>2. s \in Refs
    BY <1>1 DEF FromStack, FromLocal, ReachBy, RefsIn, TypeOK, HeapTypes
  <2>3. s = r
    BY <1>1, <2>1, <2>2 DEF Refs
  <2>4. collector # NoThread
    BY <1>1 DEF TypeOK
  <2> QED
    BY <1>1, <2>1, <2>3, <2>4, LiveIs DEF LiveFor
<1> QED
  BY <1>2, <1>3 DEF OnlyMarked

\* gc/GC.cpp sweep: for any heap, a collection that follows only proper ends leaves what
\* the collecting thread reaches, what has the index of a static variable, and no more.
THEOREM GarbageTaken == Spec => NoGarbageLeft
<1>1. CollectInv /\ [Next]_vars =>
         [EndCollection /\ ~stale =>
             \A r \in heap.there : \/ r \in LiveFor(collector)
                                   \/ r.offset \in StaticIndices(r.kind, Offsets)]_vars
  BY LeavesNone
<1> QED
  BY <1>1, CollectInvariant, PTL DEF Spec, NoGarbageLeft
=============================================================================
