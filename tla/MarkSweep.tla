------------------------------ MODULE MarkSweep -----------------------------
(***************************************************************************)
(* What a collection does to the heap (gc/GC.cpp mark, markAndSweep, sweep *)
(* and the end of gc).  The world is stopped (Safepoint) and the tasks run *)
(* one at a time in the order of submission (SerialExecutor, implemented   *)
(* by GCPool), so a task's effect is one step.                             *)
(*                                                                         *)
(* A reference is a container and an offset in it.  What slots, fields,    *)
(* elements and static variables hold are pointers to boxes, the JTypes on *)
(* the C++ heap; a box has a reference in it, or NoRef if it is no JObject *)
(* and no JArray.  Several holders may have the same box: an array load    *)
(* pushes the element's own, and the stores keep the one they pop          *)
(* (interpreter/Interpreter.cpp:320-329, 462-474).                         *)
(***************************************************************************)
EXTENDS SerialExecutor, Integers

CONSTANTS Threads, NoThread,
          Offsets,          \* heap offsets, and indices of static variables
          Boxes,
          Slots,            \* positions of fields and elements
          Null,             \* no box
          NoRef,            \* what is in a box of a primitive type
          Heaps,            \* the heaps a run starts from
          MaxCollections    \* BOUND: collections

ASSUME MarkSweepAssumption ==
    /\ NoThread \notin Threads
    /\ MaxCollections \in Nat
    /\ Tasks = {"stack", "local", "static", "objects", "arrays", "monitors"}
    /\ NoTask \notin Tasks
    /\ Null \notin Boxes

Refs == [kind : {"object", "array"}, offset : Offsets]

\* A heap: what there is, what it points to, what the threads and classes hold.
HeapTypes == [there    : SUBSET Refs,               \* objectContainer, arrayContainer
              holds    : [Refs -> [Slots -> Boxes \cup {Null}]],  \* fields and elements
              ref      : [Boxes -> Refs \cup {NoRef}],
              deleted  : SUBSET Boxes,
              stack    : [Threads -> SUBSET Boxes], \* stackSlots of the frames
              local    : [Threads -> SUBSET Boxes], \* localSlots of the frames
              static   : [Offsets -> Boxes \cup {Null}],
              monitors : SUBSET Offsets]            \* monitorContainer

\* Before anything was swept, all that boxes refer to is there.
IsHeap(h) ==
    /\ h \in HeapTypes
    /\ h.deleted = {}
    /\ \A b \in Boxes : h.ref[b] \in h.there \cup {NoRef}

ASSUME HeapsAssumption == \A h \in Heaps : IsHeap(h)

VARIABLES
    heap,
    objectBitmap, arrayBitmap,
    cpc,            \* where the collecting thread is
    collector,      \* the thread that collects, or collected last
    rounds,         \* collections begun
    stale,          \* history: a collection was left before it cleared the bitmaps
    gone,           \* threads that an exception of gc() ended
    crashed         \* a task overflowed the stack or used what was swept or deleted

vars == <<heap, objectBitmap, arrayBitmap, cpc, collector, rounds, stale, gone,
          crashed, executorVars>>

Init == /\ heap \in Heaps
        /\ objectBitmap = {} /\ arrayBitmap = {}
        /\ cpc = "idle"
        /\ collector = NoThread
        /\ rounds = 0
        /\ stale = FALSE
        /\ gone = {}
        /\ crashed = FALSE
        /\ ExecutorInit

-----------------------------------------------------------------------------
\* The boxes of an object's fields or an array's elements.
Held(r) == {heap.holds[r][i] : i \in Slots} \ {Null}

\* What mark(box) goes on to.
Within(b) == IF heap.ref[b] \in Refs THEN Held(heap.ref[b]) ELSE {}

\* What mark visits, from each box of B: B and what is within those, and so on.
Closed(S) == \A b \in S : Within(b) \subseteq S
Reach(B)  == {b \in Boxes : \A S \in SUBSET Boxes : B \subseteq S /\ Closed(S) => b \in S}

\* The objects and arrays that a set of boxes refers to.
RefsIn(B) == {heap.ref[b] : b \in B} \ {NoRef}

\* mark has no test for what is marked already: on a cycle it never returns.
OnCycle(B) == \E b \in Reach(B) : b \in Reach(Within(b))

OffsetsOf(kind, R) == {r.offset : r \in {s \in R : s.kind = kind}}

\* The mark of a frame's slots.
MarkFrom(B) ==
    /\ objectBitmap' = objectBitmap \cup OffsetsOf("object", RefsIn(Reach(B)))
    /\ arrayBitmap' = arrayBitmap \cup OffsetsOf("array", RefsIn(Reach(B)))

\* What an earlier collection took: a box that was deleted, whose type mark asks for,
\* or a reference whose fields or elements getFields and getElements look up in the
\* container, dereferencing the end of the map.
Dangling(B) == \/ Reach(B) \cap heap.deleted # {}
               \/ ~(RefsIn(Reach(B)) \subseteq heap.there)

\* Mutant of Roots: both tasks mark the operand stack.
RootsStackOnly(task) == heap.stack[collector]

Roots(task) == IF task = "stack" THEN heap.stack[collector] ELSE heap.local[collector]

\* The stack task and the local task: the frames of the collecting thread only.
MarkFrames ==
    /\ running \in {"stack", "local"}
    /\ ~OnCycle(Roots(running)) /\ ~Dangling(Roots(running))
    /\ Finish
    /\ MarkFrom(Roots(running))
    /\ UNCHANGED <<heap, cpc, collector, rounds, stale, gone, crashed>>

\* The recursion of mark overflows the worker's stack, or the lookup is undefined.
MarkCrashes ==
    /\ running \in {"stack", "local"}
    /\ OnCycle(Roots(running)) \/ Dangling(Roots(running))
    /\ crashed' = TRUE
    /\ UNCHANGED <<heap, objectBitmap, arrayBitmap, cpc, collector, rounds, stale, gone,
                   executorVars>>

\* The indices of static variables of a kind, among the given ones.
StaticIndices(kind, I) ==
    {i \in I : /\ heap.static[i] # Null
               /\ heap.ref[heap.static[i]] \in Refs
               /\ heap.ref[heap.static[i]].kind = kind}

\* The static task: the bitmap gets the variable's index, not the offset that the
\* reference holds, and nothing is marked from there.
MarkStatics(I) ==
    /\ objectBitmap' = objectBitmap \cup StaticIndices("object", I)
    /\ arrayBitmap' = arrayBitmap \cup StaticIndices("array", I)

StaticsMarked ==
    /\ running = "static"
    /\ \A i \in Offsets : heap.static[i] \notin {Null} \cup heap.deleted
    /\ Finish
    /\ MarkStatics(Offsets)
    /\ UNCHANGED <<heap, cpc, collector, rounds, stale, gone, crashed>>

\* typeid of a null static variable throws, after some of the others: the exception
\* leaves gc() through the future, before the bitmaps are cleared.
StaticsThrow ==
    /\ running = "static"
    /\ \E i \in Offsets : heap.static[i] = Null
    /\ \E I \in SUBSET {i \in Offsets : heap.static[i] \notin {Null} \cup heap.deleted} :
           MarkStatics(I)
    /\ Finish
    /\ cpc' = "idle"
    /\ stale' = TRUE
    /\ gone' = gone \cup {collector}
    /\ UNCHANGED <<heap, collector, rounds, crashed>>

\* typeid of a box that was deleted is undefined.
StaticsCrash ==
    /\ running = "static"
    /\ \E i \in Offsets : heap.static[i] \in heap.deleted
    /\ crashed' = TRUE
    /\ UNCHANGED <<heap, objectBitmap, arrayBitmap, cpc, collector, rounds, stale, gone,
                   executorVars>>

Keep(kind, bitmap) == {r \in heap.there : r.kind = kind => r.offset \in bitmap}

SweepObjects ==
    /\ running = "objects"
    /\ Finish
    /\ heap' = [heap EXCEPT !.there = Keep("object", objectBitmap)]
    /\ UNCHANGED <<objectBitmap, arrayBitmap, cpc, collector, rounds, stale, gone, crashed>>

\* The elements whose boxes the array task deletes, given the bitmap it looks at; the
\* boxes of an object's fields stay.
DoomedElements(bitmap) ==
    {e \in (heap.there \ Keep("array", bitmap)) \X Slots : heap.holds[e[1]][e[2]] # Null}
Doomed(bitmap) == {heap.holds[e[1]][e[2]] : e \in DoomedElements(bitmap)}

\* A box is deleted that was deleted before, or is an element twice.
DeletesTwice(bitmap) ==
    \/ Doomed(bitmap) \cap heap.deleted # {}
    \/ \E d, e \in DoomedElements(bitmap) : d # e /\ heap.holds[d[1]][d[2]] = heap.holds[e[1]][e[2]]

\* Mutant of SweepArrays: the other bitmap.
SweepArraysByObjects ==
    /\ running = "arrays" /\ ~DeletesTwice(objectBitmap)
    /\ Finish
    /\ heap' = [heap EXCEPT !.there = Keep("array", objectBitmap),
                            !.deleted = @ \cup Doomed(objectBitmap)]
    /\ UNCHANGED <<objectBitmap, arrayBitmap, cpc, collector, rounds, stale, gone, crashed>>

SweepArrays ==
    /\ running = "arrays" /\ ~DeletesTwice(arrayBitmap)
    /\ Finish
    /\ heap' = [heap EXCEPT !.there = Keep("array", arrayBitmap),
                            !.deleted = @ \cup Doomed(arrayBitmap)]
    /\ UNCHANGED <<objectBitmap, arrayBitmap, cpc, collector, rounds, stale, gone, crashed>>

\* Deleting a box again is undefined.
SweepCrashes ==
    /\ running = "arrays" /\ DeletesTwice(arrayBitmap)
    /\ crashed' = TRUE
    /\ UNCHANGED <<heap, objectBitmap, arrayBitmap, cpc, collector, rounds, stale, gone,
                   executorVars>>

\* A monitor stays if its id is in both bitmaps.
SweepMonitors ==
    /\ running = "monitors"
    /\ Finish
    /\ heap' = [heap EXCEPT !.monitors = {i \in heap.monitors :
                                  ~(i \notin objectBitmap \/ i \notin arrayBitmap)}]
    /\ UNCHANGED <<objectBitmap, arrayBitmap, cpc, collector, rounds, stale, gone, crashed>>

-----------------------------------------------------------------------------
\* gc(frames): the collecting thread submits the mark tasks of its frames and of
\* the static fields (the submissions are in no race: the world is stopped) ...
BeginCollection(t) ==
    /\ cpc = "idle"
    /\ t \notin gone
    /\ rounds < MaxCollections
    /\ collector' = t
    /\ rounds' = rounds + 1
    /\ queue' = <<"stack", "local", "static">>
    /\ ready' = {}
    /\ cpc' = "mark"
    /\ UNCHANGED <<heap, objectBitmap, arrayBitmap, stale, gone, crashed,
                   running>>

\* ... waits for them, and submits the sweep tasks ...
BeginSweep ==
    /\ cpc = "mark"
    /\ {"stack", "local", "static"} \subseteq ready
    /\ queue' = <<"objects", "arrays", "monitors">>
    /\ cpc' = "sweep"
    /\ UNCHANGED <<heap, objectBitmap, arrayBitmap, collector, rounds, stale,
                   gone, crashed, running, ready>>

\* Mutant of EndCollection: the bitmap of the objects is not cleared.
EndCollectionUncleared ==
    /\ cpc = "sweep"
    /\ {"objects", "arrays", "monitors"} \subseteq ready
    /\ arrayBitmap' = {}
    /\ stale' = FALSE
    /\ cpc' = "idle"
    /\ UNCHANGED <<heap, objectBitmap, collector, rounds, gone, crashed, executorVars>>

\* ... waits for those and clears the bitmaps.
EndCollection ==
    /\ cpc = "sweep"
    /\ {"objects", "arrays", "monitors"} \subseteq ready
    /\ objectBitmap' = {} /\ arrayBitmap' = {}
    /\ stale' = FALSE
    /\ cpc' = "idle"
    /\ UNCHANGED <<heap, collector, rounds, gone, crashed, executorVars>>

\* Between collections a thread lets go of a box in a frame.
DropRoot(t, b) ==
    /\ cpc = "idle"
    /\ b \in heap.stack[t] \cup heap.local[t]
    /\ heap' = [heap EXCEPT !.stack[t] = @ \ {b}, !.local[t] = @ \ {b}]
    /\ UNCHANGED <<objectBitmap, arrayBitmap, cpc, collector, rounds, stale, gone,
                   crashed, executorVars>>

TakeTask == /\ Start
            /\ UNCHANGED <<heap, objectBitmap, arrayBitmap, cpc, collector, rounds,
                           stale, gone, crashed>>

RunTask == \/ MarkFrames \/ StaticsMarked \/ StaticsThrow
           \/ SweepObjects \/ SweepArrays \/ SweepMonitors

Crash == MarkCrashes \/ StaticsCrash \/ SweepCrashes

Next == /\ ~crashed
        /\ \/ \E t \in Threads : \/ BeginCollection(t)
                                 \/ \E b \in Boxes : DropRoot(t, b)
           \/ BeginSweep \/ EndCollection
           \/ TakeTask \/ RunTask \/ Crash

Spec == Init /\ [][Next]_vars

-----------------------------------------------------------------------------
\* Types; the collecting thread is known while it collects, and a collection that
\* ends properly leaves the bitmaps empty for the next.
TypeOK == /\ heap \in HeapTypes
          /\ objectBitmap \subseteq Offsets /\ arrayBitmap \subseteq Offsets
          /\ cpc \in {"idle", "mark", "sweep"}
          /\ collector \in Threads \cup {NoThread}
          /\ cpc # "idle" => collector # NoThread
          /\ rounds \in Nat
          /\ {stale, crashed} \subseteq BOOLEAN
          /\ gone \subseteq Threads
          /\ cpc = "idle" /\ ~stale => objectBitmap = {} /\ arrayBitmap = {}
          /\ queue \in Seq(Tasks) /\ running \in Tasks \cup {NoTask}
          /\ ready \subseteq Tasks

\* The boxes that the thread t can still reach from its frames, and what they refer to.
BoxesOf(t) == Reach(heap.stack[t] \cup heap.local[t])
LiveFor(t) == RefsIn(BoxesOf(t))

\* No step takes from the heap what the frames of the collecting thread reach: not
\* the sweep, and not what a collection that was left early leaves behind.  Of the
\* boxes that they reach, some may be deleted: those that are also elements of an
\* array that they do not reach (GC.cpp:145-147 deletes the elements with the array).
CollectorKeepsItsOwn ==
    [][collector # NoThread =>
          /\ LiveFor(collector) \cap heap.there \subseteq heap'.there
          /\ \A b \in BoxesOf(collector) \cap (heap'.deleted \ heap.deleted) :
                \E r \in heap.there \ LiveFor(collector) : r.kind = "array" /\ b \in Held(r)]_vars

\* A collection leaves no garbage: when it ends, what the frames of the collecting
\* thread do not reach is gone, except what happens to have the index of a static
\* variable as its offset - unless an earlier collection left its marks behind.
NoGarbageLeft ==
    [][EndCollection /\ ~stale =>
          \A r \in heap.there : \/ r \in LiveFor(collector)
                                \/ r.offset \in StaticIndices(r.kind, Offsets)]_vars

\* No thread loses an object that its frames reach (gc/GC.cpp sweep: "If we can not
\* find active object in object bitmap then clear it").
EveryThreadKeepsItsOwn == \A t \in Threads : LiveFor(t) \subseteq heap.there
=============================================================================
