# YVM in TLA+

YVM is a small Java virtual machine in C++: a bytecode interpreter, Java threads
on a thread pool, synchronized blocks, and a stop-the-world mark-and-sweep
collector with worker threads of its own. This directory holds TLA+ modules of
its concurrent core, its class space, its class file parser and its
interpreter, TLC configurations that check them, and TLAPS proofs.
Paths below are relative to the repository's `src/` (`gc/GC.cpp` and so on).

    tlasany M.tla                        parse a module
    tlc -workers 2 -config X.cfg M       check one configuration
    tlapm MProofs.tla                    check the proofs of a module

`PROJECT.json` lists runs, mutants, the lines each definition models, findings,
hazards and theorems.

## 1. The system

| component | code | state | operations |
|---|---|---|---|
| Monitors | `runtime/ObjectMonitor.*` | count, owner, `entered`, a mutex and a condition variable | enter, exit |
| Synchronized blocks | `interpreter/Interpreter.cpp` `op_monitorenter`, `op_monitorexit`; the monitor table in `runtime/JavaHeap.hpp` | the table id -> monitor, the heap offsets in reference boxes | find or create a monitor, enter or leave it |
| Safepoint | `gc/GC.h`, `gc/GC.cpp` `stopTheWorld`, `gc`; `GC_SAFE_POINT` in the five invoke functions | the flag, the count of arrived threads, two mutexes | notifyGC, shallGC, stopTheWorld, gc |
| Collector's pool | `GCThreadPool` in `gc/GC.*`, `gc/Concurrent.*` | `work`, `done`, the task queue, `sleepMtx` | submit, signalWork, signalWait, finalize, runPendingWork |
| Mark and sweep | `gc/GC.cpp` `mark`, `markAndSweep`, `sweep` | two bitmaps, the heap's three containers | mark a frame, mark the statics, sweep a container |
| Allocation account | `HeapAllocator` in `gc/GC.h` | bytes since the last request | allocate, deallocate |
| Executor and process | `vm/YVM.*`, `vm/Main.cpp`, `gc/Concurrent.*`, `java_lang_thread_start` | workers, task queue, futures, `done` | callMain, Thread.start, the pool's destruction |
| Class space | `runtime/ClassSpace.*` | class table, linked and initialized names, one recursive mutex | find, load, link, init, the `*IfAbsent` forms |
| Interpreter, frames, exceptions | `interpreter/Interpreter.*`, `runtime/JavaFrame.*`, `runtime/JavaException.*` | frames of slots, the pending exception | 200 opcodes, five kinds of call, throw and handle |
| Method resolution | `interpreter/MethodResolve.*`, `CallSite.*`, `SymbolicRef.*` | none | find a method or a field |
| Object layout | `runtime/JavaHeap.*` | fields of an object along its superclasses, elements of an array; a recursive mutex for each | create, get and put by name |
| Class files | `classfile/*`, `runtime/JavaClass.*` | the parsed tables, static variables | parse, look up |
| Natives, utilities, debugging | `misc/*` | none | conversions, descriptor parsing, output |

How they meet. A Java thread is a task of the executor's pool; it owns an
interpreter, which runs methods, takes monitors through the heap's table, and
asks the class space for classes. Allocation raises the collector's flag; each
interpreter tests it at the end of a call, stops at the barrier, and one thread
drives a collection through the collector's pool, whose tasks read that
thread's frames and prune the heap's containers, the monitor table among them.

What is hard, and what must hold:

* Monitors: three branches of `enter`, a condition variable that may wake
  spuriously, an exit that notifies only at zero. One thread inside at a time;
  the count is the depth; a waiter gets in.
* Blocks: three separately locked calls on the table and a store to a box that
  may be shared. Every thread finds the same monitor for an object, and
  `monitorexit` leaves the one `monitorenter` entered.
* Safepoint: an unlocked reset of the count, a barrier without generations, a
  number of threads that grows. No thread runs Java code during a collection; a
  request is collected once; everybody goes on afterwards.
* The pool: notifications without the mutex; a task that throws while others are
  queued. One task at a time, in order; none left when `gc` returns; no
  notification lost for good.
* Mark and sweep: what the roots are, what a bitmap entry means, what an aborted
  collection leaves, what is deleted with an array although others hold it. Nothing
  live is taken, garbage goes.
* The executor: a snapshot of futures, a vector that grows under a join. A
  started thread runs; nothing is cut in the middle; the process ends.
* Class space: operations that call each other under one recursive mutex,
  initializers that run under it and use other classes, class files that are missing
  or not what their name says; under it the mutexes of the heap are taken, and under those
  classes are asked for. No stage of a class is skipped; nobody uses a class while
  another thread initializes it; every use ends.
* Calls and exceptions: the object thrown is on the right stack when a handler is
  looked for; the handler that runs is the one in force; arguments arrive.
* Boxes: the interpreter copies some values, moves the pointers to others, and writes into
  the boxes of some. A method's local variables stay its own.
* Numbers: shifts computed with `pow`, masks, division, narrowing. They agree with the Java
  Language Specification where they are defined.
* The parser: a grammar of nested tables whose lengths are never used. What was written
  is read. Layout and dispatch: one slot for each field of an object; the method called
  is the one the Java Virtual Machine Specification selects.

## 2. Modules

| module | models | extends |
|---|---|---|
| `MonitorState` | what enter and exit do to one monitor's three fields | |
| `ObjectMonitor` | one monitor and the threads that use it | `MonitorState` |
| `ReentrantLock` | abstract: the lock a Java monitor promises | |
| `ObjectMonitorProofs` | TLAPS proofs | `ObjectMonitor` |
| `SyncBlock` | synchronized blocks over boxes, the table and many monitors | `MonitorState` |
| `SyncBlockProofs` | TLAPS proofs | `SyncBlock` |
| `Safepoint` | requests, the barrier, the entry and the end of `gc` | |
| `SafepointProofs` | TLAPS proofs | `Safepoint` |
| `GCPool` | the collector's workers and the thread in `gc` | |
| `SerialExecutor` | abstract: tasks run one at a time in order of submission | |
| `GCPoolProofs` | TLAPS proofs | `GCPool` |
| `MarkSweep` | what a collection does to the heap | `SerialExecutor` |
| `MarkSweepProofs` | TLAPS proofs | `MarkSweep` |
| `Executor` | callMain, Thread.start, the end of the process | |
| `ExecutorProofs` | TLAPS proofs | `Executor` |
| `ClassSpace` | load, link and init, and the Java code that asks for them | |
| `ClassSpaceProofs` | TLAPS proofs | `ClassSpace` |
| `ClassFile` | the parser, as functions from a reader to a reader | |
| `ClassFileFormat` | reference: the file of a declared class, and what reading it has to give | |
| `Hierarchy` | method lookup and field layout, with the specification's selection rule as reference | `ClassFile` |
| `ClassLibrary` | a library that is loaded, parsed and looked things up in | `Hierarchy` |
| `Values` | what the arithmetic instructions compute, with the Java rules as reference | |
| `Descriptor` | what method descriptors are taken apart into, with their meaning as reference | |
| `Interpreter` | frames, instructions, calls and exceptions of one thread | `Descriptor`, `Values` |
| `InterpreterProofs` | TLAPS proofs, also about `Values` and `Descriptor` | `Interpreter` |
| `MC*` | instances for TLC | |

Composition. `SyncBlock` runs many monitors with the very operators
`ObjectMonitor` runs one with (`MonitorState`), since both translate
`ObjectMonitor::enter` and `exit`. `MarkSweep` runs its tasks on the abstract
`SerialExecutor`, and `GCPool` is shown (by TLC on an instance, by TLAPS in
general) to implement it; so the interleavings of the workers need not be
explored together with the heaps. `MarkSweep` assumes a stopped world, and
`Safepoint` says when that is so. `ClassSpace` has collections as undisturbed
rounds, since what matters to it is who cannot come to the barrier; `Interpreter` takes
classes as loaded and linked, which `ClassSpace` says when they are, and has the
static initializers as calls.

### Correspondence with the code

`ObjectMonitor`. `mon` is the record of `monitorCnt`, `owner`, `entered`; the
mutex is not a variable, because every region under it is one action and
`cv.wait` is the only place that releases it. `asleep` and `woken` are the threads
in that wait before and after a wake. `depth[t]` counts the blocks t is inside:
the interpreter's nesting, from which TLC derives when exit may be called.
`handovers` is a history variable, the entries granted on the wait branch.
`failed` holds threads that exit threw at.

`SyncBlock`. A reference on the operand stack is a heap-allocated box with an offset. `javac` compiles
a block to *push the lock; dup; astore; monitorenter; body; aload; monitorexit*.
The interpreter's `dup` pushes a copy on top, `astore` keeps that copy, so
`monitorenter` pops the original and `monitorexit` a copy of the kept copy.
`getstatic` pushes the static variable's own box, which all threads share;
other loads push copies. Hence `staticBox`, `ownBox`, `kept`. `pc` walks through
the calls, one action for each call that takes `monitorMtx` and one for the
store to the offset. `rebound` is a history variable: a box was given an offset it
did not have. That happens when the ids the table gives out (1, 2, ...) run apart
from the offsets of the objects locked.

`Safepoint`. `safepointWaitCnt` is stored by `notifyGC` with no mutex, while
`stopTheWorld` increments it under one: a race on a plain `int`. It is modelled
as what a build does with it, a load and a store that the other store may fall
between. `live` are the executor's threads (`getThreadNum()` never falls), `done`
those whose task is over. What markAndSweep does is inside `collect`, which ends normally
(`EndGC`) or by the exception of the static task (`AbortGC`): then the mutex is
unlocked, the flag is still up, the thread is `thrown`, and the next one collects.
`disturbed` is a history variable: a request reset the count while a thread was
between its poll and its return, or a thread was started while others were on
their way out of a finished round.

`GCPool`. A worker's `pc` goes through `loop`, `lock`, `test`, `drowsy` (tested, not
yet waiting), `asleep`, `woken`, `take`, `run`. `sleepMtx` is a
variable here, since the point is who holds it: the worker keeps it while a task
runs, and the notifier never takes it. One frame stands for the chain of frames
(every frame adds two more mark tasks of the same two sorts). `failed` are the
rounds whose static task threw.

`MarkSweep`. A heap is a record of the containers, the boxes that fields, elements, slots
and static variables point to, what each box refers to, and the boxes that were
deleted. Boxes are their own set, because several holders may have the same one: an
array load pushes the element's own box, and `aastore` and the stores to locals keep
the one they pop. `Reach` is what `mark` visits. The sweep of arrays takes with an array
the boxes of its elements (`Doomed`), wherever else they are held; objects
leave their fields' boxes alone. What is undefined is `crashed`, after which nothing is claimed: `mark` does not
return (`OnCycle`), or meets a deleted box or a swept offset, where the end iterator of a map is
dereferenced (`Dangling`); the static task asks a deleted box for its type (`StaticsCrash`); a
box is deleted twice (`DeletesTwice`). `gone` are threads that the exception of `gc()` ended.
The frames and heap change between collections only by `DropRoot`: allocation and
stores would only lead to other heaps, and the runs start from all of them.

`Executor`. Workers are numbered in the order of creation, and a started thread's
task has the number of the worker that was created for it, though any worker may run it.
`starting[w]` is the Thread.start a running task is in the middle of. When the
destructor joins while `emplace_back` runs, the loop's iterators are invalid: the new
worker is joined too, or the process dies.

`ClassSpace`. Loading, linking, initializing and looking up call each other, under
a mutex that is recursive. `cont[t]` is the rest of what a thread has to do: an
operation replaces itself by those it calls, and the end of a `lock_guard` is an
operation of its own (`unlock`; `leave` after an initializer). A thread holds the mutex
while it has such an end still to come. So the recursion has any depth, and every
point between two calls is a state. The heap's `objMtx` and `arrMtx`, recursive too, are held in the same
way (`objEnd`, `arrEnd`; `Mutexes`, `Holds`, `Gets`): `UseObject` takes the first, and `Walk` goes
up the super-classes under it, each time asking the class space for the next;
`CreateArray` makes objects under the second; and linking a constant String makes objects and an
array under the class space's. What Java code does with classes is given as sequences
of operations that translate the instructions (`Ref`, `Static`, `CallStatic`, `New`, `NewArray`,
`Field`, `Text`, `Find`, `Start`); `IsCode` says the one thing the proofs need of them: the interpreter
loads before it links, creates or uses objects, links before it initializes and initializes before it
accesses, where an initializer's own class is there (`given`) when its code begins. Only `Find`,
which is `instanceof` and the comparison with a catch type, comes with no load before it.
A disk gives for
every class path and name what the file has in it that these steps look at:
how its parsing ends, the name inside, the super-class, the statics. The class
table may map a name to a file of another, as `loadJavaClass` registers a class
under the name in the file. `process` is how the process ended: the parser's exit, a null
class, a static variable that was not made.

`ClassFile`. One operator for each parse function, and a record for `FileReader`:
the file, the position, the buffers of 1, 2 and 4 bytes (a read past the end leaves the
old bytes in them, as the code does), and how parsing ends. `jc` is then what
`JavaClass` holds. `ClassFileFormat` is written from the class file format
and not from the parser: it writes a declared class to bytes, and says what is to be found in
them. The two meet in `ParsedAsWritten`.

`Hierarchy`. The recursions along super-classes are searches in `Lineage`. A field's
slot is computed in two places in the code, by `createObject` from the object's class down, and by
`getFieldByName` with an offset: `createObject` and `FieldSlot`.

`Interpreter`. A value is a box on the C++ heap, and stacks, variables, fields and
elements hold pointers to boxes: `boxes[i]` is box i, and instructions differ in whether
they copy the box or the pointer. Objects and arrays hold boxes in turn. The
instructions are grouped by what they do: `Binary` has 32 of them, `Dup` six, and
so on; all opcodes of `execByteCode` are there, but for the two of monitors. Code is a
function from byte addresses, because the interpreter moves `op` back by one before it
looks for handlers, and the byte before a handler then gets executed.
`maxStack` is in the frame as `grow(1)` changes it (`Grown`). A
call is one action up to the first instruction of the callee; `Recover` is what the caller
does with an exception. A native method's result may make the caller's stack grow like any other
push; a receiver that is no object (`NoReceiver`) ends in an undefined call.
`exposed` is a history variable: boxes of statics and
elements that instructions got hold of, and those that a `dup` put on a stack twice.
`ProgramsAssumption` says what a program is: instructions have operands of their
kinds, class names are of classes there are, descriptors are descriptors (`IsDescriptor`: parentheses, an end for
every class name, something returned), a string's length fits an int, main begins with an
instruction, and ranges of exception tables begin and end at instructions, as the class
file format requires (only calls matter for it). Nothing is assumed about stacks or types, that is,
about what a verifier would check, because the interpreter has none.

`Descriptor`. The loop of `peelMethodParameterAndType` is a function of the position, with one
case for each `case` of its switch. The reference is not a parser: `Beginnings` is the set
of positions outside class names where a type begins, and `Declared` numbers them by counting.

`Values`. Integers have widths, given by a constant (those of `int` and `long` are powers of two, which
makes the masks of shift distances remainders), and all operations are by
`Wrap`, over `PowerOf2`, a recursive function since the provers do not know
`^`. Floats are whole numbers, or `Other`. An integer that becomes a float or double is rounded
to the digits these have (`Rounded`, with `Mantissa` a constant like the widths): so in
conversions, and so in the shifts, which compute with `pow` (`AsDouble`). That every int is a double is an
assumption on the constants (32 bits, 53 digits); that a long is not is the case that matters. A result that is undefined in C++ is a
choice, or what x86-64 does if the code stores it.

## 3. Runs

| run | instance | bounds | shows |
|---|---|---|---|
| `monitor` | 3 threads | nesting 2, 3 enters each | the monitor is a right lock up to the first hand-over, and what its count means after |
| `monitor_exclusion` | same | | **violated**: two threads inside after a hand-over |
| `sync_block` | 2 threads, 2 lock objects, one of them static | 2 blocks each | one monitor for each object, found again by monitorexit, while no box is rebound |
| `safepoint` | 3 threads | 2 requests | undisturbed rounds stop the world, collect once, and let everybody go; also after `gc` threw |
| `gc_pool` | 2 workers | 2 collections | the pool is a serial executor, is clean when gc returns, and collections end |
| `mark_sweep` | 2 threads, 2 objects, 2 arrays, 6 boxes, 2 static variables | 2 collections, 1728 heaps | the collecting thread loses no object and no array, and only boxes of a kind, garbage goes |
| `roots_lost` | same | 1 collection | **violated**: another thread's object is swept |
| `executor` | | 2 started threads | started threads run, none is cut short, the process ends |
| `subs_awaited` | | 1 started thread | **violated**: callMain returns before a started thread is over |
| `class_space` | 2 threads, 4 classes, 2 fields of one and 1 of another, 7 class paths, 3 programs | 2 requests | stages in order, initializers undisturbed, supers present, nothing null on a complete path but what is looked up unloaded, uses end but for a deadlock of one form |
| `class_library` | 32 libraries of an interface and three classes | | files are read as written, slots are apart, calls run the right method |
| `interpreter` | 436 programs | ints of 4 bits, longs of 8, doubles of 6 digits | exceptions reach the right handler, locals are private, arithmetic and arguments are right |

Why the bounds are enough for the cases that matter. Three threads are what a
hand-over needs: one leaves, one is admitted, one comes in through the free
branch; three enters let a thread come back after it. Two lock objects and two
blocks let the ids of the table run apart from the offsets. Three threads at
the barrier with two requests give a late waker, a second round over the
first, and a thread started meanwhile. A second collection is what meets marks
that an aborted one left. With one worker more the pool's run
has 60 000 states and the same result. Two started threads make a started
thread that starts another. In the class space, A's initializer makes a B, which
is a sub-class of A, and B's initializer uses A: so initializers nest, come back to a class that is
being initialized, and two threads come from both ends; each class path but
the first breaks one link. The third program makes, reads and writes objects in one thread while the other links
a class with a constant String, which is what taking two mutexes in both orders needs, and looks that
class up before and after it is loaded. In the heaps of `mark_sweep` an array's element may be
a box that a frame, a field, another array or the same array has, or that a frame of the
other thread reaches, and a box may be of a primitive type. All attributes the parser knows are in the libraries, with entries, at every
level where they may stand; a class with an annotation that has elements is not, as
the parser writes through a null pointer there. An interface and three classes in a line are what it takes to tell
the nearest declaration, the super-class's and the interface's apart, and a hidden
field from the one that hides it. Four bits are the least in which shift distances (two
bits), signs and the least number are all different; all pairs of ints are tried, for
every operation; longs have two digits more than doubles, and three programs shift numbers that are rounded
to the even neighbour (-77) and up, out of the type (127). The programs cover every action and both
outcomes of each of its conditions; exceptions travel through two frames with eight
exception tables and four bytes before the handler.

What the history variables cut off. `ExclusiveUntilHandover`, `OneMonitorPerObject`,
`WorldStopped` and their kin hold until a hand-over, a rebinding or a
disturbance. Those are events the code really has, and the guarantee ends with them:
the corresponding runs without the condition fail. The conditions are the exact
places where the code's protection stops, found by TLC one counterexample after
another; they are not assumptions about inputs.

### What TLC found

* `ObjectMonitor.cpp:38`: an entry granted by the wait sets neither count nor owner.
  The count is then short by one for each such entry (`CntAccounts`: the count and the hand-overs are
  together the blocks that are open), the next
  thread walks in through the free branch, and once the count is negative,
  nobody is notified any more.
* `GC.cpp:177`: only the collecting thread's frames are roots.
* `GC.cpp:145`: sweeping an array deletes the boxes of its elements, also those that a slot of the
  collecting thread or a live array holds (after an `aaload`, or when one box was stored
  twice). The object itself stays, as it was marked through that very box; the pointer to it
  dangles. `CollectorKeepsItsOwn` says that no other boxes are lost. With an element that is in two dead arrays, or twice in
  one, the sweep deletes a box twice.
* `YVM.cpp:90`: the futures are copied before main has started a thread.
* With a single worker `CollectionEnds` fails: the worker tests `work`, the caller stores and notifies, the worker
  goes to sleep, and nobody notifies again. With two workers the other one takes all the
  tasks, as `while (work)` keeps it going. With none (`hardware_concurrency()` may
  be 0) no collection ends. The run has two.
* A `notifyGC` in the middle of a round, or a thread that starts while a woken one has yet to test the
  count again, leaves threads at the barrier for good
  (`EverybodyResumes` without its condition); so does a thread whose task is over,
  or one that is blocked in a monitor, as it is counted and never arrives.
* `ClassSpace.cpp:219`: `<clinit>` runs under the mutex and has a safepoint at its end. If
  a collection is requested then, the thread waits at the barrier with the mutex, and any thread
  that needs a class waits for the mutex. `UsesEnd` excepts this, and a barrier that waits for a
  thread whose code is over.
* `JavaHeap.cpp:38`: creating an object and looking for a field hold `objMtx` and ask the class space for the
  super-class, which takes `maMutex`; linking a class with a constant String holds `maMutex` and creates
  objects (`ClassSpace.cpp:82` and `109`-`116`), and so does every initializer that makes one. Two threads
  that do so at the same time wait for each other for ever; `createObjectArray` brings `arrMtx` into it as
  well. `LockOrderDeadlock` is exactly this, a circle of waits of which one is for a mutex of the heap
  with `maMutex` held, and `UsesEnd` says that there is no other. Without any one of the
  three exceptions the run fails.
* `Interpreter.cpp:1516`, and `1463` to `1465`: `instanceof` and the comparison with a catch type look a class up
  that nobody need have loaded, and dereference the null pointer, also if every class file is there.
  `SafeOnCompletePath` names that case.
* `ClassSpace.cpp:70`: the loop over the interfaces runs only if there are none, while
  the comment at line 68 says "Load super interfaces if existed". `SuperLoaded` is
  about super-classes.
* `JavaClass.cpp:94` and `:111`: a static variable is looked for in super-classes that were never
  linked; the end iterator is dereferenced. `SafeOnCompletePath` names that case.
* `Interpreter.cpp:92`: after an exception out of a call the byte before the handler is
  executed. It is the last byte of the instruction in front: for a `goto` over the
  handler, the low byte of its offset. `HandlerInForce` says what handler is found, and one byte before it;
  it excepts what a `<clinit>` lets go, as the handlers are then searched for the class of
  whatever object is on top of the stack.
  A catch-all is taken whatever its range, and the run-time class of a `catch_type` of 0 is
  dereferenced first.
* `Interpreter.cpp:1132`: `getstatic` and the array loads hand out the variable's own box, and
  `iinc` and the negations write into boxes: a static variable changes with a local one. `LocalsPrivate` excepts such boxes.
* `Interpreter.cpp:1602`: arguments are put into consecutive slots, also after a `long` or a
  `double`; `Utils.cpp:172`: after an array of a class the letters of the class's name are
  further parameters. `ArgumentsArrive` says so.
* `Interpreter.cpp:739`: a left shift that does not fit is the least number; `lshl` and `lshr` (`744`, `754`)
  round a `long` of more than 53 digits before they shift it, as `pow` makes it a double;
  `iushr` and `lushr` of 0 throw, and `lushr` of a negative number takes the distance from 5 bits in
  one of its two terms (`Interpreter.cpp:773`). `KnownToDiffer` and `Refuses` name these operands, and the
  proof shows that there are no others, and that for `int` only the first is left. A `long`'s shift takes its distance as a `long`, which is never
  on the stack. `Utils.cpp:60`: copying a `long` dereferences null.
* `JavaHeap.cpp:213`: a static field declared before an instance field shifts the latter's slot. `FieldsApart` says so.
* `MethodResolve.cpp:96`: interfaces are searched only if the super-class has some.
  `DispatchAsSpecified` says that what is found is right, and what is not found is an interface's.

## 4. Fairness

* `monitor`: a block that was entered ends, and a notified thread runs. No more:
  nobody has to enter.
* `safepoint`: every thread runs on, Java code reaches the end of a call, and a mutex that is
  free again and again is granted (strong fairness on the lock actions). The last
  is what a POSIX mutex gives in practice; the standard does not promise it.
* `gc_pool`: workers and the caller run, tasks end, and `sleepMtx` is granted in the
  end although the other workers spin on it. `finalize` has no fairness, and
  `CollectionEnds` is about programs that do not end meanwhile.
* `executor`: workers and the process thread run. A task need not end (a Java thread may
  wait for another), and starting threads is not fair; `ProcessEnds` is about programs whose tasks end.
* `class_space`: each thread's steps and the collection are weakly fair. A thread that waits for a mutex is disabled
  while another has it and enabled for good in the end, as the sequences are
  finite, or waits in a circle, which `UsesEnd` excepts if it is the one above. So `UsesEnd` asks nothing of the mutexes' fairness.
* `class_library` and `interpreter` have no liveness; `mark_sweep` has none either.

## 5. Proofs

`ObjectMonitorProofs`, for any set of threads and any bounds:

* `TypeCorrect`: `Spec => []TypeOK`.
* `ExclusiveUntilHandoverHolds`. With `TypeOK` the property is inductive as it
  stands: it names the count, the owner and the set of threads inside in one
  disjunction, and the case that would break it (a thread inside that is not
  the owner) can only come from the wait branch, which counts a hand-over. The
  lemma `MonitorOps` says what the operators of `MonitorState` do to the fields.
* `ImplementsLockUntilHandover`: from the invariant, each action is a step of
  `ReentrantLock` or leaves `depth` alone.
* `CntAccountsHolds`, for good and not only up to a hand-over. The blocks that are open are pairs of
  a thread and a nesting, so an entry adds one (`OneMoreBlock`) and an exit takes one away
  (`OneBlockLess`). `Books` adds that they are finitely many, which is not assumed of the threads.

`GCPoolProofs`, for any number of workers and collections:

* `PoolTypeCorrect`. The inductive invariant is `PoolInv`, which adds that a
  collection under way has a round in range; without it the submitted task is not known to be a
  task. `TypeOK` itself holds the mutual exclusion: `sleepMtx` is held by a worker exactly
  while it is in its region, and `run` is in the region.
* `PoolRunsSerially`: the refinement. The abstract `running` is the one task of
  the worker at `run`. `OneRunner` says there is at most one, from the exclusion in
  `TypeOK`; `SameRunner` that a step which starts and ends no task leaves it
  alone; `ExecutorStep` maps WorkerTake, WorkerFinish and SubmitNext to Start,
  Finish and Submit and every other action to a stutter.

`SyncBlockProofs`, for any threads, lock objects, static variables and number of
blocks, from `SyncBlockAssumption` (offsets are positive, `NoThread` is no thread):

* `SyncBlockTypeCorrect`, with `TypeInv`: the ids of the table are 1..n without
  gaps (so the id `createMonitor` gives is new: `CreateOps`), and what
  `findMonitor` is about to ask for is there. The latter survives another thread's store
  to a shared box because only ids of the table are ever stored.
* `OneMonitorPerObjectHolds`, `ThrowsOnlyIfReboundHolds`, with `BoxInv`: while not
  rebound, every box holds the offset of its object, the target is that offset,
  its monitor is marked as entered while somebody is inside, and no thread is
  where `monitorexit` creates a monitor.
* `ExclusivePerObjectHolds`, with `ExclusiveInv`: whoever is inside owns the
  object's monitor at depth one, and a monitor that is not free has somebody
  inside; so the owner branch of `enter` cannot be taken by a thread outside.

`SafepointProofs`, for any finite set of threads and any number of requests:

* `OneCollectionPerRequestHolds`. `RequestsAccount`: collections, the raised flag
  and the pending stores of the flag together are at most the requests;
  `CollectingUnderFlag`: a thread collects under a raised flag.
* `WorldStoppedHolds`. `RoundInv`, in undisturbed rounds: the count is the
  number of arrived threads as long as the flag is up; the barrier opened only
  when that is all of them (`Opened`), and none has left before the flag goes down; while
  threads drain from the barrier nobody arrives and no request is pending. A thread that an exception
  of `gc()` ended (`Thrown`) was counted and is behind the barrier no more, with the flag still up:
  then the count is more than the arrived threads, and `Opened` is what is left to say.

`GCPoolProofs` also has `NothingLeftBehindHolds`. `InOrder` says how far the three
mark or sweep tasks are: a prefix has run, the next may be running, the following are queued,
the rest is still to be submitted; `ReadyBooks`, whose futures are ready. When `gc` has seen the last
future ready, or the static task's exception, which is in the last task, all have run.

`MarkSweepProofs`, for any objects, arrays, boxes, references and contents of them, frames, statics and
number of collections:

* `MarkSweepTypeCorrect`, with `Stages`: `Progress` enumerates where a list of three tasks can be in the
  serial executor; it is used once for marking and once for sweeping, so sweeping begins with every mark task done.
* `OwnObjectsKept`. `EnoughMarked`: a mark task that is done has marked the objects and the arrays its roots reach.
  `Reach` is the least closed set, and `ReachUnion` says that what two sets of roots
  reach together is reached by one or the other, so marking from the stack and
  from the locals one after the other is enough. So what the frames reach is marked while sweeping
  (`LiveMarked`), and nothing of it is taken. Boxes are another matter: `Doomed` are the elements of every
  array that is not marked, whoever else has them. `SharedDeleted` gives for each deleted box that the frames
  reach the array it was deleted with, which they do not reach: that is the only way, and no theorem says it does not happen.
* `GarbageTaken`. `NothingElseMarked`: every mark of a collection that began with empty bitmaps is of a reached
  object, or is an index of a static variable; `Swept`: what is left in a container after its
  sweep is marked.

`ExecutorProofs`, for any number of started threads:

* `ExecutorTypeCorrect`, with `Threading`: workers that do not exist do nothing, and
  a thread in the middle of `Thread.start` is running a task.
* `NoTaskCutShortHolds`. `Books`: a task is queued exactly if it is once in the queue,
  running exactly if one worker has it; the process has seen main return, and every worker
  joinable, before it exits.
* `AWorkerForEveryTaskHolds`. The property counts, and its strengthening `Supply` counts what is on its way too: queued
  tasks, started threads that have their worker and not yet their task, and main's, are together at most the
  free workers. Each side changes by one in a step; the lemmas on cardinalities say so.

`ClassSpaceProofs`, for any threads, names, class paths, files, initializers, programs and
requests, from `ClassSpaceAssumption` (files are files, code is `IsCode`, and the String class
is one of the names):

* `ClassSpaceTypeCorrect`. `TypeOK` has the mutual exclusion of each of the three recursive mutexes: `Exclusive` says
  that it survives an operation being replaced by others, if these end no guard that the thread may not take (`May`).
  `Shapes` says of every action by which operations it goes on, among them those of linking (`LinkOpsAre`) and of
  making an array (`ArrayOps`), which take a mutex while another is held; nothing is proved about the order, which is what deadlocks.
  `ArrivedPolls` and `LinksLoaded` are needed as `Collect` takes away the head of every thread's sequence, and as
  linking goes on after the String constant was made.
* `StagesInOrder`. `InitsLinked`: an initialization to come is of a class that is
  linked, or that the same thread links first. `Covered` says this of a sequence, and a lemma
  says how it survives an operation being replaced by those it calls, so that the twenty
  actions of a thread need no arguments of their own about positions.
* `StaticsGuarded`. `AccessesInited`: an access to come is to a class that no other thread is initializing, or is
  preceded by its initialization. The step that could break it, `InitClass` by
  another thread, is for a class that was not initialized; the one that discharges the initialization,
  `InitNothing`, needs the mutex, which the initializing thread has.
* `SupersPresent`. `SupersDue`: if a class's super-class is not in the table and could be, the
  thread with the mutex is about to load it.
* `SafeWhenComplete`. `SafeInv` says, for a class path on which every class is good: a name is
  registered for its own file, what is linked has its static variables made, every
  use to come of a class is of one that is loaded or comes after its loading in the same
  sequence (`Grounded`), and the process runs, or ended where a static variable is looked for in a
  super-class that was never linked, or where a class is looked up that nothing loaded: the
  one of an `instanceof` or of a catch clause, which is no use that `Grounded` could speak of. It needs the three invariants before it: a
  link finds its super-class by `SupersDue`, an access its variables by `AccessesInited`.

`InterpreterProofs`, for any programs that satisfy `ProgramsAssumption`, widths and native results. Every
instruction is one of four kinds of step (`Outcome`): the process halts, the top
frame goes on (`Works`), it waits for a new one (`Enters`), or it is left
(`Leaves`). One lemma for each action says of which kind it is; the invariant is then
preserved by kinds, not by the forty-one actions. `Invariance`, with `Inv` of six parts:

* `Typed`: boxes, holders of boxes and frames are what they should be. `WellTypedHolds` is the part of
  `TypeOK` that follows.
* `Nested`: main's frame is the lowest, and the frames below the top are at an instruction, which
  is what a returning frame finds.
* `Arrives`: an exception on its way is on top of the stack, and the flag that tells a frame it
  has dealt with it is down. From it `ThrownArrivesHolds`. When a method is left by an exception its caller
  gets the object pushed whatever its return type, which is what `Returns` says.
* `Owned`: no box is in a local variable of one frame and anywhere in a frame above it, or twice
  in one frame, but for shared ones. `LocalsPrivateHolds` follows since a step writes only to
  boxes of the top frame. That of one frame is needed for calls, where stack entries
  become local variables, and there the stack must not have a box twice;
  hence the two parts, and `exposed` includes what `dup2_x2` duplicates without a copy.
* `Waiting`, `Came`: a frame below one that an instruction called is at that call, and an exception
  on its way has come out of a call that ends at the program counter. So the
  byte before `pc` is in a range exactly if the call is, which gives `HandlerInForceHolds`. What
  a `<clinit>` lets go comes to a frame that waits at no call, hence the condition on `byName`.

* `ArithmeticAgreesHolds`, for all widths. `MachineIsJava` says it of the operators: the code's way to the number
  (C++ division, `pow`, `floor`, a sum of two shifts, the bits of two's complement) and the language's way
  lead to the same, but for `KnownToDiffer`. `pow` rounds: an int is a double as it is (`ShortNotRounded`, from
  Width["int"] <= Mantissa["double"]), a long that is none is in `KnownToDiffer`, and `IntsDifferInLeftShifts` says that for
  ints only the left shift that does not fit is left. Sums and products are congruent modulo the width and the number of a
  type with a given remainder is unique (`WrapMore`, `Signed`); quotients and remainders are the only ones of their
  size and sign (`QuotientUnique`, `RemainderUnique`); the shift distances `b & (w - 1)` and b modulo w are
  the same as w is a power of two, which divides PowerOf2(w) (`DistanceAgrees`); a number is determined by its bits.
  The last is an induction over bits, as those over PowerOf2 are: an induction over a *set* of natural
  numbers (`Induction`) does not need a predicate as a parameter. `OnlyBinary` and `PushedOnTop` bring
  it to the box on the stack.
* `PeeledAsDeclared`, for descriptors of any length. `NextBegins` says that from a
  beginning the parser goes on at the next one, over brackets and class names, or at the
  closing parenthesis; then, from that parenthesis backwards, what is parsed from a
  beginning on are the types that have not begun before it (`BegunNext`, `BeforeRest`).
  It is false after an array of a class, where the parser takes letters of the name for types.
* `ArgumentsArriveHolds`, from `PeeledAsDeclared`. It has a hypothesis, `[][Verified]_vars`: values that a
  call takes are of the types that the descriptor declares. Without it the property is false, for the
  code pops by `dynamic_cast` and has null for a value of another type; a verifier
  would ensure it of a program, and yvm has none. An array for an object is let through by `Verified`, as it
  is by verifiers, and excepted by the property, as the cast loses it. Every program of
  the `interpreter` run satisfies `Verified` in every step (checked with TLC as a property in place of that run's).

The lemmas before those are about lineages (what the bounded recursion computes, by the least
counterexample), the numbers of the boxes a step makes, and stacks.

Each strengthened invariant was checked by TLC on the instances of the runs first; of `Typed`, whose
sets TLC cannot enumerate, the consequence `WellTyped`.

Model-checked only:

* all liveness (`WaiterGetsIn`, `EverybodyResumes`, `CollectionEnds`, `StartedThreadRuns`,
  `ProcessEnds`, `UsesEnd`), which is out of the prover's reach;
* `StacksFit`, the other half of the interpreter's `TypeOK`: it is false of code that pushes more than it
  declares, and what makes it true is a verifier's analysis of the code, which is
  no assumption on the operands of single instructions;
* the three properties of `ClassLibrary`, about recursion over files and lineages, with
  operators that the provers cannot take (`RECURSIVE`).

## 6. What is not modelled

* Data races on containers: `threads` and `taskFutures` grow in one thread and are
  read in others with no lock. Each call is one step here; a torn vector is undefined.
* Locks that are arrays: monitorenter casts the box to `JObject*` and dereferences the
  null result. Blocks that a C++ exception leaves.
* Order of destruction of the globals at exit, and what a task of the executor
  may still touch.
* That marking is over before sweeping starts is doubly protected (the futures are
  waited for, and the queue is in order), so no property of its own says it.
* Characters. A text of a class file is one byte that stands for it, since the parser only
  compares names; a class name in a descriptor has only the letters that matter. `removeJavaClass`
  is called by nobody.
* The allocation account (`HeapAllocator`): it decides when a collection is requested. In
  `Safepoint` and `ClassSpace` it may be at any time, in particular whenever the account says so.
* NaN and infinities are one value, `Other`, and comparisons with it may answer anything.
* Native methods other than `Thread.start` give a result out of a set; the string builder
  and the output natives convert and print. The debugger's tables, command line, and files.
* Composition of monitors with collections, and of the interpreter with several threads: the sweep of the monitor
  table is in `MarkSweep`, the use of it in `SyncBlock`. The interleavings of instructions of two
  interpreters are data races on boxes, which are undefined; what they do under locks is in the other modules.

## 7. Plan

Done: monitors, blocks, safepoint, pool, mark and sweep, executor, class space, parser, method
and field lookup, interpreter; proofs of the first seven and of the interpreter. What
is left, in this order:

1. `SyncBlock` with the sweep of the monitor table between two blocks, and with a block left by
   an exception.
2. `HeapAllocator`'s account with its widths.
3. Proofs: that stacks fit, which needs the verifier's analysis of the code as a definition, from which
   `Verified` would follow, too.
