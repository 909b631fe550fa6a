------------------------------ MODULE SyncBlock -----------------------------
(***************************************************************************)
(* Synchronized blocks as the interpreter runs them: the opcodes           *)
(* monitorenter and monitorexit over reference boxes, the heap's table of  *)
(* monitors and the ObjectMonitors in it.                                  *)
(*                                                                         *)
(* A reference on the operand stack is a heap-allocated box that holds a   *)
(* heap offset.  javac compiles a block to "push the lock; dup; astore;    *)
(* monitorenter; body; aload; monitorexit".  dup leaves the original box   *)
(* under a copy: astore keeps the copy and monitorenter pops the original. *)
(* A getstatic pushes the static variable's own box, shared by every       *)
(* thread; any other load pushes a copy.  A monitor is found by the        *)
(* offset in the popped box, and if there is none the box's offset is      *)
(* overwritten with the id of a new monitor.                               *)
(*                                                                         *)
(* hasMonitor, createMonitor and findMonitor lock monitorMtx one by one,   *)
(* so each is an action of its own.                                        *)
(***************************************************************************)
EXTENDS MonitorState, FiniteSets

CONSTANTS Threads,
          Objects,      \* heap offsets of the objects used as locks
          Static,       \* those that are read from a static variable
          MaxBlocks     \* BOUND: blocks one thread starts

ASSUME SyncBlockAssumption ==
    /\ NoThread \notin Threads
    /\ Objects \subseteq Nat \ {0}
    /\ Static \subseteq Objects
    /\ MaxBlocks \in Nat

VARIABLES
    monitors,   \* the monitor table: id -> ObjectMonitor
    staticBox,  \* staticBox[o]: the offset in the static variable's box
    pc,         \* pc[t]: where in a block t is
    obj,        \* obj[t]: the object t's current block locks
    ownBox,     \* ownBox[t]: offset in the popped box, when it is t's own
    kept,       \* kept[t]: offset in the copy that astore keeps
    target,     \* target[t]: the monitor t found or created last
    asleep,     \* threads blocked in cv.wait of their target
    blocks,     \* blocks[t]: blocks t started (for the bound)
    handovers,  \* history: entries granted on the wait branch of enter
    rebound     \* history: some box was given an offset it did not have

vars == <<monitors, staticBox, pc, obj, ownBox, kept, target, asleep, blocks,
          handovers, rebound>>

Locations == {"idle", "has", "create", "assign", "find", "enter", "waiting",
              "inside", "exitCreate", "exit", "failed"}

Init == /\ monitors = [i \in {} |-> FreshMonitor]
        /\ staticBox = [o \in Static |-> o]
        /\ pc = [t \in Threads |-> "idle"]
        /\ obj = [t \in Threads |-> 0]
        /\ ownBox = [t \in Threads |-> 0]
        /\ kept = [t \in Threads |-> 0]
        /\ target = [t \in Threads |-> 0]
        /\ asleep = {}
        /\ blocks = [t \in Threads |-> 0]
        /\ handovers = 0
        /\ rebound = FALSE

Goto(t, l) == pc' = [pc EXCEPT ![t] = l]

\* The offset in the box that monitorenter popped.
RefOffset(t) == IF obj[t] \in Static THEN staticBox[obj[t]] ELSE ownBox[t]

\* Mutant of HasMonitor: off by one at the end of the table.
HasMonitorOffByOne(off) == off <= Cardinality(DOMAIN monitors) + 1

HasMonitor(off) == off \in DOMAIN monitors

\* The id createMonitor gives: one more than the greatest key.
NextId == IF DOMAIN monitors = {} THEN 1
          ELSE 1 + (CHOOSE i \in DOMAIN monitors : \A j \in DOMAIN monitors : j <= i)

CreateMonitor == monitors' = [i \in DOMAIN monitors \cup {NextId} |->
                                 IF i = NextId THEN FreshMonitor ELSE monitors[i]]

SetMonitor(i, m) == monitors' = [monitors EXCEPT ![i] = m]

-----------------------------------------------------------------------------
\* Push the lock object, dup, astore.
LoadLock(t, o) ==
    /\ pc[t] = "idle"
    /\ blocks[t] < MaxBlocks
    /\ blocks' = [blocks EXCEPT ![t] = @ + 1]
    /\ obj' = [obj EXCEPT ![t] = o]
    /\ ownBox' = [ownBox EXCEPT ![t] = o]
    /\ kept' = [kept EXCEPT ![t] = IF o \in Static THEN staticBox[o] ELSE o]
    /\ Goto(t, "has")
    /\ UNCHANGED <<monitors, staticBox, target, asleep, handovers, rebound>>

\* monitorenter: hasMonitor(ref).
EnterHas(t) ==
    /\ pc[t] = "has"
    /\ Goto(t, IF HasMonitor(RefOffset(t)) THEN "find" ELSE "create")
    /\ UNCHANGED <<monitors, staticBox, obj, ownBox, kept, target, asleep,
                   blocks, handovers, rebound>>

\* monitorenter: createMonitor() ...
EnterCreate(t) ==
    /\ pc[t] = "create"
    /\ CreateMonitor
    /\ target' = [target EXCEPT ![t] = NextId]
    /\ Goto(t, "assign")
    /\ UNCHANGED <<staticBox, obj, ownBox, kept, asleep, blocks, handovers, rebound>>

\* ... and ref->offset = its id.
EnterAssign(t) ==
    /\ pc[t] = "assign"
    /\ IF obj[t] \in Static
       THEN /\ staticBox' = [staticBox EXCEPT ![obj[t]] = target[t]]
            /\ UNCHANGED ownBox
       ELSE /\ ownBox' = [ownBox EXCEPT ![t] = target[t]]
            /\ UNCHANGED staticBox
    /\ rebound' = (rebound \/ target[t] # RefOffset(t))
    /\ Goto(t, "find")
    /\ UNCHANGED <<monitors, obj, kept, target, asleep, blocks, handovers>>

\* Mutant of EnterFind: the monitor created last instead of the object's.
EnterFindLast(t) ==
    /\ pc[t] = "find"
    /\ target' = [target EXCEPT ![t] = NextId - 1]
    /\ Goto(t, "enter")
    /\ UNCHANGED <<monitors, staticBox, obj, ownBox, kept, asleep, blocks,
                   handovers, rebound>>

\* monitorenter: findMonitor(ref).
EnterFind(t) ==
    /\ pc[t] = "find"
    /\ target' = [target EXCEPT ![t] = RefOffset(t)]
    /\ Goto(t, "enter")
    /\ UNCHANGED <<monitors, staticBox, obj, ownBox, kept, asleep, blocks,
                   handovers, rebound>>

\* ObjectMonitor::enter, the three branches.
Enter(t) ==
    /\ pc[t] = "enter"
    /\ LET m == monitors[target[t]] IN
       \/ /\ Free(m)
          /\ SetMonitor(target[t], Taken(m, t))
          /\ Goto(t, "inside")
          /\ UNCHANGED asleep
       \/ /\ ~Free(m) /\ OwnedBy(m, t)
          /\ SetMonitor(target[t], Retaken(m))
          /\ Goto(t, "inside")
          /\ UNCHANGED asleep
       \/ /\ ~Free(m) /\ ~OwnedBy(m, t)
          /\ asleep' = asleep \cup {t}
          /\ Goto(t, "waiting")
          /\ UNCHANGED monitors
    /\ UNCHANGED <<staticBox, obj, ownBox, kept, target, blocks, handovers, rebound>>

\* cv.wait of enter: the thread was notified (or woke spuriously) and checks
\* monitorCnt == 0 under the mutex.
Recheck(t) ==
    /\ pc[t] = "waiting" /\ t \notin asleep
    /\ LET m == monitors[target[t]] IN
       \/ /\ Free(m)
          /\ SetMonitor(target[t], Admitted(m))
          /\ handovers' = handovers + 1
          /\ Goto(t, "inside")
          /\ UNCHANGED asleep
       \/ /\ ~Free(m)
          /\ asleep' = asleep \cup {t}
          /\ UNCHANGED <<monitors, handovers, pc>>
    /\ UNCHANGED <<staticBox, obj, ownBox, kept, target, blocks, rebound>>

SpuriousWake(t) ==
    /\ t \in asleep
    /\ asleep' = asleep \ {t}
    /\ UNCHANGED <<monitors, staticBox, pc, obj, ownBox, kept, target, blocks,
                   handovers, rebound>>

\* The body ends; aload pushes a box with the kept offset for monitorexit,
\* which asks hasMonitor.
ExitHas(t) ==
    /\ pc[t] = "inside"
    /\ IF HasMonitor(kept[t])
       THEN /\ target' = [target EXCEPT ![t] = kept[t]]
            /\ Goto(t, "exit")
       ELSE /\ Goto(t, "exitCreate")
            /\ UNCHANGED target
    /\ UNCHANGED <<monitors, staticBox, obj, ownBox, kept, asleep, blocks,
                   handovers, rebound>>

\* monitorexit: createMonitor() into the private copy.
ExitCreate(t) ==
    /\ pc[t] = "exitCreate"
    /\ CreateMonitor
    /\ target' = [target EXCEPT ![t] = NextId]
    /\ Goto(t, "exit")
    /\ UNCHANGED <<staticBox, obj, ownBox, kept, asleep, blocks, handovers, rebound>>

\* ObjectMonitor::exit.
Exit(t) ==
    /\ pc[t] = "exit"
    /\ LET m == monitors[target[t]]
           sleepers == {w \in asleep : target[w] = target[t]} IN
       /\ m.entered
       /\ SetMonitor(target[t], Left(m))
       /\ IF Notifies(m) /\ sleepers # {}
          THEN \E w \in sleepers : asleep' = asleep \ {w}
          ELSE UNCHANGED asleep
    /\ Goto(t, "idle")
    /\ UNCHANGED <<staticBox, obj, ownBox, kept, target, blocks, handovers, rebound>>

\* ObjectMonitor::exit: "illegal monitor state".  Nothing catches the C++
\* exception before the end of the thread's task.
ExitThrows(t) ==
    /\ pc[t] = "exit"
    /\ ~monitors[target[t]].entered
    /\ Goto(t, "failed")
    /\ UNCHANGED <<monitors, staticBox, obj, ownBox, kept, target, asleep, blocks,
                   handovers, rebound>>

Next == \E t \in Threads :
           \/ \E o \in Objects : LoadLock(t, o)
           \/ EnterHas(t) \/ EnterCreate(t) \/ EnterAssign(t) \/ EnterFind(t)
           \/ Enter(t) \/ Recheck(t) \/ SpuriousWake(t)
           \/ ExitHas(t) \/ ExitCreate(t) \/ Exit(t) \/ ExitThrows(t)

Spec == Init /\ [][Next]_vars

-----------------------------------------------------------------------------
Monitors == [cnt : Int, owner : Threads \cup {NoThread}, entered : BOOLEAN]

\* Types; every monitor a thread is about to use is in the table.
TypeOK == /\ DOMAIN monitors \subseteq Nat \ {0}
          /\ monitors \in [DOMAIN monitors -> Monitors]
          /\ staticBox \in [Static -> Nat \ {0}]
          /\ pc \in [Threads -> Locations]
          /\ obj \in [Threads -> Objects \cup {0}]
          /\ ownBox \in [Threads -> Nat]
          /\ kept \in [Threads -> Nat]
          /\ target \in [Threads -> Nat]
          /\ \A t \in Threads :
                pc[t] \in {"assign", "enter", "waiting", "inside", "exit"}
                   => target[t] \in DOMAIN monitors
          /\ asleep \subseteq {t \in Threads : pc[t] = "waiting"}
          /\ blocks \in [Threads -> Nat]
          /\ handovers \in Nat
          /\ rebound \in BOOLEAN

\* A block is open from the end of monitorenter to the end of monitorexit.
InBlock(t) == pc[t] \in {"inside", "exitCreate", "exit"}

\* While no box was given a foreign offset, the monitor a thread enters, waits
\* for and leaves is the one whose id is the heap offset of the locked object:
\* every thread uses the same one, and monitorexit leaves what monitorenter
\* entered although it finds it through another box.
OneMonitorPerObject ==
    ~rebound => \A t \in Threads :
        pc[t] \in {"enter", "waiting", "inside", "exit"} => target[t] = obj[t]

\* A synchronized block ends without an exception of its own: monitorexit
\* throws "illegal monitor state" only if some box was given a foreign offset.
ThrowsOnlyIfRebound == ~rebound => \A t \in Threads : pc[t] # "failed"

\* Two threads are inside blocks on the same object only if a box was given a
\* foreign offset or a monitor was handed over on the wait branch of enter.
ExclusivePerObject ==
    ~rebound /\ handovers = 0 =>
        \A t, u \in Threads :
            InBlock(t) /\ InBlock(u) /\ obj[t] = obj[u] => t = u
=============================================================================
