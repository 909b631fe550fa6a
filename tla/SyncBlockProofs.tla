-------------------------- MODULE SyncBlockProofs ---------------------------
(***************************************************************************)
(* Proofs about SyncBlock, for any set of threads, of lock objects and of  *)
(* static variables, and any number of blocks.                             *)
(***************************************************************************)
EXTENDS SyncBlock, TLAPS

\* The table's ids are 1, 2, ... without gaps.
TableOK == \E n \in Nat : DOMAIN monitors = 1..n

\* Once hasMonitor said yes, or a monitor was created, findMonitor will find one.
FindOK == \A t \in Threads : pc[t] = "find" => RefOffset(t) \in DOMAIN monitors

TypeInv == TypeOK /\ TableOK /\ FindOK

-----------------------------------------------------------------------------
\* What enter and exit make of a monitor.
LEMMA MonitorOps ==
    ASSUME NEW m \in Monitors, NEW t \in Threads
    PROVE  /\ Taken(m, t) \in Monitors
           /\ Retaken(m) \in Monitors
           /\ Admitted(m) \in Monitors
           /\ Left(m) \in Monitors
           /\ Taken(m, t).entered /\ Retaken(m).entered /\ Admitted(m).entered
           /\ Left(m).entered = m.entered
<1>1. Taken(m, t) \in Monitors /\ Taken(m, t).entered
  BY DEF Monitors, Taken
<1>2. Retaken(m) \in Monitors /\ Retaken(m).entered
  BY DEF Monitors, Retaken
<1>3. Admitted(m) \in Monitors /\ Admitted(m).entered
  BY DEF Monitors, Admitted
<1>4. Left(m) \in Monitors /\ Left(m).entered = m.entered
  BY DEF Monitors, Left
<1> QED
  BY <1>1, <1>2, <1>3, <1>4

LEMMA FreshMonitorType == FreshMonitor \in Monitors
  BY DEF Monitors, FreshMonitor

\* createMonitor gives an id that no monitor has, and leaves the others alone.
LEMMA CreateOps ==
    ASSUME TypeOK, TableOK, CreateMonitor
    PROVE  /\ NextId \in Nat \ {0}
           /\ NextId \notin DOMAIN monitors
           /\ DOMAIN monitors' = DOMAIN monitors \cup {NextId}
           /\ DOMAIN monitors' \subseteq Nat \ {0}
           /\ monitors' \in [DOMAIN monitors' -> Monitors]
           /\ monitors'[NextId] = FreshMonitor
           /\ \A i \in DOMAIN monitors : monitors'[i] = monitors[i]
           /\ TableOK'
<1>1. PICK n \in Nat : DOMAIN monitors = 1..n
  BY DEF TableOK
<1>2. NextId = n + 1
  <2>1. CASE n = 0
    BY <1>1, <2>1 DEF NextId
  <2>2. CASE n > 0
    <3>1. n \in DOMAIN monitors /\ \A j \in DOMAIN monitors : j <= n
      BY <1>1, <2>2
    <3>2. \A i \in DOMAIN monitors : (\A j \in DOMAIN monitors : j <= i) => i = n
      BY <1>1, <3>1
    <3>3. (CHOOSE i \in DOMAIN monitors : \A j \in DOMAIN monitors : j <= i) = n
      BY <3>1, <3>2
    <3>4. DOMAIN monitors # {}
      BY <3>1
    <3>5. NextId = 1 + n
      BY <3>3, <3>4 DEF NextId
    <3> QED
      BY <3>5
  <2> QED
    BY <2>1, <2>2
<1>3. DOMAIN monitors' = 1..(n + 1) /\ 1..(n + 1) = 1..n \cup {n + 1}
  BY <1>1, <1>2 DEF CreateMonitor
<1>4. \A i \in DOMAIN monitors : monitors'[i] = monitors[i]
  BY <1>1, <1>2, <1>3 DEF CreateMonitor
<1>5. monitors'[NextId] = FreshMonitor
  BY <1>2, <1>3 DEF CreateMonitor
<1>6. monitors' \in [DOMAIN monitors' -> Monitors]
  BY FreshMonitorType DEF CreateMonitor, TypeOK
<1>7. TableOK'
  BY <1>3 DEF TableOK
<1> QED
  BY <1>1, <1>2, <1>3, <1>4, <1>5, <1>6, <1>7

\* A monitor of the table is given new fields.
LEMMA SetOps ==
    ASSUME TypeOK, NEW i \in DOMAIN monitors, NEW m \in Monitors, SetMonitor(i, m)
    PROVE  /\ DOMAIN monitors' = DOMAIN monitors
           /\ monitors' \in [DOMAIN monitors' -> Monitors]
           /\ monitors'[i] = m
           /\ \A j \in DOMAIN monitors : j # i => monitors'[j] = monitors[j]
  BY DEF SetMonitor, TypeOK

\* What one step does to the table.
LEMMA TableStep ==
    ASSUME TypeInv, [Next]_vars
    PROVE  /\ DOMAIN monitors \subseteq DOMAIN monitors'
           /\ DOMAIN monitors' \subseteq Nat \ {0}
           /\ monitors' \in [DOMAIN monitors' -> Monitors]
           /\ TableOK'
           /\ \A i \in DOMAIN monitors : monitors[i].entered => monitors'[i].entered
<1> DEFINE Table ==
           /\ DOMAIN monitors \subseteq DOMAIN monitors'
           /\ DOMAIN monitors' \subseteq Nat \ {0}
           /\ monitors' \in [DOMAIN monitors' -> Monitors]
           /\ TableOK'
           /\ \A i \in DOMAIN monitors : monitors[i].entered => monitors'[i].entered
<1>1. ASSUME UNCHANGED monitors PROVE Table
  <2>1. TableOK'
    BY <1>1 DEF TypeInv, TableOK
  <2> QED
    BY <1>1, <2>1 DEF TypeInv, TypeOK
<1>2. ASSUME CreateMonitor PROVE Table
  BY <1>2, CreateOps DEF TypeInv
<1>3. ASSUME NEW i \in DOMAIN monitors, NEW m \in Monitors, SetMonitor(i, m),
             monitors[i].entered => m.entered
      PROVE  Table
  <2>1. /\ DOMAIN monitors' = DOMAIN monitors
        /\ monitors' \in [DOMAIN monitors' -> Monitors]
        /\ monitors'[i] = m
        /\ \A j \in DOMAIN monitors : j # i => monitors'[j] = monitors[j]
    BY <1>3, SetOps DEF TypeInv
  <2>2. TableOK'
    BY <2>1 DEF TypeInv, TableOK
  <2>3. \A j \in DOMAIN monitors : monitors[j].entered => monitors'[j].entered
    BY <1>3, <2>1
  <2> QED
    BY <2>1, <2>2, <2>3 DEF TypeInv, TypeOK
<1>4. ASSUME NEW t \in Threads, Enter(t) PROVE Table
  <2>1. target[t] \in DOMAIN monitors /\ monitors[target[t]] \in Monitors
    BY <1>4 DEF Enter, TypeInv, TypeOK
  <2>2. \/ SetMonitor(target[t], Taken(monitors[target[t]], t))
        \/ SetMonitor(target[t], Retaken(monitors[target[t]]))
        \/ UNCHANGED monitors
    BY <1>4 DEF Enter
  <2> QED
    BY <1>1, <1>3, <2>1, <2>2, MonitorOps
<1>5. ASSUME NEW t \in Threads, Recheck(t) PROVE Table
  <2>1. target[t] \in DOMAIN monitors /\ monitors[target[t]] \in Monitors
    BY <1>5 DEF Recheck, TypeInv, TypeOK
  <2>2. SetMonitor(target[t], Admitted(monitors[target[t]])) \/ UNCHANGED monitors
    BY <1>5 DEF Recheck
  <2> QED
    BY <1>1, <1>3, <2>1, <2>2, MonitorOps
<1>6. ASSUME NEW t \in Threads, Exit(t) PROVE Table
  <2>1. target[t] \in DOMAIN monitors /\ monitors[target[t]] \in Monitors
    BY <1>6 DEF Exit, TypeInv, TypeOK
  <2>2. SetMonitor(target[t], Left(monitors[target[t]]))
    BY <1>6 DEF Exit
  <2> QED
    BY <1>3, <2>1, <2>2, MonitorOps
<1>7. ASSUME NEW t \in Threads, EnterCreate(t) \/ ExitCreate(t) PROVE Table
  BY <1>2, <1>7 DEF EnterCreate, ExitCreate
<1>8. ASSUME NEW t \in Threads,
             \/ \E o \in Objects : LoadLock(t, o)
             \/ EnterHas(t) \/ EnterAssign(t) \/ EnterFind(t) \/ SpuriousWake(t)
             \/ ExitHas(t) \/ ExitThrows(t)
      PROVE  Table
  BY <1>1, <1>8 DEF LoadLock, EnterHas, EnterAssign, EnterFind, SpuriousWake, ExitHas, ExitThrows
<1>9. CASE UNCHANGED vars
  BY <1>1, <1>9 DEF vars
<1> QED
  BY <1>4, <1>5, <1>6, <1>7, <1>8, <1>9 DEF Next

-----------------------------------------------------------------------------
LEMMA TypeInit == Init => TypeInv
<1> SUFFICES ASSUME Init PROVE TypeInv
  OBVIOUS
<1> USE SyncBlockAssumption
<1>1. DOMAIN monitors = {} /\ monitors \in [{} -> Monitors]
  BY DEF Init
<1>2. TableOK
  <2>1. DOMAIN monitors = 1..0
    BY <1>1
  <2> QED
    BY <2>1 DEF TableOK
<1>3. TypeOK
  BY <1>1 DEF Init, TypeOK, Locations
<1>4. FindOK
  BY DEF Init, FindOK
<1> QED
  BY <1>2, <1>3, <1>4 DEF TypeInv

\* Every step keeps the types, and what findMonitor will ask for in the table.
LEMMA TypeStep ==
    ASSUME TypeInv, [Next]_vars
    PROVE  TypeInv'
<1> USE SyncBlockAssumption DEF TypeInv
<1>0. /\ DOMAIN monitors \subseteq DOMAIN monitors'
      /\ DOMAIN monitors' \subseteq Nat \ {0}
      /\ monitors' \in [DOMAIN monitors' -> Monitors]
      /\ TableOK'
  BY TableStep
<1>1. ASSUME NEW t \in Threads, NEW o \in Objects, LoadLock(t, o)
      PROVE  TypeOK' /\ FindOK'
  BY <1>0, <1>1 DEF LoadLock, Goto, TypeOK, FindOK, RefOffset, Locations
<1>2. ASSUME NEW t \in Threads, EnterHas(t)
      PROVE  TypeOK' /\ FindOK'
  <2>1. TypeOK'
    BY <1>0, <1>2 DEF EnterHas, Goto, TypeOK, Locations
  <2>2. FindOK'
    BY <1>0, <1>2 DEF EnterHas, Goto, TypeOK, FindOK, RefOffset, HasMonitor
  <2> QED
    BY <2>1, <2>2
<1>3. ASSUME NEW t \in Threads, EnterCreate(t) \/ ExitCreate(t)
      PROVE  TypeOK' /\ FindOK'
  <2>1. NextId \in Nat /\ NextId \in DOMAIN monitors'
    BY <1>3, CreateOps DEF EnterCreate, ExitCreate
  <2>2. TypeOK'
    BY <1>0, <1>3, <2>1 DEF EnterCreate, ExitCreate, Goto, TypeOK, Locations
  <2>3. FindOK'
    BY <1>0, <1>3 DEF EnterCreate, ExitCreate, Goto, TypeOK, FindOK, RefOffset
  <2> QED
    BY <2>2, <2>3
<1>4. ASSUME NEW t \in Threads, EnterAssign(t)
      PROVE  TypeOK' /\ FindOK'
  <2>1. target[t] \in DOMAIN monitors /\ target[t] \in Nat \ {0}
    BY <1>4 DEF EnterAssign, TypeOK
  <2>2. TypeOK'
    BY <1>0, <1>4, <2>1 DEF EnterAssign, Goto, TypeOK, Locations
  <2>3. FindOK'
    BY <1>0, <1>4, <2>1 DEF EnterAssign, Goto, TypeOK, FindOK, RefOffset
  <2> QED
    BY <2>2, <2>3
<1>5. ASSUME NEW t \in Threads, EnterFind(t)
      PROVE  TypeOK' /\ FindOK'
  <2>1. RefOffset(t) \in DOMAIN monitors /\ RefOffset(t) \in Nat
    BY <1>5 DEF EnterFind, FindOK, TypeOK
  <2>2. TypeOK'
    BY <1>0, <1>5, <2>1 DEF EnterFind, Goto, TypeOK, Locations
  <2>3. FindOK'
    BY <1>0, <1>5 DEF EnterFind, Goto, TypeOK, FindOK, RefOffset
  <2> QED
    BY <2>2, <2>3
<1>6. ASSUME NEW t \in Threads, Enter(t)
      PROVE  TypeOK' /\ FindOK'
  <2>1. TypeOK'
    BY <1>0, <1>6 DEF Enter, Goto, TypeOK, Locations
  <2>2. FindOK'
    BY <1>0, <1>6 DEF Enter, Goto, TypeOK, FindOK, RefOffset
  <2> QED
    BY <2>1, <2>2
<1>7. ASSUME NEW t \in Threads, Recheck(t)
      PROVE  TypeOK' /\ FindOK'
  <2>1. TypeOK'
    BY <1>0, <1>7 DEF Recheck, Goto, TypeOK, Locations
  <2>2. FindOK'
    BY <1>0, <1>7 DEF Recheck, Goto, TypeOK, FindOK, RefOffset
  <2> QED
    BY <2>1, <2>2
<1>8. ASSUME NEW t \in Threads, SpuriousWake(t)
      PROVE  TypeOK' /\ FindOK'
  BY <1>0, <1>8 DEF SpuriousWake, TypeOK, FindOK, RefOffset
<1>9. ASSUME NEW t \in Threads, ExitHas(t)
      PROVE  TypeOK' /\ FindOK'
  <2>1. TypeOK'
    BY <1>0, <1>9 DEF ExitHas, Goto, HasMonitor, TypeOK, Locations
  <2>2. FindOK'
    BY <1>0, <1>9 DEF ExitHas, Goto, TypeOK, FindOK, RefOffset
  <2> QED
    BY <2>1, <2>2
<1>10. ASSUME NEW t \in Threads, Exit(t)
       PROVE  TypeOK' /\ FindOK'
  <2>1. asleep' \subseteq asleep
    BY <1>10 DEF Exit
  <2>2. TypeOK'
    BY <1>0, <1>10, <2>1 DEF Exit, Goto, TypeOK, Locations
  <2>3. FindOK'
    BY <1>0, <1>10 DEF Exit, Goto, TypeOK, FindOK, RefOffset
  <2> QED
    BY <2>2, <2>3
<1>11. ASSUME NEW t \in Threads, ExitThrows(t)
       PROVE  TypeOK' /\ FindOK'
  <2>1. TypeOK'
    BY <1>0, <1>11 DEF ExitThrows, Goto, TypeOK, Locations
  <2>2. FindOK'
    BY <1>0, <1>11 DEF ExitThrows, Goto, TypeOK, FindOK, RefOffset
  <2> QED
    BY <2>1, <2>2
<1>12. ASSUME UNCHANGED vars
       PROVE  TypeOK' /\ FindOK'
  BY <1>0, <1>12 DEF vars, TypeOK, FindOK, RefOffset
<1> QED
  BY <1>0, <1>1, <1>2, <1>3, <1>4, <1>5, <1>6, <1>7, <1>8, <1>9, <1>10, <1>11, <1>12
     DEF Next

\* The types hold, and whatever happens to the boxes, a thread enters, waits for
\* and leaves only monitors that are in the table.
THEOREM SyncBlockTypeCorrect == Spec => []TypeOK
<1>1. TypeInv => TypeOK
  BY DEF TypeInv
<1> QED
  BY <1>1, TypeInit, TypeStep, PTL DEF Spec

-----------------------------------------------------------------------------
\* While no box was rebound: every box holds the offset of its object, ...
BoxesOK == /\ \A o \in Static : staticBox[o] = o
           /\ \A t \in Threads : pc[t] # "idle" => kept[t] = obj[t] /\ ownBox[t] = obj[t]
\* ... the monitor in use is the one with that offset, ...
TargetsOK == \A t \in Threads :
                pc[t] \in {"enter", "waiting", "inside", "exit"} => target[t] = obj[t]
\* ... it is marked as entered while somebody is inside, ...
EnteredOK == \A t \in Threads : pc[t] \in {"inside", "exit"} => monitors[target[t]].entered
\* ... and monitorexit neither creates a monitor nor throws.
EndsOK == \A t \in Threads : pc[t] \notin {"exitCreate", "failed"}

BoxInv == ~rebound => BoxesOK /\ TargetsOK /\ EnteredOK /\ EndsOK

LEMMA BoxInit == Init => BoxInv
  BY DEF Init, BoxInv, BoxesOK, TargetsOK, EnteredOK, EndsOK

\* The box that monitorenter popped holds the offset of the object.
LEMMA RefOffsetIsObject ==
    ASSUME BoxesOK, NEW t \in Threads, pc[t] # "idle", obj[t] \in Objects \cup {0}
    PROVE  RefOffset(t) = obj[t]
  BY DEF BoxesOK, RefOffset

\* entered is never reset.
LEMMA EnteredStays ==
    ASSUME TypeInv, [Next]_vars, EnteredOK,
           \A t \in Threads : pc'[t] \in {"inside", "exit"} =>
              /\ pc[t] \in {"inside", "exit"}
              /\ target'[t] = target[t]
    PROVE  EnteredOK'
<1>1. \A i \in DOMAIN monitors : monitors[i].entered => monitors'[i].entered
  BY TableStep
<1> QED
  BY <1>1 DEF EnteredOK, TypeInv, TypeOK

LEMMA BoxStep ==
    ASSUME TypeInv, BoxInv, [Next]_vars
    PROVE  BoxInv'
<1> SUFFICES ASSUME ~rebound' PROVE BoxesOK' /\ TargetsOK' /\ EnteredOK' /\ EndsOK'
  BY DEF BoxInv
<1> USE DEF Goto, TypeInv, TypeOK
<1>0. ~rebound
  <2>1. UNCHANGED rebound \/ \E t \in Threads : EnterAssign(t)
    BY DEF Next, LoadLock, EnterHas, EnterCreate, EnterFind, Enter, Recheck, SpuriousWake,
           ExitHas, ExitCreate, Exit, ExitThrows, vars
  <2> QED
    BY <2>1 DEF EnterAssign
<1>a. BoxesOK /\ TargetsOK /\ EnteredOK /\ EndsOK
  BY <1>0 DEF BoxInv
<1>1. ASSUME NEW t \in Threads, NEW o \in Objects, LoadLock(t, o)
      PROVE  BoxesOK' /\ TargetsOK' /\ EnteredOK' /\ EndsOK'
  <2>1. BoxesOK'
    BY <1>1, <1>a DEF LoadLock, BoxesOK
  <2>2. TargetsOK' /\ EndsOK'
    BY <1>1, <1>a DEF LoadLock, TargetsOK, EndsOK
  <2>3. EnteredOK'
    BY <1>1, <1>a, EnteredStays DEF LoadLock
  <2> QED
    BY <2>1, <2>2, <2>3
<1>2. ASSUME NEW t \in Threads, EnterHas(t) \/ EnterCreate(t)
      PROVE  BoxesOK' /\ TargetsOK' /\ EnteredOK' /\ EndsOK'
  <2>1. BoxesOK'
    BY <1>2, <1>a DEF EnterHas, EnterCreate, BoxesOK
  <2>2. TargetsOK' /\ EndsOK'
    BY <1>2, <1>a DEF EnterHas, EnterCreate, TargetsOK, EndsOK
  <2>3. EnteredOK'
    BY <1>2, <1>a, EnteredStays DEF EnterHas, EnterCreate
  <2> QED
    BY <2>1, <2>2, <2>3
<1>3. ASSUME NEW t \in Threads, EnterAssign(t)
      PROVE  BoxesOK' /\ TargetsOK' /\ EnteredOK' /\ EndsOK'
  <2>1. target[t] = RefOffset(t)
    BY <1>3 DEF EnterAssign
  <2>2. target[t] = obj[t]
    BY <1>3, <1>a, <2>1, RefOffsetIsObject DEF EnterAssign
  <2>3. BoxesOK'
    BY <1>3, <1>a, <2>2 DEF EnterAssign, BoxesOK
  <2>4. TargetsOK' /\ EndsOK'
    BY <1>3, <1>a DEF EnterAssign, TargetsOK, EndsOK
  <2>5. EnteredOK'
    BY <1>3, <1>a, EnteredStays DEF EnterAssign
  <2> QED
    BY <2>3, <2>4, <2>5
<1>4. ASSUME NEW t \in Threads, EnterFind(t)
      PROVE  BoxesOK' /\ TargetsOK' /\ EnteredOK' /\ EndsOK'
  <2>1. target'[t] = obj[t]
    BY <1>4, <1>a, RefOffsetIsObject DEF EnterFind
  <2>2. BoxesOK' /\ EndsOK'
    BY <1>4, <1>a DEF EnterFind, BoxesOK, EndsOK
  <2>3. TargetsOK'
    BY <1>4, <1>a, <2>1 DEF EnterFind, TargetsOK
  <2>4. EnteredOK'
    BY <1>4, <1>a, EnteredStays DEF EnterFind
  <2> QED
    BY <2>2, <2>3, <2>4
<1>5. ASSUME NEW t \in Threads, Enter(t) \/ Recheck(t)
      PROVE  BoxesOK' /\ TargetsOK' /\ EnteredOK' /\ EndsOK'
  <2>1. BoxesOK' /\ EndsOK'
    BY <1>5, <1>a DEF Enter, Recheck, BoxesOK, EndsOK
  <2>2. TargetsOK'
    BY <1>5, <1>a DEF Enter, Recheck, TargetsOK
  <2>3. target[t] \in DOMAIN monitors /\ monitors[target[t]] \in Monitors
    BY <1>5 DEF Enter, Recheck
  <2>4. ASSUME pc'[t] = "inside" PROVE EnteredOK'
    <3>1. \E m \in Monitors : SetMonitor(target[t], m) /\ m.entered
      BY <1>5, <2>3, <2>4, MonitorOps DEF Enter, Recheck
    <3>2. monitors'[target[t]].entered
      BY <2>3, <3>1, SetOps
    <3>3. \A i \in DOMAIN monitors : monitors[i].entered => monitors'[i].entered
      BY TableStep
    <3>4. target' = target
      BY <1>5 DEF Enter, Recheck
    <3>5. \A u \in Threads : u # t => pc'[u] = pc[u]
      BY <1>5 DEF Enter, Recheck
    <3> QED
      BY <1>a, <3>2, <3>3, <3>4, <3>5 DEF EnteredOK
  <2>5. ASSUME pc'[t] # "inside" PROVE EnteredOK'
    <3>1. pc'[t] = "waiting" /\ target' = target
      BY <1>5, <2>5 DEF Enter, Recheck
    <3>2. \A u \in Threads : u # t => pc'[u] = pc[u]
      BY <1>5 DEF Enter, Recheck
    <3> QED
      BY <1>a, <3>1, <3>2, EnteredStays
  <2> QED
    BY <2>1, <2>2, <2>4, <2>5
<1>6. ASSUME NEW t \in Threads, ExitHas(t)
      PROVE  BoxesOK' /\ TargetsOK' /\ EnteredOK' /\ EndsOK'
  <2>1. kept[t] = obj[t] /\ target[t] = obj[t] /\ HasMonitor(kept[t])
    BY <1>6, <1>a DEF ExitHas, BoxesOK, TargetsOK, HasMonitor
  <2>2. target' = target /\ pc' = [pc EXCEPT ![t] = "exit"]
    BY <1>6, <2>1 DEF ExitHas
  <2>3. BoxesOK' /\ TargetsOK' /\ EndsOK'
    BY <1>6, <1>a, <2>1, <2>2 DEF ExitHas, BoxesOK, TargetsOK, EndsOK
  <2>4. EnteredOK'
    BY <1>6, <1>a, <2>2, EnteredStays DEF ExitHas
  <2> QED
    BY <2>3, <2>4
<1>7. ASSUME NEW t \in Threads, ExitCreate(t) \/ ExitThrows(t)
      PROVE  FALSE
  BY <1>7, <1>a DEF ExitCreate, ExitThrows, EndsOK, EnteredOK
<1>8. ASSUME NEW t \in Threads, Exit(t) \/ SpuriousWake(t)
      PROVE  BoxesOK' /\ TargetsOK' /\ EnteredOK' /\ EndsOK'
  <2>1. BoxesOK' /\ TargetsOK' /\ EndsOK'
    BY <1>8, <1>a DEF Exit, SpuriousWake, BoxesOK, TargetsOK, EndsOK
  <2>2. EnteredOK'
    BY <1>8, <1>a, EnteredStays DEF Exit, SpuriousWake
  <2> QED
    BY <2>1, <2>2
<1>9. ASSUME UNCHANGED vars
      PROVE  BoxesOK' /\ TargetsOK' /\ EnteredOK' /\ EndsOK'
  BY <1>9, <1>a DEF vars, BoxesOK, TargetsOK, EnteredOK, EndsOK
<1> QED
  BY <1>1, <1>2, <1>3, <1>4, <1>5, <1>6, <1>7, <1>8, <1>9 DEF Next

\* While no box was given a foreign offset, a thread enters, waits for and leaves
\* the monitor whose id is the offset of the object it locks.
THEOREM OneMonitorPerObjectHolds == Spec => []OneMonitorPerObject
<1>1. BoxInv => OneMonitorPerObject
  BY DEF BoxInv, TargetsOK, OneMonitorPerObject
<1> QED
  BY <1>1, TypeInit, TypeStep, BoxInit, BoxStep, PTL DEF Spec

\* While no box was given a foreign offset, monitorexit does not throw.
THEOREM ThrowsOnlyIfReboundHolds == Spec => []ThrowsOnlyIfRebound
<1>1. BoxInv => ThrowsOnlyIfRebound
  BY DEF BoxInv, EndsOK, ThrowsOnlyIfRebound
<1> QED
  BY <1>1, TypeInit, TypeStep, BoxInit, BoxStep, PTL DEF Spec

-----------------------------------------------------------------------------
\* A thread inside a block is the owner of the object's monitor, at depth one ...
InsideOwns == \A t \in Threads :
    InBlock(t) => monitors[obj[t]].cnt = 1 /\ monitors[obj[t]].owner = t
\* ... and a monitor that is not free has its owner inside.
TakenHasOwner == \A i \in DOMAIN monitors :
    monitors[i].cnt # 0 => \E t \in Threads : InBlock(t) /\ obj[t] = i

ExclusiveInv == ~rebound /\ handovers = 0 => InsideOwns /\ TakenHasOwner

LEMMA ExclusiveInit == Init => ExclusiveInv
  BY DEF Init, ExclusiveInv, InsideOwns, TakenHasOwner, InBlock

\* A step that takes nobody into a block or out of it, and leaves the monitors
\* there are alone.
LEMMA ExclusiveStutter ==
    ASSUME TypeInv, BoxInv, ~rebound, InsideOwns, TakenHasOwner,
           \A i \in DOMAIN monitors : monitors'[i] = monitors[i],
           \A i \in DOMAIN monitors' : i \in DOMAIN monitors \/ monitors'[i] = FreshMonitor,
           \A t \in Threads : InBlock(t)' <=> InBlock(t),
           \A t \in Threads : InBlock(t) => obj'[t] = obj[t]
    PROVE  InsideOwns' /\ TakenHasOwner'
<1>1. \A t \in Threads : InBlock(t) => obj[t] \in DOMAIN monitors
  BY DEF TypeInv, TypeOK, BoxInv, TargetsOK, EndsOK, InBlock
<1>2. InsideOwns'
  BY <1>1 DEF InsideOwns
<1>3. TakenHasOwner'
  BY DEF TakenHasOwner, FreshMonitor
<1> QED
  BY <1>2, <1>3

LEMMA ExclusiveStep ==
    ASSUME TypeInv, BoxInv, ExclusiveInv, [Next]_vars
    PROVE  ExclusiveInv'
<1> SUFFICES ASSUME ~rebound', handovers' = 0 PROVE InsideOwns' /\ TakenHasOwner'
  BY DEF ExclusiveInv
<1> USE DEF Goto
<1>0. ~rebound /\ handovers = 0
  <2>1. UNCHANGED rebound \/ \E t \in Threads : EnterAssign(t)
    BY DEF Next, LoadLock, EnterHas, EnterCreate, EnterFind, Enter, Recheck, SpuriousWake,
           ExitHas, ExitCreate, Exit, ExitThrows, vars
  <2>2. UNCHANGED handovers \/ handovers' = handovers + 1
    BY DEF Next, LoadLock, EnterHas, EnterCreate, EnterAssign, EnterFind, Enter, Recheck,
           SpuriousWake, ExitHas, ExitCreate, Exit, ExitThrows, vars
  <2>3. handovers \in Nat
    BY DEF TypeInv, TypeOK
  <2>4. ~rebound
    BY <2>1 DEF EnterAssign
  <2>5. handovers = 0
    BY <2>2, <2>3
  <2> QED
    BY <2>4, <2>5
<1>a. InsideOwns /\ TakenHasOwner
  BY <1>0 DEF ExclusiveInv
<1>b. BoxesOK /\ TargetsOK /\ EnteredOK /\ EndsOK
  BY <1>0 DEF BoxInv
<1>c. pc \in [Threads -> Locations] /\ obj \in [Threads -> Objects \cup {0}]
  BY DEF TypeInv, TypeOK
<1>1. ASSUME NEW t \in Threads, NEW o \in Objects, LoadLock(t, o)
      PROVE  InsideOwns' /\ TakenHasOwner'
  <2>1. \A u \in Threads : InBlock(u)' <=> InBlock(u)
    BY <1>1, <1>c DEF LoadLock, InBlock
  <2>2. \A u \in Threads : InBlock(u) => obj'[u] = obj[u]
    BY <1>1, <1>c DEF LoadLock, InBlock
  <2>3. monitors' = monitors
    BY <1>1 DEF LoadLock
  <2> QED
    BY <1>0, <1>a, <2>1, <2>2, <2>3, ExclusiveStutter
<1>2. ASSUME NEW t \in Threads,
             EnterHas(t) \/ EnterAssign(t) \/ EnterFind(t) \/ SpuriousWake(t) \/ ExitHas(t)
      PROVE  InsideOwns' /\ TakenHasOwner'
  <2>1. \A u \in Threads : InBlock(u)' <=> InBlock(u)
    BY <1>2, <1>c DEF EnterHas, EnterAssign, EnterFind, SpuriousWake, ExitHas, InBlock
  <2>2. monitors' = monitors /\ obj' = obj
    BY <1>2 DEF EnterHas, EnterAssign, EnterFind, SpuriousWake, ExitHas
  <2> QED
    BY <1>0, <1>a, <2>1, <2>2, ExclusiveStutter
<1>3. ASSUME NEW t \in Threads, EnterCreate(t)
      PROVE  InsideOwns' /\ TakenHasOwner'
  <2>1. \A u \in Threads : InBlock(u)' <=> InBlock(u)
    BY <1>3, <1>c DEF EnterCreate, InBlock
  <2>2. /\ \A i \in DOMAIN monitors : monitors'[i] = monitors[i]
        /\ \A i \in DOMAIN monitors' : i \in DOMAIN monitors \/ monitors'[i] = FreshMonitor
    BY <1>3, CreateOps DEF EnterCreate, TypeInv
  <2>3. obj' = obj
    BY <1>3 DEF EnterCreate
  <2> QED
    BY <1>0, <1>a, <2>1, <2>2, <2>3, ExclusiveStutter
<1>4. ASSUME NEW t \in Threads, Enter(t) \/ Recheck(t)
      PROVE  InsideOwns' /\ TakenHasOwner'
  <2> DEFINE m == monitors[target[t]]
  <2>1. target[t] \in DOMAIN monitors /\ m \in Monitors /\ target[t] = obj[t] /\ ~InBlock(t)
    BY <1>4, <1>b DEF Enter, Recheck, TypeInv, TypeOK, TargetsOK, InBlock
  <2>2. obj' = obj /\ \A u \in Threads : u # t => pc'[u] = pc[u]
    BY <1>4, <1>c DEF Enter, Recheck
  <2>3. CASE UNCHANGED monitors
    <3>1. pc'[t] = "waiting"
      <4>1. ASSUME SetMonitor(target[t], Taken(m, t)), Free(m) PROVE FALSE
        <5>1. m = Taken(m, t)
          BY <2>1, <2>3, <4>1, MonitorOps, SetOps DEF TypeInv
        <5>2. Taken(m, t).cnt = 1 /\ m.cnt = 0
          BY <4>1 DEF Taken, Free
        <5> QED
          BY <5>1, <5>2
      <4>2. ASSUME SetMonitor(target[t], Retaken(m)) PROVE FALSE
        <5>1. m = Retaken(m)
          BY <2>1, <2>3, <4>2, MonitorOps, SetOps DEF TypeInv
        <5>2. Retaken(m).cnt = m.cnt + 1 /\ m.cnt \in Int
          BY <2>1 DEF Retaken, Monitors
        <5> QED
          BY <5>1, <5>2
      <4>3. handovers' = handovers
        BY <1>0
      <4> QED
        BY <1>4, <1>0, <1>c, <4>1, <4>2, <4>3 DEF Enter, Recheck
    <3>2. \A u \in Threads : InBlock(u)' <=> InBlock(u)
      BY <2>1, <2>2, <3>1 DEF InBlock
    <3> QED
      BY <1>0, <1>a, <2>2, <2>3, <3>2, ExclusiveStutter
  <2>4. CASE ~UNCHANGED monitors
    <3>1. ~OwnedBy(m, t) \/ Free(m)
      <4>1. SUFFICES ASSUME m.cnt # 0 PROVE m.owner # t
        BY DEF OwnedBy, Free
      <4>2. PICK u \in Threads : InBlock(u) /\ obj[u] = target[t]
        BY <1>a, <2>1, <4>1 DEF TakenHasOwner
      <4> QED
        BY <1>a, <2>1, <4>2 DEF InsideOwns
    <3>2. Free(m) /\ SetMonitor(target[t], Taken(m, t)) /\ pc'[t] = "inside"
      BY <1>0, <1>4, <1>c, <2>4, <3>1 DEF Enter, Recheck
    <3>3. /\ DOMAIN monitors' = DOMAIN monitors
          /\ monitors'[target[t]] = Taken(m, t)
          /\ \A j \in DOMAIN monitors : j # target[t] => monitors'[j] = monitors[j]
      BY <2>1, <3>2, MonitorOps, SetOps DEF TypeInv
    <3>4. \A u \in Threads : InBlock(u) => obj[u] # obj[t]
      BY <1>a, <2>1, <3>2 DEF InsideOwns, Free
    <3>5. \A u \in Threads : InBlock(u)' <=> (u = t \/ InBlock(u))
      BY <2>2, <3>2 DEF InBlock
    <3>6. \A u \in Threads : InBlock(u) => obj[u] \in DOMAIN monitors
      BY <1>b DEF InBlock, TypeInv, TypeOK, TargetsOK, EndsOK
    <3>7. InsideOwns'
      BY <1>a, <2>1, <2>2, <3>3, <3>4, <3>5, <3>6 DEF InsideOwns, Taken
    <3>8. TakenHasOwner'
      BY <1>a, <2>1, <2>2, <3>3, <3>5 DEF TakenHasOwner
    <3> QED
      BY <3>7, <3>8
  <2> QED
    BY <2>3, <2>4
<1>5. ASSUME NEW t \in Threads, ExitCreate(t) \/ ExitThrows(t)
      PROVE  FALSE
  BY <1>5, <1>b DEF ExitCreate, ExitThrows, EndsOK, EnteredOK
<1>6. ASSUME NEW t \in Threads, Exit(t)
      PROVE  InsideOwns' /\ TakenHasOwner'
  <2> DEFINE m == monitors[target[t]]
  <2>1. target[t] \in DOMAIN monitors /\ m \in Monitors /\ target[t] = obj[t] /\ InBlock(t)
    BY <1>6, <1>b DEF Exit, TypeInv, TypeOK, TargetsOK, InBlock
  <2>2. obj' = obj /\ pc'[t] = "idle" /\ \A u \in Threads : u # t => pc'[u] = pc[u]
    BY <1>6, <1>c DEF Exit
  <2>3. m.cnt = 1 /\ Left(m).cnt = 0
    BY <1>a, <2>1 DEF InsideOwns, Left, Monitors
  <2>4. /\ DOMAIN monitors' = DOMAIN monitors
        /\ monitors'[target[t]] = Left(m)
        /\ \A j \in DOMAIN monitors : j # target[t] => monitors'[j] = monitors[j]
    BY <1>6, <2>1, MonitorOps, SetOps DEF Exit, TypeInv
  <2>5. \A u \in Threads : InBlock(u)' <=> (u # t /\ InBlock(u))
    BY <2>2 DEF InBlock
  <2>6. \A u \in Threads : u # t /\ InBlock(u) => obj[u] # obj[t]
    BY <1>a, <2>1 DEF InsideOwns
  <2>7. \A u \in Threads : InBlock(u) => obj[u] \in DOMAIN monitors
    BY <1>b DEF InBlock, TypeInv, TypeOK, TargetsOK, EndsOK
  <2>8. InsideOwns'
    BY <1>a, <2>1, <2>2, <2>4, <2>5, <2>6, <2>7 DEF InsideOwns
  <2>9. TakenHasOwner'
    BY <1>a, <2>1, <2>2, <2>3, <2>4, <2>5 DEF TakenHasOwner
  <2> QED
    BY <2>8, <2>9
<1>7. ASSUME UNCHANGED vars
      PROVE  InsideOwns' /\ TakenHasOwner'
  <2>1. \A u \in Threads : InBlock(u)' <=> InBlock(u)
    BY <1>7 DEF vars, InBlock
  <2> QED
    BY <1>0, <1>7, <1>a, <2>1, ExclusiveStutter DEF vars
<1> QED
  BY <1>1, <1>2, <1>3, <1>4, <1>5, <1>6, <1>7 DEF Next

\* Until a box is given a foreign offset or a monitor is handed over on the wait
\* branch of enter, no two threads are inside blocks on the same object.
THEOREM ExclusivePerObjectHolds == Spec => []ExclusivePerObject
<1>1. ExclusiveInv => ExclusivePerObject
  BY DEF ExclusiveInv, InsideOwns, ExclusivePerObject
<1> QED
  BY <1>1, TypeInit, TypeStep, BoxInit, BoxStep, ExclusiveInit, ExclusiveStep, PTL DEF Spec
=============================================================================
