----------------------------- MODULE ClassSpace -----------------------------
(***************************************************************************)
(* The class space (runtime/ClassSpace.cpp): loading, linking and          *)
(* initializing classes under one recursive mutex, by threads whose Java   *)
(* code uses classes, with the initializers that run under the mutex and   *)
(* the collections that stop threads at the end of a call.  Of the heap    *)
(* (runtime/JavaHeap.cpp) it has the two recursive mutexes, since linking  *)
(* takes them and what is done under them asks for classes.                *)
(*                                                                         *)
(* cont[t] is what thread t has yet to do, a sequence of operations.  An   *)
(* operation that calls others replaces itself by them; those under a      *)
(* lock_guard are followed by the guard's end of scope: "unlock", or       *)
(* "leave" after an initializer, for the class space's mutex, "objEnd" and *)
(* "arrEnd" for the heap's.  So t holds a mutex while an end of it is      *)
(* still to come, as often as there are.                                   *)
(*                                                                         *)
(* A class object is known by the name of the file it was read from:       *)
(* classTable[c] is the file of the class registered as c.  The parser is  *)
(* in module ClassFile; here a file is what these steps look at in it.     *)
(***************************************************************************)
EXTENDS Integers, Sequences, FiniteSets

CONSTANTS
  Threads,
  Names,         \* class names
  NoClass,       \* no class of that name; a null pointer
  StringClass,   \* java/lang/String
  Fields,        \* names of static variables
  Paths,         \* class paths
  Disk,          \* for each class path and name, what the file has in it
  Initializers,  \* for every class, the operations of its <clinit>
  Programs,      \* the operations of the threads
  MaxRequests    \* bound on the requests for a collection

(* maMutex, objMtx and arrMtx, and the ends of their guards.               *)
Mutexes == {"ma", "obj", "arr"}
EndsOf  == [ma |-> {"unlock", "leave"}, obj |-> {"objEnd"}, arr |-> {"arrEnd"}]

Kinds == {"load", "link", "linked", "init", "access", "inherited", "find", "create",
          "array", "field", "walk", "obj", "arr", "poll",
          "unlock", "leave", "objEnd", "arrEnd"}

(* "field" is the static variable of an access, or the class in which the  *)
(* field of an object is looked for.                                       *)
Ops == [do : Kinds, cls : Names \cup {NoClass}, field : Fields \cup Names \cup {NoClass}]

Op(do, c) == [do |-> do, cls |-> c, field |-> NoClass]

(* What a file holds: how parsing it ends ("missing": there is none), the  *)
(* name of the class and of its super-class, the static variables it       *)
(* declares, whether one of them is a constant String, whether it has a    *)
(* <clinit>.                                                               *)
IsFile(f) ==
  /\ f.end \in {"ok", "missing", "exits", "throws", "undefined"}
  /\ f.name \in Names /\ f.super \in Names \cup {NoClass}
  /\ f.statics \subseteq Fields /\ f.text \in BOOLEAN /\ f.clinit \in BOOLEAN

(* Code that uses classes as the interpreter does (below): a class is      *)
(* linked, or objects of it are made and used, after it was loaded, which  *)
(* the classes in given were before the code began; it is initialized      *)
(* after it was linked, and its static variables are accessed after that.  *)
(* Whatever comes in between may be anything, and a class may be looked up *)
(* at any time, loaded or not.                                             *)
Before(ops, i, do) == \E j \in 1..(i - 1) : ops[j].do = do /\ ops[j].cls = ops[i].cls

IsCode(ops, given) ==
  \A i \in DOMAIN ops :
     /\ ops[i].do \in {"load", "link", "init", "access", "find", "create", "array", "field",
                       "obj", "arr", "poll"}
     /\ ops[i].do \in {"link", "create", "array", "field"} =>
           ops[i].cls \in given \/ Before(ops, i, "load")
     /\ ops[i].do = "init"   => Before(ops, i, "link")
     /\ ops[i].do = "access" => Before(ops, i, "init")

ASSUME ClassSpaceAssumption ==
  /\ NoClass \notin Names /\ StringClass \in Names
  /\ \A p \in Paths, c \in Names : IsFile(Disk[p][c])
  /\ Initializers \in [Names -> Seq(Ops)]
  /\ Programs \subseteq [Threads -> Seq(Ops)]
  /\ MaxRequests \in Nat
  /\ \A c \in Names : IsCode(Initializers[c], {c})
  /\ \A p \in Programs, t \in Threads : IsCode(p[t], {})

VARIABLES
  path,        \* the class path of this run; it does not change
  cont,
  classTable,
  linked,      \* linkedClasses
  inited,      \* initedClasses
  staticVars,  \* the static variables there are, as pairs of a class and a field
  process,     \* "runs", or what ended it
  shallGC,     \* a collection is requested
  arrived,     \* threads that wait for it at a safepoint
  requests

vars == <<path, cont, classTable, linked, inited, staticVars, process, shallGC,
          arrived, requests>>

-----------------------------------------------------------------------------
(* The uses that Java code makes of classes, as operations.                *)

(* A symbolic reference: of a field, a method, or anewarray's class.       *)
Ref(c) == <<Op("load", c), Op("link", c)>>

(* getstatic and putstatic.                                                *)
Static(c, f) ==
  Ref(c) \o <<Op("link", c), Op("init", c), [do |-> "access", cls |-> c, field |-> f]>>

(* invokestatic, of a method with nothing else in it.                      *)
CallStatic(c) == Ref(c) \o <<Op("link", c), Op("init", c), Op("poll", c)>>

(* new, in code of the class jc.                                           *)
New(jc, c) == <<Op("link", jc), Op("init", jc), Op("load", c), Op("create", c)>>

(* anewarray.                                                              *)
NewArray(c) == Ref(c) \o <<Op("array", c)>>

(* getfield and putfield of a field of class d, in an object of class c.   *)
Field(c, d) == Ref(d) \o <<[do |-> "field", cls |-> c, field |-> d]>>

(* A String made of a constant: ldc, or the linking of a static variable.  *)
Text == <<Op("load", StringClass), Op("create", StringClass), Op("arr", StringClass),
          Op("obj", StringClass)>>

(* instanceof, and a catch clause that an exception is compared with: the  *)
(* class is looked up, and nobody loads it.                                *)
Find(c) == <<Op("find", c)>>

(* The beginning of callMain's task.                                       *)
Start(c) == Ref(c) \o <<Op("init", c)>>

-----------------------------------------------------------------------------
Init ==
  /\ path \in Paths
  /\ cont \in Programs
  /\ classTable = [c \in Names |-> NoClass]
  /\ linked = {} /\ inited = {} /\ staticVars = {}
  /\ process = "runs"
  /\ shallGC = FALSE /\ arrived = {} /\ requests = 0

Holds(t, m) == \E i \in DOMAIN cont[t] : cont[t][i].do \in EndsOf[m]

(* Mutant of Gets: nobody is kept out.                                     *)
GetsAlways(t, m) == t \in Threads

(* The mutex can be had by t.                                              *)
Gets(t, m) == \A u \in Threads \ {t} : ~Holds(u, m)

(* t is running the initializer of c.                                      *)
Initializing(t, c) == Op("leave", c) \in {cont[t][i] : i \in DOMAIN cont[t]}

Loaded(c) == classTable[c] # NoClass

File(c) == Disk[path][c]

(* The class object's file.                                                *)
FileOf(c) == File(classTable[c])

(* t's next operation is of that kind, on c.                               *)
Next1(t, kind, c) ==
  /\ process = "runs" /\ cont[t] # <<>> /\ t \notin arrived
  /\ Head(cont[t]).do = kind /\ Head(cont[t]).cls = c

Instead(t, ops) == cont' = [cont EXCEPT ![t] = ops \o Tail(@)]
Done(t) == Instead(t, <<>>)

Die(how) ==
  /\ process' = how
  /\ UNCHANGED <<path, cont, classTable, linked, inited, staticVars, shallGC, arrived,
                 requests>>

Safepoints == <<shallGC, arrived, requests>>

-----------------------------------------------------------------------------
(* loadClassIfAbsent, loadJavaClass.                                       *)

(* Mutant of LoadNothing: the file is looked for until it is there.        *)
LoadNothingRetry(t, c) ==
  /\ Next1(t, "load", c) /\ Gets(t, "ma")
  /\ Loaded(c)
  /\ Done(t)
  /\ UNCHANGED <<path, classTable, linked, inited, staticVars, process, shallGC, arrived,
                 requests>>

(* There already, or no such file: nothing happens, and nobody is told.    *)
LoadNothing(t, c) ==
  /\ Next1(t, "load", c) /\ Gets(t, "ma")
  /\ Loaded(c) \/ File(c).end = "missing"
  /\ Done(t)
  /\ UNCHANGED <<path, classTable, linked, inited, staticVars, process, Safepoints>>

(* Mutant of SuperOps: super-classes are left to whoever asks for them.    *)
SuperOpsLazy(c) == <<>>

(* The super-class is loaded with the class.  Its interfaces are not: the  *)
(* loop over them is entered only when there are none.                     *)
SuperOps(c) ==
  IF File(c).super # NoClass
  THEN <<Op("load", File(c).super), Op("unlock", c)>> ELSE <<>>

(* The class is registered under the name its file gives it, unless that   *)
(* is taken.                                                               *)
LoadParsed(t, c) ==
  /\ Next1(t, "load", c) /\ Gets(t, "ma") /\ ~Loaded(c) /\ File(c).end = "ok"
  /\ classTable' = IF Loaded(File(c).name) THEN classTable
                   ELSE [classTable EXCEPT ![File(c).name] = c]
  /\ Instead(t, SuperOps(c))
  /\ UNCHANGED <<path, linked, inited, staticVars, process, Safepoints>>

(* std::bad_typeid leaves every call of the thread, and unlocks.           *)
LoadThrows(t, c) ==
  /\ Next1(t, "load", c) /\ Gets(t, "ma") /\ ~Loaded(c) /\ File(c).end = "throws"
  /\ cont' = [cont EXCEPT ![t] = <<>>]
  /\ UNCHANGED <<path, classTable, linked, inited, staticVars, process, Safepoints>>

LoadDies(t, c) ==
  /\ Next1(t, "load", c) /\ Gets(t, "ma") /\ ~Loaded(c)
  /\ File(c).end \in {"exits", "undefined"}
  /\ Die("parser")

-----------------------------------------------------------------------------
(* linkClassIfAbsent, linkJavaClass.                                       *)

LinkNothing(t, c) ==
  /\ Next1(t, "link", c) /\ Gets(t, "ma") /\ c \in linked
  /\ Done(t)
  /\ UNCHANGED <<path, classTable, linked, inited, staticVars, process, Safepoints>>

(* assert(javaClass != NULL && "sanity check")                             *)
LinkNull(t, c) ==
  /\ Next1(t, "link", c) /\ Gets(t, "ma") /\ c \notin linked /\ ~Loaded(c)
  /\ Die("null")

(* A constant String asks for its class and makes two objects of it first, *)
(* of which the second is used.                                            *)
LinkText(t, c) ==
  /\ Next1(t, "link", c) /\ Gets(t, "ma") /\ c \notin linked /\ Loaded(c) /\ FileOf(c).text
  /\ Instead(t, <<Op("load", StringClass), Op("create", StringClass)>> \o Text
                 \o <<Op("linked", c), Op("unlock", c)>>)
  /\ UNCHANGED <<path, classTable, linked, inited, staticVars, process, Safepoints>>

(* Mutant of Linked: the class is listed, its variables are not made.      *)
LinkedOnly(t, c) ==
  /\ linked' = linked \cup {c}
  /\ staticVars' = staticVars

(* Mutant of Linked: the variables are made, the class is not listed.      *)
LinkedUnlisted(t, c) ==
  /\ linked' = linked
  /\ staticVars' = staticVars \cup ({c} \X FileOf(c).statics)

Linked(t, c) ==
  /\ linked' = linked \cup {c}
  /\ staticVars' = staticVars \cup ({c} \X FileOf(c).statics)

Link(t, c) ==
  /\ \/ Next1(t, "link", c) /\ c \notin linked /\ Loaded(c) /\ ~FileOf(c).text
     \/ Next1(t, "linked", c)
  /\ Gets(t, "ma")
  /\ Linked(t, c)
  /\ Done(t)
  /\ UNCHANGED <<path, classTable, inited, process, Safepoints>>

-----------------------------------------------------------------------------
(* initClassIfAbsent, initJavaClass.  The class is listed before its       *)
(* initializer runs; the mutex is held until after the safepoint at the    *)
(* end of invokeByName.  Super-classes are not initialized.  The class is  *)
(* there: whoever initializes one has linked it.                           *)

(* Mutant of InitNothing: the list is looked at before the mutex is taken. *)
InitNothingUnlocked(t, c) ==
  /\ Next1(t, "init", c) /\ c \in inited
  /\ Done(t)
  /\ UNCHANGED <<path, classTable, linked, inited, staticVars, process, Safepoints>>

InitNothing(t, c) ==
  /\ Next1(t, "init", c) /\ Gets(t, "ma") /\ c \in inited
  /\ Done(t)
  /\ UNCHANGED <<path, classTable, linked, inited, staticVars, process, Safepoints>>

InitOps(c) == Initializers[c] \o <<Op("poll", c), Op("leave", c)>>

InitClass(t, c) ==
  /\ Next1(t, "init", c) /\ Gets(t, "ma") /\ c \notin inited /\ Loaded(c)
  /\ inited' = inited \cup {c}
  /\ Instead(t, IF FileOf(c).clinit THEN InitOps(c) ELSE <<>>)
  /\ UNCHANGED <<path, classTable, linked, staticVars, process, Safepoints>>

(* The end of a lock_guard.                                                *)
Unlock(t, c) ==
  /\ \E m \in Mutexes : \E end \in EndsOf[m] : Next1(t, end, c)
  /\ Done(t)
  /\ UNCHANGED <<path, classTable, linked, inited, staticVars, process, Safepoints>>

-----------------------------------------------------------------------------
(* getStaticVar and setStaticVar: the class itself, then its super-class,  *)
(* which findJavaClass looks up, linked or not.                            *)

AccessOwn(t, c) ==
  /\ Next1(t, "access", c) \/ Next1(t, "inherited", c)
  /\ Loaded(c)
  /\ LET f == Head(cont[t]).field
     IN /\ f \in FileOf(c).statics
        /\ \/ /\ <<c, f>> \in staticVars
              /\ Done(t)
              /\ UNCHANGED <<path, classTable, linked, inited, staticVars, process,
                             Safepoints>>
           \/ /\ <<c, f>> \notin staticVars     \* staticVars.find(i) is end()
              /\ Die("static")

AccessSuper(t, c) ==
  /\ Next1(t, "access", c) \/ Next1(t, "inherited", c)
  /\ Loaded(c) /\ Head(cont[t]).field \notin FileOf(c).statics
  /\ \/ /\ FileOf(c).super = NoClass            \* a null pointer is the answer
        /\ Done(t)
     \/ /\ FileOf(c).super # NoClass /\ Gets(t, "ma")
        /\ Instead(t, <<[do |-> "inherited", cls |-> FileOf(c).super,
                         field |-> Head(cont[t]).field]>>)
  /\ UNCHANGED <<path, classTable, linked, inited, staticVars, process, Safepoints>>

(* checkInstanceof, handleException.                                       *)
FindThere(t, c) ==
  /\ Next1(t, "find", c) /\ Gets(t, "ma") /\ Loaded(c)
  /\ Done(t)
  /\ UNCHANGED <<path, classTable, linked, inited, staticVars, process, Safepoints>>

-----------------------------------------------------------------------------
(* The heap.  What is done with an object holds objMtx; whatever goes up   *)
(* from its class to the super-classes looks these up, each time under     *)
(* maMutex, with objMtx still held.                                        *)

(* createObject: the fields of the class, then of its super-classes        *)
(* (createSuperFields).  getFieldByNameImpl and putFieldByNameImpl: up     *)
(* from the object's class to the one the field is looked for in.          *)
UseObject(t, c) ==
  /\ Next1(t, "create", c) \/ Next1(t, "field", c)
  /\ Gets(t, "obj") /\ Loaded(c)
  /\ Instead(t, <<[Head(cont[t]) EXCEPT !.do = "walk"], Op("objEnd", c)>>)
  /\ UNCHANGED <<path, classTable, linked, inited, staticVars, process, Safepoints>>

(* The walk ends at c.                                                     *)
WalkEnds(t, c) == FileOf(c).super = NoClass \/ Head(cont[t]).field = c

Walk(t, c) ==
  /\ Next1(t, "walk", c) /\ Loaded(c)
  /\ \/ WalkEnds(t, c) /\ Done(t)
     \/ /\ ~WalkEnds(t, c) /\ Gets(t, "ma")
        /\ Instead(t, <<[Head(cont[t]) EXCEPT !.cls = FileOf(c).super]>>)
  /\ UNCHANGED <<path, classTable, linked, inited, staticVars, process, Safepoints>>

(* createObjectArray, of any length: one element stands for all there are. *)
CreateArray(t, c) ==
  /\ Next1(t, "array", c) /\ Gets(t, "arr")
  /\ \E elements \in {<<>>, <<Op("create", c)>>} :
        Instead(t, elements \o <<Op("arrEnd", c)>>)
  /\ UNCHANGED <<path, classTable, linked, inited, staticVars, process, Safepoints>>

(* What takes a mutex of the heap and asks for nothing under it:           *)
(* putFieldByOffset, createCharArray, createPODArray and the like.         *)
UseHeap(t, c) ==
  /\ \E m \in {"obj", "arr"} : Next1(t, m, c) /\ Gets(t, m)
  /\ Done(t)
  /\ UNCHANGED <<path, classTable, linked, inited, staticVars, process, Safepoints>>

(* The null pointer that findJavaClass returned is dereferenced.           *)
UseNull(t, c) ==
  /\ \/ \E kind \in {"access", "inherited", "walk"} : Next1(t, kind, c)
     \/ \E kind \in {"create", "field"} : Next1(t, kind, c) /\ Gets(t, "obj")
     \/ Next1(t, "find", c) /\ Gets(t, "ma")
  /\ ~Loaded(c)
  /\ Die("null")

-----------------------------------------------------------------------------
(* Safepoints, as rounds that nothing disturbs (module Safepoint has the   *)
(* barrier itself).  Every thread is counted, also one whose code is over. *)

RequestGC ==
  /\ process = "runs" /\ ~shallGC /\ requests < MaxRequests
  /\ \E t \in Threads : cont[t] # <<>>
  /\ shallGC' = TRUE
  /\ requests' = requests + 1
  /\ UNCHANGED <<path, cont, classTable, linked, inited, staticVars, process, arrived>>

Poll(t, c) ==
  /\ Next1(t, "poll", c)
  /\ IF shallGC THEN arrived' = arrived \cup {t} /\ UNCHANGED cont
                ELSE Done(t) /\ UNCHANGED arrived
  /\ UNCHANGED <<path, classTable, linked, inited, staticVars, process, shallGC, requests>>

Collect ==
  /\ process = "runs" /\ arrived = Threads
  /\ arrived' = {} /\ shallGC' = FALSE
  /\ cont' = [t \in Threads |-> Tail(cont[t])]
  /\ UNCHANGED <<path, classTable, linked, inited, staticVars, process, requests>>

-----------------------------------------------------------------------------
Step(t, c) ==
  \/ LoadNothing(t, c) \/ LoadParsed(t, c) \/ LoadThrows(t, c) \/ LoadDies(t, c)
  \/ LinkNothing(t, c) \/ LinkNull(t, c) \/ LinkText(t, c) \/ Link(t, c)
  \/ InitNothing(t, c) \/ InitClass(t, c) \/ Unlock(t, c)
  \/ AccessOwn(t, c) \/ AccessSuper(t, c) \/ FindThere(t, c) \/ UseNull(t, c)
  \/ UseObject(t, c) \/ Walk(t, c) \/ CreateArray(t, c) \/ UseHeap(t, c)
  \/ Poll(t, c)

Next == RequestGC \/ Collect \/ \E t \in Threads, c \in Names : Step(t, c)

Spec == Init /\ [][Next]_vars

(* Threads run on, and a mutex that is free is granted; programs are       *)
(* finite, so nobody takes it for ever but who waits for ever under it.    *)
Fairness == WF_vars(Collect) /\ \A t \in Threads : WF_vars(\E c \in Names : Step(t, c))

FairSpec == Spec /\ Fairness

-----------------------------------------------------------------------------
(* Types, and the mutexes: at most one thread is inside a guard of each.   *)
TypeOK ==
  /\ path \in Paths
  /\ cont \in [Threads -> Seq(Ops)]
  /\ classTable \in [Names -> Names \cup {NoClass}]
  /\ linked \subseteq Names /\ inited \subseteq Names
  /\ staticVars \subseteq Names \X Fields
  /\ process \in {"runs", "parser", "null", "static"}
  /\ shallGC \in BOOLEAN /\ arrived \subseteq Threads /\ requests \in 0..MaxRequests
  /\ \A m \in Mutexes, t, u \in Threads : Holds(t, m) /\ Holds(u, m) => t = u

(* While the initializer of a class runs (ClassSpace.cpp:214-221 marks the *)
(* class as initialized before), no other thread has got as far as one of  *)
(* its static variables through a reference to the class itself.           *)
InitializerAlone ==
  \A t, u \in Threads, c \in Names :
     /\ Initializing(t, c) /\ u # t /\ cont[u] # <<>>
     /\ Head(cont[u]).do = "access"
     => Head(cont[u]).cls # c

(* ClassSpace.h: loading, linking, initializing are the stages of a class: *)
(* none is skipped, whichever instruction of whichever thread comes first. *)
LifeCycle == inited \subseteq linked /\ \A c \in linked : Loaded(c)

Good(c) == File(c).end = "ok" /\ File(c).name = c

(* Whenever maMutex is free, the super-class of every class in the table *)
(* is in it too, unless there is no good file of it: object layout, method *)
(* lookup and the inheritance test follow the pointers without a check.    *)
SuperLoaded ==
  (\A t \in Threads : ~Holds(t, "ma")) =>
     \A c \in Names : Loaded(c) => \/ FileOf(c).super = NoClass
                                  \/ Loaded(FileOf(c).super)
                                  \/ ~Good(FileOf(c).super)

(* If every class is there to be loaded, a null class is dereferenced only *)
(* where one is looked up that nobody loaded (Interpreter.cpp:1516 and     *)
(* 1465), and no static variable is looked for before it was made, other   *)
(* than one of a super-class that was never linked (JavaClass.cpp:94 and   *)
(* 111 do not link the super-class they go on to).                         *)
SafeOnCompletePath ==
  (\A c \in Names : Good(c)) =>
     \/ process = "runs"
     \/ /\ process = "static"
        /\ \E t \in Threads : cont[t] # <<>> /\ Head(cont[t]).do = "inherited"
     \/ /\ process = "null"
        /\ \E t \in Threads : /\ cont[t] # <<>> /\ Head(cont[t]).do = "find"
                              /\ ~Loaded(Head(cont[t]).cls)

(* What t is about to do takes m, and another thread holds it.             *)
Waits(t, m) ==
  /\ cont[t] # <<>> /\ ~Gets(t, m)
  /\ LET op == Head(cont[t])
     IN \/ m = "ma" /\ op.do \in {"load", "link", "init", "find"}
        \/ m = "ma" /\ op.do = "walk" /\ Loaded(op.cls) /\ ~WalkEnds(t, op.cls)
        \/ m = "obj" /\ op.do \in {"create", "field", "obj"}
        \/ m = "arr" /\ op.do \in {"array", "arr"}

(* Threads that wait for each other, one of them under maMutex for a mutex *)
(* of the heap: the mutexes are taken in both orders (ClassSpace.cpp:82    *)
(* and 109 or 115, or an initializer that makes or uses an object, against *)
(* JavaHeap.cpp:38 and 42, 203 and 220, 231 and 249).                      *)
LockOrderDeadlock ==
  \E S \in SUBSET Threads :
     /\ \A t \in S : \E m \in Mutexes, u \in S : Waits(t, m) /\ Holds(u, m) /\ u # t
     /\ \E t \in S : Holds(t, "ma") /\ (Waits(t, "obj") \/ Waits(t, "arr"))

(* Every use of a class comes to its end, initializers that use other      *)
(* classes included, unless the process dies, threads wait for each other  *)
(* in the way above and no other, or a thread waits for a collection that  *)
(* will never be: it holds the mutex (the safepoint at the end of <clinit> *)
(* is inside initJavaClass's lock), or the code of another thread, which   *)
(* the barrier counts, is over.                                            *)
UsesEnd ==
  <>(\/ \A t \in Threads : cont[t] = <<>>
     \/ process # "runs"
     \/ LockOrderDeadlock
     \/ \E t \in arrived, u \in Threads : Holds(t, "ma") \/ cont[u] = <<>>)
=============================================================================
